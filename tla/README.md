# Ameen: a verification development

Ameen is a local-first password manager: a Windows application (C#, MAUI) and an
Android application (Kotlin) that each keep a vault and synchronise over the
local network, a browser extension (TypeScript) that talks to the Windows
application over a local WebSocket, and a library of shared algorithms
(TypeScript). This directory holds TLA+ models of that code, the TLC
configurations that check them, and proofs for TLAPS. Paths below are relative to
`ameen-app/`.

## 1. Inventory

| Component | State it keeps | Operations | Talks to |
|---|---|---|---|
| `extension/src/background/websocket-client.ts` | native socket, key pair, AES key, `messageQueue`, `receiveResolvers` | `connect`, `send`, `receive`, `disconnect`, `handleEncryptedMessage`, `onclose` | the desktop, over a WebSocket; `index.ts`, by promises and a callback |
| `extension/src/background/index.ts` | `state`, `ws`, `pingInterval`, `reconnectAttempts`, pending timers | one handler per message of a page, `doConnect`, `tryReconnect`, `sendPing`, `doDisconnect` | pages (messages), socket objects, `chrome.storage` |
| `extension/src/popup/*` | the last state drawn, view, tab, selected item, one timer; steps and a poll | buttons, states that arrive | the worker |
| `extension/src/content/*` | detected forms, overlay with its listeners, timers | focus, keys, clicks, messages, changes of the page | the page, the worker |
| `windows/Services/WebSocketServer.cs`, `ExtensionMessageHandler.cs` | listener, one client slot, pairing confirmation, vault snapshot | start, stop, serve a client, confirm a pairing | the extension, `App`, `VaultPage` |
| `windows/App.xaml.cs`, `AutoLockService.cs`, `ClipboardService.cs`, `TrayIconService.cs` | vault and key in memory, lock timers, background time stamp | lock, unlock, lock timeouts, delayed clears | pages, the extension's server |
| `windows/MainPage.xaml.cs`, `WindowsHelloService.cs` | stored salt, verifier, enrolled credential | enrol, unlock | `App` |
| `windows/Pages/VaultPage.xaml.cs`, `SyncService.cs` | items shown, conflicts, a synchronisation under way | edit, import, synchronise, resolve | Android |
| `android/.../AutoLockService.kt`, `ClipboardService.kt`, `MainActivity.kt` | as on Windows | as on Windows | screens |
| `android/.../VaultScreen.kt`, `SyncServer.kt`, `SyncConnection.kt` | items, conflicts, server socket | edit, synchronise, resolve | Windows |
| `shared-crypto/src/sync-merge.ts`, `vault-format.ts`, `index-format.ts` | none (values) | `mergeVaults`, revisions | callers |
| `shared-crypto/src/recovery.ts` and the other pure files | none | recovery keys, generators, scores, parsers, TOTP | callers |

What is hard in each, and what makes it correct:

* **The socket.** Requests of many callers share one connection, and responses
  are matched to callers by order alone. Frames can arrive damaged, decrypt jobs
  overlap, and either side may close at any await. Correct: every call ends, with
  its own answer or an error.
* **The worker.** `ws` is overwritten without closing what it held; callbacks do
  not ask which object they belong to; handlers do not look again after an await;
  retry timers are never cleared; the browser may stop the worker. Correct: it
  never sticks in CONNECTING, gives up retrying, and what the state says is true.
* **The desktop's server.** One client at a time, a dialog that may be answered
  late, stop and start while clients are served. Correct: no vault data before
  a confirmation, none after a lock.
* **The popup's pages.** States arrive in any view, two countdowns share a timer,
  answers start what a later state should have ended. Correct: what is shown is
  there, no timer is lost, the poll ends.
* **The content script.** Listeners and fields are changed by timers that may find
  another overlay or another page. Correct: nothing is left behind, a form is
  filled from one item, every form is reported.
* **The locks.** A timer, calls posted to the main thread, the tray's thread and
  a loop that closes pages interleave with unlocks. Correct: an unlocked vault
  always has its lock on the way, a locked one leaves nothing on the screen that
  the platform lets it take away.
* **Recovery.** A reset returns a file and a salt that are stored apart, and old
  entries, kits and backups stay behind. Correct: whatever was stored in whatever
  combination opens to its own items or not at all.
* **Synchronisation.** Two replicas, transfers that fail half way, conflicts that
  users resolve on both sides. Correct: no version is lost, replicas converge.
* **Pure algorithms.** Boundaries: shortest lengths, empty inputs, window edges.

`PROJECT.json` lists every component with its status and every hazard with its
line.

## 2. Plan

1. `RequestReply`, `ExtensionSocket`, `ExtensionBackground` with their runs and
   proofs: the only path by which secrets leave the desktop application, and
   the code with the most concurrency. *Done.*
2. `SyncMerge`: the merge, against a reference definition, over any sequence of
   merges and edits, with its proofs. *Done.*
3. `ExtensionServer`: client slot, pairing confirmation, start and stop, with its
   proofs. *Done.* Then its composition with `ExtensionBackground`: the one slot
   against orphaned sockets.
4. `WindowsLock`: the timer, what is posted, the pages; with its proofs. *Done.*
5. `ContentScript`, `Popup` and `Onboarding`: the pages of the extension, with
   their proofs. *Done.*
6. `VaultKeys`, `CsvFormat`, `KdbxReader`, `FieldDetector`, `Totp`: the shared
   library and the form heuristics, with proofs for inputs of any length. *Done.*
7. Left: the composition of `ExtensionServer` with `ExtensionBackground` (the one
   slot against orphaned sockets) and with `WindowsLock` (the vault's snapshot
   after a lock); an atomic merge that `SyncMerge` refines, and a server that
   serves one client after another for `ExtensionServer` to refine.

## 3. Modules

| Module | Models |
|---|---|
| `RequestReply` | abstract: what a caller of `sendRequestAndReceive` may rely on |
| `ExtensionSocket` | one connected `ExtensionWebSocket`, its callers and its desktop |
| `ExtensionSocketProofs` | proofs about it |
| `ExtensionBackground` | the service worker with all its socket objects, handlers and timers |
| `MCExtensionBackground` | the same for TLC, with symmetry of objects |
| `ExtensionBackgroundProofs` | proofs about it |
| `ExtensionServer` | the desktop's `WebSocketServer` objects, their connections, the pairing dialogs |
| `MCExtensionServer` | the same for TLC, with symmetry of servers and connections |
| `ExtensionServerProofs` | proofs about it |
| `SyncMerge` | `mergeVaults`, and the life of a vault between two merges |
| `MCSyncMerge` | the same for TLC, with symmetry of ids and versions |
| `SyncMergeProofs` | proofs about it |
| `ContentScript` | detection, overlay and filling in a page |
| `Popup` | the page of the extension's button |
| `Onboarding` | the steps of the first pairing, and their poll |
| `PageProofs` | proofs about the three pages |
| `WindowsLock` | the lock of the Windows application |
| `VaultKeys` | all that is locked with a vault's keys, and resets |
| `VaultProofs` | proofs about the lock and the keys |
| `CsvFormat` | writing and reading CSV |
| `KdbxReader` | reading a KeePass file |
| `FieldDetector` | which inputs are a login form |
| `Totp` | base32 and the windows of a code |
| `AlgorithmProofs` | proofs about the four algorithms |
| `MCParts` | the nine parts above for TLC, side by side |
| `PartsProofs` | the types of all of them, for any instance |

JavaScript runs one task at a time, so an action is the code between two
suspensions: an await, a timer, an event. What may happen between two actions is
what may happen while that code is suspended. Definitions named `Mut...` are not
part of any specification: each is a definition with a plausible bug, kept beside
the correct one to show that a property notices it.

### ExtensionSocket

Starts where `connect()` has resolved. `phase[c]` follows one call of
`sendRequestAndReceive` through `send` (the encryption is an await) and
`receive`. Frames are records of the call they answer and of what
`handleEncryptedMessage` finds wrong with them: nothing (`good`), a decryption or
JSON error (`garbled`), another IV length or no `ArrayBuffer` (`dropped`), an end
before the length field (`truncated`). A truncated frame throws in `DataView` (219)
before anything is awaited, so it rejects the oldest call inside `OnMessage`, ahead
of the frames that decrypt. `decrypting` holds the handlers suspended in
`crypto.subtle.decrypt`, which may resume in any order: browsers keep the order in
practice and no specification promises it. `inTurn` records whether an overtaking
frame, of either kind, or a dropped one ever shifted the line, and is read by no
action. `native` is the browser's socket, which may be
closing while the object still holds it.

`RequestReply` has two faults of its own, `matched` and `lossless`, which go and never
come back: `inTurn` and `dropped = 0` are what they refine to. Without the first a
caller may be given another's answer, though never one that was given before; without
the second it may wait for ever.

The desktop is the request loop of `WebSocketServer.HandleClientAsync`: it
answers one request at a time and in order. Its damaged frames stand for faults
of a peer that the extension's code provides for. What both modules take as given
is that frames pass: `WebSocketServer.cs` is a raw `TcpListener` without an HTTP
upgrade, so a browser's WebSocket cannot complete a handshake with it as it stands.
The models are of the two programs as each is written, on a transport that works.

### ExtensionBackground

Every `ExtensionWebSocket` ever made has its own `stage` (how far its `connect()`
is), `native` socket, `held` (`this.ws`), `keyed` (`this.keyPair`) and line of
waiting calls, because nothing closes an object when `ws` is overwritten.
`confirm_pairing` is a chain of actions, one per storage await; so are
`sendRequestAndReceive` and `connect`. `timers` counts the retries that have
been set and not fired.

Abstractions: the fingerprint is the object that learnt it; the vault is loaded
or not; a response to a vault request may or may not carry items; frames are in
order and whole, since `ExtensionSocket` deals with the rest. The extension never
sends the `pair` request that the desktop waits for before it serves a vault, so
in the composed system a vault response is always an error; the worker's code
does not depend on it and the model allows both. Pages outlive the worker and
their buttons act on the state they last drew (the onboarding page never hides
its confirm and reject buttons again), so a message may come in any state.
`Collect` is the garbage collector: without it the names of objects would run
out; it takes closed objects that nothing can reach. A decryption that outlives the
close of its object, and then parks its response where nobody looks, is left out:
`Respond` is of live connections, and so is `CurrentNeverParks`.

### ExtensionServer

The other end of the socket: threads here, not one event loop. `stage[c]` is the
await that `HandleClientAsync` of connection `c` is at, `slot` the holder of
`_connectionLock`, `tcs` the connection whose request made
`_pairConfirmationTcs`, `answer[c]` the result of the last
`TaskCompletionSource` made for `c`. The code between two awaits is one action:
what it touches besides its own locals is the lock and the confirmation, each
one atomic operation. A wait that ended before `Stop` cancelled the token goes on
after it, which is why `HandleRequest` and `Confirmed` do not ask whether the
server runs and everything that waits does (`Cancelled`). `StartExtensionServer`
and `StopExtensionServer` include `Stop` and `Dispose`; they are called by the
vault page (`VaultPage.xaml.cs` 26, 40), which the model lets happen at any time.

A connection accepted just before `Stop` is closed by nobody but the collector (stage
`leaked`); `StoppedEnds` counts it as ended, since no handler runs for it.

`AnswerDialog` takes the dialogs in any order and at any time, also after the
connection or the server it was shown for is gone, because nothing closes a
dialog; a dialog that cannot be shown counts as refused. `allowed` and `allows`
record the user's acts for the properties and are read by no action. The handler's
requests differ in what they read of the vault only, so they are one kind,
`ask`, and every response of the handler is `vault`. Key exchange and encryption
succeed or end the connection (`BadKey`, a `bad` frame).

### SyncMerge

`mergeVaults` is one task of JavaScript. The model takes it apart, one action per
iteration and branch of its three loops, for two reasons: what a loop computes
for every input becomes an invariant that can be proved, and a reader finds each
branch of the source as an action. `local`, `remote`, `localMap`, `merged` and
the counters have the source's names; a Map is a function with the order in
which its keys were first set; a key of `merged` is an id and whether
`'_conflict'` is added to it (ids are UUIDs, so no id ends in that). Title, type
and data are one `version`, since the function compares all three.

`Store` makes the merged items the vault, and `Edit` is `incrementRevision` on an
item that is not flagged: both applications lead from a flagged item to the
conflict screen only (`VaultPage.xaml.cs` 175-180, `VaultScreen.kt` 964), and
that screen finds no partner under the same id (766-771), so no action resolves a
pair that a merge made. The applications do not call `mergeVaults` yet: they
replace their items by those received. The model is of what the library promises
them.

### ContentScript

An event handler is one step with everything it calls: `element.focus()` runs the
focusin handler before it returns, so filling the user name opens an overlay in
the same step. The callbacks of mutation observers are microtasks and run before
the next event (`Observed`); showing and hiding the overlay changes the page too.
A listener is the number of the object `bind()` made; `hide` takes off only those
the overlay remembers, and the click listener is added by a timer that reads the
field when it fires (`AttachDocClick`). `dom` is what the page holds now: a
generation of elements and whether they form a login. A fill of 50 ms keeps the
elements it was given, and does nothing that is seen if the page replaced them.
A page has one form at most. The scores of `scoreUrlMatch` are a constant, since
only their order matters here.

### Popup and Onboarding

Of the worker, which `ExtensionBackground` models, the pages see the states it
broadcasts, in order; both modules allow any sequence of them, so what holds here
holds of every worker. In `Popup` an interval is the handle and what it refreshes;
`StartInterval` and `ClearInterval` work on the one handle the page keeps. A
button acts in the view that shows it. In `Onboarding` the buttons of every step
can be clicked at any time, because steps differ in opacity alone and
`pairActions` is visible from the start.

### WindowsLock

What a handler does to the lock is a function on a record (`ResetTimer`,
`OnAppBackground`, `LockVault`, `UnlockVault`), and an action applies one or
two of them. `lockPosts` counts calls of `LockVault` posted to the main thread,
`popLoops` its loops that take pages off the screen, one page per iteration.
Whether a covered page is told that it disappears depends on the platform: the
model allows both. A page that comes up may find any other on top, or have reset the
timer or not, since pairing waits for a file picker first and editing does not reset
it (`OpenPage`). `PopFails` is the catch block around the loop (94), which leaves the
pages on the screen; `popFailed` records it for `LockedShowsNothing`. `server` follows the calls that start and stop the extension's
server: `LockVault` is not among them.

### VaultKeys

The functions are a library, and nothing but its tests calls them yet: there is no
caller whose order of writes could be modelled. So the state is everything any call
ever returned. A caller may have stored any of it and lost the rest, and after a crash
may read a file of one call beside a salt of another; the property ranges over all
combinations. `reEncryptVault` awaits three times and is three steps after its call, with
any other call in between; `CreateVault`, `SaveVault`, `WrapVaultKey` and the others
read nothing after their awaits that another call could change, and are one step each.
Each value is kept with what it was made of (password, items, salt), which the
code forgets and no function reads.

Cryptography is ideal: a box opens whole, with its key and iv, or not at all. Salts
and ivs are numbers drawn one after the other.

### CsvFormat, KdbxReader, FieldDetector, Totp

`CsvFormat` and `FieldDetector` are functions of a vault and of a page; they have a
variable for the input and no steps. CSV fields are sequences of characters, since
quotes, commas, blanks and line breaks are what they are about; a column's name,
which never needs quotes, is one character. `Exports` are the vaults that are
written, of passwords only: other types lose fields that the reader has no
column for. An input of a page is what the detector asks of it, and
`FindBestLoginForm` is the set of what is found: one form and its two first fields,
or nothing. `FindContainer` is the source's: the nearest of five elements that is a form
or has its role, else a form further out, else the body.

A KDBX file is what its writer put into it: header fields in any order and number, and
a body that one key and one iv open, with or without start bytes, block heads
(`framed`, one block) and compression. `KdbxReader` reads it field by field, because
what a second field of a type does depends on the order. The key is derived, and a
protected value is encrypted, the way the *reader's* comments say (274-278, 490: an iv in
front of each value); a file is one the reader can derive the key of. KeePass
itself runs one keystream through all protected values of a file: such values are
`protected` here, and come out as `lost`. Every value goes through
`DecryptProtectedString`, plain ones too, as in the code.

`Totp`
keeps base32 exact; of the 32 bits of the shift buffer it keeps the lower 16, since
the code reads no more than 12 and never clears the rest. The clock moves
between the three times it is read. The empty secret is refused by `importKey`
(`HmacFails`); characters that are no base32 throw before anything else happens, and
are left out.

### MCParts

The nine parts share no state. `scope` says which of them a behaviour is about;
the others stand still in one state, so the instances add up and do not
multiply. Each part's fairness is conjoined with its scope.

## 4. Runs

| Run | Bounds | Shows |
|---|---|---|
| `ExtensionSocket.cfg` | 3 calls, any order of decryption, 2 garbled frames, a dropped and a truncated one, fairness | `OwnAnswer`, `InOrder`, `NobodyForgotten`, `QueueNeverServed`, `NoSharedAnswer`, `TypeOK`, `EveryCallEnds`, and that the socket implements `RequestReply!FairSpec` |
| `ExtensionBackground.cfg` | 2 objects, a confirm, a vault request, a ping | `ConnectingIsPending`, `WaitsOnce`, `CurrentNeverParks`, `TypeOK` |
| `ExtensionBackgroundLive.cfg` | 3 objects, fairness, a desktop that goes away | `ConnectingEnds`, `RetriesCease` |
| `ExtensionDisconnect.cfg` | 2 objects, a confirm | violation of `DisconnectIsFinal` |
| `ExtensionServer.cfg` | 2 servers, 2 connections, 3 requests | `SlotExclusive`, `ServedAreConfirmed`, `OneAllowOnePairing`, `TypeOK` |
| `ExtensionServerLive.cfg` | 1 server, 2 connections, 2 requests, fairness | `AskedIsAnswered`, `GoneFreesSlot`, `StoppedEnds` |
| `ExtensionServerAllowed.cfg` | 1 server, 2 connections, 2 requests | violation of `PairedIsAllowed` |
| `SyncMerge.cfg` | 2 ids, 3 versions, 3 revisions, edits | `NeverOlder`, `MergedIsNewest`, `CountsAddUp`, `TypeOK` |
| `SyncMergeConflict.cfg` | 2 ids, 2 versions, 1 revision | violation of `NoVersionLost` |
| `Parts.cfg` | content: 2 items, 1 change of the page, 2 fills | `ListenersFollowOverlay`, `FilledTogether`, `FormsAreReported` |
| | popup: 2 items, one with a secret | `OneInterval`, `DetailIsLive`, `RowsFollowVault` |
| | onboarding: 2 states and 2 answers under way | `PollingEnds` |
| | lock: 3 pages, 2 posted calls | `UnlockedIsWatched`, `LockedShowsNothing` |
| | CSV, KDBX, pages of up to 3 inputs, secrets of up to 5 bytes and one of 20 | `ReimportKeeps`, `KdbxReadsTrue`, `LoginIsLogin`, `CodeIsOfSecret` |
| | keys: 2 passwords, 2 contents, 6 seals, 1 reset under way | `EveryLockHasItsKey` |
| `OverlaySelect.cfg` | the content script | violation of `SelectionFills` |
| `KdbxGzip.cfg` | the KDBX files of `Parts.cfg` | violation of `CompressedIsRead` |

*Bounds.* Calls meet in the line of one socket: with three of them a line has a
head, a tail and a middle, so that a damaged frame has a successor to shift while
another is overtaken. Two garbled frames let a fault meet the consequences of
another. In the worker
two objects are what overlap needs (the current one and a stale one); the fair
run has a third because a closed object stays in memory while `ws` holds it.
`MaxPending` stops the *user* from asking for more connections while that many
objects or retries are open; it never stops a callback or a timer.
`MAX_RECONNECT_ATTEMPTS` is 5 in the code and 1 here: the counter is only
compared with it, and 1 gives a retry that happens and one that is refused.

In the server runs two connections are the one served and the one refused or
next; three requests are pair, pair again and ask, the shortest way to be served
on an allowance that was taken back; two servers are one before and one after a
restart. Each object is used once, so a run may end: the deadlock check is off.

In the merge runs vaults that arrive have up to two items (`MaxItems`): one id
twice is an unresolved conflict, two ids show that items do not disturb each
other; the local vault grows to four. Three revisions give older, equal and
newer with an edit in between, three versions a conflict with a stranger to both.

In `Parts.cfg` two items are the one shown and the one that must not be; two fills
are two timers that overlap, and one change of the page comes before, between or
after them. Two posted calls are one that is late and one of the next session;
three pages are the vault's, one above it, and one that a double click pushed.
Six seals are a vault's two, a reset's two, and two for a kit or for a save and a
backup, before, between or after its steps; or two vaults and a reset; or a vault,
a kit, a backup and the restore of it. Vaults are made with one content and saved
with another, which is enough to tell items apart. CSV fields are empty, a word, with a
comma, with quotes inside and alone, with blanks around, with a line break. KDBX
headers lack a field or have one twice, before or after the first; bodies have start
bytes, block heads and compression or not. Inputs are of
each type, recognised well, badly, equally or not, in either of two forms, near or far
out, in elements with `role="form"` inside and outside of a form, or in none. A TOTP period of three seconds
and a clock of six have all positions in a window and two boundaries; secrets
of up to five bytes have every length of the last base32 block.

*Deadlock.* `ExtensionBackground.cfg` switches the check off: when every object
name is taken by a connection that is not closed the model can wait for a
desktop that never acts. So do `Parts.cfg` and `OverlaySelect.cfg`: a file is read
once, a code is made once, a text is only looked at, and the onboarding page
closes.

*Fairness.* Crypto jobs, storage calls, timers and events of the browser's event
loop happen (weak fairness); a socket that is closing closes. In
`ExtensionSocket.cfg` the desktop answers what it has read, as its loop does.
Neither the user nor the browser's stopping of the worker is fair, and nothing
makes the desktop complete a handshake. `TryReconnect` is strongly fair because
only the bound on objects, which the code does not have, can disable a timer that
is due. `GoneSpec` adds that every connection breaks: the desktop is gone, which
is when retries matter. `RetriesCease` excepts executions with infinitely many
handshakes or worker restarts, since both reset the counter.

`ExtensionServer!FairSpec` has weak fairness of each connection's own steps: the
thread pool runs what can continue and the 120 s timer expires. A write that
neither fails nor is cancelled completes, since a response fits the socket's
buffer. The extension need not send its key or a request nor ever leave, and the
user need not answer a dialog.

In `Parts.cfg` the browser runs observers and timers that are due, delivers
messages and answers `connect`. `Poll` is strongly fair because only the bound on
states under way, which the code does not have, disables an interval. The page,
the user and the worker owe nothing: `FormsAreReported` is of pages that come to
rest, `PollingEnds` of a pairing that is done and not begun again.

*Findings.* After `disconnect` a pending timer, an attempt under way or a
suspended `confirm_pairing` brings the extension back without the user
(`index.ts` 130-139 against `settings.html` 157, 174). Further behaviour of this kind, which no document of
the repository contradicts, is listed under `hazards` with a note: late
callbacks of stale objects, orphaned connections, a `connect` message that is
never answered, a vault stored after `disconnect`. One of them: `confirm_pairing`
looks at `ws` before two awaits and sets CONNECTED after them; if the connection
is gone by then the extension says it is connected, and the retry that is pending
does nothing because it only acts on DISCONNECTED (`index.ts` 168-189).

Choosing a row of the overlay fills nothing (`OverlaySelect.cfg`): `show` begins
with `destroy`, which drops the callback that `init` registered once. Filling
works from the popup, by the message `autofill_login`.

Both versions of a conflict keep the record's id, so once such a vault takes part
in another merge a version can disappear (`SyncMergeConflict.cfg`). From the same
cause one of two versions can lose its flag, and an edit of it can be dropped by
the next merge although its revision is the higher one. `NeverOlder` therefore
says that no record disappears, and that none goes back while the versions of
each id are level (`Even`); without edits they always are (`StaysEven`).

A pairing dialog does not know which request it was shown for. Left open past the
120 seconds, or past the end of its connection, it answers the request that is
pending when the user gets to it (`ExtensionServerAllowed.cfg`); what remains true is that a
click pairs one connection at most (`OneAllowOnePairing`).

With unordered decryption, a dropped frame, or a truncated one that overtakes
others, calls *can* be given each other's answers: that is why `OwnAnswer` and
`InOrder` begin with `inTurn`.

The KDBX reader refuses the compressed body of every file with start bytes
(`KdbxGzip.cfg`), though its comment names KDBX 3.1 and GZip as supported
(`kdbx-reader.ts` 555-558). Two more of its comments are not true of it: a plain value
that reads as base64 of 8 bytes or more is decrypted and lost (504-522 against 494),
and a file with ArcFour values is read, not refused (254 against 561-564). Texts of
KeePass's own protected stream are lost. `KdbxReadsTrue` says what is left: exactly
which well written files are refused, and that of the others the plain texts that are
no base64, and those encrypted as the reader's comment says, come out in order and
whole. Of history, values over several lines and entities it says nothing, and of
files of several blocks neither does the model.

An input with nothing but `autocomplete="new-password"` is a tie between the lists of new
and of other passwords (40 each) and is filled as a login; `LoginIsLogin` states where
the line is drawn: no password of the login *speaks for* a new one more than for
others by its attributes.

A code and its countdown may be of two windows (`totp.ts` 219 before the HMAC, 227
after it); `CodeIsOfSecret` says what remains true, that the countdown never ends too
early. A field with a line break does not survive export and import, although
`escapeField` quotes it (`csv-parser.ts` 107, 233); `ReimportKeeps` is of fields without
one.

## 5. Proofs

`ExtensionSocketProofs`, for every set of calls and every bound:

* `TypeCorrect`: `Spec => []TypeOK`, one step per action.
* `NobodyIsForgotten`: `NobodyForgotten` is inductive given the types. A delivery
  takes the head of the line out of it and out of its wait, and because no call
  is in line twice nobody else loses a place.
* `QueueIsNeverServed`: `QueueNeverServed` is not inductive. `Counted` is: while
  the connection lives, the frames that decrypt, the frames under way and the
  requests the desktop has are together no more than the calls in line. So
  a frame that ends its decryption finds somebody waiting.
* `LineIsInOrder`, `AnswersAreOwn`: for as long as each frame was met in its turn
  (`inTurn`): decrypted in order, none dropped, none truncated while others decrypted.
  `InOrder` says which call stands at which place; its proof needs `Counted` (a
  call that sends also waits). A truncated frame that comes alone takes the head of the
  line, which is the call it answers. `OwnAnswer` follows because the
  frame delivered is the first of those that decrypt and the call it goes to the
  first in line.
* `NobodySharesAnAnswer`: in any order of decryption and with any damaged frames, by
  `OnceInv`. A response is in one place at a time (asked of the desktop, on its
  way back, being decrypted, given to a call: `Apart`), once in each (`OneEach`),
  and only of calls that have sent; nobody sends twice.
* `ImplementsSafely`: `Spec => RR!Spec`, the safety half of
  `ImplementsRequestReply`, with no hypothesis. A delivery is
  `Answer` of the head of the line because of `NobodyForgotten`, `OwnAnswer` and
  `NoSharedAnswer`, the end of a connection is `Fail` of everybody in line, and
  encryption, frames and the desktop are steps no caller sees; `Counted` excludes the
  queue. `FaultsNext` says that no step repairs a fault.

`ExtensionBackgroundProofs`, for any number of objects and calls:

* `TypeCorrect`, whose counter bound says that `reconnectAttempts` never passes
  `MAX_RECONNECT_ATTEMPTS + 1`.
* `NeverStuckConnecting`: `ConnectingIsPending` is inductive given the types,
  because every step that could take the pending object out of `ws` also leaves
  CONNECTING, stale callbacks included.
* `EveryCallWaitsOnce`: `WaitsOnce` is inductive given the types: whatever takes
  a call out of a line ends its wait, and only a call outside every line joins one.
* `NothingIsParked`: `CurrentNeverParks` with `SpentIsSilent`, that an object
  whose socket has closed sends nothing and is owed nothing. A call may send on
  one object and wait on another, but it waits on the one `ws` holds.

`ExtensionServerProofs`, for any number of servers, connections and requests:

* `TypeCorrect`: inductive as it stands, with the count of a connection's
  requests in it.
* `SlotIsExclusive`: by `SlotInv`, which adds that an accepted connection knows
  its server (`HomeKnown`) and that a server that never ran has neither slot
  nor connections (`NeverRanIsEmpty`): what makes a start harmless.
* `OnlyConfirmedAreServed`: by `ServedInv`. `isPaired` may be TRUE while a
  repeated request waits for its answer, so the invariant is about every stage
  of the loop but that one.
* `OneClickOnePairing`: `Granted` is the paired connections with those that wait
  for a confirmation already answered "allow". No step but a click makes it
  larger (`NothingGranted`), and a click by one at most (`OneGranted`).

`SyncMergeProofs`, for vaults of any length over any ids, versions and revisions:

* `TypeCorrect`: with edits; the heart is that `PutKey` keeps the insertion order
  free of repetitions, so the Map and its order have the same keys.
* `NeverGoesBack`: `Loops` is the invariant of the loops. `localMap` has an item
  of the vault for each id passed (`Indexed`); `merged` holds versions of inputs
  (`FromInputs`), each as new as any input of its id (`UpToDate`), and has every
  id passed (`Covered`). `UpToDate` needs `Even`, that items of one id have one
  revision, which an edit of one of two versions breaks; the theorem is about
  `EditSpec`, and its property says so.
* `StaysEven`: every merge preserves `Even`, so under `Spec`, without edits, no
  record ever goes back.
* `MergeIsNewest`: of `EditSpec`. To `Loops` it adds `Whole`, for vaults in which
  no id occurs twice: the remote loop meets an id for the first time (`Touched`),
  the two keys of a conflict hold two versions (`Apart`), and an input whose id
  is in `merged` is there or has given way to a newer one (`Kept`).
* `TheCountsAddUp`: of `EditSpec`, by `Tally`. The positions of the vault are
  finitely many; `Placed` are those whose id is in `merged`, `Gone` those of them
  whose version is not. The keys of the Map are the new items, the conflicts and
  one for each of `Placed`; the updated items are `Gone`. The lemma `FirstTime` says
  what placing an id does to the two sets, and each branch of the loops is a case.

`VaultProofs`:

* `LockTypes`, `AlwaysWatched`, `ShowsNothing`, for any number of pages and posted
  calls. The handlers are functions on the lock's record, and so are the lemmas:
  `SafeLock` is what each keeps. The bounds of `lockPosts` need `Room`: a call is
  posted only as `lockFired` is raised, and an unlock, which the bound guards, is
  what lowers it. `LockVault` establishes `Watched` from any state, which is why a
  posted call that runs may take away what made the vault watched.
* `LocksKeepTheirKeys`, for any passwords, contents, seals and resets under way.
  `KeysIInv` says that every vault, backup and kit is sealed with the key of what it
  is kept with, that a call of `reEncryptVault` holds what its own vault decrypts
  to, and that two vaults with one salt have one password (`OneKeyPerSalt`): a salt is
  drawn for one call, and a call that has drawn is the only one with that salt. So a
  key is as good as its salt, and the property is about salts.

`PageProofs`, for any items, scores, vaults and sequences of states:

* `PopupTypes`, `NeverTwoIntervals`, `DetailStaysLive`, `ListFollowsVault`, proved
  together: the button back clears the countdown it knows, which is the only one
  because of `OneInterval`, and draws the list again because of `DetailIsLive`. What
  is added is `ListIsConnected`, that the list is reached only with a connection.
* `NoListenerLeft` is about the overlay's object (`SafeOverlay`), which
  `Hide`, `Show` and the timer keep; the highlighted row is part of it, since a row
  that is chosen must be one.
* `NeverHalfOfTwo` needs `LastFillCounts`: the last timer set is of the form in the
  page and of the item whose user name it holds, or that form is untouched and no
  timer's.
* `ContentTypes`, `OnboardingTypes`: the types of the content script, which need
  that the overlay is safe, and of the onboarding.

`PartsProofs`: `PartsTypes`, `Spec => []TypeOK` of the parts side by side. The
invariant is the conjunction of what the parts keep, and a step of the whole is,
seen from each part, one of its own or none.

`AlgorithmProofs`, for inputs of any length. No theorem of the library can be used
for induction, since none of the provers instantiates an operator; the lemmas use sets
instead. `LeastNumber` gives a set of numbers that is not empty its least, and
`Along` follows: what holds at 0 and passes from each number to the next holds of all.
A recursive function is the CHOOSE of one that satisfies its equation, so
for each a function is shown to exist first.

* `LoginsAreFound`: what `FindBestLoginForm` returns is the first of its containers
  and its first fields. For the second half, a container with one password input that does not
  speak for a new one (`NewSpeaksForNew`) has a category: the rules of
  `ResolveCategory` leave *login*, it is among the containers (`PlainIsLookedAt`), and so
  there is a first one. Forms come before all else (`FormComesFirst`).
* `FilesAreReadTrue`: `KdbxInv` says that what is kept of each header field is the
  last one before `pos` (`HeaderOf`), that the body is looked at only behind the
  header's end (`Ended`), and that a well written file has been decrypted to its own
  body by then. A text of an entry that is straight is the value
  of its last string with that key, and the items come out in the order of the
  entries.
* `CodesAreOfSecret`: after each byte `Encoding` has written all the bits but the
  last `bitsInBuffer`, and those are the lower bits of the buffer (`Encoded`); so the
  bits of the text are those of the secret, followed by fewer than five zeros
  (`TextBits`), and every byte is the eight bits it was cut into. Of the times,
  `TotpInv` says that the window of the code began before the clock, which never
  goes back.
* `ExportsComeBack`: the scan of a row is followed field by field. A run of characters
  that are neither quotes nor commas is taken as it is; between quotes a
  doubled quote comes back as one; a comma closes the field, and what is behind it
  begins as an empty one. So a row is split into the fields it was made of, trimmed.
  Since no field has a line break, the lines of the text are the rows, none of which is
  blank, and the header is recognised as *ameen* and as nothing else.

Assumptions: only those named in the modules (`ConstantsAssumption`,
`LockAssumption`, `PopupAssumption`, `CsvAssumption` and so on), which say
that `null` is not an object, that connections and a page's items are finitely
many, that no item is named like the generator, that bounds are numbers, that
revisions are natural numbers, and what vaults, files, pages and secrets are made of.
TLC evaluates each on the instance of its run.

Every invariant of every passing run is stated by a theorem. Only model-checked is
liveness, which is beyond the prover: `EveryCallEnds`, `ConnectingEnds`,
`RetriesCease`, `AskedIsAnswered`, `GoneFreesSlot`, `StoppedEnds`, `FormsAreReported`,
`PollingEnds`, and the liveness half of `ImplementsRequestReply`. The violations of
the runs that expect one are TLC's too.

## 6. Not modelled

* **Synchronisation between devices.** Windows (`VaultPage.xaml.cs` 615-691) and
  Android (`VaultScreen.kt` 804-857) both send their vault and replace it by what
  they receive; neither merges, and their wire formats differ, so what either does
  with the other's message is an error. There is no protocol to state a property
  of. The merge the library offers is in `SyncMerge`.
* **The lock of Android.** `AmeenApplication` gives the lock service an empty
  callback (17-21) and nobody starts its timer.
* **The clipboard.** A delayed clear checks its token and then clears; no document
  says which text a clear is for.
* **The one-time code of the popup.** `otpBytes` has 64 bytes and `set(hash, 64)`
  throws, so `generateOTPCode` shows `------` for every secret
  (`popup/index.ts` 418-461): there is nothing a run could tell apart.
* **Windows unlock, Android import and backup.** Calls of the platform, and C# and
  Kotlin versions of formats that are modelled from the shared library.
* **The generators, the health score, message types, the family's index.** They
  draw random numbers, count, or are written and read back: a property would
  repeat the definition.
* **Inside the modelled parts.** AES-GCM, Argon2 and HMAC, Salsa20 and gzip are
  ideal; `parseOTPAuthURI`, OTP fields and shortcuts of the content script, the
  drawing of the pages, the tray's menu and the web demonstration are left out.
