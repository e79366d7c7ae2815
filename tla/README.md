# DustbinBrain: a TLA+ verification project

DustbinBrain is the Android application of a sorting waste station. A tablet
drives a row of bins over one serial line, recognises or scans its users, opens
the doors of their bins, and settles a delivery by closing the doors and
sending one weight record per bin to the server. The repository has no tests
and no manual: its comments (Chinese) are the only statement of intent, and they
are what the code is compared with here.

Paths below are relative to the repository; `APP` stands for
`app/src/main/java/com/ffst/dustbinbrain/kotlin_mvp`, `SPS` for
`serialportlibrary/.../service/impl/SerialPortService.java`.

## 1. Inventory

| component | state it keeps | operations | what makes it correct |
|---|---|---|---|
| Serial command queue (`SPS`, `APP/utils/SerialPortUtil.java`) | `sendDataList`, `isReceive`, `lastSendTime`, the sender's local `index` | `insertSendQueue`, the loop of `sendQueueThread`, `receiveThread` | each command leaves once, from the front; doors first; bounded retries; threads survive |
| Delivery session (`APP/mvp/main/view/ControlActivity.kt`) | `needCloseDustbin`, session `userId`, the `hasMan` timer, exit dialog and its timer, settlement threads | open doors, exit, automatic exit, settle, register a face | every session ends, its doors are closed, each door is recorded once and to the right user |
| Main screen (`APP/mvp/main/view/MainActivity.kt`) | `canRecognize`, the app-wide `userId`/`userType`, work time | login paths, `goControlActivity`, `onActivityResult` | the user logged in is the one at the station, nobody is afterwards |
| Frame codec and bin state (`APP/manager/SerialProManager.kt`, `APP/app/DustbinBrainApp.kt`, `APP/utils/OrderUtil.kt`) | `dustbinBeanList` (copy on write), `hasManTime` | `generateOrder`, `inOrderString`, `setDustbinState` | a frame changes its own bin only; weights are what the bin sent |
| Resident service (`APP/service/ResidentService.kt`) | `closeDoorNum`, `binRecordImgPath`, `downloading`, its own bean list | 30 s poll, 60 s status upload, record upload, camera callbacks, update download | the picture and the light belong to the bin of the record; one download at a time |
| TCP messages (`MainActivity.initTCP`, `APP/utils/TCPConnectUtil.kt`) | `cache`, `tcpResponse`, `lastBindTime`, `tcp_client_id` | reassembly of fragments, dispatch by type | the message dispatched is the message sent |
| Face registry (`MainActivity`, `APP/utils/DataBaseUtil.java`) | the face library, the table `UserMessage`, `nowFaceToken` | register, download, insert, delete | library and table agree; a token belongs to one user |
| Recognition pipeline (`FeedFrameThread`, `RecognizeThread`) | its two frame queues | feed, recognise, look up the user | no recognition opens a session while one is open |
| Camera life cycle (`APP/mvp/main/camera/CameraManager.kt`) | `IDEL`/`OPENING`/`OPENED` | open, release | the camera can be opened again after each release |
| Entry screens (work time, phone, QR scan) | timers and request callbacks | log in, time out | each screen ends |
| Device binding, configuration | the table of bins | bind, edit | linear |
| Process supervision (`APP/utils/CrashHandler.java`) | the default exception handler | `uncaughtException` | a crash ends the process |
| Template code: `mvp`, `utils`, `aop`, `annotation`, `compiler` | - | generic | not specific to the bins |
| Vendored code: `trtccallingdemo`, `login`, `debug`, `libuvccamera`, `usbCameraCommon` | - | - | third party |

How they interact: screens, settlement threads and timers call
`SerialProManager`, which puts byte arrays into the serial queue. The receive
thread of the serial port hands each frame to `inOrderString`, which replaces a
bean in the global list and, when the proximity switch of a bin reports a
person, restarts the minute of the running session. Login messages arrive on
the TCP thread, write the app-wide `userId` and start a `ControlActivity`; its
result resets `userId`. Settlements post records on an event bus to the
resident service, which uploads them and, for kitchen bins, takes a picture.

What is hard: nothing but `insertSendQueue` takes a lock; the list, the flags,
the app-wide user and the list of doors are shared by threads that read them,
do something slow and then rely on them; timers race taps; delayed runnables
race settlements; and an exception on a background thread ends that thread
and nothing else. `PROJECT.json` lists the hazards one by one with their lines.

## 2. Modules

| module | what it is |
|---|---|
| `CommandLanes` | abstract specification of the serial queue: two lanes (a stack of door commands, a FIFO of the others) before one bus |
| `SerialQueue` | the serial queue, every shared read and write a step |
| `MCSerialQueue` + `SerialQueue*.cfg` | its instances for TLC |
| `SerialQueueProofs` | its theorems |
| `SerialQueueLanes` | the proof that it implements `CommandLanes` |
| `DeliverySession` | one `ControlActivity` with its timers, threads, camera round trip and result |
| `MCDeliverySession` + `DeliverySession*.cfg` | its instances for TLC |
| `DeliverySessionProofs` | its theorems |
| `BinState` | state frames, the list of beans, the beans a session keeps and the weights of its records |
| `MCBinState` + `BinStateSafety.cfg`, `BinStateProofs` | its instance for TLC, its theorems |
| `RecordUpload` | the threads that upload records, the cameras' events and their pictures |
| `MCRecordUpload` + `RecordUploadSafety.cfg`, `RecordUploadProofs` | its instance, its theorems |
| `FaceRegistry` | faces and their users: the face library, the table `UserMessage`, logins by face |
| `MCFaceRegistry` + `FaceRegistrySafety.cfg`, `FaceRegistryProofs` | its instance, its theorems |
| `TcpMessages` | messages of the server put together from reads of any length |
| `MCTcpMessages` + `TcpMessagesSafety.cfg`, `TcpMessagesProofs` | its instance, its theorems |

Operators named "Variant of ..." in a comment are faulty forms of the action
that follows them (a forgotten reset, a dropped guard, an off-by-one). They are
not part of the specification; each property is known to fail under one of them.

### 2.1 SerialQueue

The variables keep the code's names: `sendDataList`, `isReceive`, `index` (the
local counter of the sender). `sender` and `receiver` are the program counters
of the two threads, `held` and `readBytes` their locals. `timedOut` stands for
`currentTimeMillis - lastSendTime >= 500`. `answers` is what lies unread in the
serial input. `fate` is the callers' view of each command.

* `Insert` is `insertSendQueue` (atomic: it holds the monitor).
* The sender's loop is `SenderSize` (the size test, line 224), `SenderRoute` (the
  branch on `index`, `isReceive` and the clock; the time stamp is taken here,
  before the head is read), `SenderGet` (`get(0)`), `SenderWriteFirst` or
  `SenderWriteResend` (`sendData`), `SenderMark` (`index = 1; isReceive = false`)
  and `SenderDrop` (`remove(0)`).
* The receive thread is `ReceiverRead`, `ReceiverSize`, `ReceiverGet` (read and
  compare), `ReceiverRemove`, `ReceiverFlag`.
* A bin controller answers a command with a frame of the same address and
  function, later or never (`Transmit`). One `read` may return several frames,
  of which the code compares the first.

Abstractions. A command is a model value with an address and a function; two
orders with equal bytes are two commands. Operations of the Java list are atomic
(an `ArrayList` torn by two threads is not modelled) and reads of the
non-volatile flags see the latest write, so every problem shown here is there
even with an ideal list and memory. What the listener does with a frame does
not touch the queue and is left out.

A dead sender. `get(0)` or `remove(0)` on an empty list ends `sendQueueThread`
(`sender = "crashed"`). `CrashHandler` is installed for every thread, but its
first statement shows a Toast, which throws on a thread without a Looper: the
handler does not get to `System.exit`, the thread is gone and the process goes
on. The next call of `SerialPortUtil.getInstance` finds the thread not alive and
`start()` of a terminated thread throws; if that call came from the main thread
the process then exits (`ProcessExit`), otherwise only its caller dies. A caller
already past that point still inserts into a queue that nobody serves.

What the receive thread may retire by mistake. Open and close of a door have the
same address and function, so a late answer to one matches the other; and the
thread compares the head and removes the head in two steps, so that a door put in
front, or the sender's own removal, changes the head in between. Both happen in
the model. `UnsentOnlyByMistake` says that a command leaves unsent in these two
ways only, and only for the answer to a command that was sent.

### 2.2 DeliverySession

The model is one activity from `onCreate` to the result. `mainQueue` is the
main thread's message queue, with the messages of the code: the countdown
(`check`), the automatic exit, the clicks that a touch posts, and `onDestroy`.
`opening` counts the `openDoor` runnables that wait for their delay. `threads`
are the settlement threads (kind `settle`) and the thread of `closeOpenDoor`
(kind `close`), each with its iterator over `needClose`: `size` is the list's
size when the iterator was made, so a list that has grown kills the thread
(`ConcurrentModificationException`) or, if the iterator had come to its old
end, lets it finish; both kinds of `ArrayList` iterator exist. `ordered` is the
last order each door was given, `reopen` being an open after a close.

Time is what the code compares: since `hasManTime`, at most a minute (`near`),
more than a minute (`due`), at least 61 whole seconds (`over`). A tick can miss
`due` (a tick on the exact minute, or a late one). Delays of at most half a
second are over before a minute or the 9 s per bin of the settlement timeout
are; a thread can be late there only in `closeDoor`, whose monitor a blocked
serial write holds.

`HandleExit` covers both callers of `onControl(control_exit_btn)`; on a
destroyed activity the dialog's `show()` throws on the main thread, where
`CrashHandler` works and ends the process.

Where a door stays open. `SettledDoorsAreClosed` speaks of every thread: what lies
behind it is closed, or reopened by a delayed `openDoor`; a thread that is done
has come to every door it found, and one that is dead has found fewer than are
listed now, which only a tap can bring about. `UntouchedSessionClosesDoors` is the
same without taps and without exceptions: no thread dies, and one that is done
leaves no door open.

Abstractions. Which bins are full is chosen freely at the start; a tap on a bin
without room changes nothing and is left out. Lights, disinfection, magnets
and pictures are left out here; weights are in `BinState`, lights and pictures
in `RecordUpload`. `ControlActivity` started as the root of its
task finishes at once and is not modelled. What a second login does to the
screens (a second activity on top) is in `FaceRegistry` only; that it replaces `userId`
is. Once a settlement thread has ended, its timer keeps calling `exitEnd` on a
finished activity, without effect.

### 2.3 BinState

A frame of the function `GET_DATA` is a record of its address, its two bytes of
weight and its room; `inOrderString` may read any frame at any time, because
frames answer polls that run all the time, and a frame may be cut, merged with
another or lost. `setDustbinState` puts a NEW bean into the row of the door, as
the code does (a copy of the list with one element exchanged). A session keeps
beans in `needClose`, as `needCloseDustbin` does; the beans "before the
delivery" are the list itself, so `addRecord` compares the kept bean with the
live one. `bytes2Int` is translated with the precedence Kotlin gives it: `shl`,
`or` and `and` are infix functions of one precedence, applied from the left
(`APP/manager/SerialProManager.kt:151`), and the mask of the last byte cuts the
whole sum.

What the fields of a record hold, as `RecordsMeasureTheirBin` states it:
`now_weight` is the reading when the door was opened, `former_weight` the one at
the settlement, and `post_weight` the first less the second, with the sign
opposite to what the bin gained (`APP/mvp/main/view/ControlActivity.kt:698-700`);
all of them modulo a byte. The server sees readings of the right bin and can
recover the gain as long as it is below a byte; the model states exactly that
and leaves open whether the names were meant so.

The history fields `seen`, `opened` and `settled` say what the scale had shown.
The variables of `DeliverySession` that decide when a door is opened or settled
are free choices here, so what is shown holds for every schedule of that module.

### 2.4 RecordUpload

A record that is posted gets a thread (`PostRecord`, then `NoCamera` or
`OpenLight`, `SetCloseDoor`, `LiveConnect`, `NamePicture`). The camera library is
external: it answers a connection with a video status (`VideoStatus`), takes a
picture (`VideoCamera`) or fails (`ShotFails`), and its callback `m_OnEvent`
runs `LiveDisconnect`, `CloseLight` and `UploadImage`, the last two with
`closeDoorNum` and `binRecordImgPath` as they are by then.

The code does not serialise records: with two kitchen bins in one delivery the
second record overwrites both fields, the first light stays on and its picture
is filed under the other bin. Each record therefore has a history flag `sound`:
it counts on the fields from the moment its thread has written them until its
camera has answered (`CountsOnDoor`, `CountsOnPath`), and loses the flag when
another record writes one meanwhile (`OtherDoors`, `OtherPictures`), or when the
camera answers before the picture has its name. The properties say that a wrong
picture or light is always that of a record that is not sound. So they hold
THROUGH an overlap for the record that comes last and for all later ones, also
while pictures of overwritten records are still on their way.

### 2.5 FaceRegistry

A job is a TCP message or a registration and its place in the handler; a step
of a job is one call to the face library or the database, so that everything
another thread may do in between is explored. `TcpBusy` and `MainBusy` say that
the TCP connection and the main thread handle one thing at a time;
`addFaceImage` leaves the TCP thread at its download. `InsertOrReplace` is SQLite's
"insert or replace" under two unique columns: rows with the same user or token
go. `insertUserIdAndFaceToken` and `insertUserIdAndFaceTokenThread` differ in
what happens to a user who has a row (new token, or nothing). A restart
(`Restart`, `ClearFaces`) loses the fields and the jobs and keeps the library
and the table.

The recognition thread writes every result to `nowFaceToken`, so the token of a
registration is overwritten whenever somebody stands before the camera, and a
login message replaces `userId` at any time. Each job, the open session and the
posted recognition have a history flag `sound`: whoever writes a field, or
deletes a face, takes it from those who count on it at that moment
(`CountsOnToken`, `CountsOnUser`, `FaceDeleted`, `SessionSpared`) and from nobody
else. A job that goes on without it, or from the catch block of a registration
(`MainActivity.kt:497-505`, which stores `nowFaceToken` although no feature of this
picture may have come that far), is `Misled`. The properties name the misled job
as the culprit of a wrong row, a lost row or a row without its face: every other
job is right, before, during and after.

`RowsKeepTheirFace` relates the two stores: a row whose face is not in the library,
and that nobody is about to delete, comes from a misled job, or from a restart
between the two deletions, or from `deleteAllFace`, which deletes rows first.

`person` is who uses the station, a history variable for
`FaceLogsInItsOwner`: of a face the owner of the recognised token, of a message
its user. A phone login is two steps, `userId` in `PhoneLoginActivity` and the
session in `onActivityResult` (`PhoneLogin`, `GoControlActivity`).
`goControlActivity` needs `canRecognize`, which is FALSE while another activity
covers `MainActivity`; but `GQrReturn`, `out_time` and the answer to a scanned code
set it first, so a second `ControlActivity` may cover the first (`OpenSession`),
after which `canRecognize` stays TRUE, since `MainActivity` is paused already. Their
results come together, when `MainActivity` is back. Outside the work time a login
opens no session (`NoSession`).

### 2.6 TcpMessages

`onMessageResponseClient` decides by the first and last characters and by three
message types whether a read is the beginning of a message (kept in `cache`), a
piece in between (added), or the rest (parsed). A text is cut into four parts,
the fewest that tell apart the cases of the code: a text that begins with a
brace, one that neither begins nor ends with one, one that ends with a brace too
early, one that ends the message. A read takes any number of parts, of several
messages too. `Parse` takes the first object of a text and does not see what
follows it; parts of several messages may make an object or an exception.
`Reconnect` loses what is unread and keeps `cache`. `handled` is the sequence of
texts that were parsed, `received` the set of messages that were read to the end;
`TidyReadsLoseNothing` says that the first names exactly the messages of the
second, in the order they were sent.

`tidy` and `apart` are history variables, the conditions under which the code is
right: messages of other types come in one read each, no read ends with the
brace before the last, no read holds parts of two messages. Each of the three is
needed: a message of another type that is cut is parsed from its first part and
lost; a cut at the brace of the data makes the first part look whole; a read
that holds two messages handles the first and drops the second. After an untidy
read `WholeMessagesAreHandled` still holds: whatever is in `cache`, a message that
comes in one read is handled.

A cut just before the brace that opens the data of a message, whose rest then
begins with a brace, is not among the cuts of the model: the code would parse that
rest by itself, and the message would be lost, as after a cut behind the brace
that closes the data.

### 2.7 How the modules fit together

The threads of `DeliverySession` put orders into the queue of `SerialQueue`
(`ordered` is what they inserted last), settle the beans of `BinState`, and post
the records of `RecordUpload`; its `Login` stands for the messages of
`TcpMessages` and the jobs of `FaceRegistry`, whose `OpenSession` and
`EndSession` stand for a whole `DeliverySession`. At each of these borders the
module on the other side is a free choice (any order, any frame, any record, any
login at any time), so what is shown of a module does not depend on the others.
What is not shown is a property of two of them at once, for instance that a door
that was told to close is closed by the controller.

## 3. Runs

All runs are complete explorations. Deadlock is not checked because the systems
may stop: an idle queue waits for a caller, a session that has ended stays so,
messages, records and tokens are bounded.

| run | bounds | shows |
|---|---|---|
| `queue_safety` | 3 commands (open, close, poll of one controller), 2 unread frames; 1.4 million states | `QueueIsLedger`, `DoorsFirst`, `ThreeSendsBetweenDrops`, `RetryBound`, `OneOpenExchange`, `CrashNeedsAnswer`, `UnsentOnlyByMistake`, and that the queue implements `CommandLanes` (`ImplementsLanes`) |
| `queue_liveness` | 2 commands (door, poll), 2 frames | `EveryCommandLeaves` |
| `queue_drop_early` | 3 commands, 1 frame | violated: a command is dropped with fewer than 3 sends |
| `queue_empty_get` | 2 commands, 1 frame | violated: the sender reads element 0 of an empty list |
| `session_safety` | 2 bins (each opened by default unless full, or later by a tap), 2 users (symmetric), 2 touches, 1 login, ticks wait while a message is posted; 1.9 million states | `ListCoversOpenDoors`, `HasManSettlesOnce`, `RecordsNeedSettlements`, `NobodyPaysOnlyIfCut`, `SettledDoorsAreClosed`, `UntouchedSessionClosesDoors` |
| `session_liveness` | as before, one user, no login | `EverySessionEnds` |
| `session_wrong_user` | 2 default bins, 1 touch, 1 login | violated: a record is charged to another user |
| `session_doors_open` | 2 default bins, 1 touch | violated: exit code 1 leaves a door open |
| `bins_safety` | 2 bins and a third address, bytes of 2 values, weights 0..2, 2 sessions, 1 settlement, 1 record; 406 thousand states | `RowsKeepIdentity`, `OnlyReadBinsAreCharged`, `RecordsMeasureTheirBin`, `KeptBeansStay` |
| `record_uploads` | 2 kitchen bins and another one, 2 records, 2 pictures at a time; 236 thousand states | `PicturesShowTheirRecord`, `LightsFollowTheirCamera` |
| `faces_safety` | 2 users, 2 faces, 2 messages, registrations or phone logins; 944 thousand states | `RowsNameTheOwner`, `FaceLogsInItsOwner`, `RowsGoForTheirUser`, `RowsKeepTheirFace` |
| `tcp_safety` | 4 messages of either kind; 163 thousand states | `TidyReadsLoseNothing`, `WholeMessagesAreHandled`, `NothingIsReplayed` |

Why the bounds are enough. Queue: the threads look at the head only, so one
command in flight, one put in front of it and one behind it give every relation
between them; open and close of a door are indistinguishable to the receive
thread and the poll is not, so a wrong match, a right match and a mismatch all
occur; two unread frames give the late and the merged answer. With two commands
the liveness run still contains an insertion in front of a command that is being
retried; three are beyond a short run. Session: two touches and the timer give
two exits at once, a tap on a bin that races an exit, and a camera round trip
that races one; two doors are enough for a thread that is between two doors. One
login is one change of user. The states meant to be rare are reached: a thread
killed by a grown list, a second settlement, a record charged to nobody, a
door reopened after its close, an automatic exit on a destroyed activity.

Bins: weights of 0 to 2 with bytes of two values contain a weight that does not
fit into a byte, so the cut of `bytes2Int` happens; the third address is a frame
of a bin that is not in the table; with two sessions the beans of the first one
are still held by its late settlement. Records: two are the fewest that can
overlap, on one camera or on two, and to show a sound record next to one that is
not; with three records and one picture the 3 million states are right as well.
Faces: two jobs interleave with each other, with recognitions, logins and
restarts; two users and two tokens give a row of another user to lose. The
theorems of section 4 have no such bounds. TCP: of four messages one is cut, one
breaks off with the connection, one comes in between and one after.

Fairness. Queue: both threads are plain loops without waiting conditions of
their own, and the clock moves: weak fairness on the sender, the receive thread
and `Timeout`. None on callers, on answers, or on `ProcessExit` (it needs a call
from the screen). Session: weak fairness on time, on the timers, on the main
thread (messages, delayed runnables) and on the threads except their
close order, which may wait for the serial port for ever. None on touches, on
the camera or on logins. Touches and frames of the proximity switch are bounded,
which states the assumption of `EverySessionEnds`: somebody who stays at the bin,
or a broken switch, keeps a session open, as the code's own comment says
(`SerialProManager.kt:134`). The other modules claim safety only: a camera, a
download or a server that never answers leaves its record, its light or its job
where it is, and nothing in the code tries again.

### Disagreements found

1. `queue_drop_early`. `SPS:238` says a command is removed after more than three
   sends without an answer. `index` is a counter of the thread: a door command
   put in front of a command in its third attempt inherits the count.
2. `queue_empty_get`. `SPS:224` tests whether there is data to send; the receive
   thread can empty the list before it is read, and the sender thread dies.
3. `session_wrong_user`. `addRecord` charges the app-wide `userId`, which any
   login message replaces, and not the `userId` the session was opened with.
4. `session_doors_open`. By `ControlActivity.kt:504` exit code 1 closes all
   doors; the call that did so is commented out in `MainActivity.kt:399-404`.

The flags `sound` (2.4, 2.5) and the conditions `tidy` and `apart` (2.6) are where
the code relies on a schedule that nothing enforces; no comment claims that it
is enforced, so they are stated in the properties and not as disagreements.

## 4. Proofs

All theorems hold for every value of the constants and have no hypothesis but
the ASSUME of their module. Each module of proofs gives one inductive invariant,
shows that the initial states satisfy it and that every action keeps it, one
lemma or step per action, and derives the listed theorems from it.

`SerialQueueProofs` proves for every set of commands, every assignment of
addresses and functions and every bound on unread frames, from
`ConstantsAssumption` alone:

* `TypeCorrect`: `Spec => []TypeOK`. The invariant adds `ControlInv`, what the
  control states say about the locals: `index <= 3` on the way to a
  transmission, `index = 4` at a drop, a command in hand where one is written.
  Without it the bound 4 of `index` is not inductive.
* `DropsAreEarned` and `RetriesAreBounded` from `CountInv`, which ties `index`
  and the control state to the numbers of transmissions since the last drop and
  since the last answer.
* `ExchangesAreSerial` from `FlagInv`, which says in which control states an
  exchange may be open while `isReceive` is still or again true.
* `LedgerHolds`, `DoorsAreServedFirst`, `SilenceDoesNotCrash` from `ListInv`:
  the list is the ledger, each command once, doors in front, and an empty list
  past the size test is the receive thread's doing. The lemmas about `<<c>> \o s`
  and `Tail` (`ConsProperties`, `TailProperties`) and about inserting into and
  removing from a ledger carry the steps.

* `UnsentRetirements` from `MatchInv`: every frame that is unread or in hand answers
  a command that was sent; and when the receive thread is about to remove, the
  command it has matched has been given up, or only doors stand before one that
  looks like it.

`DeliverySessionProofs` proves for every set of bins and users and all bounds,
from `SessionAssumption`, every safety property of `session_safety`:

* `SessionTypeCorrect`: type correctness of the session. The invariant adds what
  the threads' cursors say about the list they read.
* `OpenDoorsAreListed`: every door told to open is in `needCloseDustbin`, once.
* `HasManAsksOnce`: the timer asks for at most one settlement. The invariant
  counts: settlements started, plus exits still in the main queue, are at most
  the automatic exits plus the taps; and once the timer has asked it is
  cancelled. `PlacesAppend` and `PlacesTail` count the requests in a queue that
  gains a message or loses its head.
* `SettlementsClose`: what a thread has passed stays closed or is reopened by a
  delayed `openDoor`, and a thread that is done has passed all it found
  (`ClosedInv`); no thread has found more doors than are listed, and a dead one
  fewer (`SizeInv`).
* `UntouchedDoorsClose`: without a tap threads start only after the minute of
  `hasMan`, when every delayed `openDoor` has run, and the main queue holds nothing
  but ticks (`UntouchedInv`, `HoldsQueue`).
* `NobodyPays`: while the activity is open somebody is logged in and no
  `onDestroy` is on its way (`PhaseInv`), so a settlement that still runs when
  the activity has ended has been cut (`CutInv`).
* `RecordsAreEarned`: `LedgerInv` compares the records of a door with the
  settlements that have passed it and made their record; a thread about to make
  one is not counted yet, so only `ThreadRecord` changes both sides, each by one.

`BinStateProofs` proves for any table, any number of values of a byte and any
number of sessions, settlements and records, from `BinAssumption`:
`BinTypeCorrect`, `BinsKeepIdentity`, `ChargedBinsWereRead`, `RecordsAreMeasured`
and `KeptBeansAreStable`. The invariant says of every bean, in the list or kept,
that its weight is what the scale had shown, modulo a byte, or 0 if no frame was
read, and that a bean with room has been read; the records inherit it.

`RecordUploadProofs` proves for any bins and any number of records and
pictures, from `UploadAssumption`: `UploadTypeCorrect`, `PicturesAreRight`,
`LightsAreRight`. `CameraInv` says that a camera is connected, takes pictures and
reports for records of its own bin. `FieldInv`: a sound record that counts on
`closeDoorNum` or `binRecordImgPath` finds its own there; a step that would break it
for a record takes the record's flag, since `GotoMoves` disturbs just those. So the
pictures of sound records are ordered under their own name (`ShotInv`) and what a
file of another name shows is not sound (`FileInv`); `Keeps` (a record never
becomes sound again) carries both over every step.

`FaceRegistryProofs` proves for any users and any number of faces, messages and
registrations, from `FaceAssumption`: `FaceTypeCorrect`, `RowsAreRight`,
`LoginsAreRight`, `RowsStayWithTheirUser`, `RowsHaveTheirFace`. `Fit` says which
places each kind of job has and that a job past `insertFeature` has a token of its
own user. `Knows`: a sound job finds its token in `nowFaceToken`, its user in `userId`
and its face in the library whenever it counts on them; `LoginsHold` says the same
of the session and the posted recognition. `Apart` (ids and tokens tell rows apart)
holds whatever misled jobs have stored, and makes `HeldRows` inductive: the row a
sound job is about to delete is of its user, even when the row has got another
token in between. `Stored` says what the two ways of storing a row may add and take
away; the action properties then follow from one lemma per kind of step
(`StoresRight`, `QuietSteps`, `FaceIsHeld`, `RowIsDeleted`, `JobsAreLost`).

`SerialQueueLanes` proves `QueueImplementsLanes`: the threads of `SerialQueue`
and its callers, with all their interleavings, implement `CommandLanes`. The
mapping cuts `sendDataList` after its first `DoorCount` elements; since the doors
are in front (`ListInv`, from the module before), the first lane is the doors and
the second the rest. An insertion accepts a command in front of its lane or
behind it (`InsertDoor`, `InsertOther`), each `remove(0)`, of either thread,
retires the head of the right lane (`RemoveDoor`, `RemoveOther`), a transmission
puts the head on the bus (`BusSteps`), the end of the process loses what is left
(`ExitLoses`), and every other step of the two threads changes nothing of it. The
mapping counts and cuts instead of filtering: facts about a filtered sequence
need induction over it.

`TcpMessagesProofs` proves for any number of messages, reads of any length and
any number of broken connections, from `TcpAssumption`: `TcpTypeCorrect`,
`OwnReadsAreHandled`, `NeverReplayed` and `TidyLosesNothing`. All parts the server
has sent form a stream in which a part has a `Position` and reading a `Cursor`:

* `StreamInv`: what is unread is the end of the stream, without a gap. So the
  parts of a read of one message follow each other (`ReadOfOne`).
* `ApartInv`, where no read has mixed messages: `cache` holds no end of a message,
  hence a message that is handled has its last brace in the read that is being
  handled (`BraceIsRead`), behind the cursor of all earlier ones. That cache is
  never emptied does no harm for this reason only.
* `TidyInv`: `CacheInv` says that a message that has been read in part is of a
  type that is kept, and `cache` holds precisely the parts before the cursor, so
  the read that ends it completes it (`EndIsTaken`), and one that does not adds
  to it (`MiddleIsKept`). It is needed because `TidyReadsLoseNothing` does not
  speak of the messages under way.
* `OwnReadsAreHandled` needs types only: the text decides, not `cache`.

Model-checked only: the two liveness properties, which are outside the prover's
reach as they rest on fairness. Every invariant, every action property and the
refinement that a passing run checks is also a theorem. The four violations are
counterexamples of TLC.

## 5. Not modelled

* The resident service beyond records and pictures: the poll of the bins every
  30 s only inserts commands that `SerialQueue` takes at any time; the status
  upload reports the beans loaded at service start; the download of a new version
  (`downloading`, `ResidentService.kt:137-141` and `:258`) depends on a timer, a
  download thread and Android's installer, of which the app sees only the start.
* Messages that reboot, restart or update the device. `lastBindTime` compares
  seconds with milliseconds (`MainActivity.kt:1425`), so its filter never filters.
* The recognition pipeline before its result, and the face library, which is a
  closed SDK and is assumed to recognise rightly.
* Frames other than `GET_DATA` (their answers are logged and shown), the layout
  of orders, the cutting of reads into frames: frames may be lost or late in the
  models instead.
* `CameraManager`, the entry screens beyond their logins, device binding and configuration, network
  wrappers, the application template (`mvp`, `utils`, `aop`): linear code or
  wrappers without a state that the properties are about.
* Vendored and generated code: `libuvccamera` and `usbCameraCommon` (native USB
  camera libraries, not in `settings.gradle` and so not part of the application),
  `trtccallingdemo`, `login`, `debug`, `annotation`, `compiler`. All the C and C++
  of the repository is in the first of these; the station itself is written in
  Kotlin and Java, which is what the modules model.
