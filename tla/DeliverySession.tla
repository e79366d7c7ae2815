--------------------------- MODULE DeliverySession ---------------------------
(***************************************************************************)
(* One delivery: a ControlActivity from its creation to its result in      *)
(* MainActivity (ControlActivity.kt, MainActivity.onActivityResult).       *)
(* Those who act on it:                                                    *)
(*                                                                         *)
(*   - the main thread, which runs the posted messages one by one, and the *)
(*     delayed openDoor runnables when their time has come;                *)
(*   - the hasMan timer, which ticks every second and settles when nobody  *)
(*     has been near for a minute;                                         *)
(*   - settlement threads (exit_time_task), which close and record each    *)
(*     opened door in turn, and the thread of closeOpenDoor, which only    *)
(*     closes them;                                                        *)
(*   - the user at the screen, the camera activity on top of it, and the   *)
(*     server, whose TCP messages replace the user id of the whole app.    *)
(*                                                                         *)
(* Time is what the code compares: System.currentTimeMillis - hasManTime   *)
(* is at most a minute ("near"), more ("due"), or 61 whole seconds         *)
(* ("over").  What a door does is the last order inserted for it into the  *)
(* serial queue (module SerialQueue); weights and pictures are left out.   *)
(***************************************************************************)
EXTENDS Integers, Sequences, FiniteSets

CONSTANTS
    Door,           \* doorNumber of the bins
    OtherDoor,      \* the door of the OTHER bin,
    KitchenDoor,    \* and of the KITCHEN bin, which are opened by default
    User,           \* user ids other than 0, nobody
    MaxTouches,     \* bound: touches, and frames of a proximity switch
    MaxLogins,      \* bound: logins by the server during the session
    MaxPosted       \* bound: ticks wait while so many messages are posted

ASSUME SessionAssumption ==
    /\ OtherDoor \in Door /\ KitchenDoor \in Door
    /\ OtherDoor # KitchenDoor
    /\ 0 \notin User
    /\ MaxTouches \in Nat /\ MaxLogins \in Nat /\ MaxPosted \in Nat \ {0}

VARIABLES
    phase,          \* life cycle of the activity and its process
    result,         \* its result on the way to MainActivity
    userId,         \* DustbinBrainApp.userId, of the whole app
    sessionUser,    \* the userId this activity was started with
    idle,           \* now - DustbinBrainApp.hasManTime
    hasManIsRun,    \* whether the hasMan timer may settle
    hasManTask,     \* "wait", "test" (between its two halves) or "cancelled"
    mainQueue,      \* messages posted to the main thread
    opening,        \* openDoor runnables posted with a delay, per door
    ordered,        \* last order given to each door; "reopen": after a close
    needClose,      \* needCloseDustbin, the doors this session opened
    exitTimer,      \* the timer behind the exit dialog is scheduled
    threads,        \* settlement and closeOpenDoor threads, oldest first
    records,        \* delivery records, in the order they were posted
    touches, logins,    \* for the bounds
    exitTaps, autoExits,\* history: exit taps, settlements posted by hasMan
    cut             \* history: the session ended before a settlement did

sessionVars == <<phase, result, sessionUser>>
timerVars   == <<idle, hasManIsRun, hasManTask>>
doorVars    == <<opening, ordered, needClose>>
countVars   == <<touches, logins, exitTaps, autoExits>>
vars == <<phase, result, userId, sessionUser, idle, hasManIsRun, hasManTask,
          mainQueue, opening, ordered, needClose, exitTimer, threads, records,
          touches, logins, exitTaps, autoExits, cut>>

Message == {<<"check">>, <<"autoExit">>, <<"exitTap">>, <<"camera">>,
            <<"destroy">>} \cup {<<"item", d>> : d \in Door}
Thread  == [kind : {"settle", "close"},
            pc : {"start", "next", "record", "done", "dead"},
            cursor : Nat, size : Nat]
Record  == [door : Door, user : User \cup {0}]

Opened        == {needClose[i] : i \in DOMAIN needClose}
Alive         == phase # "exited"
Open          == phase \in {"front", "camera"}
Settling(t)   == t.kind = "settle" /\ t.pc \notin {"done", "dead"}
NoDelay       == \A d \in Door : opening[d] = 0
Post(queue, m) == Append(queue, m)

----------------------------------------------------------------------------
(* onCreate: hasMan() is started and openDefaultDoor lists the default     *)
(* doors that are not full and posts their openDoor.                       *)
Init ==
    /\ phase = "front" /\ result = "none"
    /\ userId \in User /\ sessionUser = userId
    /\ idle = "near" /\ hasManIsRun = TRUE /\ hasManTask = "wait"
    /\ mainQueue = <<>>
    /\ needClose \in {<<>>, <<OtherDoor>>, <<KitchenDoor>>, <<OtherDoor, KitchenDoor>>}
    /\ opening = [d \in Door |-> IF d \in Opened THEN 1 ELSE 0]
    /\ ordered = [d \in Door |-> "none"]
    /\ exitTimer = FALSE /\ threads = <<>> /\ records = <<>>
    /\ touches = 0 /\ logins = 0 /\ exitTaps = 0 /\ autoExits = 0
    /\ cut = FALSE

(* setResult and finish; onDestroy follows on the main thread.  Called     *)
(* again, finish does nothing.                                             *)
Finish(queue, kind, others) ==
    IF Open
    THEN /\ phase' = "finished" /\ result' = kind
         /\ mainQueue' = Post(queue, <<"destroy">>)
         /\ cut' = (cut \/ \E i \in others : Settling(threads[i]))
    ELSE /\ mainQueue' = queue
         /\ UNCHANGED <<phase, result, cut>>

----------------------------------------------------------------------------
(* The user, the proximity switch, the server *)

(* dispatchTouchEvent, and the click it posts. *)
Touch(message) ==
    /\ phase = "front" /\ ~exitTimer /\ touches < MaxTouches
    /\ touches' = touches + 1
    /\ idle' = "near" /\ hasManIsRun' = TRUE
    /\ mainQueue' = Post(mainQueue, message)
    /\ exitTaps' = IF message = <<"exitTap">> THEN exitTaps + 1 ELSE exitTaps
    /\ UNCHANGED <<sessionVars, userId, hasManTask, doorVars, exitTimer,
                   threads, records, logins, autoExits, cut>>

TouchAny == \E message \in {<<"exitTap">>, <<"camera">>}
                           \cup {<<"item", d>> : d \in Door} : Touch(message)

(* A polled state frame whose proximity switch is closed. *)
ProximitySeen ==
    /\ Alive /\ touches < MaxTouches
    /\ touches' = touches + 1
    /\ idle' = "near"
    /\ UNCHANGED <<sessionVars, userId, hasManIsRun, hasManTask, mainQueue,
                   doorVars, exitTimer, threads, records, logins, exitTaps,
                   autoExits, cut>>

(* A login message (QrReturn, GQrReturn, out_time, nfcActivity or          *)
(* addFaceImage) sets the user of the app, whoever is delivering.          *)
Login ==
    /\ Alive /\ logins < MaxLogins
    /\ logins' = logins + 1
    /\ userId' \in User
    /\ UNCHANGED <<sessionVars, timerVars, mainQueue, doorVars, exitTimer,
                   threads, records, touches, exitTaps, autoExits, cut>>

(* MainActivity.onActivityResult: without a face picture nobody is left    *)
(* logged in.  The code looks at exitCode no further.                      *)
ControlResult ==
    /\ phase \in {"finished", "destroyed"} /\ result \in {"exit", "register"}
    /\ result' = "delivered"
    /\ userId' = IF result = "exit" THEN 0 ELSE userId
    /\ UNCHANGED <<phase, sessionUser, timerVars, mainQueue, doorVars,
                   exitTimer, threads, records, countVars, cut>>

----------------------------------------------------------------------------
(* The hasMan timer *)

(* Time passes.  A minute is longer than the delay of any openDoor.        *)
Pass ==
    /\ Alive /\ idle # "over"
    /\ NoDelay
    /\ idle' = IF idle = "near" THEN "due" ELSE "over"
    /\ UNCHANGED <<sessionVars, userId, hasManIsRun, hasManTask, mainQueue,
                   doorVars, exitTimer, threads, records, countVars, cut>>

(* The first half of run() posts the countdown. *)
TickPost ==
    /\ Alive /\ hasManTask = "wait" /\ Len(mainQueue) < MaxPosted
    /\ hasManTask' = "test"
    /\ mainQueue' = Post(mainQueue, <<"check">>)
    /\ UNCHANGED <<sessionVars, userId, idle, hasManIsRun, doorVars, exitTimer,
                   threads, records, countVars, cut>>

(* Variant of TickTest: the timer is not cancelled. *)
TickTestAgain ==
    /\ Alive /\ hasManTask = "test"
    /\ hasManTask' = "wait"
    /\ IF hasManIsRun /\ idle # "near"
       THEN /\ mainQueue' = Post(mainQueue, <<"autoExit">>)
            /\ autoExits' = autoExits + 1
       ELSE UNCHANGED <<mainQueue, autoExits>>
    /\ UNCHANGED <<sessionVars, userId, idle, hasManIsRun, doorVars, exitTimer,
                   threads, records, touches, logins, exitTaps, cut>>

(* Variant of TickTest: the minute is not waited for.                      *)
TickTestAtOnce ==
    /\ Alive /\ hasManTask \in {"test", "lastTest"}
    /\ IF hasManIsRun
       THEN /\ hasManTask' = "cancelled"
            /\ mainQueue' = Post(mainQueue, <<"autoExit">>)
            /\ autoExits' = autoExits + 1
       ELSE /\ hasManTask' = IF hasManTask = "test" THEN "wait" ELSE "cancelled"
            /\ UNCHANGED <<mainQueue, autoExits>>
    /\ UNCHANGED <<sessionVars, userId, idle, hasManIsRun, doorVars, exitTimer,
                   threads, records, touches, logins, exitTaps, cut>>

(* The second half cancels the timer and posts the settlement.  A task     *)
(* that onDestroy has cancelled in between still ends its run.             *)
TickTest ==
    /\ Alive /\ hasManTask \in {"test", "lastTest"}
    /\ IF hasManIsRun /\ idle # "near"
       THEN /\ hasManTask' = "cancelled"
            /\ mainQueue' = Post(mainQueue, <<"autoExit">>)
            /\ autoExits' = autoExits + 1
       ELSE /\ hasManTask' = IF hasManTask = "test" THEN "wait" ELSE "cancelled"
            /\ UNCHANGED <<mainQueue, autoExits>>
    /\ UNCHANGED <<sessionVars, userId, idle, hasManIsRun, doorVars, exitTimer,
                   threads, records, touches, logins, exitTaps, cut>>

----------------------------------------------------------------------------
(* The main thread *)

Handles(message) == Alive /\ mainQueue # <<>> /\ Head(mainQueue) = message

(* Variant of HandleCheck: only while hasMan may settle. *)
HandleCheckInFront ==
    /\ Handles(<<"check">>)
    /\ IF idle = "over" /\ hasManIsRun
       THEN /\ Finish(Tail(mainQueue), "exit", DOMAIN threads)
            /\ exitTimer' = FALSE
       ELSE /\ mainQueue' = Tail(mainQueue)
            /\ UNCHANGED <<phase, result, cut, exitTimer>>
    /\ UNCHANGED <<userId, sessionUser, timerVars, doorVars, threads, records,
                   countVars>>

(* After 61 s the session ends at once, whether hasMan may settle or not; *)
(* otherwise only the countdown on the button changes.                     *)
HandleCheck ==
    /\ Handles(<<"check">>)
    /\ IF idle = "over"
       THEN /\ Finish(Tail(mainQueue), "exit", DOMAIN threads)
            /\ exitTimer' = FALSE
       ELSE /\ mainQueue' = Tail(mainQueue)
            /\ UNCHANGED <<phase, result, cut, exitTimer>>
    /\ UNCHANGED <<userId, sessionUser, timerVars, doorVars, threads, records,
                   countVars>>

NewThread(kind) == [kind |-> kind, pc |-> "start", cursor |-> 0, size |-> 0]

(* onControl(control_exit_btn), from a tap or from hasMan: the dialog, its *)
(* timer and a settlement thread.  Nothing tells whether one is at work    *)
(* already.  On a destroyed activity the dialog's show() throws on the     *)
(* main thread, and CrashHandler ends the process.                         *)
HandleExit ==
    /\ Handles(<<"autoExit">>) \/ Handles(<<"exitTap">>)
    /\ mainQueue' = Tail(mainQueue)
    /\ IF phase = "destroyed"
       THEN /\ phase' = "exited"
            /\ UNCHANGED <<exitTimer, threads, cut>>
       ELSE /\ exitTimer' = TRUE
            /\ threads' = Append(threads, NewThread("settle"))
            /\ cut' = (cut \/ ~Open)
            /\ UNCHANGED phase
    /\ UNCHANGED <<result, userId, sessionUser, timerVars, doorVars, records,
                   countVars>>

(* Variant of HandleItem: the door is not listed. *)
HandleItemUnlisted ==
    \E d \in Door :
        /\ Handles(<<"item", d>>)
        /\ mainQueue' = Tail(mainQueue)
        /\ opening' = [opening EXCEPT ![d] = @ + 1]
        /\ UNCHANGED <<sessionVars, userId, timerVars, ordered, needClose,
                       exitTimer, threads, records, countVars, cut>>

(* addNeedCloseDustbin: a door is listed once. *)
AddNeedCloseDustbin(d) ==
    needClose' = IF d \in Opened THEN needClose ELSE Append(needClose, d)

(* A tap on a kind of bin that has one with room: its door is listed and   *)
(* its openDoor posted.                                                    *)
HandleItem ==
    \E d \in Door :
        /\ Handles(<<"item", d>>)
        /\ mainQueue' = Tail(mainQueue)
        /\ AddNeedCloseDustbin(d)
        /\ opening' = [opening EXCEPT ![d] = @ + 1]
        /\ UNCHANGED <<sessionVars, userId, timerVars, ordered, exitTimer,
                       threads, records, countVars, cut>>

(* The face registration button starts the system's camera. *)
HandleCamera ==
    /\ Handles(<<"camera">>)
    /\ mainQueue' = Tail(mainQueue)
    /\ phase' = IF phase = "front" THEN "camera" ELSE phase
    /\ UNCHANGED <<result, userId, sessionUser, timerVars, doorVars, exitTimer,
                   threads, records, countVars, cut>>

(* onDestroy cancels hasManTask. *)
HandleDestroy ==
    /\ Handles(<<"destroy">>)
    /\ mainQueue' = Tail(mainQueue)
    /\ phase' = "destroyed"
    /\ hasManTask' = IF hasManTask = "test" THEN "lastTest" ELSE
                     IF hasManTask = "wait" THEN "cancelled" ELSE hasManTask
    /\ UNCHANGED <<result, userId, sessionUser, idle, hasManIsRun, doorVars,
                   exitTimer, threads, records, countVars, cut>>

(* onStop, once the camera hides the activity. *)
OnStop ==
    /\ phase = "camera" /\ hasManIsRun
    /\ hasManIsRun' = FALSE
    /\ UNCHANGED <<sessionVars, userId, idle, hasManTask, mainQueue, doorVars,
                   exitTimer, threads, records, countVars, cut>>

(* onRestart, then onActivityResult: the doors are closed without records  *)
(* (closeOpenDoor) and the activity ends with the path of the picture.     *)
CameraReturns ==
    /\ phase = "camera"
    /\ idle' = "near" /\ hasManIsRun' = TRUE
    /\ threads' = Append(threads, NewThread("close"))
    /\ Finish(mainQueue, "register", DOMAIN threads)
    /\ UNCHANGED <<userId, sessionUser, hasManTask, doorVars, exitTimer,
                   records, countVars>>

(* Variant of RunOpen: the posted runnables are not counted. *)
RunOpenAnyTime ==
    \E d \in Door :
        /\ Alive /\ opening[d] >= 0
        /\ opening' = [opening EXCEPT ![d] = @ - 1]
        /\ ordered' = [ordered EXCEPT
                ![d] = IF @ \in {"none", "open"} THEN "open" ELSE "reopen"]
        /\ UNCHANGED <<sessionVars, userId, timerVars, mainQueue, needClose,
                       exitTimer, threads, records, countVars, cut>>

(* The delay of an openDoor is over. *)
RunOpen ==
    \E d \in Door :
        /\ Alive /\ opening[d] > 0
        /\ opening' = [opening EXCEPT ![d] = @ - 1]
        /\ ordered' = [ordered EXCEPT
                ![d] = IF @ \in {"none", "open"} THEN "open" ELSE "reopen"]
        /\ UNCHANGED <<sessionVars, userId, timerVars, mainQueue, needClose,
                       exitTimer, threads, records, countVars, cut>>

(* More than 9 s per bin since the exit dialog came up: longer than the    *)
(* delay of an openDoor, than a thread takes to start or to make a record; *)
(* only the close order can wait so long, for the monitor of the serial    *)
(* port that a write holds.                                                *)
SettleTimeout ==
    /\ Alive /\ exitTimer
    /\ NoDelay
    /\ \A i \in DOMAIN threads : threads[i].pc \notin {"start", "record"}
    /\ exitTimer' = FALSE
    /\ Finish(mainQueue, "exit", DOMAIN threads)
    /\ UNCHANGED <<userId, sessionUser, timerVars, doorVars, threads, records,
                   countVars>>

----------------------------------------------------------------------------
(* The settlement and closing threads iterate over needCloseDustbin, which *)
(* the main thread may extend meanwhile.                                   *)

ThreadStart(i) ==
    /\ Alive /\ threads[i].pc = "start"
    /\ threads' = [threads EXCEPT ![i].pc = "next", ![i].size = Len(needClose)]
    /\ UNCHANGED <<sessionVars, userId, timerVars, mainQueue, doorVars,
                   exitTimer, records, countVars, cut>>

(* Variant of ThreadNext: closeOpenDoor adds records, too. *)
ThreadNextRecords(i) ==
    /\ Alive /\ threads[i].pc = "next"
    /\ threads[i].cursor < Len(needClose)
    /\ threads[i].size = Len(needClose)
    /\ ordered' = [ordered EXCEPT ![needClose[threads[i].cursor + 1]] = "close"]
    /\ threads' = [threads EXCEPT ![i].cursor = @ + 1, ![i].pc = "record"]
    /\ UNCHANGED <<sessionVars, userId, timerVars, mainQueue, opening,
                   needClose, exitTimer, records, countVars, cut>>

(* The next door: its close order goes to the serial queue.  A list that   *)
(* has grown ends the thread with a ConcurrentModificationException.       *)
ThreadNext(i) ==
    /\ Alive /\ threads[i].pc = "next"
    /\ threads[i].cursor < Len(needClose)
    /\ IF threads[i].size = Len(needClose)
       THEN /\ ordered' = [ordered EXCEPT ![needClose[threads[i].cursor + 1]] = "close"]
            /\ threads' = [threads EXCEPT
                  ![i].cursor = @ + 1,
                  ![i].pc = IF threads[i].kind = "settle" THEN "record" ELSE "next"]
       ELSE /\ threads' = [threads EXCEPT ![i].pc = "dead"]
            /\ UNCHANGED ordered
    /\ UNCHANGED <<sessionVars, userId, timerVars, mainQueue, opening,
                   needClose, exitTimer, records, countVars, cut>>

(* addRecord charges DustbinBrainApp.userId, as it is by now. *)
ThreadRecord(i) ==
    /\ Alive /\ threads[i].pc = "record"
    /\ records' = Append(records, [door |-> needClose[threads[i].cursor],
                                   user |-> userId])
    /\ threads' = [threads EXCEPT ![i].pc = "next"]
    /\ UNCHANGED <<sessionVars, userId, timerVars, mainQueue, doorVars,
                   exitTimer, countVars, cut>>

(* Variant of ThreadEnd: exitEnd comes before the last record. *)
ThreadEndEarly(i) ==
    /\ Alive /\ threads[i].pc \in {"next", "record"}
    /\ threads[i].cursor >= threads[i].size
    /\ threads' = [threads EXCEPT ![i].pc = IF @ = "next" THEN "done" ELSE @]
    /\ IF threads[i].kind = "settle"
       THEN Finish(mainQueue, "exit", DOMAIN threads \ {i})
       ELSE UNCHANGED <<phase, result, mainQueue, cut>>
    /\ UNCHANGED <<userId, sessionUser, timerVars, doorVars, exitTimer,
                   records, countVars>>

(* Variant of ThreadEnd: the last door is forgotten. *)
ThreadEndOneShort(i) ==
    /\ Alive /\ threads[i].pc = "next"
    /\ threads[i].cursor >= threads[i].size - 1
    /\ threads' = [threads EXCEPT ![i].pc = "done"]
    /\ IF threads[i].kind = "settle"
       THEN Finish(mainQueue, "exit", DOMAIN threads \ {i})
       ELSE UNCHANGED <<phase, result, mainQueue, cut>>
    /\ UNCHANGED <<userId, sessionUser, timerVars, doorVars, exitTimer,
                   records, countVars>>

(* All the doors that were listed at the start are done (an iterator that  *)
(* compares with the size of the start, as Android's does, ends here even  *)
(* if the list has grown).  A settlement ends with exitEnd(1).             *)
ThreadEnd(i) ==
    /\ Alive /\ threads[i].pc = "next"
    /\ threads[i].cursor = threads[i].size
    /\ threads' = [threads EXCEPT ![i].pc = "done"]
    /\ IF threads[i].kind = "settle"
       THEN Finish(mainQueue, "exit", DOMAIN threads \ {i})
       ELSE UNCHANGED <<phase, result, mainQueue, cut>>
    /\ UNCHANGED <<userId, sessionUser, timerVars, doorVars, exitTimer,
                   records, countVars>>

----------------------------------------------------------------------------
Main    == HandleCheck \/ HandleExit \/ HandleItem \/ HandleCamera \/ HandleDestroy
Timer   == TickPost \/ TickTest
Threads == \E i \in DOMAIN threads :
              ThreadStart(i) \/ ThreadNext(i) \/ ThreadRecord(i) \/ ThreadEnd(i)

Next == \/ TouchAny \/ ProximitySeen \/ Login
        \/ ControlResult
        \/ Pass \/ Timer
        \/ Main \/ OnStop \/ CameraReturns \/ RunOpen \/ SettleTimeout
        \/ Threads

Spec == Init /\ [][Next]_vars

(* The clock, both timers and the main thread go on, and so do the threads *)
(* except for the close order: ThreadNext may be held up at the serial     *)
(* port for ever.  The camera activity need not return.                    *)
FairSpec == /\ Spec
            /\ WF_vars(Pass) /\ WF_vars(Timer)
            /\ WF_vars(Main) /\ WF_vars(RunOpen) /\ WF_vars(SettleTimeout)
            /\ WF_vars(\E i \in DOMAIN threads : ThreadStart(i))
            /\ WF_vars(\E i \in DOMAIN threads : ThreadRecord(i))

----------------------------------------------------------------------------
Covered(i) == {needClose[j] : j \in 1..threads[i].cursor}
Recorded(d) == {n \in DOMAIN records : records[n].door = d}

(* What each variable holds. *)
TypeOK ==
    /\ phase \in {"front", "camera", "finished", "destroyed", "exited"}
    /\ result \in {"none", "exit", "register", "delivered"}
    /\ userId \in User \cup {0} /\ sessionUser \in User
    /\ idle \in {"near", "due", "over"} /\ hasManIsRun \in BOOLEAN
    /\ hasManTask \in {"wait", "test", "lastTest", "cancelled"}
    /\ mainQueue \in Seq(Message)
    /\ opening \in [Door -> Nat]
    /\ ordered \in [Door -> {"none", "open", "close", "reopen"}]
    /\ needClose \in Seq(Door)
    /\ exitTimer \in BOOLEAN
    /\ threads \in Seq(Thread) /\ records \in Seq(Record)
    /\ touches \in 0..MaxTouches /\ logins \in 0..MaxLogins
    /\ exitTaps \in Nat /\ autoExits \in Nat /\ cut \in BOOLEAN

(* A door is listed in needCloseDustbin before it is told to open, and     *)
(* listed once, however often its picture is tapped and while settlements  *)
(* are reading the list: so a settlement knows every door it has to close. *)
ListCoversOpenDoors ==
    /\ \A d \in Door : opening[d] > 0 \/ ordered[d] # "none" => d \in Opened
    /\ \A i, j \in DOMAIN needClose : needClose[i] = needClose[j] => i = j

(* The hasMan timer ticks every second while the main thread may be slow   *)
(* to settle, and still it asks for one settlement at most; a second one   *)
(* at the same time needs a tap on the exit button.                        *)
HasManSettlesOnce ==
    /\ autoExits <= 1
    /\ Cardinality({i \in DOMAIN threads : threads[i].kind = "settle"})
          <= 1 + exitTaps

(* No door is charged twice by one settlement, and none is charged that    *)
(* the settlement has not ordered to close: a door has at most as many     *)
(* records as settlements have passed it.                                  *)
RecordsNeedSettlements ==
    \A d \in Door :
        Cardinality(Recorded(d)) <=
            Cardinality({i \in DOMAIN threads :
                            threads[i].kind = "settle" /\ d \in Covered(i)})

(* exitEnd comes after the last record, so a settlement that is neither    *)
(* overtaken by a timeout, by hasMan or by another settlement nor started  *)
(* after the end does not charge a delivery to nobody (userId 0), although *)
(* MainActivity logs the user out as soon as it has the result.            *)
NobodyPaysOnlyIfCut ==
    (\E n \in DOMAIN records : records[n].user = 0) => cut

(* A thread closes every door it comes to, and comes to every door it      *)
(* found listed unless a tap has listed a further one meanwhile, which     *)
(* kills it: a door that is open behind a thread was opened by a delayed   *)
(* openDoor that ran after the close, and one before a dead thread is the  *)
(* doing of a tap during the settlement.                                   *)
SettledDoorsAreClosed ==
    \A i \in DOMAIN threads :
        /\ \A j \in 1..threads[i].cursor : ordered[needClose[j]] \in {"close", "reopen"}
        /\ threads[i].pc = "done" => threads[i].cursor = threads[i].size
        /\ threads[i].pc = "dead" => threads[i].size < Len(needClose)

(* When nobody touches the screen, hasMan settles so late that no delayed  *)
(* openDoor comes after the close, and the list does not grow: the thread  *)
(* does not die, and when it has come to its end all doors are closed.     *)
UntouchedSessionClosesDoors ==
    touches = 0 =>
        \A i \in DOMAIN threads :
            /\ threads[i].pc # "dead"
            /\ threads[i].pc = "done" => \A d \in Door : ordered[d] \in {"none", "close"}

(* A session ends once people stop touching the screen and leave the bin:  *)
(* through the settlement or its timeout, or through the minute of hasMan  *)
(* even while the camera is in front, and even if a settlement thread has  *)
(* died or hangs.                                                          *)
EverySessionEnds == Open ~> ~Open

(* ControlActivity.kt:675 and :694, a record of the user's delivery with   *)
(* the id of the user: it is charged to the user the session was opened    *)
(* for and who is welcomed on its screen.                                  *)
RecordBelongsToSessionUser ==
    [][\A n \in DOMAIN records' \ DOMAIN records :
          records'[n].user = sessionUser]_vars

(* ControlActivity.kt:504, exit code 1 "will close all doors": when        *)
(* MainActivity has been given it, no door has been left open.             *)
ExitClosesAllDoors ==
    [][result = "exit" /\ result' = "delivered" =>
          \A d \in Door : ordered'[d] \in {"none", "close"}]_vars
=============================================================================
