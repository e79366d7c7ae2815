---------------------------- MODULE SerialQueue ----------------------------
(***************************************************************************)
(* The command queue of the serial port to the bin controllers:            *)
(* SerialPortService.java.  Three kinds of thread share sendDataList:      *)
(*                                                                         *)
(*   - the callers of insertSendQueue (UI, settlement and polling threads),*)
(*     which hold the monitor of the service while they insert;            *)
(*   - sendQueueThread, which transmits the head, repeats it every 500 ms  *)
(*     and removes it when its local counter index passes 3;               *)
(*   - the receive thread, which removes the head when a frame with the    *)
(*     same address and function arrives, and then sets isReceive.         *)
(*                                                                         *)
(* Neither thread takes the monitor to look at the list, so each read and  *)
(* each write of a shared variable is a step of its own here.  One list    *)
(* operation is one step (the tearing inside ArrayList is not modelled).   *)
(* A frame is what the code compares of it: an address and a function.     *)
(***************************************************************************)
EXTENDS Integers, Sequences, FiniteSets

CONSTANTS
    Command,        \* the byte arrays handed to insertSendQueue, one per call
    Address,        \* addresses of the bin controllers (door numbers)
    Function,       \* function codes
    DoorFunction,   \* 0x01, open or close the door
    AddressOf,      \* byte 3 of a command
    FunctionOf,     \* byte 4 of a command
    MaxAnswers      \* bound: frames waiting in the serial input

ASSUME ConstantsAssumption ==
    /\ DoorFunction \in Function
    /\ AddressOf \in [Command -> Address]
    /\ FunctionOf \in [Command -> Function]
    /\ MaxAnswers \in Nat \ {0}

Frame == [address : Address, function : Function]

VARIABLES
    sendDataList,   \* the queue
    isReceive,      \* an answer has been accepted since the last first send
    timedOut,       \* 500 ms have passed since lastSendTime
    sender,         \* control state of sendQueueThread
    index,          \* its local counter
    held,           \* <<c>> when sender has read c and is about to write it
    receiver,       \* control state of the receive thread
    readBytes,      \* <<f>> when receiver has read f and is dealing with it
    answers,        \* frames in the serial input, not read yet
    fate,           \* what has become of each command
    sent,           \* history: transmissions of each command, counted up to 3
    sinceDrop,      \* history: transmissions since the last drop, up to 3
    unanswered,     \* history: transmissions since an answer or a drop
    opened          \* history: first transmissions since an answer

senderVars   == <<sender, index, held, timedOut>>
receiverVars == <<receiver, readBytes>>
history      == <<sent, sinceDrop, unanswered, opened>>
vars == <<sendDataList, isReceive, timedOut, sender, index, held, receiver,
          readBytes, answers, fate, sent, sinceDrop, unanswered, opened>>

SenderStates   == {"size", "route", "first", "resend",
                   "writeFirst", "writeResend", "mark", "drop", "crashed"}
ReceiverStates == {"read", "size", "get", "remove", "flag"}
Fates          == {"new", "queued", "answered", "dropped", "lost"}

IsDoor(c)      == FunctionOf[c] = DoorFunction
FrameOf(c)     == [address |-> AddressOf[c], function |-> FunctionOf[c]]
UpTo3(n)       == IF n < 3 THEN n ELSE 3
Queued         == {c \in Command : \E i \in DOMAIN sendDataList : sendDataList[i] = c}

----------------------------------------------------------------------------
(* The state of a started process. *)
Init ==
    /\ sendDataList = <<>>
    /\ isReceive = TRUE
    /\ timedOut = TRUE              \* lastSendTime = 0
    /\ sender = "size"
    /\ index = 1
    /\ held = <<>>
    /\ receiver = "read"
    /\ readBytes = <<>>
    /\ answers = <<>>
    /\ fate = [c \in Command |-> "new"]
    /\ sent = [c \in Command |-> 0]
    /\ sinceDrop = 0
    /\ unanswered = 0
    /\ opened = 0

(* Variant of Insert: every command goes to the end. *)
InsertAtEnd(c) ==
    /\ fate[c] = "new"
    /\ sendDataList' = Append(sendDataList, c)
    /\ fate' = [fate EXCEPT ![c] = "queued"]
    /\ UNCHANGED <<isReceive, senderVars, receiverVars, answers, history>>

(* insertSendQueue: a door command goes in front of everything queued. *)
Insert(c) ==
    /\ fate[c] = "new"
    /\ sendDataList' = IF IsDoor(c) THEN <<c>> \o sendDataList
                                    ELSE Append(sendDataList, c)
    /\ fate' = [fate EXCEPT ![c] = "queued"]
    /\ UNCHANGED <<isReceive, senderVars, receiverVars, answers, history>>

----------------------------------------------------------------------------
(* sendQueueThread *)

(* System.currentTimeMillis() reaches lastSendTime + 500. *)
Timeout ==
    /\ ~timedOut
    /\ timedOut' = TRUE
    /\ UNCHANGED <<sendDataList, isReceive, sender, index, held, receiverVars,
                   answers, fate, history>>

(* Variant of SenderSize: the size is not tested. *)
SenderSizeUntested ==
    /\ sender = "size"
    /\ sender' = "route"
    /\ UNCHANGED <<sendDataList, isReceive, timedOut, index, held,
                   receiverVars, answers, fate, history>>

SenderSize ==
    /\ sender = "size"
    /\ sendDataList # <<>>
    /\ sender' = "route"
    /\ UNCHANGED <<sendDataList, isReceive, timedOut, index, held,
                   receiverVars, answers, fate, history>>

(* Variant of SenderRoute: the limit is off by one. *)
SenderRouteOneMore ==
    /\ sender = "route"
    /\ \/ index <= 4 /\ isReceive /\ sender' = "first" /\ timedOut' = FALSE
       \/ index <= 4 /\ ~isReceive /\ timedOut /\ sender' = "resend" /\ timedOut' = FALSE
       \/ index <= 4 /\ ~isReceive /\ ~timedOut /\ sender' = "size" /\ UNCHANGED timedOut
       \/ index > 4 /\ sender' = "drop" /\ UNCHANGED timedOut
    /\ UNCHANGED <<sendDataList, isReceive, index, held, receiverVars, answers,
                   fate, history>>

(* Variant of SenderRoute: past the limit the thread only loops. *)
SenderRouteNoDrop ==
    /\ sender = "route"
    /\ \/ index <= 3 /\ isReceive /\ sender' = "first" /\ timedOut' = FALSE
       \/ index <= 3 /\ ~isReceive /\ timedOut /\ sender' = "resend" /\ timedOut' = FALSE
       \/ (index > 3 \/ (~isReceive /\ ~timedOut)) /\ sender' = "size" /\ UNCHANGED timedOut
    /\ UNCHANGED <<sendDataList, isReceive, index, held, receiverVars, answers,
                   fate, history>>

(* The branch the loop takes; lastSendTime is set before the head is read. *)
SenderRoute ==
    /\ sender = "route"
    /\ \/ /\ index <= 3 /\ isReceive
          /\ sender' = "first" /\ timedOut' = FALSE
       \/ /\ index <= 3 /\ ~isReceive /\ timedOut
          /\ sender' = "resend" /\ timedOut' = FALSE
       \/ /\ index <= 3 /\ ~isReceive /\ ~timedOut
          /\ sender' = "size" /\ UNCHANGED timedOut
       \/ /\ index > 3
          /\ sender' = "drop" /\ UNCHANGED timedOut
    /\ UNCHANGED <<sendDataList, isReceive, index, held, receiverVars, answers,
                   fate, history>>

(* Variant of SenderGet: the last element is read. *)
SenderGetLast ==
    /\ sender \in {"first", "resend"}
    /\ IF sendDataList = <<>>
       THEN /\ sender' = "crashed" /\ UNCHANGED held
       ELSE /\ sender' = IF sender = "first" THEN "writeFirst" ELSE "writeResend"
            /\ held' = <<sendDataList[Len(sendDataList)]>>
    /\ UNCHANGED <<sendDataList, isReceive, timedOut, index, receiverVars,
                   answers, fate, history>>

(* sendDataList.get(0); on an empty list its exception ends the thread. *)
SenderGet ==
    /\ sender \in {"first", "resend"}
    /\ IF sendDataList = <<>>
       THEN /\ sender' = "crashed" /\ UNCHANGED held
       ELSE /\ sender' = IF sender = "first" THEN "writeFirst" ELSE "writeResend"
            /\ held' = <<Head(sendDataList)>>
    /\ UNCHANGED <<sendDataList, isReceive, timedOut, index, receiverVars,
                   answers, fate, history>>

(* The bus carries the command; the controller answers it, late or never. *)
Transmit(c) ==
    /\ \/ UNCHANGED answers
       \/ /\ Len(answers) < MaxAnswers
          /\ answers' = Append(answers, FrameOf(c))
    /\ sent' = [sent EXCEPT ![c] = UpTo3(@ + 1)]
    /\ sinceDrop' = UpTo3(sinceDrop + 1)
    /\ unanswered' = unanswered + 1

SenderWriteFirst ==
    /\ sender = "writeFirst"
    /\ Transmit(Head(held))
    /\ held' = <<>>
    /\ opened' = opened + 1
    /\ sender' = "mark"
    /\ UNCHANGED <<sendDataList, isReceive, timedOut, index, receiverVars, fate>>

(* Variant of SenderMark: isReceive stays true. *)
SenderMarkKeepsFlag ==
    /\ sender = "mark"
    /\ index' = 1
    /\ sender' = "size"
    /\ UNCHANGED <<sendDataList, isReceive, timedOut, held, receiverVars,
                   answers, fate, history>>

(* After a first send: index = 1; isReceive = false. *)
SenderMark ==
    /\ sender = "mark"
    /\ index' = 1
    /\ isReceive' = FALSE
    /\ sender' = "size"
    /\ UNCHANGED <<sendDataList, timedOut, held, receiverVars, answers, fate,
                   history>>

(* Variant of SenderWriteResend: index is not incremented. *)
SenderWriteResendUncounted ==
    /\ sender = "writeResend"
    /\ Transmit(Head(held))
    /\ held' = <<>>
    /\ sender' = "size"
    /\ UNCHANGED <<sendDataList, isReceive, timedOut, index, receiverVars,
                   fate, opened>>

SenderWriteResend ==
    /\ sender = "writeResend"
    /\ Transmit(Head(held))
    /\ held' = <<>>
    /\ index' = index + 1
    /\ sender' = "size"
    /\ UNCHANGED <<sendDataList, isReceive, timedOut, receiverVars, fate, opened>>

(* Variant of SenderDrop: index keeps its value. *)
SenderDropKeepsIndex ==
    /\ sender = "drop"
    /\ IF sendDataList = <<>>
       THEN /\ sender' = "crashed"
            /\ UNCHANGED <<sendDataList, fate, sinceDrop, unanswered>>
       ELSE /\ sendDataList' = Tail(sendDataList)
            /\ fate' = [fate EXCEPT ![Head(sendDataList)] = "dropped"]
            /\ sinceDrop' = 0
            /\ unanswered' = 0
            /\ sender' = "size"
    /\ UNCHANGED <<isReceive, timedOut, index, held, receiverVars, answers, sent, opened>>

(* More than three sends without an answer: remove(0), and start over. *)
SenderDrop ==
    /\ sender = "drop"
    /\ IF sendDataList = <<>>
       THEN /\ sender' = "crashed"
            /\ UNCHANGED <<sendDataList, index, fate, sinceDrop, unanswered>>
       ELSE /\ sendDataList' = Tail(sendDataList)
            /\ fate' = [fate EXCEPT ![Head(sendDataList)] = "dropped"]
            /\ index' = 1
            /\ sinceDrop' = 0
            /\ unanswered' = 0
            /\ sender' = "size"
    /\ UNCHANGED <<isReceive, timedOut, held, receiverVars, answers, sent, opened>>

(* Nothing replaces a dead sendQueueThread: the Toast of CrashHandler needs *)
(* a Looper, which that thread has not got, so its System.exit is not      *)
(* reached there.  The next call of SerialPortUtil.getInstance finds the   *)
(* thread not alive and start() of a terminated thread throws: on the main *)
(* thread CrashHandler then ends the process, on any other thread it ends  *)
(* that caller before it inserts anything.  (A caller already past that    *)
(* call can still Insert.)  The queue is in memory only; the next process  *)
(* starts with an empty one.                                               *)
ProcessExit ==
    /\ sender = "crashed"
    /\ sendDataList' = <<>>
    /\ fate' = [c \in Command |-> IF fate[c] = "queued" THEN "lost" ELSE fate[c]]
    /\ isReceive' = TRUE
    /\ timedOut' = TRUE
    /\ sender' = "size"
    /\ index' = 1
    /\ receiver' = "read"
    /\ answers' = <<>>
    /\ readBytes' = <<>>
    /\ sinceDrop' = 0
    /\ unanswered' = 0
    /\ opened' = 0
    /\ UNCHANGED <<held, sent>>

----------------------------------------------------------------------------
(* The receive thread *)

(* inputStream.read takes every frame that has arrived; only the bytes of  *)
(* the first one are compared.                                             *)
ReceiverRead ==
    /\ receiver = "read"
    /\ \E n \in 1..Len(answers) :
          /\ readBytes' = <<Head(answers)>>
          /\ answers' = SubSeq(answers, n + 1, Len(answers))
    /\ receiver' = "size"
    /\ UNCHANGED <<sendDataList, isReceive, senderVars, fate, history>>

(* The listener has the frame (it does not touch the queue), or an         *)
(* exception has discarded it; the thread goes back to reading.            *)
ReceiverDone == receiver' = "read" /\ readBytes' = <<>>

(* With nothing queued the frame only goes to the listener. *)
ReceiverSize ==
    /\ receiver = "size"
    /\ IF sendDataList = <<>> THEN ReceiverDone
                              ELSE receiver' = "get" /\ UNCHANGED readBytes
    /\ UNCHANGED <<sendDataList, isReceive, senderVars, answers, fate, history>>

(* Variant of ReceiverGet: only the address is compared. *)
ReceiverGetAddress ==
    /\ receiver = "get"
    /\ IF sendDataList # <<>> /\ AddressOf[Head(sendDataList)] = Head(readBytes).address
       THEN receiver' = "remove" /\ UNCHANGED readBytes
       ELSE ReceiverDone
    /\ UNCHANGED <<sendDataList, isReceive, senderVars, answers, fate, history>>

(* get(0) and the comparison; the exception on an empty list is caught. *)
ReceiverGet ==
    /\ receiver = "get"
    /\ IF sendDataList # <<>> /\ FrameOf(Head(sendDataList)) = Head(readBytes)
       THEN receiver' = "remove" /\ UNCHANGED readBytes
       ELSE ReceiverDone
    /\ UNCHANGED <<sendDataList, isReceive, senderVars, answers, fate, history>>

(* Variant of ReceiverRemove: the last element is removed, not the first. *)
ReceiverRemoveLast ==
    /\ receiver = "remove"
    /\ IF sendDataList = <<>>
       THEN ReceiverDone /\ UNCHANGED <<sendDataList, fate>>
       ELSE /\ receiver' = "flag" /\ UNCHANGED readBytes
            /\ sendDataList' = SubSeq(sendDataList, 1, Len(sendDataList) - 1)
            /\ fate' = [fate EXCEPT ![Head(sendDataList)] = "answered"]
    /\ UNCHANGED <<isReceive, senderVars, answers, history>>

(* remove(0), whatever the head is by now; again its exception is caught. *)
ReceiverRemove ==
    /\ receiver = "remove"
    /\ IF sendDataList = <<>>
       THEN ReceiverDone /\ UNCHANGED <<sendDataList, fate>>
       ELSE /\ receiver' = "flag" /\ UNCHANGED readBytes
            /\ sendDataList' = Tail(sendDataList)
            /\ fate' = [fate EXCEPT ![Head(sendDataList)] = "answered"]
    /\ UNCHANGED <<isReceive, senderVars, answers, history>>

(* isReceive = true, then the listener. *)
ReceiverFlag ==
    /\ receiver = "flag"
    /\ isReceive' = TRUE
    /\ unanswered' = 0
    /\ opened' = 0
    /\ ReceiverDone
    /\ UNCHANGED <<sendDataList, senderVars, answers, fate, sent, sinceDrop>>

----------------------------------------------------------------------------
Sender == \/ SenderSize \/ SenderRoute \/ SenderGet
          \/ SenderWriteFirst \/ SenderMark \/ SenderWriteResend \/ SenderDrop

(* The steps the receive thread takes on its own once it has a frame. *)
Receiver == ReceiverSize \/ ReceiverGet \/ ReceiverRemove \/ ReceiverFlag

Next == \/ \E c \in Command : Insert(c)
        \/ Timeout
        \/ Sender
        \/ ProcessExit
        \/ ReceiverRead
        \/ Receiver

Spec == Init /\ [][Next]_vars

(* The threads run and the clock advances; nobody has to insert a command, *)
(* no controller has to answer one, and nobody has to touch the screen, so *)
(* a dead sender may stay dead.                                            *)
FairSpec == /\ Spec
            /\ WF_vars(Sender)
            /\ WF_vars(Timeout)
            /\ WF_vars(Receiver)
            /\ WF_vars(ReceiverRead)

----------------------------------------------------------------------------
(* What each variable holds. *)
TypeOK ==
    /\ sendDataList \in Seq(Command)
    /\ isReceive \in BOOLEAN /\ timedOut \in BOOLEAN
    /\ sender \in SenderStates /\ index \in 1..4
    /\ held \in Seq(Command) /\ Len(held) <= 1
    /\ receiver \in ReceiverStates
    /\ readBytes \in Seq(Frame) /\ Len(readBytes) <= 1
    /\ answers \in Seq(Frame) /\ Len(answers) <= MaxAnswers
    /\ fate \in [Command -> Fates]
    /\ sent \in [Command -> 0..3] /\ sinceDrop \in 0..3
    /\ unanswered \in Nat /\ opened \in Nat

(* The list and the callers' view of it agree, whatever the threads do to   *)
(* it: it holds exactly the commands that were inserted and have not left,  *)
(* each of them once.                                                       *)
QueueIsLedger ==
    /\ Queued = {c \in Command : fate[c] = "queued"}
    /\ \A i, j \in DOMAIN sendDataList :
          sendDataList[i] = sendDataList[j] => i = j

(* insertSendQueue puts every waiting door command before every other one, *)
(* and no removal by either thread undoes that.                            *)
DoorsFirst ==
    \A i, j \in DOMAIN sendDataList :
        i < j /\ IsDoor(sendDataList[j]) => IsDoor(sendDataList[i])

(* index is not reset when a command is inserted in front of the one being  *)
(* retried, when the receiver removes a command, or when isReceive is set   *)
(* behind the sender's back; still sendQueueThread never gives a command up *)
(* without three transmissions (of whichever commands) since the last drop. *)
ThreeSendsBetweenDrops == sender = "drop" => sinceDrop = 3

(* The bus is not flooded: between an accepted answer and a drop there are *)
(* at most five transmissions, the first send, its three repetitions and   *)
(* the one under way when the receive thread set isReceive.                *)
RetryBound == unanswered <= 5

(* A first send needs an accepted answer to the one before it, even though  *)
(* the sender clears isReceive only after its write, when the answer may    *)
(* already have been accepted.                                              *)
OneOpenExchange == opened <= 1

(* sendQueueThread is ended by the exception of get(0) or remove(0) only   *)
(* when the receive thread has taken a command from under it: a silent bus *)
(* never crashes it.                                                       *)
CrashNeedsAnswer ==
    sender = "crashed" => \E c \in Command : fate[c] = "answered"

(* The receive thread retires a command that was never sent only for the   *)
(* answer to one that was: to its twin, as open and close of a door look   *)
(* alike, or, as it compares the head and removes the head in two steps,   *)
(* to a command that a door has been put in front of, or that the sender   *)
(* has given up, in between.                                              *)
UnsentOnlyByMistake ==
    [][\A c \in Command :
          fate[c] = "queued" /\ fate'[c] = "answered" /\ sent[c] = 0 =>
             \E d \in Command :
                /\ sent[d] > 0 /\ FrameOf(d) = Head(readBytes)
                /\ \/ FrameOf(c) = FrameOf(d)
                   \/ IsDoor(c)
                   \/ \E e \in Command : fate[e] = "dropped" /\ FrameOf(e) = FrameOf(d)]_vars

(* As long as sendQueueThread lives every inserted command leaves the      *)
(* queue, answered or given up after a silent controller, however often    *)
(* door commands are put in front of it and index or isReceive change      *)
(* under it.                                                               *)
EveryCommandLeaves ==
    \A c \in Command :
        fate[c] = "queued" ~> fate[c] # "queued" \/ sender = "crashed"

(* The waiting door commands; by DoorsFirst they are the first ones of the *)
(* list, so this is also where the lane of the others begins.              *)
DoorCount == Cardinality({i \in DOMAIN sendDataList : IsDoor(sendDataList[i])})

(* The queue implements the two lanes of CommandLanes: whatever the threads *)
(* do to the list and to each other's flags, the bus is given the front of *)
(* the lanes, and a command leaves once, from the front.                   *)
Lanes == INSTANCE CommandLanes WITH
            Door   <- {c \in Command : IsDoor(c)},
            doors  <- SubSeq(sendDataList, 1, DoorCount),
            others <- SubSeq(sendDataList, DoorCount + 1, Len(sendDataList)),
            onBus  <- held

ImplementsLanes == Lanes!Spec

(* SerialPortService.java:238, "removed after more than three times without *)
(* an answer": a command the sender gives up has been sent three times.     *)
DropOnlyAfterThreeSends ==
    [][\A c \in Command :
          fate[c] = "queued" /\ fate'[c] = "dropped" => sent[c] = 3]_vars

(* SerialPortService.java:224, "is there data to send": the branch that    *)
(* reads or removes the head runs only while there is a head.              *)
SenderHasData ==
    sender \in {"first", "resend", "drop"} => sendDataList # <<>>
=============================================================================
