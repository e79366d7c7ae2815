------------------------- MODULE SerialQueueProofs -------------------------
(***************************************************************************)
(* Proofs about SerialQueue for every set of commands, every assignment of *)
(* addresses and functions, and every bound on the serial input.           *)
(***************************************************************************)
EXTENDS SerialQueue, SequenceTheorems, TLAPS

(* A command put in front of a queue, as insertSendQueue does for a door. *)
LEMMA ConsProperties ==
    ASSUME NEW S, NEW s \in Seq(S), NEW e \in S
    PROVE  /\ <<e>> \o s \in Seq(S)
           /\ Len(<<e>> \o s) = Len(s) + 1
           /\ (<<e>> \o s)[1] = e
           /\ \A i \in 2..Len(s) + 1 : (<<e>> \o s)[i] = s[i - 1]
<1>1. <<e>> \in Seq(S) /\ Len(<<e>>) = 1 /\ <<e>>[1] = e
  OBVIOUS
<1>2. QED
  BY <1>1, ConcatProperties

(* A queue without its head, as both threads' remove(0) leaves it. *)
LEMMA TailProperties ==
    ASSUME NEW S, NEW s \in Seq(S), s # <<>>
    PROVE  /\ Head(s) \in S /\ Head(s) = s[1]
           /\ Tail(s) \in Seq(S) /\ Len(Tail(s)) = Len(s) - 1
           /\ \A i \in 1..Len(s) - 1 : Tail(s)[i] = s[i + 1]
           /\ Len(s) \in Nat \ {0}
  BY HeadTailProperties, EmptySeq

(* One command or frame at hand. *)
LEMMA SingletonProperties ==
    ASSUME NEW S, NEW e \in S
    PROVE  <<e>> \in Seq(S) /\ Len(<<e>>) = 1 /\ Head(<<e>>) = e
  OBVIOUS

----------------------------------------------------------------------------
(* What the control states of the two threads imply about their locals:    *)
(* index is at most 3 on the way to a transmission and 4 at a drop, and a  *)
(* command or a frame is at hand where the code uses one.                  *)
ControlInv ==
    /\ sender \in {"first", "resend", "writeFirst", "writeResend"} => index <= 3
    /\ sender = "drop" => index = 4
    /\ sender \in {"writeFirst", "writeResend"} <=> Len(held) = 1
    /\ receiver # "read" => Len(readBytes) = 1

TypeInv == TypeOK /\ ControlInv

LEMMA InitTypeInv == Init => TypeInv
  BY ConstantsAssumption DEF Init, TypeInv, TypeOK, ControlInv, SenderStates,
     ReceiverStates, Fates

LEMMA NextTypeInv == TypeInv /\ [Next]_vars => TypeInv'
<1> SUFFICES ASSUME TypeInv, [Next]_vars PROVE TypeInv'
  OBVIOUS
<1> USE ConstantsAssumption
    DEF TypeInv, TypeOK, ControlInv, SenderStates, ReceiverStates, Fates
<1>0. CASE UNCHANGED vars
  BY <1>0 DEF vars
<1>1. ASSUME NEW c \in Command, Insert(c) PROVE TypeInv'
  <2>1. sendDataList' \in Seq(Command)
    BY <1>1, ConsProperties, AppendProperties DEF Insert
  <2>2. QED
    BY <1>1, <2>1 DEF Insert, senderVars, receiverVars, history
<1>2. CASE Timeout
  BY <1>2 DEF Timeout, receiverVars, history
<1>3. CASE SenderSize
  BY <1>3 DEF SenderSize, receiverVars, history
<1>4. CASE SenderRoute
  <2>1. timedOut' \in BOOLEAN
    BY <1>4 DEF SenderRoute
  <2>2. /\ sender' \in {"first", "resend", "size", "drop"}
        /\ sender' \in {"first", "resend"} => index <= 3
        /\ sender' = "drop" => index > 3
    BY <1>4 DEF SenderRoute
  <2>3. Len(held) # 1 /\ index \in 1..4
    BY <1>4 DEF SenderRoute
  <2>4. QED
    BY <1>4, <2>1, <2>2, <2>3 DEF SenderRoute, receiverVars, history
<1>5. CASE SenderGet
  <2>1. CASE sendDataList = <<>>
    BY <1>5, <2>1 DEF SenderGet, receiverVars, history
  <2>2. CASE sendDataList # <<>>
    <3>1. held' = <<Head(sendDataList)>> /\ Head(sendDataList) \in Command
      BY <1>5, <2>2, TailProperties DEF SenderGet
    <3>2. held' \in Seq(Command) /\ Len(held') = 1
      BY <3>1, SingletonProperties
    <3>3. sender' \in {"writeFirst", "writeResend"} /\ index <= 3
      BY <1>5, <2>2 DEF SenderGet
    <3>4. QED
      BY <1>5, <3>2, <3>3 DEF SenderGet, receiverVars, history
  <2>3. QED
    BY <2>1, <2>2
<1>6. ASSUME sender \in {"writeFirst", "writeResend"}, Transmit(Head(held))
      PROVE  /\ answers' \in Seq(Frame) /\ Len(answers') <= MaxAnswers
             /\ sent' \in [Command -> 0..3] /\ sinceDrop' \in 0..3
             /\ unanswered' \in Nat
  <2>1. Head(held) \in Command
    BY <1>6, HeadTailProperties
  <2>2. FrameOf(Head(held)) \in Frame
    BY <2>1 DEF FrameOf, Frame
  <2>3. answers' \in Seq(Frame) /\ Len(answers') <= MaxAnswers
    <3>1. CASE UNCHANGED answers
      BY <3>1
    <3>2. CASE Len(answers) < MaxAnswers /\ answers' = Append(answers, FrameOf(Head(held)))
      BY <3>2, <2>2, AppendProperties
    <3>3. QED
      BY <1>6, <3>1, <3>2 DEF Transmit
  <2>4. sent' = [sent EXCEPT ![Head(held)] = UpTo3(@ + 1)]
    BY <1>6 DEF Transmit
  <2>5. sent' \in [Command -> 0..3]
    <3>1. sent[Head(held)] \in 0..3
      BY <2>1
    <3>2. UpTo3(sent[Head(held)] + 1) \in 0..3
      BY <3>1 DEF UpTo3
    <3>3. QED
      BY <2>4, <3>2
  <2>6. sinceDrop' \in 0..3 /\ unanswered' \in Nat
    BY <1>6 DEF Transmit, UpTo3
  <2>7. QED
    BY <2>3, <2>5, <2>6
<1>7. CASE SenderWriteFirst
  BY <1>6, <1>7 DEF SenderWriteFirst, receiverVars
<1>8. CASE SenderMark
  <2>1. isReceive' \in BOOLEAN
    BY <1>8 DEF SenderMark
  <2>2. index' \in 1..4 /\ index' <= 3 /\ sender' = "size" /\ Len(held) # 1
    BY <1>8 DEF SenderMark
  <2>3. QED
    BY <1>8, <2>1, <2>2 DEF SenderMark, receiverVars, history
<1>9. CASE SenderWriteResend
  BY <1>6, <1>9 DEF SenderWriteResend, receiverVars
<1>10. CASE SenderDrop
  <2>1. CASE sendDataList = <<>>
    BY <1>10, <2>1 DEF SenderDrop, receiverVars
  <2>2. CASE sendDataList # <<>>
    <3>0. Tail(sendDataList) \in Seq(Command) /\ Head(sendDataList) \in Command
      BY <2>2, TailProperties
    <3>1. sendDataList' \in Seq(Command) /\ Head(sendDataList) \in Command
      BY <1>10, <2>2, <3>0 DEF SenderDrop
    <3>2. fate' \in [Command -> Fates]
      BY <1>10, <2>2, <3>1 DEF SenderDrop
    <3>3. QED
      BY <1>10, <2>2, <3>1, <3>2 DEF SenderDrop, receiverVars
  <2>3. QED
    BY <2>1, <2>2
<1>11. CASE ProcessExit
  BY <1>11 DEF ProcessExit
<1>12. CASE ReceiverRead
  <2>1. PICK n \in 1..Len(answers) :
           /\ readBytes' = <<Head(answers)>>
           /\ answers' = SubSeq(answers, n + 1, Len(answers))
    BY <1>12 DEF ReceiverRead
  <2>2. readBytes' \in Seq(Frame) /\ Len(readBytes') = 1
    BY <2>1, HeadTailProperties
  <2>3. answers' \in Seq(Frame) /\ Len(answers') <= MaxAnswers
    BY <2>1, SubSeqProperties, ElementOfSeq
  <2>4. QED
    BY <1>12, <2>2, <2>3 DEF ReceiverRead, senderVars, history
<1>13. CASE ReceiverSize
  BY <1>13 DEF ReceiverSize, ReceiverDone, senderVars, history
<1>14. CASE ReceiverGet
  <2>1. /\ readBytes' \in Seq(Frame) /\ Len(readBytes') <= 1
        /\ receiver' \in ReceiverStates
        /\ receiver' # "read" => Len(readBytes') = 1
    <3>1. CASE receiver' = "remove" /\ UNCHANGED readBytes
      BY <1>14, <3>1 DEF ReceiverGet
    <3>2. CASE receiver' = "read" /\ readBytes' = <<>>
      BY <1>14, <3>2
    <3>3. QED
      BY <1>14, <3>1, <3>2 DEF ReceiverGet, ReceiverDone
  <2>2. QED
    BY <1>14, <2>1 DEF ReceiverGet, senderVars, history
<1>15. CASE ReceiverRemove
  <2>1. CASE sendDataList = <<>>
    BY <1>15, <2>1 DEF ReceiverRemove, ReceiverDone, senderVars, history
  <2>2. CASE sendDataList # <<>>
    <3>0. Tail(sendDataList) \in Seq(Command) /\ Head(sendDataList) \in Command
      BY <2>2, TailProperties
    <3>1. sendDataList' \in Seq(Command) /\ Head(sendDataList) \in Command
      BY <1>15, <2>2, <3>0 DEF ReceiverRemove
    <3>2. fate' \in [Command -> Fates]
      BY <1>15, <2>2, <3>1 DEF ReceiverRemove
    <3>3. QED
      BY <1>15, <2>2, <3>1, <3>2 DEF ReceiverRemove, senderVars, history
  <2>3. QED
    BY <2>1, <2>2
<1>16. CASE ReceiverFlag
  BY <1>16 DEF ReceiverFlag, ReceiverDone, senderVars, history
<1>17. QED
  BY <1>0, <1>1, <1>2, <1>3, <1>4, <1>5, <1>7, <1>8, <1>9, <1>10, <1>11,
     <1>12, <1>13, <1>14, <1>15, <1>16 DEF Next, Sender, Receiver

(* Every variable keeps its type. *)
THEOREM TypeCorrect == Spec => []TypeOK
<1>1. TypeInv => TypeOK
  BY DEF TypeInv
<1>2. QED
  BY InitTypeInv, NextTypeInv, <1>1, PTL DEF Spec

----------------------------------------------------------------------------
(* Transmissions since the last drop pay for every increment of index, for *)
(* no other step raises index.                                             *)
CountInv == index <= sinceDrop + 1

LEMMA NextCountInv == TypeInv /\ CountInv /\ [Next]_vars => CountInv'
<1> SUFFICES ASSUME TypeInv, CountInv, [Next]_vars PROVE CountInv'
  OBVIOUS
<1> USE DEF CountInv
<1>0. index \in 1..4 /\ sinceDrop \in 0..3
  BY DEF TypeInv, TypeOK
<1>1. CASE UNCHANGED <<index, sinceDrop>>
  BY <1>1
<1>2. CASE SenderWriteFirst
  BY <1>0, <1>2 DEF SenderWriteFirst, Transmit, UpTo3
<1>3. CASE SenderMark
  BY <1>0, <1>3 DEF SenderMark, history
<1>4. CASE SenderWriteResend
  <2>1. index <= 3
    BY <1>4 DEF TypeInv, ControlInv, SenderWriteResend
  <2>2. QED
    BY <1>0, <1>4, <2>1 DEF SenderWriteResend, Transmit, UpTo3
<1>5. CASE SenderDrop
  BY <1>0, <1>5 DEF SenderDrop
<1>6. CASE ProcessExit
  BY <1>0, <1>6 DEF ProcessExit
<1>7. QED
  BY <1>1, <1>2, <1>3, <1>4, <1>5, <1>6 DEF Next, Sender, Receiver, Insert,
     Timeout, SenderSize, SenderRoute, SenderGet, ReceiverRead, ReceiverSize,
     ReceiverGet, ReceiverRemove, ReceiverFlag, senderVars, history, vars

(* The sender gives a command up only after three transmissions since it   *)
(* last gave one up.                                                       *)
THEOREM DropsAreEarned == Spec => []ThreeSendsBetweenDrops
<1>1. Init => CountInv
  BY DEF Init, CountInv
<1>2. TypeInv /\ CountInv => ThreeSendsBetweenDrops
  BY DEF TypeInv, TypeOK, ControlInv, CountInv, ThreeSendsBetweenDrops
<1>3. QED
  BY InitTypeInv, NextTypeInv, NextCountInv, <1>1, <1>2, PTL DEF Spec

----------------------------------------------------------------------------
(* How isReceive, the sender's control state and the transmissions since   *)
(* the last accepted answer hang together.  While isReceive is false the   *)
(* sender is not on the way of a first send and index counts the           *)
(* repetitions; while it is true at most one repetition that was already   *)
(* under way, and one first send, can have followed the answer.            *)
FlagInv ==
    /\ ~isReceive => /\ sender \notin {"first", "writeFirst", "mark"}
                     /\ unanswered <= index + 1
                     /\ opened <= 1
    /\ isReceive  => /\ sender \in {"resend", "writeResend"} => unanswered = 0
                     /\ unanswered <= IF sender = "mark" THEN 2 ELSE 1
                     /\ opened <= IF sender = "mark" THEN 1 ELSE 0

LEMMA NextFlagInv == TypeInv /\ FlagInv /\ [Next]_vars => FlagInv'
<1> SUFFICES ASSUME TypeInv, FlagInv, [Next]_vars PROVE FlagInv'
  OBVIOUS
<1> USE DEF FlagInv
<1>0. index \in 1..4 /\ unanswered \in Nat /\ opened \in Nat
  BY DEF TypeInv, TypeOK
<1>1. CASE UNCHANGED <<isReceive, sender, index, unanswered, opened>>
  BY <1>1
<1>2. CASE SenderSize
  BY <1>0, <1>2 DEF SenderSize, history
<1>3. CASE SenderRoute
  BY <1>0, <1>3 DEF SenderRoute, history
<1>4. CASE SenderGet
  BY <1>0, <1>4 DEF SenderGet, history
<1>5. CASE SenderWriteFirst
  BY <1>0, <1>5 DEF SenderWriteFirst, Transmit
<1>6. CASE SenderMark
  BY <1>0, <1>6 DEF SenderMark, history
<1>7. CASE SenderWriteResend
  BY <1>0, <1>7 DEF SenderWriteResend, Transmit
<1>8. CASE SenderDrop
  BY <1>0, <1>8 DEF SenderDrop
<1>9. CASE ProcessExit
  BY <1>0, <1>9 DEF ProcessExit
<1>10. CASE ReceiverFlag
  BY <1>0, <1>10 DEF ReceiverFlag, senderVars
<1>11. QED
  BY <1>1, <1>2, <1>3, <1>4, <1>5, <1>6, <1>7, <1>8, <1>9, <1>10 DEF Next,
     Sender, Receiver, Insert, Timeout, ReceiverRead, ReceiverSize,
     ReceiverGet, ReceiverRemove, senderVars, history, vars

LEMMA FlagInvariant == Spec => [](TypeInv /\ FlagInv)
<1>1. Init => FlagInv
  BY DEF Init, FlagInv
<1>2. QED
  BY InitTypeInv, NextTypeInv, NextFlagInv, <1>1, PTL DEF Spec

(* At most five transmissions between an accepted answer and a drop. *)
THEOREM RetriesAreBounded == Spec => []RetryBound
<1>1. TypeInv /\ FlagInv => RetryBound
  BY DEF TypeInv, TypeOK, FlagInv, RetryBound
<1>2. QED
  BY FlagInvariant, <1>1, PTL

(* A first send waits for the answer to the one before it. *)
THEOREM ExchangesAreSerial == Spec => []OneOpenExchange
<1>1. TypeInv /\ FlagInv => OneOpenExchange
  BY DEF TypeInv, TypeOK, FlagInv, OneOpenExchange
<1>2. QED
  BY FlagInvariant, <1>1, PTL

----------------------------------------------------------------------------
(* QueueIsLedger and DoorsFirst, of any list L and any fates f. *)
Ledger(L, f) ==
    /\ \A i \in 1..Len(L) : f[L[i]] = "queued"
    /\ \A c \in Command : f[c] = "queued" => \E i \in 1..Len(L) : L[i] = c
    /\ \A i, j \in 1..Len(L) : L[i] = L[j] => i = j

DoorPrefix(L) ==
    \A i, j \in 1..Len(L) : i < j /\ IsDoor(L[j]) => IsDoor(L[i])

(* Inserting a new command, at either end, keeps the ledger. *)
LEMMA InsertKeepsLedger ==
    ASSUME NEW L \in Seq(Command), NEW f \in [Command -> Fates], Ledger(L, f),
           NEW c \in Command, f[c] = "new",
           NEW M \in {<<c>> \o L, Append(L, c)}
    PROVE  Ledger(M, [f EXCEPT ![c] = "queued"])
<1> DEFINE g == [f EXCEPT ![c] = "queued"]
<1>1. Len(L) \in Nat /\ \A i \in 1..Len(L) : L[i] \in Command /\ L[i] # c
  BY LenProperties, ElementOfSeq DEF Ledger
<1>2. \A d \in Command : g[d] = IF d = c THEN "queued" ELSE f[d]
  OBVIOUS
<1>3. CASE M = <<c>> \o L
  <2>1. /\ Len(M) = Len(L) + 1 /\ M[1] = c
        /\ \A i \in 2..Len(L) + 1 : M[i] = L[i - 1]
    BY <1>3, ConsProperties
  <2>2. ASSUME NEW i \in 1..Len(M) PROVE g[M[i]] = "queued"
    <3>1. CASE i = 1
      BY <1>2, <2>1, <3>1
    <3>2. CASE i # 1
      <4>1. i - 1 \in 1..Len(L) /\ M[i] = L[i - 1]
        BY <1>1, <2>1, <3>2
      <4>2. QED
        BY <1>1, <1>2, <4>1 DEF Ledger
    <3>3. QED
      BY <3>1, <3>2
  <2>3. ASSUME NEW d \in Command, g[d] = "queued"
        PROVE  \E i \in 1..Len(M) : M[i] = d
    <3>1. CASE d = c
      BY <1>1, <2>1, <3>1
    <3>2. CASE d # c
      <4>1. PICK i \in 1..Len(L) : L[i] = d
        BY <1>2, <2>3, <3>2 DEF Ledger
      <4>2. i + 1 \in 1..Len(M) /\ M[i + 1] = d
        BY <1>1, <2>1, <4>1
      <4>3. QED
        BY <4>2
    <3>3. QED
      BY <3>1, <3>2
  <2>4. ASSUME NEW i \in 1..Len(M), NEW j \in 1..Len(M), M[i] = M[j]
        PROVE  i = j
    <3>1. \A k \in 2..Len(M) : k - 1 \in 1..Len(L) /\ M[k] = L[k - 1] /\ M[k] # c
      BY <1>1, <2>1
    <3>2. CASE i = 1 \/ j = 1
      BY <1>1, <2>1, <2>4, <3>1, <3>2
    <3>3. CASE i \in 2..Len(M) /\ j \in 2..Len(M)
      <4>1. /\ i - 1 \in 1..Len(L) /\ j - 1 \in 1..Len(L)
            /\ L[i - 1] = L[j - 1]
        BY <2>4, <3>1, <3>3
      <4>2. i - 1 = j - 1
        BY <4>1 DEF Ledger
      <4>3. QED
        BY <3>3, <4>2
    <3>4. QED
      BY <1>1, <2>1, <3>2, <3>3
  <2>5. QED
    BY <2>2, <2>3, <2>4 DEF Ledger
<1>4. CASE M = Append(L, c)
  <2>1. /\ Len(M) = Len(L) + 1 /\ M[Len(L) + 1] = c
        /\ \A i \in 1..Len(L) : M[i] = L[i]
    BY <1>4, AppendProperties
  <2>2. \A i \in 1..Len(M) : g[M[i]] = "queued"
    BY <1>1, <1>2, <2>1 DEF Ledger
  <2>3. ASSUME NEW d \in Command, g[d] = "queued"
        PROVE  \E i \in 1..Len(M) : M[i] = d
    <3>1. CASE d = c
      BY <1>1, <2>1, <3>1
    <3>2. CASE d # c
      BY <1>1, <1>2, <2>1, <2>3, <3>2 DEF Ledger
    <3>3. QED
      BY <3>1, <3>2
  <2>4. ASSUME NEW i \in 1..Len(M), NEW j \in 1..Len(M), M[i] = M[j]
        PROVE  i = j
    BY <1>1, <2>1, <2>4 DEF Ledger
  <2>5. QED
    BY <2>2, <2>3, <2>4 DEF Ledger
<1>5. QED
  BY <1>3, <1>4

(* Removing the head and recording its fate keeps the ledger. *)
LEMMA RemoveKeepsLedger ==
    ASSUME NEW L \in Seq(Command), L # <<>>, NEW f \in [Command -> Fates],
           Ledger(L, f), NEW outcome \in Fates, outcome # "queued"
    PROVE  Ledger(Tail(L), [f EXCEPT ![Head(L)] = outcome])
<1> DEFINE g == [f EXCEPT ![Head(L)] = outcome]
           M == Tail(L)
<1>1. /\ Len(L) \in Nat \ {0} /\ Head(L) = L[1] /\ Head(L) \in Command
      /\ Len(M) = Len(L) - 1 /\ \A i \in 1..Len(L) - 1 : M[i] = L[i + 1]
  BY TailProperties
<1>2. \A i \in 1..Len(L) : L[i] \in Command
  BY ElementOfSeq
<1>3. \A d \in Command : g[d] = IF d = Head(L) THEN outcome ELSE f[d]
  OBVIOUS
<1> HIDE DEF g, M
<1>4. ASSUME NEW i \in 1..Len(M) PROVE g[M[i]] = "queued"
  <2>1. i + 1 \in 1..Len(L) /\ M[i] = L[i + 1] /\ M[i] # Head(L)
    BY <1>1 DEF Ledger
  <2>2. QED
    BY <1>2, <1>3, <2>1 DEF Ledger
<1>5. ASSUME NEW d \in Command, g[d] = "queued"
      PROVE  \E i \in 1..Len(M) : M[i] = d
  <2>1. d # Head(L) /\ f[d] = "queued"
    BY <1>3, <1>5
  <2>2. PICK i \in 1..Len(L) : L[i] = d
    BY <2>1 DEF Ledger
  <2>3. i - 1 \in 1..Len(M) /\ M[i - 1] = d
    BY <1>1, <2>1, <2>2
  <2>4. QED
    BY <2>3
<1>6. ASSUME NEW i \in 1..Len(M), NEW j \in 1..Len(M), M[i] = M[j]
      PROVE  i = j
  BY <1>1, <1>6 DEF Ledger
<1>7. QED
  BY <1>4, <1>5, <1>6 DEF Ledger, g, M

(* The same two steps keep the doors in front. *)
LEMMA InsertKeepsDoorPrefix ==
    ASSUME NEW L \in Seq(Command), DoorPrefix(L), NEW c \in Command
    PROVE  DoorPrefix(IF IsDoor(c) THEN <<c>> \o L ELSE Append(L, c))
<1>0. Len(L) \in Nat
  BY LenProperties
<1>1. CASE IsDoor(c)
  <2> DEFINE M == <<c>> \o L
  <2>1. /\ Len(M) = Len(L) + 1 /\ M[1] = c
        /\ \A i \in 2..Len(L) + 1 : M[i] = L[i - 1]
    BY ConsProperties
  <2> HIDE DEF M
  <2>2. ASSUME NEW i \in 1..Len(M), NEW j \in 1..Len(M), i < j, IsDoor(M[j])
        PROVE  IsDoor(M[i])
    <3>1. CASE i = 1
      BY <1>1, <2>1, <3>1
    <3>2. CASE i # 1
      <4>1. /\ i - 1 \in 1..Len(L) /\ j - 1 \in 1..Len(L) /\ i - 1 < j - 1
            /\ M[i] = L[i - 1] /\ M[j] = L[j - 1]
        BY <1>0, <2>1, <2>2, <3>2
      <4>2. QED
        BY <2>2, <4>1 DEF DoorPrefix
    <3>3. QED
      BY <3>1, <3>2
  <2>3. QED
    BY <1>1, <2>2 DEF DoorPrefix, M
<1>2. CASE ~IsDoor(c)
  <2> DEFINE M == Append(L, c)
  <2>1. /\ Len(M) = Len(L) + 1 /\ M[Len(L) + 1] = c
        /\ \A i \in 1..Len(L) : M[i] = L[i]
    BY AppendProperties
  <2> HIDE DEF M
  <2>2. ASSUME NEW i \in 1..Len(M), NEW j \in 1..Len(M), i < j, IsDoor(M[j])
        PROVE  IsDoor(M[i])
    <3>1. j # Len(L) + 1
      BY <1>2, <2>1, <2>2
    <3>2. i \in 1..Len(L) /\ j \in 1..Len(L) /\ M[i] = L[i] /\ M[j] = L[j]
      BY <1>0, <2>1, <2>2, <3>1
    <3>3. QED
      BY <2>2, <3>2 DEF DoorPrefix
  <2>3. QED
    BY <1>2, <2>2 DEF DoorPrefix, M
<1>3. QED
  BY <1>1, <1>2

LEMMA RemoveKeepsDoorPrefix ==
    ASSUME NEW L \in Seq(Command), L # <<>>, DoorPrefix(L)
    PROVE  DoorPrefix(Tail(L))
<1>1. /\ Len(L) \in Nat \ {0} /\ Len(Tail(L)) = Len(L) - 1
      /\ \A i \in 1..Len(L) - 1 : Tail(L)[i] = L[i + 1]
  BY TailProperties
<1>2. ASSUME NEW i \in 1..Len(Tail(L)), NEW j \in 1..Len(Tail(L)), i < j,
             IsDoor(Tail(L)[j])
      PROVE  IsDoor(Tail(L)[i])
  <2>1. /\ i + 1 \in 1..Len(L) /\ j + 1 \in 1..Len(L) /\ i + 1 < j + 1
        /\ Tail(L)[i] = L[i + 1] /\ Tail(L)[j] = L[j + 1]
    BY <1>1, <1>2
  <2>2. QED
    BY <1>2, <2>1 DEF DoorPrefix
<1>3. QED
  BY <1>2 DEF DoorPrefix

(* QueueIsLedger needs nothing but TypeOK, for both threads only ever add  *)
(* a new command or remove the head; CrashNeedsAnswer needs QueueIsLedger, *)
(* so that no removal overwrites the fate of an answered command.          *)
SomeAnswered == \E c \in Command : fate[c] = "answered"

ListInv ==
    /\ Ledger(sendDataList, fate)
    /\ DoorPrefix(sendDataList)
    /\ sender \in {"route", "first", "resend", "drop"} /\ sendDataList = <<>>
          => SomeAnswered
    /\ sender = "crashed" => SomeAnswered

LEMMA NextListInv == TypeInv /\ ListInv /\ [Next]_vars => ListInv'
<1> SUFFICES ASSUME TypeInv, ListInv, [Next]_vars PROVE ListInv'
  OBVIOUS
<1>0. sendDataList \in Seq(Command) /\ fate \in [Command -> Fates]
  BY DEF TypeInv, TypeOK
<1>1. CASE UNCHANGED <<sendDataList, fate, sender>>
  BY <1>1 DEF ListInv, Ledger, DoorPrefix, SomeAnswered
<1>2. ASSUME NEW c \in Command, Insert(c) PROVE ListInv'
  <2>1. /\ sendDataList' \in {<<c>> \o sendDataList, Append(sendDataList, c)}
        /\ sendDataList' = IF IsDoor(c) THEN <<c>> \o sendDataList
                                        ELSE Append(sendDataList, c)
        /\ fate[c] = "new" /\ fate' = [fate EXCEPT ![c] = "queued"]
        /\ sender' = sender
    BY <1>2 DEF Insert, senderVars
  <2>2. Ledger(sendDataList', fate')
    BY <1>0, <2>1, InsertKeepsLedger DEF ListInv
  <2>3. DoorPrefix(sendDataList')
    BY <1>0, <2>1, InsertKeepsDoorPrefix DEF ListInv
  <2>4. SomeAnswered => SomeAnswered'
    BY <1>0, <2>1 DEF SomeAnswered
  <2>5. sendDataList' # <<>>
    BY <1>0, <2>1, ConsProperties, AppendProperties, EmptySeq
  <2>6. QED
    BY <2>1, <2>2, <2>3, <2>4, <2>5 DEF ListInv, Ledger, DoorPrefix
<1>3. CASE UNCHANGED <<sendDataList, fate>> /\ Sender
  <2>1. UNCHANGED SomeAnswered
    BY <1>3 DEF SomeAnswered
  <2>2. /\ sender' \in {"route", "first", "resend", "drop"} /\ sendDataList' = <<>>
              => SomeAnswered
        /\ sender' = "crashed" => SomeAnswered
    BY <1>3 DEF ListInv, Sender, SenderSize, SenderRoute, SenderGet,
       SenderWriteFirst, SenderMark, SenderWriteResend, SenderDrop
  <2>3. QED
    BY <1>3, <2>1, <2>2 DEF ListInv, Ledger, DoorPrefix
<1>4. ASSUME NEW outcome \in {"answered", "dropped"}, sendDataList # <<>>,
             sendDataList' = Tail(sendDataList),
             fate' = [fate EXCEPT ![Head(sendDataList)] = outcome],
             SomeAnswered' \/ sender' = "size"
      PROVE  ListInv'
  <2>1. Ledger(sendDataList', fate')
    BY <1>0, <1>4, RemoveKeepsLedger DEF ListInv, Fates
  <2>2. DoorPrefix(sendDataList')
    BY <1>0, <1>4, RemoveKeepsDoorPrefix DEF ListInv
  <2>3. QED
    BY <1>4, <2>1, <2>2 DEF ListInv, Ledger, DoorPrefix
<1>5. CASE SenderDrop /\ sendDataList # <<>>
  BY <1>4, <1>5 DEF SenderDrop
<1>6. CASE ReceiverRemove /\ sendDataList # <<>>
  <2>1. Head(sendDataList) \in Command
    BY <1>0, <1>6, TailProperties
  <2>2. SomeAnswered'
    BY <1>0, <1>6, <2>1 DEF ReceiverRemove, SomeAnswered
  <2>3. QED
    BY <1>4, <1>6, <2>2 DEF ReceiverRemove
<1>7. CASE ProcessExit
  <2>1. sendDataList' = <<>> /\ sender' = "size"
        /\ \A c \in Command : fate'[c] # "queued"
    BY <1>0, <1>7 DEF ProcessExit
  <2>2. Len(sendDataList') = 0
    BY <2>1, EmptySeq
  <2>3. QED
    BY <2>1, <2>2 DEF ListInv, Ledger, DoorPrefix
<1>8. QED
  BY <1>1, <1>2, <1>3, <1>5, <1>6, <1>7 DEF Next, Sender, Receiver, Timeout,
     SenderSize, SenderRoute, SenderGet, SenderWriteFirst, SenderMark,
     SenderWriteResend, SenderDrop, ReceiverRead, ReceiverSize, ReceiverGet,
     ReceiverRemove, ReceiverFlag, senderVars, vars

LEMMA ListInvariant == Spec => [](TypeInv /\ ListInv)
<1>1. Init => ListInv
  <2>1. Init => sendDataList = <<>> /\ Len(sendDataList) = 0 /\ sender = "size"
    BY EmptySeq DEF Init
  <2>2. QED
    BY <2>1 DEF Init, ListInv, Ledger, DoorPrefix
<1>2. QED
  BY InitTypeInv, NextTypeInv, NextListInv, <1>1, PTL DEF Spec

(* The list holds exactly the commands that wait, each once. *)
THEOREM LedgerHolds == Spec => []QueueIsLedger
<1>1. ASSUME TypeInv, ListInv PROVE QueueIsLedger
  <2>1. DOMAIN sendDataList = 1..Len(sendDataList)
    BY <1>1, LenProperties DEF TypeInv, TypeOK
  <2>2. \A i \in 1..Len(sendDataList) : fate[sendDataList[i]] = "queued"
    BY <1>1 DEF ListInv, Ledger
  <2>3. \A c \in Command : fate[c] = "queued" =>
            \E i \in 1..Len(sendDataList) : sendDataList[i] = c
    BY <1>1 DEF ListInv, Ledger
  <2>4. Queued = {c \in Command : fate[c] = "queued"}
    BY <2>1, <2>2, <2>3 DEF Queued
  <2>5. QED
    BY <1>1, <2>1, <2>4 DEF ListInv, Ledger, QueueIsLedger
<1>2. QED
  BY ListInvariant, <1>1, PTL

(* Waiting door commands are served before all others. *)
THEOREM DoorsAreServedFirst == Spec => []DoorsFirst
<1>1. TypeInv /\ ListInv => DoorsFirst
  BY LenProperties DEF TypeInv, TypeOK, ListInv, DoorPrefix, DoorsFirst
<1>2. QED
  BY ListInvariant, <1>1, PTL

(* A bus that never answers does not crash the sender. *)
THEOREM SilenceDoesNotCrash == Spec => []CrashNeedsAnswer
<1>1. ListInv => CrashNeedsAnswer
  BY DEF ListInv, SomeAnswered, CrashNeedsAnswer
<1>2. QED
  BY ListInvariant, <1>1, PTL

----------------------------------------------------------------------------
(* UnsentOnlyByMistake.  Every frame in the serial input answers a command *)
(* that was sent; and after the comparison the command that matched is     *)
(* still in the list, behind doors only, or the sender has given it up.    *)
SentFrame(n, f) == \E d \in Command : n[d] > 0 /\ FrameOf(d) = f
GivenUp(o, f)   == \E e \in Command : o[e] = "dropped" /\ FrameOf(e) = f

BehindDoors(L, f) ==
    \E k \in 1..Len(L) : FrameOf(L[k]) = f /\ \A i \in 1..(k - 1) : IsDoor(L[i])

MatchInv ==
    /\ \A i \in 1..Len(answers) : SentFrame(sent, answers[i])
    /\ receiver # "read" => SentFrame(sent, Head(readBytes))
    /\ receiver = "remove" =>
          GivenUp(fate, Head(readBytes)) \/ BehindDoors(sendDataList, Head(readBytes))

LEMMA InsertKeepsMatch ==
    ASSUME NEW L \in Seq(Command), NEW f, BehindDoors(L, f), NEW c \in Command
    PROVE  BehindDoors(IF IsDoor(c) THEN <<c>> \o L ELSE Append(L, c), f)
<1>1. PICK k \in 1..Len(L) : FrameOf(L[k]) = f /\ \A i \in 1..(k - 1) : IsDoor(L[i])
  BY DEF BehindDoors
<1>2. Len(L) \in Nat
  BY LenProperties
<1>3. CASE IsDoor(c)
  <2> DEFINE M == <<c>> \o L
  <2>1. /\ Len(M) = Len(L) + 1 /\ M[1] = c
        /\ \A i \in 2..Len(L) + 1 : M[i] = L[i - 1]
    BY ConsProperties
  <2> HIDE DEF M
  <2>2. k + 1 \in 1..Len(M) /\ FrameOf(M[k + 1]) = f
    BY <1>1, <1>2, <2>1
  <2>3. ASSUME NEW i \in 1..((k + 1) - 1) PROVE IsDoor(M[i])
    <3>1. CASE i = 1
      BY <1>3, <2>1, <3>1
    <3>2. CASE i # 1
      <4>1. i - 1 \in 1..(k - 1) /\ M[i] = L[i - 1]
        BY <1>1, <1>2, <2>1, <3>2
      <4>2. QED
        BY <1>1, <4>1
    <3>3. QED
      BY <3>1, <3>2
  <2>4. BehindDoors(M, f)
    BY <2>2, <2>3 DEF BehindDoors
  <2>5. QED
    BY <1>3, <2>4 DEF M
<1>4. CASE ~IsDoor(c)
  <2> DEFINE M == Append(L, c)
  <2>1. Len(M) = Len(L) + 1 /\ \A i \in 1..Len(L) : M[i] = L[i]
    BY AppendProperties
  <2> HIDE DEF M
  <2>2. k \in 1..Len(M) /\ M[k] = L[k] /\ \A i \in 1..(k - 1) : M[i] = L[i]
    BY <1>1, <1>2, <2>1
  <2>3. BehindDoors(M, f)
    BY <1>1, <2>2 DEF BehindDoors
  <2>4. QED
    BY <1>4, <2>3 DEF M
<1>5. QED
  BY <1>3, <1>4

(* The head that leaves is a door, or the command that matched. *)
LEMMA RemoveKeepsMatch ==
    ASSUME NEW L \in Seq(Command), L # <<>>, NEW f, BehindDoors(L, f)
    PROVE  \/ FrameOf(Head(L)) = f
           \/ IsDoor(Head(L)) /\ BehindDoors(Tail(L), f)
<1>1. PICK k \in 1..Len(L) : FrameOf(L[k]) = f /\ \A i \in 1..(k - 1) : IsDoor(L[i])
  BY DEF BehindDoors
<1>2. /\ Head(L) = L[1] /\ Len(L) \in Nat \ {0} /\ Len(Tail(L)) = Len(L) - 1
      /\ \A i \in 1..Len(L) - 1 : Tail(L)[i] = L[i + 1]
  BY TailProperties
<1>3. CASE k = 1
  BY <1>1, <1>2, <1>3
<1>4. CASE k # 1
  <2>1. 1 \in 1..(k - 1) /\ k - 1 \in 1..Len(Tail(L)) /\ Tail(L)[k - 1] = L[k]
    BY <1>1, <1>2, <1>4
  <2>2. \A i \in 1..((k - 1) - 1) : i + 1 \in 1..(k - 1) /\ Tail(L)[i] = L[i + 1]
    BY <1>1, <1>2
  <2>3. QED
    BY <1>1, <1>2, <2>1, <2>2 DEF BehindDoors
<1>5. QED
  BY <1>3, <1>4

LEMMA NextMatchInv == TypeInv /\ MatchInv /\ [Next]_vars => MatchInv'
<1> SUFFICES ASSUME TypeInv, MatchInv, [Next]_vars PROVE MatchInv'
  OBVIOUS
<1>0. /\ sendDataList \in Seq(Command) /\ fate \in [Command -> Fates]
      /\ sent \in [Command -> 0..3] /\ answers \in Seq(Frame) /\ Len(answers) \in Nat
      /\ receiver # "read" => readBytes \in Seq(Frame) /\ Len(readBytes) = 1
  BY LenProperties DEF TypeInv, TypeOK, ControlInv
<1>1. CASE UNCHANGED <<sent, answers, fate, receiver, readBytes, sendDataList>>
  BY <1>1 DEF MatchInv, SentFrame, GivenUp, BehindDoors
<1>2. ASSUME NEW c \in Command, Insert(c) PROVE MatchInv'
  <2>1. /\ UNCHANGED <<sent, answers, receiver, readBytes>>
        /\ fate[c] = "new" /\ fate' = [fate EXCEPT ![c] = "queued"]
        /\ sendDataList' = IF IsDoor(c) THEN <<c>> \o sendDataList
                                        ELSE Append(sendDataList, c)
    BY <1>2 DEF Insert, receiverVars, history
  <2>2. \A f : GivenUp(fate, f) => GivenUp(fate', f)
    BY <1>0, <2>1 DEF GivenUp
  <2>3. \A f : BehindDoors(sendDataList, f) => BehindDoors(sendDataList', f)
    BY <1>0, <2>1, InsertKeepsMatch
  <2>4. \A f : SentFrame(sent, f) => SentFrame(sent', f)
    BY <2>1 DEF SentFrame
  <2>5. QED
    BY <2>1, <2>2, <2>3, <2>4 DEF MatchInv
<1>3. CASE SenderWriteFirst \/ SenderWriteResend
  <2>1. /\ UNCHANGED <<fate, receiver, readBytes, sendDataList>>
        /\ Transmit(Head(held)) /\ Head(held) \in Command
    BY <1>3, HeadTailProperties DEF SenderWriteFirst, SenderWriteResend, receiverVars,
       TypeInv, TypeOK, ControlInv
  <2> DEFINE c == Head(held)
  <2>2. sent' = [sent EXCEPT ![c] = UpTo3(@ + 1)]
    BY <2>1 DEF Transmit
  <2>3. UpTo3(sent[c] + 1) > 0
    BY <1>0, <2>1 DEF UpTo3
  <2>4. \A f : SentFrame(sent, f) => SentFrame(sent', f)
    BY <1>0, <2>1, <2>2, <2>3 DEF SentFrame
  <2>5. SentFrame(sent', FrameOf(c))
    BY <1>0, <2>1, <2>2, <2>3 DEF SentFrame
  <2>6. \A i \in 1..Len(answers') : SentFrame(sent', answers'[i])
    <3>1. CASE UNCHANGED answers
      BY <2>4, <3>1 DEF MatchInv
    <3>2. CASE answers' = Append(answers, FrameOf(c))
      <4>1. FrameOf(c) \in Frame
        BY <2>1, ConstantsAssumption DEF FrameOf, Frame
      <4>2. /\ Len(answers') = Len(answers) + 1 /\ answers'[Len(answers) + 1] = FrameOf(c)
            /\ \A i \in 1..Len(answers) : answers'[i] = answers[i]
        BY <1>0, <3>2, <4>1, AppendProperties
      <4>3. QED
        BY <1>0, <2>4, <2>5, <4>2 DEF MatchInv
    <3>3. QED
      BY <2>1, <3>1, <3>2 DEF Transmit
  <2>7. \A f : GivenUp(fate, f) => GivenUp(fate', f)
    BY <2>1 DEF GivenUp
  <2>8. QED
    BY <2>1, <2>4, <2>6, <2>7 DEF MatchInv
<1>4. CASE SenderDrop /\ sendDataList # <<>>
  <2> DEFINE h == Head(sendDataList)
  <2>1. /\ UNCHANGED <<sent, answers, receiver, readBytes>>
        /\ sendDataList' = Tail(sendDataList) /\ fate' = [fate EXCEPT ![h] = "dropped"]
    BY <1>4 DEF SenderDrop, receiverVars
  <2>2. h \in Command
    BY <1>0, <1>4, TailProperties
  <2>3. \A f : GivenUp(fate, f) \/ FrameOf(h) = f => GivenUp(fate', f)
    BY <1>0, <2>1, <2>2 DEF GivenUp
  <2>4. \A f : BehindDoors(sendDataList, f) =>
                  FrameOf(h) = f \/ BehindDoors(sendDataList', f)
    BY <1>0, <1>4, <2>1, RemoveKeepsMatch
  <2>5. \A f : SentFrame(sent, f) => SentFrame(sent', f)
    BY <2>1 DEF SentFrame
  <2> HIDE DEF h
  <2>6. QED
    BY <2>1, <2>3, <2>4, <2>5 DEF MatchInv
<1>5. CASE ProcessExit
  <2>1. Len(answers') = 0 /\ receiver' = "read"
    BY <1>5, EmptySeq DEF ProcessExit
  <2>2. QED
    BY <2>1 DEF MatchInv
<1>6. CASE ReceiverRead
  <2>1. PICK n \in 1..Len(answers) :
           /\ readBytes' = <<Head(answers)>>
           /\ answers' = SubSeq(answers, n + 1, Len(answers))
    BY <1>6 DEF ReceiverRead
  <2>2. UNCHANGED sent /\ receiver' = "size"
    BY <1>6 DEF ReceiverRead, history
  <2>3. \A f : SentFrame(sent, f) => SentFrame(sent', f)
    BY <2>2 DEF SentFrame
  <2>4. Head(answers) = answers[1] /\ 1 \in 1..Len(answers) /\ Head(answers) \in Frame
    BY <1>0, <2>1, HeadTailProperties, EmptySeq
  <2>5. Head(readBytes') = Head(answers)
    BY <2>1, <2>4, SingletonProperties
  <2>6. /\ Len(answers') = Len(answers) - n
        /\ \A i \in 1..(Len(answers) - n) : answers'[i] = answers[n + i]
    BY <1>0, <2>1, SubSeqProperties
  <2>7. \A i \in 1..Len(answers') : n + i \in 1..Len(answers) /\ answers'[i] = answers[n + i]
    BY <1>0, <2>6
  <2>8. QED
    BY <2>2, <2>3, <2>4, <2>5, <2>7 DEF MatchInv
<1>7. CASE ReceiverSize \/ ReceiverGet \/ ReceiverFlag \/ ReceiverRemove
  <2>1. UNCHANGED <<sent, answers>>
    BY <1>7 DEF ReceiverSize, ReceiverGet, ReceiverFlag, ReceiverRemove, history
  <2>2. /\ receiver' # "read" => receiver # "read" /\ readBytes' = readBytes
        /\ receiver' = "remove" => /\ sendDataList' = sendDataList /\ sendDataList # <<>>
                                   /\ FrameOf(Head(sendDataList)) = Head(readBytes)
    BY <1>7 DEF ReceiverSize, ReceiverGet, ReceiverFlag, ReceiverRemove, ReceiverDone
  <2>3. \A f : SentFrame(sent, f) => SentFrame(sent', f)
    BY <2>1 DEF SentFrame
  <2>4. sendDataList # <<>> => /\ 1 \in 1..Len(sendDataList)
                               /\ Head(sendDataList) = sendDataList[1]
    BY <1>0, TailProperties
  <2>5. receiver' = "remove" => BehindDoors(sendDataList', Head(readBytes'))
    BY <2>2, <2>4 DEF BehindDoors
  <2>6. QED
    BY <2>1, <2>2, <2>3, <2>5 DEF MatchInv
<1>8. QED
  BY <1>1, <1>2, <1>3, <1>4, <1>5, <1>6, <1>7 DEF Next, Sender, Receiver, Timeout,
     SenderSize, SenderRoute, SenderGet, SenderMark, SenderDrop, receiverVars, history, vars

(* A command that was never sent is retired only in place of its twin, of  *)
(* a command a door was put in front of, or of one that was given up.      *)
THEOREM UnsentRetirements == Spec => UnsentOnlyByMistake
<1> DEFINE A ==
      \A c \in Command :
          fate[c] = "queued" /\ fate'[c] = "answered" /\ sent[c] = 0 =>
             \E d \in Command :
                /\ sent[d] > 0 /\ FrameOf(d) = Head(readBytes)
                /\ \/ FrameOf(c) = FrameOf(d)
                   \/ IsDoor(c)
                   \/ \E e \in Command : fate[e] = "dropped" /\ FrameOf(e) = FrameOf(d)
<1>1. Init => MatchInv
  <2>1. Init => Len(answers) = 0 /\ receiver = "read"
    BY EmptySeq DEF Init
  <2>2. QED
    BY <2>1 DEF MatchInv
<1>2. ASSUME TypeInv, MatchInv, [Next]_vars PROVE A
  <2> SUFFICES ASSUME NEW c \in Command, fate[c] = "queued", fate'[c] = "answered"
               PROVE  \E d \in Command :
                         /\ sent[d] > 0 /\ FrameOf(d) = Head(readBytes)
                         /\ \/ FrameOf(c) = FrameOf(d)
                            \/ IsDoor(c)
                            \/ \E e \in Command : fate[e] = "dropped" /\ FrameOf(e) = FrameOf(d)
    OBVIOUS
  <2>0. sendDataList \in Seq(Command) /\ fate \in [Command -> Fates]
    BY <1>2 DEF TypeInv, TypeOK
  <2>1. ReceiverRemove /\ sendDataList # <<>>
    BY <1>2, <2>0 DEF Next, Sender, Receiver, Insert, Timeout, SenderSize, SenderRoute, SenderGet,
       SenderWriteFirst, SenderMark, SenderWriteResend, SenderDrop, ProcessExit,
       ReceiverRead, ReceiverSize, ReceiverGet, ReceiverRemove, ReceiverFlag, vars
  <2>2. receiver = "remove" /\ fate' = [fate EXCEPT ![Head(sendDataList)] = "answered"]
    BY <2>1 DEF ReceiverRemove
  <2>3. c = Head(sendDataList)
    BY <2>0, <2>2
  <2>4. PICK d \in Command : sent[d] > 0 /\ FrameOf(d) = Head(readBytes)
    BY <1>2, <2>2 DEF MatchInv, SentFrame
  <2>5. CASE GivenUp(fate, Head(readBytes))
    BY <2>4, <2>5 DEF GivenUp
  <2>6. CASE BehindDoors(sendDataList, Head(readBytes))
    BY <2>0, <2>1, <2>3, <2>4, <2>6, RemoveKeepsMatch
  <2>7. QED
    BY <1>2, <2>2, <2>5, <2>6 DEF MatchInv
<1>3. TypeInv /\ MatchInv /\ [Next]_vars => [A]_vars
  BY <1>2
<1>4. QED
  BY InitTypeInv, NextTypeInv, NextMatchInv, <1>1, <1>3, PTL DEF Spec, UnsentOnlyByMistake

=============================================================================
