----------------------- MODULE DeliverySessionProofs -----------------------
(***************************************************************************)
(* Proofs about DeliverySession for every set of bins and users, and for   *)
(* every bound on touches, logins and posted messages.                     *)
(***************************************************************************)
EXTENDS DeliverySession, SequenceTheorems, FiniteSetTheorems, TLAPS

(* The message at the head is taken, the others stay. *)
LEMMA HandledQueue ==
    ASSUME TypeOK, NEW m, Handles(m)
    PROVE  /\ mainQueue \in Seq(Message) /\ mainQueue # <<>>
           /\ Head(mainQueue) = m /\ m \in Message
           /\ Tail(mainQueue) \in Seq(Message)
  BY HeadTailProperties DEF TypeOK, Handles

(* finish() leaves the variables it may write well typed. *)
LEMMA FinishTypes ==
    ASSUME TypeOK, NEW queue \in Seq(Message), NEW kind \in {"exit", "register"},
           NEW others, Finish(queue, kind, others)
    PROVE  /\ phase' \in {"front", "camera", "finished", "destroyed", "exited"}
           /\ result' \in {"none", "exit", "register", "delivered"}
           /\ mainQueue' \in Seq(Message) /\ cut' \in BOOLEAN
<1>1. CASE Open
  <2>1. <<"destroy">> \in Message
    BY DEF Message
  <2>2. mainQueue' \in Seq(Message)
    BY <1>1, <2>1, AppendProperties DEF Finish, Post
  <2>3. cut' \in BOOLEAN
    BY <1>1 DEF Finish
  <2>4. QED
    BY <1>1, <2>2, <2>3 DEF Finish
<1>2. CASE ~Open
  BY <1>2 DEF Finish, TypeOK
<1>3. QED
  BY <1>1, <1>2

(* One thread moves, the others stay. *)
LEMMA ThreadMoves ==
    ASSUME TypeOK, NEW i \in DOMAIN threads, NEW t \in Thread,
           threads' = [threads EXCEPT ![i] = t]
    PROVE  /\ threads' \in Seq(Thread) /\ DOMAIN threads' = DOMAIN threads
           /\ \A k \in DOMAIN threads :
                 threads'[k] = IF k = i THEN t ELSE threads[k]
<1>1. threads \in Seq(Thread) /\ DOMAIN threads = 1..Len(threads)
  BY LenProperties DEF TypeOK
<1>2. threads' \in Seq(Thread) /\ Len(threads') = Len(threads)
  BY <1>1, ExceptSeq
<1>3. DOMAIN threads' = 1..Len(threads')
  BY <1>2, LenProperties
<1>4. QED
  BY <1>1, <1>2, <1>3

(* A thread is started after the others. *)
LEMMA ThreadJoins ==
    ASSUME TypeOK, NEW kind \in {"settle", "close"},
           threads' = Append(threads, NewThread(kind))
    PROVE  /\ NewThread(kind) \in Thread
           /\ threads' \in Seq(Thread) /\ DOMAIN threads' = 1..Len(threads) + 1
           /\ \A k \in DOMAIN threads : threads'[k] = threads[k]
           /\ threads'[Len(threads) + 1] = NewThread(kind)
           /\ DOMAIN threads = 1..Len(threads)
<1>1. threads \in Seq(Thread) /\ DOMAIN threads = 1..Len(threads)
  BY LenProperties DEF TypeOK
<1>2. NewThread(kind) \in Thread
  BY DEF NewThread, Thread
<1>3. /\ threads' \in Seq(Thread) /\ Len(threads') = Len(threads) + 1
      /\ \A k \in 1..Len(threads) : threads'[k] = threads[k]
      /\ threads'[Len(threads) + 1] = NewThread(kind)
  BY <1>1, <1>2, AppendProperties
<1>4. DOMAIN threads' = 1..Len(threads')
  BY <1>3, LenProperties
<1>5. QED
  BY <1>1, <1>2, <1>3, <1>4

----------------------------------------------------------------------------
(* A thread's cursor stays within the list it reads, and a thread that is  *)
(* about to record has a door behind its cursor.                           *)
ThreadInv ==
    \A i \in DOMAIN threads :
        /\ threads[i].cursor <= Len(needClose)
        /\ threads[i].pc = "record" => threads[i].cursor >= 1

TypeInv == TypeOK /\ ThreadInv

(* Every thread is a Thread, whose fields have their types. *)
LEMMA ThreadFields ==
    ASSUME TypeOK, NEW i \in DOMAIN threads
    PROVE  /\ threads[i] \in Thread
           /\ threads[i].kind \in {"settle", "close"}
           /\ threads[i].pc \in {"start", "next", "record", "done", "dead"}
           /\ threads[i].cursor \in Nat /\ threads[i].size \in Nat
<1>1. threads[i] \in Thread
  BY LenProperties, ElementOfSeq DEF TypeOK
<1>2. QED
  BY <1>1 DEF Thread

LEMMA InitTypeInv == Init => TypeInv
<1> SUFFICES ASSUME Init PROVE TypeInv
  OBVIOUS
<1>1. needClose \in Seq(Door)
  <2>1. <<OtherDoor>> \in Seq(Door) /\ <<KitchenDoor>> \in Seq(Door)
    BY SessionAssumption
  <2>2. <<OtherDoor, KitchenDoor>> \in Seq(Door)
    BY SessionAssumption
  <2>3. <<>> \in Seq(Door)
    OBVIOUS
  <2>4. QED
    BY <2>1, <2>2, <2>3 DEF Init
<1>2. threads \in Seq(Thread) /\ records \in Seq(Record) /\ mainQueue \in Seq(Message)
  BY EmptySeq DEF Init
<1>3. DOMAIN threads = {}
  BY DEF Init
<1>4. opening \in [Door -> Nat] /\ ordered \in [Door -> {"none", "open", "close", "reopen"}]
  BY DEF Init
<1>5. ThreadInv
  BY <1>3 DEF ThreadInv
<1>6. touches \in 0..MaxTouches /\ logins \in 0..MaxLogins
  BY SessionAssumption DEF Init
<1>7. QED
  BY <1>1, <1>2, <1>4, <1>5, <1>6 DEF Init, TypeInv, TypeOK

(* addNeedCloseDustbin only adds to the list. *)
LEMMA ListGrows ==
    ASSUME TypeOK, NEW d \in Door, AddNeedCloseDustbin(d)
    PROVE  /\ needClose' \in Seq(Door) /\ Len(needClose) <= Len(needClose')
           /\ Len(needClose) \in Nat /\ Len(needClose') \in Nat
           /\ \A i \in 1..Len(needClose) : needClose'[i] = needClose[i]
           /\ \A i \in 1..Len(needClose') :
                 i \in 1..Len(needClose) \/ (needClose'[i] = d /\ d \notin Opened)
           /\ d \in Opened'
<1>1. needClose \in Seq(Door)
  BY DEF TypeOK
<1>2. Len(needClose) \in Nat /\ DOMAIN needClose = 1..Len(needClose)
  BY <1>1, LenProperties
<1>3. CASE d \in Opened
  BY <1>1, <1>2, <1>3 DEF AddNeedCloseDustbin, Opened
<1>4. CASE d \notin Opened
  <2>1. needClose' = Append(needClose, d)
    BY <1>4 DEF AddNeedCloseDustbin
  <2>2. /\ needClose' \in Seq(Door) /\ Len(needClose') = Len(needClose) + 1
        /\ \A i \in 1..Len(needClose) : needClose'[i] = needClose[i]
        /\ needClose'[Len(needClose) + 1] = d
    BY <1>1, <2>1, AppendProperties
  <2>3. DOMAIN needClose' = 1..Len(needClose')
    BY <2>2, LenProperties
  <2>4. QED
    BY <1>2, <1>4, <2>2, <2>3 DEF Opened
<1>5. QED
  BY <1>3, <1>4

LEMMA NextTypeInv == TypeInv /\ [Next]_vars => TypeInv'
<1> SUFFICES ASSUME TypeInv, [Next]_vars PROVE TypeInv'
  OBVIOUS
<1> USE SessionAssumption DEF TypeInv
<1>a. TypeOK /\ ThreadInv
  OBVIOUS
<1>0. CASE UNCHANGED vars
  BY <1>0 DEF vars, TypeOK, ThreadInv
<1>1. ASSUME NEW m \in {<<"exitTap">>, <<"camera">>} \cup {<<"item", d>> : d \in Door},
             Touch(m)
      PROVE  TypeInv'
  <2>1. m \in Message
    BY <1>1 DEF Message
  <2>2. mainQueue' \in Seq(Message)
    BY <1>1, <2>1, AppendProperties DEF Touch, Post, TypeOK
  <2>3. touches' \in 0..MaxTouches /\ exitTaps' \in Nat
    BY <1>1 DEF Touch, TypeOK
  <2>4. QED
    BY <1>1, <2>2, <2>3 DEF Touch, TypeOK, ThreadInv, sessionVars, doorVars
<1>2. CASE ProximitySeen
  BY <1>2 DEF ProximitySeen, TypeOK, ThreadInv, sessionVars, doorVars
<1>3. CASE Login
  BY <1>3 DEF Login, TypeOK, ThreadInv, sessionVars, timerVars, doorVars
<1>4. CASE ControlResult
  BY <1>4 DEF ControlResult, TypeOK, ThreadInv, timerVars, doorVars, countVars
<1>5. CASE Pass
  BY <1>5 DEF Pass, TypeOK, ThreadInv, sessionVars, doorVars, countVars
<1>6. CASE TickPost
  <2>1. mainQueue' \in Seq(Message)
    BY <1>6, AppendProperties DEF TickPost, Post, TypeOK, Message
  <2>2. QED
    BY <1>6, <2>1 DEF TickPost, TypeOK, ThreadInv, sessionVars, doorVars, countVars
<1>7. CASE TickTest
  <2>1. mainQueue' \in Seq(Message)
    <3>1. <<"autoExit">> \in Message /\ mainQueue \in Seq(Message)
      BY DEF Message, TypeOK
    <3>2. mainQueue' = Append(mainQueue, <<"autoExit">>) \/ mainQueue' = mainQueue
      BY <1>7 DEF TickTest, Post
    <3>3. QED
      BY <3>1, <3>2, AppendProperties
  <2>2. hasManTask' \in {"wait", "test", "lastTest", "cancelled"} /\ autoExits' \in Nat
    BY <1>7 DEF TickTest, TypeOK
  <2>3. QED
    BY <1>7, <2>1, <2>2 DEF TickTest, TypeOK, ThreadInv, sessionVars, doorVars
<1>8. CASE HandleCheck
  <2>1. Tail(mainQueue) \in Seq(Message)
    BY <1>8, HandledQueue DEF HandleCheck
  <2>2. /\ phase' \in {"front", "camera", "finished", "destroyed", "exited"}
        /\ result' \in {"none", "exit", "register", "delivered"}
        /\ mainQueue' \in Seq(Message) /\ cut' \in BOOLEAN
    <3>1. CASE idle = "over"
      BY <1>8, <2>1, <3>1, FinishTypes DEF HandleCheck
    <3>2. CASE idle # "over"
      BY <1>8, <2>1, <3>2 DEF HandleCheck, TypeOK
    <3>3. QED
      BY <3>1, <3>2
  <2>3. exitTimer' \in BOOLEAN
    BY <1>8 DEF HandleCheck, TypeOK
  <2>4. QED
    BY <1>8, <2>2, <2>3 DEF HandleCheck, TypeOK, ThreadInv, timerVars, doorVars, countVars
<1>9. CASE HandleExit
  <2>1. mainQueue' \in Seq(Message)
    BY <1>9, HandledQueue DEF HandleExit
  <2>2. CASE phase = "destroyed"
    BY <1>9, <2>1, <2>2 DEF HandleExit, TypeOK, ThreadInv, timerVars, doorVars, countVars
  <2>3. CASE phase # "destroyed"
    <3>1. threads' = Append(threads, NewThread("settle"))
      BY <1>9, <2>3 DEF HandleExit
    <3>2. needClose' = needClose /\ Len(needClose) \in Nat
      BY <1>9, LenProperties DEF HandleExit, doorVars, TypeOK
    <3>3. threads' \in Seq(Thread) /\ ThreadInv'
      BY <3>1, <3>2, ThreadJoins DEF ThreadInv, NewThread
    <3>4. cut' \in BOOLEAN
      BY <1>9, <2>3 DEF HandleExit
    <3>5. QED
      BY <1>9, <2>1, <2>3, <3>3, <3>4 DEF HandleExit, TypeOK, timerVars, doorVars, countVars
  <2>4. QED
    BY <2>2, <2>3
<1>10. CASE HandleItem
  <2>1. PICK d \in Door :
          /\ Handles(<<"item", d>>)
          /\ mainQueue' = Tail(mainQueue)
          /\ AddNeedCloseDustbin(d)
          /\ opening' = [opening EXCEPT ![d] = @ + 1]
          /\ UNCHANGED <<sessionVars, userId, timerVars, ordered, exitTimer,
                         threads, records, countVars, cut>>
    BY <1>10 DEF HandleItem
  <2>2. mainQueue' \in Seq(Message)
    BY <2>1, HandledQueue
  <2>3. needClose' \in Seq(Door)
    BY <2>1, ListGrows
  <2>4. ThreadInv'
    <3>1. threads' = threads
      BY <2>1
    <3>2. Len(needClose) <= Len(needClose') /\ Len(needClose) \in Nat /\ Len(needClose') \in Nat
      BY <2>1, ListGrows
    <3>3. QED
      BY <3>1, <3>2, ThreadFields DEF ThreadInv
  <2>5. opening' \in [Door -> Nat]
    BY <2>1 DEF TypeOK
  <2>6. QED
    BY <2>1, <2>2, <2>3, <2>4, <2>5 DEF TypeOK, sessionVars, timerVars, countVars
<1>11. CASE HandleCamera
  <2>1. mainQueue' \in Seq(Message)
    BY <1>11, HandledQueue DEF HandleCamera
  <2>2. QED
    BY <1>11, <2>1 DEF HandleCamera, TypeOK, ThreadInv, timerVars, doorVars, countVars
<1>12. CASE HandleDestroy
  <2>1. mainQueue' \in Seq(Message)
    BY <1>12, HandledQueue DEF HandleDestroy
  <2>2. QED
    BY <1>12, <2>1 DEF HandleDestroy, TypeOK, ThreadInv, doorVars, countVars
<1>13. CASE OnStop
  BY <1>13 DEF OnStop, TypeOK, ThreadInv, sessionVars, doorVars, countVars
<1>14. CASE CameraReturns
  <2>1. /\ phase' \in {"front", "camera", "finished", "destroyed", "exited"}
        /\ result' \in {"none", "exit", "register", "delivered"}
        /\ mainQueue' \in Seq(Message) /\ cut' \in BOOLEAN
    BY <1>14, FinishTypes DEF CameraReturns, TypeOK
  <2>2. needClose' = needClose /\ Len(needClose) \in Nat
    BY <1>14, LenProperties DEF CameraReturns, doorVars, TypeOK
  <2>3. threads' \in Seq(Thread) /\ ThreadInv'
    BY <1>14, <2>2, ThreadJoins DEF CameraReturns, ThreadInv, NewThread
  <2>4. QED
    BY <1>14, <2>1, <2>3 DEF CameraReturns, TypeOK, doorVars, countVars
<1>15. CASE RunOpen
  <2>1. PICK d \in Door :
          /\ opening[d] > 0
          /\ opening' = [opening EXCEPT ![d] = @ - 1]
          /\ ordered' = [ordered EXCEPT
                  ![d] = IF @ \in {"none", "open"} THEN "open" ELSE "reopen"]
          /\ UNCHANGED <<sessionVars, userId, timerVars, mainQueue, needClose,
                         exitTimer, threads, records, countVars, cut>>
    BY <1>15 DEF RunOpen
  <2>2. opening' \in [Door -> Nat]
    <3>1. opening[d] \in Nat /\ opening[d] - 1 \in Nat
      BY <2>1 DEF TypeOK
    <3>2. QED
      BY <2>1, <3>1 DEF TypeOK
  <2>3. ordered' \in [Door -> {"none", "open", "close", "reopen"}]
    BY <2>1 DEF TypeOK
  <2>4. QED
    BY <2>1, <2>2, <2>3 DEF TypeOK, ThreadInv, sessionVars, timerVars, countVars
<1>16. CASE SettleTimeout
  <2>1. /\ phase' \in {"front", "camera", "finished", "destroyed", "exited"}
        /\ result' \in {"none", "exit", "register", "delivered"}
        /\ mainQueue' \in Seq(Message) /\ cut' \in BOOLEAN
    BY <1>16, FinishTypes DEF SettleTimeout, TypeOK
  <2>2. QED
    BY <1>16, <2>1 DEF SettleTimeout, TypeOK, ThreadInv, timerVars, doorVars, countVars
<1>17. ASSUME NEW i \in DOMAIN threads, ThreadStart(i) PROVE TypeInv'
  <2> DEFINE t == [threads[i] EXCEPT !.pc = "next", !.size = Len(needClose)]
  <2>1. Len(needClose) \in Nat /\ needClose' = needClose
    BY <1>17, LenProperties DEF TypeOK, ThreadStart, doorVars
  <2>2. t \in Thread /\ t.cursor = threads[i].cursor /\ t.pc = "next"
    BY <2>1, ThreadFields DEF Thread
  <2>3. threads' = [threads EXCEPT ![i] = t]
    BY <1>17 DEF ThreadStart
  <2>4. threads' \in Seq(Thread) /\ ThreadInv'
    BY <2>1, <2>2, <2>3, ThreadMoves DEF ThreadInv
  <2>5. UNCHANGED <<phase, result, userId, sessionUser, idle, hasManIsRun,
                        hasManTask, mainQueue, opening, ordered, needClose, exitTimer,
                        records, touches, logins, exitTaps, autoExits, cut>>
    BY <1>17 DEF ThreadStart, sessionVars, timerVars, doorVars, countVars
  <2>6. QED
    BY <2>4, <2>5 DEF TypeOK
<1>18. ASSUME NEW i \in DOMAIN threads, ThreadNext(i) PROVE TypeInv'
  <2>0. UNCHANGED <<phase, result, userId, sessionUser, idle, hasManIsRun,
                        hasManTask, mainQueue, opening, needClose, exitTimer,
                        records, touches, logins, exitTaps, autoExits, cut>>
    BY <1>18 DEF ThreadNext, sessionVars, timerVars, countVars
  <2>1. /\ Len(needClose) \in Nat /\ needClose' = needClose
        /\ threads[i].cursor < Len(needClose) /\ threads[i].cursor \in Nat
    BY <1>18, LenProperties, ThreadFields DEF TypeOK, ThreadNext
  <2>2. CASE threads[i].size = Len(needClose)
    <3> DEFINE u == [threads[i] EXCEPT !.cursor = threads[i].cursor + 1]
               t == [u EXCEPT !.pc = IF threads[i].kind = "settle"
                                     THEN "record" ELSE "next"]
    <3>0. threads[i].cursor + 1 \in 1..Len(needClose)
      BY <2>1
    <3>1. threads' = [threads EXCEPT ![i] = t]
      BY <1>18, <2>2 DEF ThreadNext
    <3>2. u \in Thread /\ u.cursor = threads[i].cursor + 1
      BY <3>0, ThreadFields DEF Thread
    <3> HIDE DEF u
    <3>3. t \in Thread /\ t.cursor = u.cursor
      BY <3>2 DEF Thread
    <3> HIDE DEF t
    <3>4. /\ threads' \in Seq(Thread) /\ DOMAIN threads' = DOMAIN threads
          /\ \A k \in DOMAIN threads :
                threads'[k] = IF k = i THEN t ELSE threads[k]
      BY <3>1, <3>3, ThreadMoves
    <3>5. t.cursor <= Len(needClose) /\ t.cursor >= 1
      BY <2>1, <3>0, <3>2, <3>3
    <3>6. ThreadInv'
      BY <2>1, <3>4, <3>5 DEF ThreadInv
    <3>7. ordered' \in [Door -> {"none", "open", "close", "reopen"}]
      BY <1>18, <2>2 DEF ThreadNext, TypeOK
    <3>8. QED
      BY <2>0, <3>4, <3>6, <3>7 DEF TypeOK
  <2>3. CASE threads[i].size # Len(needClose)
    <3> DEFINE t == [threads[i] EXCEPT !.pc = "dead"]
    <3>1. t \in Thread /\ t.cursor = threads[i].cursor /\ t.pc = "dead"
      BY ThreadFields DEF Thread
    <3>2. threads' = [threads EXCEPT ![i] = t] /\ ordered' = ordered
      BY <1>18, <2>3 DEF ThreadNext
    <3>3. threads' \in Seq(Thread) /\ ThreadInv'
      BY <2>1, <3>1, <3>2, ThreadMoves DEF ThreadInv
    <3>4. QED
      BY <2>0, <3>2, <3>3 DEF TypeOK
  <2>4. QED
    BY <2>2, <2>3
<1>19. ASSUME NEW i \in DOMAIN threads, ThreadRecord(i) PROVE TypeInv'
  <2> DEFINE t == [threads[i] EXCEPT !.pc = "next"]
             r == [door |-> needClose[threads[i].cursor], user |-> userId]
  <2>1. needClose' = needClose
    BY <1>19 DEF ThreadRecord, doorVars
  <2>2. threads[i].cursor \in 1..Len(needClose)
    <3>1. Len(needClose) \in Nat /\ threads[i].cursor \in Nat
      BY LenProperties, ThreadFields DEF TypeOK
    <3>2. threads[i].cursor <= Len(needClose) /\ threads[i].cursor >= 1
      BY <1>19 DEF ThreadRecord, ThreadInv
    <3>3. QED
      BY <3>1, <3>2
  <2>3. r \in Record
    BY <2>2, ElementOfSeq DEF Record, TypeOK
  <2>4. records' \in Seq(Record)
    BY <1>19, <2>3, AppendProperties DEF ThreadRecord, TypeOK
  <2>5. t \in Thread /\ t.cursor = threads[i].cursor /\ t.pc = "next"
    BY ThreadFields DEF Thread
  <2>6. threads' = [threads EXCEPT ![i] = t]
    BY <1>19 DEF ThreadRecord
  <2>7. threads' \in Seq(Thread) /\ ThreadInv'
    BY <2>1, <2>5, <2>6, ThreadMoves DEF ThreadInv
  <2>8. UNCHANGED <<phase, result, userId, sessionUser, idle, hasManIsRun,
                        hasManTask, mainQueue, opening, ordered, needClose, exitTimer,
                        touches, logins, exitTaps, autoExits, cut>>
    BY <1>19 DEF ThreadRecord, sessionVars, timerVars, doorVars, countVars
  <2>9. QED
    BY <2>4, <2>7, <2>8 DEF TypeOK
<1>20. ASSUME NEW i \in DOMAIN threads, ThreadEnd(i) PROVE TypeInv'
  <2> DEFINE t == [threads[i] EXCEPT !.pc = "done"]
  <2>1. needClose' = needClose
    BY <1>20 DEF ThreadEnd, doorVars
  <2>2. t \in Thread /\ t.cursor = threads[i].cursor /\ t.pc = "done"
    BY ThreadFields DEF Thread
  <2>3. threads' = [threads EXCEPT ![i] = t]
    BY <1>20 DEF ThreadEnd
  <2>4. threads' \in Seq(Thread) /\ ThreadInv'
    BY <2>1, <2>2, <2>3, ThreadMoves DEF ThreadInv
  <2>5. /\ phase' \in {"front", "camera", "finished", "destroyed", "exited"}
        /\ result' \in {"none", "exit", "register", "delivered"}
        /\ mainQueue' \in Seq(Message) /\ cut' \in BOOLEAN
    <3>1. CASE threads[i].kind = "settle"
      BY <1>20, <3>1, FinishTypes DEF ThreadEnd, TypeOK
    <3>2. CASE threads[i].kind # "settle"
      BY <1>20, <3>2 DEF ThreadEnd, TypeOK
    <3>3. QED
      BY <3>1, <3>2
  <2>6. UNCHANGED <<userId, sessionUser, idle, hasManIsRun, hasManTask, opening,
                    ordered, needClose, exitTimer, records, touches, logins,
                    exitTaps, autoExits>>
    BY <1>20 DEF ThreadEnd, timerVars, doorVars, countVars
  <2>7. QED
    BY <2>4, <2>5, <2>6 DEF TypeOK
<1>21. QED
  BY <1>0, <1>1, <1>2, <1>3, <1>4, <1>5, <1>6, <1>7, <1>8, <1>9, <1>10, <1>11,
     <1>12, <1>13, <1>14, <1>15, <1>16, <1>17, <1>18, <1>19, <1>20
  DEF Next, TouchAny, Timer, Main, Threads

(* Every variable keeps its type. *)
THEOREM SessionTypeCorrect == Spec => []TypeOK
<1>1. TypeInv => TypeOK
  BY DEF TypeInv
<1>2. QED
  BY InitTypeInv, NextTypeInv, <1>1, PTL DEF Spec

----------------------------------------------------------------------------
LEMMA InitListed == Init => ListCoversOpenDoors
<1> SUFFICES ASSUME Init PROVE ListCoversOpenDoors
  OBVIOUS
<1>1. \A d \in Door : opening[d] > 0 \/ ordered[d] # "none" => d \in Opened
  BY DEF Init
<1>2. OtherDoor # KitchenDoor
  BY SessionAssumption
<1>3. CASE needClose = <<>>
  BY <1>1, <1>3 DEF ListCoversOpenDoors
<1>4. CASE needClose = <<OtherDoor>> \/ needClose = <<KitchenDoor>>
  <2>1. DOMAIN needClose = {1}
    BY <1>4
  <2>2. QED
    BY <1>1, <2>1 DEF ListCoversOpenDoors
<1>5. CASE needClose = <<OtherDoor, KitchenDoor>>
  <2>1. /\ DOMAIN needClose = {1, 2}
        /\ needClose[1] = OtherDoor /\ needClose[2] = KitchenDoor
    BY <1>5
  <2>2. QED
    BY <1>1, <1>2, <2>1 DEF ListCoversOpenDoors
<1>6. QED
  BY <1>3, <1>4, <1>5 DEF Init

LEMMA NextListed ==
    TypeInv /\ ListCoversOpenDoors /\ [Next]_vars => ListCoversOpenDoors'
<1> SUFFICES ASSUME TypeInv, ListCoversOpenDoors, [Next]_vars
             PROVE  ListCoversOpenDoors'
  OBVIOUS
<1>0. /\ TypeOK
      /\ Len(needClose) \in Nat /\ DOMAIN needClose = 1..Len(needClose)
  BY LenProperties DEF TypeInv, TypeOK
<1>1. CASE UNCHANGED doorVars
  BY <1>1 DEF doorVars, ListCoversOpenDoors, Opened
<1>2. CASE HandleItem
  <2>1. PICK d \in Door :
          /\ AddNeedCloseDustbin(d)
          /\ opening' = [opening EXCEPT ![d] = @ + 1]
          /\ UNCHANGED ordered
    BY <1>2 DEF HandleItem
  <2>2. /\ Len(needClose') \in Nat /\ Len(needClose) <= Len(needClose')
        /\ DOMAIN needClose' = 1..Len(needClose')
        /\ \A i \in 1..Len(needClose) : needClose'[i] = needClose[i]
        /\ \A i \in 1..Len(needClose') :
              i \in 1..Len(needClose) \/ (needClose'[i] = d /\ d \notin Opened)
        /\ d \in Opened'
    BY <1>0, <2>1, ListGrows, LenProperties
  <2>3. Opened \subseteq Opened'
    BY <1>0, <2>2 DEF Opened
  <2>4. ASSUME NEW e \in Door, opening'[e] > 0 \/ ordered'[e] # "none"
        PROVE  e \in Opened'
    <3>1. CASE e = d
      BY <2>2, <3>1
    <3>2. CASE e # d
      BY <1>0, <2>1, <2>3, <2>4, <3>2 DEF TypeOK, ListCoversOpenDoors
    <3>3. QED
      BY <3>1, <3>2
  <2>5. \A i \in 1..Len(needClose) : needClose[i] \in Opened
    BY <1>0 DEF Opened
  <2>6. Len(needClose') <= Len(needClose) + 1
    <3>1. CASE d \in Opened
      BY <1>0, <2>1, <3>1 DEF AddNeedCloseDustbin
    <3>2. CASE d \notin Opened
      BY <1>0, <2>1, <3>2, AppendProperties DEF AddNeedCloseDustbin, TypeOK
    <3>3. QED
      BY <3>1, <3>2
  <2>7. ASSUME NEW i \in 1..Len(needClose'), NEW j \in 1..Len(needClose'),
               needClose'[i] = needClose'[j]
        PROVE  i = j
    <3>1. CASE i \in 1..Len(needClose) /\ j \in 1..Len(needClose)
      BY <1>0, <2>2, <2>7, <3>1 DEF ListCoversOpenDoors
    <3>2. CASE i \notin 1..Len(needClose) /\ j \in 1..Len(needClose)
      BY <2>2, <2>5, <2>7, <3>2
    <3>3. CASE i \in 1..Len(needClose) /\ j \notin 1..Len(needClose)
      BY <2>2, <2>5, <2>7, <3>3
    <3>4. CASE i \notin 1..Len(needClose) /\ j \notin 1..Len(needClose)
      BY <1>0, <2>2, <2>6, <3>4
    <3>5. QED
      BY <3>1, <3>2, <3>3, <3>4
  <2>8. QED
    BY <2>2, <2>4, <2>7 DEF ListCoversOpenDoors
<1>3. CASE RunOpen
  <2>1. PICK d \in Door :
          /\ opening[d] > 0
          /\ opening' = [opening EXCEPT ![d] = @ - 1]
          /\ ordered' = [ordered EXCEPT
                  ![d] = IF @ \in {"none", "open"} THEN "open" ELSE "reopen"]
          /\ UNCHANGED needClose
    BY <1>3 DEF RunOpen
  <2>2. Opened' = Opened /\ d \in Opened
    BY <2>1 DEF ListCoversOpenDoors, Opened
  <2>3. \A e \in Door : e # d => opening'[e] = opening[e] /\ ordered'[e] = ordered[e]
    BY <1>0, <2>1 DEF TypeOK
  <2>4. QED
    BY <2>1, <2>2, <2>3 DEF ListCoversOpenDoors
<1>4. ASSUME NEW i \in DOMAIN threads, ThreadNext(i) PROVE ListCoversOpenDoors'
  <2>1. UNCHANGED <<opening, needClose>> /\ Opened' = Opened
    BY <1>4 DEF ThreadNext, Opened
  <2>2. CASE UNCHANGED ordered
    BY <2>1, <2>2 DEF ListCoversOpenDoors
  <2>3. CASE ordered' = [ordered EXCEPT ![needClose[threads[i].cursor + 1]] = "close"]
    <3>1. threads[i].cursor + 1 \in 1..Len(needClose)
      BY <1>0, <1>4, ThreadFields DEF ThreadNext
    <3>2. needClose[threads[i].cursor + 1] \in Opened
      BY <1>0, <3>1 DEF Opened
    <3>3. \A e \in Door : e \notin Opened => ordered'[e] = ordered[e]
      BY <1>0, <2>3, <3>2 DEF TypeOK
    <3>4. QED
      BY <2>1, <3>3 DEF ListCoversOpenDoors
  <2>4. QED
    BY <1>4, <2>2, <2>3 DEF ThreadNext
<1>5. QED
  BY <1>1, <1>2, <1>3, <1>4 DEF Next, TouchAny, Touch, ProximitySeen, Login,
     ControlResult, Pass, Timer, TickPost, TickTest, Main, HandleCheck,
     HandleExit, HandleCamera, HandleDestroy, OnStop, CameraReturns,
     SettleTimeout, Threads, ThreadStart, ThreadRecord, ThreadEnd, vars, doorVars

(* Whatever has been told to open, or will be, is in needCloseDustbin, and *)
(* it is there once.                                                       *)
THEOREM OpenDoorsAreListed == Spec => []ListCoversOpenDoors
  BY InitTypeInv, NextTypeInv, InitListed, NextListed, PTL DEF Spec

----------------------------------------------------------------------------
(* The places of a sequence that hold a member of a set, counted when the  *)
(* sequence loses its head or gains a member.                              *)
Places(s, E) == {i \in 1..Len(s) : s[i] \in E}

LEMMA PlacesFinite ==
    ASSUME NEW S, NEW s \in Seq(S), NEW E
    PROVE  IsFiniteSet(Places(s, E)) /\ Cardinality(Places(s, E)) \in Nat
<1>1. Len(s) \in Nat
  BY LenProperties
<1>2. IsFiniteSet(1..Len(s))
  BY <1>1, FS_Interval
<1>3. Places(s, E) \in SUBSET (1..Len(s))
  BY DEF Places
<1>4. QED
  BY <1>2, <1>3, FS_Subset, FS_CardinalityType

LEMMA PlacesAppend ==
    ASSUME NEW S, NEW s \in Seq(S), NEW e \in S, NEW E
    PROVE  Cardinality(Places(Append(s, e), E)) =
              Cardinality(Places(s, E)) + (IF e \in E THEN 1 ELSE 0)
<1> DEFINE n == Len(s) + 1
           t == Append(s, e)
<1>1. /\ Len(s) \in Nat /\ Len(t) = n /\ t[n] = e
      /\ \A i \in 1..Len(s) : t[i] = s[i]
  BY LenProperties, AppendProperties
<1>2. n \notin Places(s, E)
  BY <1>1 DEF Places
<1>3. Places(t, E) = IF e \in E THEN Places(s, E) \cup {n} ELSE Places(s, E)
  <2> HIDE DEF t
  <2>1. 1..Len(t) = (1..Len(s)) \cup {n} /\ n \notin 1..Len(s)
    BY <1>1
  <2> HIDE DEF n
  <2>2. QED
    BY <1>1, <2>1 DEF Places
<1>4. IsFiniteSet(Places(s, E)) /\ Cardinality(Places(s, E)) \in Nat
  BY PlacesFinite
<1>5. Cardinality(Places(s, E) \cup {n}) = Cardinality(Places(s, E)) + 1
  BY <1>2, <1>4, FS_AddElement
<1>6. CASE e \in E
  BY <1>3, <1>5, <1>6
<1>7. CASE e \notin E
  BY <1>3, <1>4, <1>7
<1>8. QED
  BY <1>6, <1>7

LEMMA PlacesTail ==
    ASSUME NEW S, NEW s \in Seq(S), s # <<>>, NEW E
    PROVE  Cardinality(Places(Tail(s), E)) =
              Cardinality(Places(s, E)) - (IF Head(s) \in E THEN 1 ELSE 0)
<1> DEFINE T == Places(s, E) \ {1}
           U == Places(Tail(s), E)
           f == [i \in T |-> i - 1]
<1>1. /\ Len(s) \in Nat \ {0} /\ Head(s) = s[1]
      /\ Tail(s) \in Seq(S) /\ Len(Tail(s)) = Len(s) - 1
      /\ \A i \in 1..Len(s) - 1 : Tail(s)[i] = s[i + 1]
  BY HeadTailProperties, EmptySeq
<1>2. \A i \in T : i \in 2..Len(s) /\ s[i] \in E /\ i - 1 \in U
  BY <1>1 DEF Places
<1>3. \A k \in U : k + 1 \in T /\ k = (k + 1) - 1
  BY <1>1 DEF Places
<1>4. f \in Bijection(T, U)
  <2>1. f \in [T -> U]
    BY <1>2
  <2>2. \A i, j \in T : f[i] = f[j] => i = j
    BY <1>2
  <2>3. \A k \in U : \E i \in T : f[i] = k
    <3> SUFFICES ASSUME NEW k \in U PROVE \E i \in T : f[i] = k
      OBVIOUS
    <3>1. k + 1 \in T /\ f[k + 1] = k
      BY <1>3
    <3>2. QED
      BY <3>1
  <2> HIDE DEF f, T, U
  <2>4. f \in Injection(T, U)
    BY <2>1, <2>2 DEF Injection, IsInjective
  <2>5. f \in Surjection(T, U)
    BY <2>1, <2>3 DEF Surjection
  <2>6. QED
    BY <2>4, <2>5 DEF Bijection
<1>5. IsFiniteSet(T)
      /\ Cardinality(T) = Cardinality(Places(s, E)) - (IF 1 \in Places(s, E) THEN 1 ELSE 0)
  <2>1. IsFiniteSet(Places(s, E)) /\ Cardinality(Places(s, E)) \in Nat
    BY PlacesFinite
  <2>2. QED
    BY <2>1, FS_RemoveElement
<1>6. Cardinality(U) = Cardinality(T)
  BY <1>4, <1>5, FS_Bijection DEF ExistsBijection
<1>7. 1 \in Places(s, E) <=> Head(s) \in E
  BY <1>1 DEF Places
<1>8. QED
  BY <1>5, <1>6, <1>7

----------------------------------------------------------------------------
(* Settlements at work or over, and settlements still asked for.           *)
Settlement  == {t \in Thread : t.kind = "settle"}
ExitRequest == {<<"autoExit">>, <<"exitTap">>}

(* Every settlement has been asked for, by the timer or by a tap, and the  *)
(* timer asks once because it is cancelled by then.                        *)
HasManInv ==
    /\ autoExits <= 1
    /\ autoExits = 1 => hasManTask = "cancelled"
    /\ Cardinality(Places(threads, Settlement))
          + Cardinality(Places(mainQueue, ExitRequest)) <= autoExits + exitTaps

LEMMA CountTypes ==
    ASSUME TypeOK
    PROVE  /\ autoExits \in Nat /\ exitTaps \in Nat
           /\ Cardinality(Places(threads, Settlement)) \in Nat
           /\ Cardinality(Places(mainQueue, ExitRequest)) \in Nat
  BY PlacesFinite DEF TypeOK

(* finish() posts no request for a settlement. *)
LEMMA FinishRequests ==
    ASSUME TypeOK, NEW queue \in Seq(Message), NEW kind, NEW others,
           Finish(queue, kind, others)
    PROVE  Cardinality(Places(mainQueue', ExitRequest)) =
              Cardinality(Places(queue, ExitRequest))
<1>1. <<"destroy">> \in Message /\ <<"destroy">> \notin ExitRequest
  BY DEF Message, ExitRequest
<1>2. mainQueue' = queue \/ mainQueue' = Append(queue, <<"destroy">>)
  BY DEF Finish, Post
<1>3. Cardinality(Places(queue, ExitRequest)) \in Nat
  BY PlacesFinite
<1>4. Cardinality(Places(Append(queue, <<"destroy">>), ExitRequest)) =
         Cardinality(Places(queue, ExitRequest))
  BY <1>1, <1>3, PlacesAppend
<1>5. QED
  BY <1>2, <1>4

(* Taking a message asks for no settlement. *)
LEMMA HandledRequests ==
    ASSUME TypeOK, NEW m, Handles(m)
    PROVE  Cardinality(Places(Tail(mainQueue), ExitRequest)) =
              Cardinality(Places(mainQueue, ExitRequest))
                 - (IF m \in ExitRequest THEN 1 ELSE 0)
  BY HandledQueue, PlacesTail

(* A thread that moves stays what it is. *)
LEMMA SettlementsStay ==
    ASSUME TypeOK, TypeOK', DOMAIN threads' = DOMAIN threads,
           \A k \in DOMAIN threads : threads'[k].kind = threads[k].kind
    PROVE  Places(threads', Settlement) = Places(threads, Settlement)
<1>1. DOMAIN threads = 1..Len(threads) /\ DOMAIN threads' = 1..Len(threads')
  BY LenProperties DEF TypeOK
<1>2. \A k \in DOMAIN threads : threads[k] \in Thread /\ threads'[k] \in Thread
  BY <1>1, ElementOfSeq DEF TypeOK
<1>3. 1..Len(threads') = 1..Len(threads)
  BY <1>1
<1>4. QED
  BY <1>1, <1>2, <1>3 DEF Places, Settlement

LEMMA InitHasMan == Init => HasManInv
<1> SUFFICES ASSUME Init PROVE HasManInv
  OBVIOUS
<1>1. Places(threads, Settlement) = {} /\ Places(mainQueue, ExitRequest) = {}
  BY DEF Init, Places
<1>2. Cardinality({}) = 0
  BY FS_EmptySet
<1>3. autoExits = 0 /\ exitTaps = 0
  BY DEF Init
<1>4. QED
  BY <1>1, <1>2, <1>3 DEF HasManInv

LEMMA NextHasMan == TypeInv /\ HasManInv /\ [Next]_vars => HasManInv'
<1> SUFFICES ASSUME TypeInv, HasManInv, [Next]_vars PROVE HasManInv'
  OBVIOUS
<1> DEFINE started   == Cardinality(Places(threads, Settlement))
           requested == Cardinality(Places(mainQueue, ExitRequest))
<1>0. TypeOK /\ TypeOK'
  BY NextTypeInv DEF TypeInv
<1>n. autoExits \in Nat /\ exitTaps \in Nat /\ started \in Nat /\ requested \in Nat
  BY <1>0, CountTypes
<1>q. mainQueue \in Seq(Message) /\ threads \in Seq(Thread)
  BY <1>0 DEF TypeOK
<1> HIDE DEF started, requested
<1>h. /\ autoExits <= 1
      /\ autoExits = 1 => hasManTask = "cancelled"
      /\ started + requested <= autoExits + exitTaps
  BY DEF HasManInv, started, requested
<1>i. ASSUME /\ autoExits' <= 1
             /\ autoExits' = 1 => hasManTask' = "cancelled"
             /\ started' + requested' <= autoExits' + exitTaps'
      PROVE  HasManInv'
  BY <1>i DEF HasManInv, started, requested
<1>s. ASSUME UNCHANGED threads PROVE started' = started
  BY <1>s DEF started
<1>r. ASSUME UNCHANGED mainQueue PROVE requested' = requested
  BY <1>r DEF requested
<1>1. CASE UNCHANGED <<hasManTask, mainQueue, threads, autoExits, exitTaps>>
  BY <1>1, <1>h, <1>i, <1>s, <1>r
<1>2. ASSUME NEW m \in {<<"exitTap">>, <<"camera">>} \cup {<<"item", d>> : d \in Door},
             Touch(m)
      PROVE  HasManInv'
  <2>1. m \in Message /\ mainQueue' = Append(mainQueue, m)
    BY <1>2 DEF Message, Touch, Post
  <2>2. m \in ExitRequest => m = <<"exitTap">>
    <3>1. \A d \in Door : <<"item", d>> \notin ExitRequest
      BY DEF ExitRequest
    <3>2. <<"camera">> \notin ExitRequest
      BY DEF ExitRequest
    <3>3. QED
      BY <1>2, <3>1, <3>2
  <2>3. requested' = requested + (IF m \in ExitRequest THEN 1 ELSE 0)
    BY <1>q, <2>1, PlacesAppend DEF requested
  <2>4. exitTaps' = IF m = <<"exitTap">> THEN exitTaps + 1 ELSE exitTaps
    BY <1>2 DEF Touch
  <2>5. UNCHANGED <<hasManTask, threads, autoExits>>
    BY <1>2 DEF Touch
  <2>6. QED
    BY <1>h, <1>i, <1>n, <1>s, <2>2, <2>3, <2>4, <2>5
<1>3. CASE TickPost
  <2>1. <<"check">> \in Message /\ <<"check">> \notin ExitRequest
    BY DEF Message, ExitRequest
  <2>2. requested' = requested
    BY <1>3, <1>n, <1>q, <2>1, PlacesAppend DEF TickPost, Post, requested
  <2>3. /\ UNCHANGED <<threads, autoExits, exitTaps>> /\ hasManTask = "wait"
    BY <1>3 DEF TickPost, countVars
  <2>4. QED
    BY <1>h, <1>i, <1>n, <1>s, <2>2, <2>3
<1>4. CASE TickTest
  <2>0. hasManTask # "cancelled" /\ UNCHANGED <<threads, exitTaps>>
    BY <1>4 DEF TickTest
  <2>1. autoExits = 0
    BY <1>h, <1>n, <2>0
  <2>2. CASE UNCHANGED <<mainQueue, autoExits>>
    BY <1>h, <1>i, <1>s, <1>r, <2>0, <2>1, <2>2
  <2>3. CASE /\ hasManTask' = "cancelled" /\ autoExits' = autoExits + 1
             /\ mainQueue' = Append(mainQueue, <<"autoExit">>)
    <3>1. <<"autoExit">> \in Message /\ <<"autoExit">> \in ExitRequest
      BY DEF Message, ExitRequest
    <3>2. requested' = requested + 1
      BY <1>q, <2>3, <3>1, PlacesAppend DEF requested
    <3>3. QED
      BY <1>h, <1>i, <1>n, <1>s, <2>0, <2>1, <2>3, <3>2
  <2>4. QED
    BY <1>4, <2>2, <2>3 DEF TickTest, Post
<1>5. ASSUME NEW m, Handles(m), UNCHANGED <<threads, autoExits, exitTaps>>,
             hasManTask = "cancelled" => hasManTask' = "cancelled",
             requested' = Cardinality(Places(Tail(mainQueue), ExitRequest))
      PROVE  HasManInv'
  <2>1. requested' = requested - (IF m \in ExitRequest THEN 1 ELSE 0)
    BY <1>0, <1>5, HandledRequests DEF requested
  <2>2. QED
    BY <1>5, <1>h, <1>i, <1>n, <1>s, <2>1
<1>6. CASE HandleCheck
  <2>1. /\ Handles(<<"check">>) /\ Tail(mainQueue) \in Seq(Message)
        /\ UNCHANGED <<threads, hasManTask, autoExits, exitTaps>>
    BY <1>0, <1>6, HandledQueue DEF HandleCheck, timerVars, countVars
  <2>2. requested' = Cardinality(Places(Tail(mainQueue), ExitRequest))
    <3>1. CASE idle = "over"
      BY <1>0, <1>6, <2>1, <3>1, FinishRequests DEF HandleCheck, requested
    <3>2. CASE idle # "over"
      BY <1>6, <3>2 DEF HandleCheck, requested
    <3>3. QED
      BY <3>1, <3>2
  <2>3. QED
    BY <1>5, <2>1, <2>2
<1>7. CASE HandleExit
  <2>1. PICK m \in ExitRequest : Handles(m)
    BY <1>7 DEF HandleExit, ExitRequest
  <2>2. requested' \in Nat /\ requested = requested' + 1
    <3>1. requested' = Cardinality(Places(Tail(mainQueue), ExitRequest))
      BY <1>7 DEF HandleExit, requested
    <3>2. Tail(mainQueue) \in Seq(Message)
      BY <1>0, <2>1, HandledQueue
    <3>3. requested' \in Nat
      BY <3>1, <3>2, PlacesFinite
    <3>4. requested' = requested - 1
      BY <1>0, <2>1, <3>1, HandledRequests DEF requested
    <3>5. QED
      BY <1>n, <3>3, <3>4
  <2>3. UNCHANGED <<hasManTask, autoExits, exitTaps>>
    BY <1>7 DEF HandleExit, timerVars, countVars
  <2>4. started' \in Nat /\ started' <= started + 1
    <3>1. CASE UNCHANGED threads
      BY <1>n, <1>s, <3>1
    <3>2. CASE threads' = Append(threads, NewThread("settle"))
      <4>1. NewThread("settle") \in Thread
        BY DEF NewThread, Thread
      <4>2. QED
        BY <1>n, <1>q, <3>2, <4>1, PlacesAppend DEF started
    <3>3. QED
      BY <1>7, <3>1, <3>2 DEF HandleExit
  <2>5. \A a, b, c, d, x, y \in Nat :
           a <= c + 1 /\ d = b + 1 /\ c + d <= x + y => a + b <= x + y
    OBVIOUS
  <2>6. started' + requested' <= autoExits + exitTaps
    BY <1>h, <1>n, <2>2, <2>4, <2>5, Zenon
  <2>7. autoExits' = autoExits /\ exitTaps' = exitTaps /\ hasManTask' = hasManTask
    BY <2>3
  <2>8. QED
    BY <1>h, <1>i, <2>6, <2>7, Zenon
<1>8. CASE HandleItem
  <2>1. PICK d \in Door :
          /\ Handles(<<"item", d>>)
          /\ UNCHANGED <<threads, hasManTask, autoExits, exitTaps>>
          /\ mainQueue' = Tail(mainQueue)
    BY <1>8 DEF HandleItem, timerVars, countVars
  <2>2. QED
    BY <1>5, <2>1 DEF requested
<1>9. CASE HandleCamera
  BY <1>5, <1>9 DEF HandleCamera, timerVars, countVars, requested
<1>10. CASE HandleDestroy
  BY <1>5, <1>10 DEF HandleDestroy, countVars, requested
<1>11. CASE CameraReturns
  <2>1. requested' = requested
    BY <1>0, <1>11, <1>q, FinishRequests DEF CameraReturns, requested
  <2>2. NewThread("close") \in Thread /\ NewThread("close") \notin Settlement
    BY DEF NewThread, Thread, Settlement
  <2>3. started' = started
    BY <1>11, <1>n, <1>q, <2>2, PlacesAppend DEF CameraReturns, started
  <2>4. QED
    BY <1>11, <1>h, <1>i, <2>1, <2>3 DEF CameraReturns, countVars
<1>12. CASE SettleTimeout
  <2>1. requested' = requested
    BY <1>0, <1>12, <1>q, FinishRequests DEF SettleTimeout, requested
  <2>2. QED
    BY <1>12, <1>h, <1>i, <1>s, <2>1 DEF SettleTimeout, timerVars, countVars
<1>13. ASSUME NEW i \in DOMAIN threads,
              ThreadStart(i) \/ ThreadNext(i) \/ ThreadRecord(i) \/ ThreadEnd(i)
       PROVE  HasManInv'
  <2>1. threads[i] \in Thread
    BY <1>0, ThreadFields
  <2>2. /\ DOMAIN threads' = DOMAIN threads
        /\ \A k \in DOMAIN threads : threads'[k].kind = threads[k].kind
    BY <1>13, <2>1 DEF ThreadStart, ThreadNext, ThreadRecord, ThreadEnd, Thread
  <2>3. started' = started
    BY <1>0, <2>2, SettlementsStay DEF started
  <2>4. requested' = requested
    <3>1. CASE UNCHANGED mainQueue
      BY <1>r, <3>1
    <3>2. CASE Finish(mainQueue, "exit", DOMAIN threads \ {i})
      BY <1>0, <1>q, <3>2, FinishRequests DEF requested
    <3>3. QED
      BY <1>13, <3>1, <3>2 DEF ThreadStart, ThreadNext, ThreadRecord, ThreadEnd
  <2>5. UNCHANGED <<hasManTask, autoExits, exitTaps>>
    BY <1>13 DEF ThreadStart, ThreadNext, ThreadRecord, ThreadEnd, timerVars, countVars
  <2>6. QED
    BY <1>h, <1>i, <2>3, <2>4, <2>5
<1>14. QED
  BY <1>1, <1>2, <1>3, <1>4, <1>6, <1>7, <1>8, <1>9, <1>10, <1>11, <1>12, <1>13
  DEF Next, TouchAny, ProximitySeen, Login, ControlResult, Pass, Timer, Main,
      OnStop, RunOpen, Threads, vars, timerVars, countVars

(* The timer asks for one settlement at most, and no settlement starts     *)
(* that neither the timer nor a tap has asked for.                         *)
THEOREM HasManAsksOnce == Spec => []HasManSettlesOnce
<1>1. TypeInv /\ HasManInv => HasManSettlesOnce
  <2> SUFFICES ASSUME TypeInv, HasManInv PROVE HasManSettlesOnce
    OBVIOUS
  <2>1. TypeOK /\ DOMAIN threads = 1..Len(threads)
    BY LenProperties DEF TypeInv, TypeOK
  <2>2. {i \in DOMAIN threads : threads[i].kind = "settle"} = Places(threads, Settlement)
    BY <2>1, ThreadFields DEF Places, Settlement
  <2>3. Cardinality(Places(threads, Settlement)) <= 1 + exitTaps
    BY <2>1, CountTypes DEF HasManInv
  <2>4. QED
    BY <2>2, <2>3 DEF HasManInv, HasManSettlesOnce
<1>2. QED
  BY InitTypeInv, NextTypeInv, InitHasMan, NextHasMan, <1>1, PTL DEF Spec
----------------------------------------------------------------------------
(* What a thread has passed is closed, and a thread ends behind the last   *)
(* door of the list it started with.                                       *)
ClosedInv ==
    \A i \in DOMAIN threads :
        /\ \A j \in 1..threads[i].cursor : ordered[needClose[j]] \in {"close", "reopen"}
        /\ threads[i].pc = "done" => threads[i].size = threads[i].cursor

(* The moves of a thread: it stays where it is in the list, or goes on by  *)
(* one door, which it closes.                                              *)
LEMMA ThreadMove ==
    ASSUME TypeInv, NEW i \in DOMAIN threads,
           ThreadStart(i) \/ ThreadNext(i) \/ ThreadRecord(i) \/ ThreadEnd(i)
    PROVE  /\ needClose' = needClose /\ DOMAIN threads' = DOMAIN threads
           /\ \A k \in DOMAIN threads \ {i} : threads'[k] = threads[k]
           /\ threads'[i].kind = threads[i].kind
           /\ \/ /\ ~ ThreadNext(i) \/ threads'[i].pc = "dead"
                 /\ threads'[i].cursor = threads[i].cursor /\ ordered' = ordered
                 /\ threads'[i].pc = "done" =>
                       threads'[i].size = threads'[i].cursor
                 /\ threads'[i].pc # "record"
              \/ /\ ThreadNext(i) /\ threads[i].pc = "next"
                 /\ threads'[i].cursor = threads[i].cursor + 1
                 /\ threads'[i].cursor \in 1..Len(needClose)
                 /\ threads'[i].pc = IF threads[i].kind = "settle" THEN "record" ELSE "next"
                 /\ ordered' = [ordered EXCEPT ![needClose[threads[i].cursor + 1]] = "close"]
<1>1. /\ threads[i] \in Thread /\ threads[i].cursor \in Nat /\ threads[i].size \in Nat
      /\ needClose \in Seq(Door) /\ Len(needClose) \in Nat
  BY ThreadFields, LenProperties DEF TypeInv, TypeOK
<1>2. CASE ThreadStart(i)
  BY <1>1, <1>2 DEF ThreadStart, ThreadNext, Thread, doorVars
<1>3. CASE ThreadRecord(i)
  BY <1>1, <1>3 DEF ThreadRecord, ThreadNext, Thread, doorVars
<1>4. CASE ThreadEnd(i)
  <2>1. /\ threads' = [threads EXCEPT ![i].pc = "done"]
        /\ threads[i].cursor = threads[i].size
        /\ needClose' = needClose /\ ordered' = ordered
    BY <1>4 DEF ThreadEnd, doorVars
  <2>2. ~ ThreadNext(i)
    <3>1. threads'[i].pc = "done"
      BY <1>1, <2>1 DEF Thread
    <3>2. ThreadNext(i) => threads'[i].pc # "done"
      BY <1>1 DEF ThreadNext, Thread
    <3>3. QED
      BY <3>1, <3>2
  <2>3. QED
    BY <1>1, <2>1, <2>2 DEF Thread
<1>5. CASE ThreadNext(i)
  <2>1. needClose' = needClose /\ threads[i].cursor < Len(needClose) /\ threads[i].pc = "next"
    BY <1>5 DEF ThreadNext
  <2>2. CASE threads[i].size = Len(needClose)
    <3> DEFINE u == [threads[i] EXCEPT !.cursor = threads[i].cursor + 1]
               t == [u EXCEPT !.pc = IF threads[i].kind = "settle"
                                     THEN "record" ELSE "next"]
    <3>1. threads' = [threads EXCEPT ![i] = t]
          /\ ordered' = [ordered EXCEPT ![needClose[threads[i].cursor + 1]] = "close"]
      BY <1>5, <2>2 DEF ThreadNext
    <3>2. u \in Thread /\ u.kind = threads[i].kind /\ u.cursor = threads[i].cursor + 1
      BY <1>1 DEF Thread
    <3> HIDE DEF u
    <3>3. /\ t.kind = threads[i].kind /\ t.cursor = threads[i].cursor + 1
          /\ t.pc = IF threads[i].kind = "settle" THEN "record" ELSE "next"
      BY <3>2 DEF Thread
    <3> HIDE DEF t
    <3>4. /\ DOMAIN threads' = DOMAIN threads /\ threads'[i] = t
          /\ \A k \in DOMAIN threads \ {i} : threads'[k] = threads[k]
      BY <3>1
    <3>5. threads[i].cursor + 1 \in 1..Len(needClose)
      BY <1>1, <2>1
    <3>6. QED
      BY <1>5, <2>1, <3>1, <3>3, <3>4, <3>5
  <2>3. CASE threads[i].size # Len(needClose)
    BY <1>1, <1>5, <2>1, <2>3 DEF ThreadNext, Thread
  <2>4. QED
    BY <2>2, <2>3
<1>6. QED
  BY <1>2, <1>3, <1>4, <1>5

(* Every step starts a thread, moves one, or leaves the threads alone.     *)
LEMMA ThreadSteps ==
    ASSUME [Next]_vars
    PROVE  \/ UNCHANGED <<threads, records, doorVars>>
           \/ (HandleItem \/ RunOpen) /\ UNCHANGED <<threads, records>>
           \/ \E kind \in {"settle", "close"} :
                 /\ threads' = Append(threads, NewThread(kind))
                 /\ UNCHANGED <<records, doorVars>>
           \/ \E i \in DOMAIN threads :
                 ThreadStart(i) \/ ThreadNext(i) \/ ThreadRecord(i) \/ ThreadEnd(i)
<1>1. CASE UNCHANGED vars
  BY <1>1 DEF vars, doorVars
<1>2. CASE HandleItem
  BY <1>2 DEF HandleItem
<1>3. CASE RunOpen
  BY <1>3 DEF RunOpen
<1>4. CASE HandleExit
  BY <1>4 DEF HandleExit
<1>5. CASE CameraReturns
  BY <1>5 DEF CameraReturns
<1>6. CASE Threads
  BY <1>6 DEF Threads
<1>7. CASE \/ TouchAny \/ ProximitySeen \/ Login \/ ControlResult \/ Pass \/ Timer
           \/ HandleCheck \/ HandleCamera \/ HandleDestroy \/ OnStop \/ SettleTimeout
  BY <1>7 DEF TouchAny, Touch, ProximitySeen, Login, ControlResult, Pass, Timer,
              TickPost, TickTest, HandleCheck, HandleCamera, HandleDestroy, OnStop,
              SettleTimeout
<1>8. QED
  BY <1>1, <1>2, <1>3, <1>4, <1>5, <1>6, <1>7 DEF Next, Main

LEMMA InitClosed == Init => ClosedInv
  BY DEF Init, ClosedInv

LEMMA NextClosed == TypeInv /\ ClosedInv /\ [Next]_vars => ClosedInv'
<1> SUFFICES ASSUME TypeInv, ClosedInv, [Next]_vars PROVE ClosedInv'
  OBVIOUS
<1>0. TypeOK /\ needClose \in Seq(Door) /\ Len(needClose) \in Nat
      /\ ordered \in [Door -> {"none", "open", "close", "reopen"}]
  BY LenProperties DEF TypeInv, TypeOK
<1>p. \A i \in DOMAIN threads : /\ threads[i].cursor \in Nat
                                /\ threads[i].cursor <= Len(needClose)
  BY <1>0, ThreadFields DEF TypeInv, ThreadInv
<1>1. CASE UNCHANGED <<threads, records, doorVars>>
  BY <1>1 DEF ClosedInv, doorVars
<1>2. CASE HandleItem /\ UNCHANGED <<threads, records>>
  <2>1. PICK d \in Door : AddNeedCloseDustbin(d) /\ ordered' = ordered
    BY <1>2 DEF HandleItem
  <2>2. \A j \in 1..Len(needClose) : needClose'[j] = needClose[j]
    BY <1>0, <2>1, ListGrows
  <2>3. QED
    BY <1>0, <1>p, <1>2, <2>1, <2>2 DEF ClosedInv
<1>3. CASE RunOpen /\ UNCHANGED <<threads, records>>
  <2>1. PICK d \in Door :
          /\ ordered' = [ordered EXCEPT
                  ![d] = IF @ \in {"none", "open"} THEN "open" ELSE "reopen"]
          /\ needClose' = needClose
    BY <1>3 DEF RunOpen
  <2>2. \A e \in Door : ordered[e] \in {"close", "reopen"} =>
                        ordered'[e] \in {"close", "reopen"}
    BY <1>0, <2>1
  <2>3. \A j \in 1..Len(needClose) : needClose[j] \in Door
    BY <1>0, ElementOfSeq
  <2>4. QED
    BY <1>0, <1>p, <1>3, <2>1, <2>2, <2>3 DEF ClosedInv
<1>4. ASSUME NEW kind \in {"settle", "close"}, UNCHANGED <<records, doorVars>>,
             threads' = Append(threads, NewThread(kind))
      PROVE  ClosedInv'
  <2>1. /\ DOMAIN threads' = DOMAIN threads \cup {Len(threads) + 1}
        /\ \A k \in DOMAIN threads : threads'[k] = threads[k]
        /\ threads'[Len(threads) + 1] = NewThread(kind)
    <3>1. threads \in Seq(Thread) /\ Len(threads) \in Nat
      BY <1>0, LenProperties DEF TypeOK
    <3>2. QED
      BY <1>0, <1>4, <3>1, ThreadJoins
  <2>2. NewThread(kind).cursor = 0 /\ NewThread(kind).pc = "start"
    BY DEF NewThread
  <2>3. ordered' = ordered /\ needClose' = needClose
    BY <1>4 DEF doorVars
  <2>4. QED
    BY <2>1, <2>2, <2>3 DEF ClosedInv
<1>5. ASSUME NEW i \in DOMAIN threads,
             ThreadStart(i) \/ ThreadNext(i) \/ ThreadRecord(i) \/ ThreadEnd(i)
      PROVE  ClosedInv'
  <2> DEFINE c == threads[i].cursor
  <2>1. /\ needClose' = needClose /\ DOMAIN threads' = DOMAIN threads
        /\ \A k \in DOMAIN threads \ {i} : threads'[k] = threads[k]
    BY <1>5, ThreadMove
  <2>2. CASE /\ threads'[i].cursor = c /\ ordered' = ordered
             /\ threads'[i].pc = "done" => threads'[i].size = threads'[i].cursor
    BY <2>1, <2>2 DEF ClosedInv
  <2>3. CASE /\ threads'[i].cursor = c + 1 /\ c + 1 \in 1..Len(needClose)
             /\ threads'[i].pc # "done"
             /\ ordered' = [ordered EXCEPT ![needClose[c + 1]] = "close"]
    <3>1. \A e \in Door : ordered[e] \in {"close", "reopen"} =>
                          ordered'[e] \in {"close", "reopen"}
      BY <1>0, <2>3
    <3>2. \A j \in 1..Len(needClose) : needClose[j] \in Door
      BY <1>0, ElementOfSeq
    <3>3. ordered'[needClose[c + 1]] = "close"
      BY <1>0, <2>3, <3>2
    <3>4. ASSUME NEW k \in DOMAIN threads, NEW j \in 1..threads[k].cursor
          PROVE  ordered'[needClose[j]] \in {"close", "reopen"}
      BY <1>0, <1>p, <3>1, <3>2, <3>4 DEF ClosedInv
    <3>5. \A j \in 1..c + 1 : j \in 1..c \/ j = c + 1
      BY <1>p
    <3>6. QED
      BY <2>1, <2>3, <3>3, <3>4, <3>5 DEF ClosedInv
  <2>4. QED
    BY <1>5, <2>2, <2>3, ThreadMove
<1>6. QED
  BY <1>1, <1>2, <1>3, <1>4, <1>5, ThreadSteps

(* A thread has found no more doors than are listed, and one that died has *)
(* found fewer.                                                            *)
SizeInv ==
    \A i \in DOMAIN threads :
        /\ threads[i].size <= Len(needClose)
        /\ threads[i].pc = "dead" => threads[i].size < Len(needClose)

(* What a step of a thread does to what the thread has found.              *)
LEMMA ThreadSize ==
    ASSUME TypeOK, NEW i \in DOMAIN threads,
           ThreadStart(i) \/ ThreadNext(i) \/ ThreadRecord(i) \/ ThreadEnd(i)
    PROVE  /\ threads'[i].size = IF ThreadStart(i) THEN Len(needClose) ELSE threads[i].size
           /\ threads'[i].pc # "start"
           /\ threads'[i].pc = "dead" => ThreadNext(i) /\ threads[i].size # Len(needClose)
<1>1. threads[i] \in Thread
  BY ThreadFields
<1>2. CASE ThreadStart(i)
  BY <1>1, <1>2 DEF ThreadStart, Thread
<1>3. CASE ThreadNext(i)
  <2>1. threads[i].pc = "next" /\ ~ ThreadStart(i)
    BY <1>3 DEF ThreadNext, ThreadStart
  <2>2. CASE threads[i].size = Len(needClose)
    <3> DEFINE u == [threads[i] EXCEPT !.cursor = threads[i].cursor + 1]
    <3>1. threads' = [threads EXCEPT ![i] =
                         [u EXCEPT !.pc = IF threads[i].kind = "settle"
                                          THEN "record" ELSE "next"]]
      BY <1>3, <2>2 DEF ThreadNext
    <3>2. u \in Thread /\ u.size = threads[i].size
      BY <1>1 DEF Thread
    <3> HIDE DEF u
    <3>3. QED
      BY <2>1, <3>1, <3>2 DEF Thread
  <2>3. CASE threads[i].size # Len(needClose)
    <3>1. threads' = [threads EXCEPT ![i].pc = "dead"]
      BY <1>3, <2>3 DEF ThreadNext
    <3>2. QED
      BY <1>1, <1>3, <2>1, <2>3, <3>1 DEF Thread
  <2>4. QED
    BY <2>2, <2>3
<1>4. CASE ThreadRecord(i)
  <2>1. threads' = [threads EXCEPT ![i].pc = "next"] /\ threads[i].pc = "record"
    BY <1>4 DEF ThreadRecord
  <2>2. ~ ThreadStart(i)
    BY <2>1 DEF ThreadStart
  <2>3. QED
    BY <1>1, <2>1, <2>2 DEF Thread
<1>5. CASE ThreadEnd(i)
  <2>1. threads' = [threads EXCEPT ![i].pc = "done"] /\ threads[i].pc = "next"
    BY <1>5 DEF ThreadEnd
  <2>2. ~ ThreadStart(i)
    BY <2>1 DEF ThreadStart
  <2>3. QED
    BY <1>1, <2>1, <2>2 DEF Thread
<1>6. QED
  BY <1>2, <1>3, <1>4, <1>5

LEMMA InitSize == Init => SizeInv
  BY DEF Init, SizeInv

LEMMA NextSize == TypeInv /\ SizeInv /\ [Next]_vars => SizeInv'
<1> SUFFICES ASSUME TypeInv, SizeInv, [Next]_vars PROVE SizeInv'
  OBVIOUS
<1>0. TypeOK /\ Len(needClose) \in Nat /\ \A i \in DOMAIN threads : threads[i].size \in Nat
  BY LenProperties, ThreadFields DEF TypeInv, TypeOK
<1>1. CASE UNCHANGED <<threads, records, doorVars>>
  BY <1>1 DEF SizeInv, doorVars
<1>2. CASE (HandleItem \/ RunOpen) /\ UNCHANGED <<threads, records>>
  <2>1. Len(needClose) <= Len(needClose') /\ Len(needClose') \in Nat
    <3>1. CASE HandleItem
      BY <1>0, <3>1, ListGrows DEF HandleItem
    <3>2. CASE RunOpen
      BY <1>0, <3>2 DEF RunOpen
    <3>3. QED
      BY <1>2, <3>1, <3>2
  <2>2. QED
    BY <1>0, <1>2, <2>1 DEF SizeInv
<1>3. ASSUME NEW kind \in {"settle", "close"}, UNCHANGED <<records, doorVars>>,
             threads' = Append(threads, NewThread(kind))
      PROVE  SizeInv'
  <2>1. /\ DOMAIN threads' = 1..Len(threads) + 1 /\ DOMAIN threads = 1..Len(threads)
        /\ \A k \in DOMAIN threads : threads'[k] = threads[k]
        /\ threads'[Len(threads) + 1] = NewThread(kind)
        /\ Len(threads) \in Nat /\ needClose' = needClose
    BY <1>0, <1>3, ThreadJoins, LenProperties DEF TypeOK, doorVars
  <2>2. NewThread(kind).size = 0 /\ NewThread(kind).pc = "start"
    BY DEF NewThread
  <2>3. QED
    BY <1>0, <2>1, <2>2 DEF SizeInv
<1>4. ASSUME NEW i \in DOMAIN threads,
             ThreadStart(i) \/ ThreadNext(i) \/ ThreadRecord(i) \/ ThreadEnd(i)
      PROVE  SizeInv'
  <2>1. /\ needClose' = needClose /\ DOMAIN threads' = DOMAIN threads
        /\ \A k \in DOMAIN threads \ {i} : threads'[k] = threads[k]
    BY <1>4, ThreadMove
  <2>2. /\ threads'[i].size \in {threads[i].size, Len(needClose)}
        /\ threads'[i].pc = "dead" => /\ threads'[i].size = threads[i].size
                                      /\ threads[i].size # Len(needClose)
    <3>1. ThreadNext(i) => ~ ThreadStart(i)
      BY DEF ThreadNext, ThreadStart
    <3>2. QED
      BY <1>0, <1>4, <3>1, ThreadSize
  <2>3. QED
    BY <1>0, <2>1, <2>2 DEF SizeInv
<1>5. QED
  BY <1>1, <1>2, <1>3, <1>4, ThreadSteps

(* Every thread has closed the doors it has come to, for any number of     *)
(* threads, taps and doors: only a delayed openDoor opens one of them      *)
(* again, and only a tap on a further door keeps a thread from its end.    *)
THEOREM SettlementsClose == Spec => []SettledDoorsAreClosed
<1>1. ClosedInv /\ SizeInv => SettledDoorsAreClosed
  BY DEF ClosedInv, SizeInv, SettledDoorsAreClosed
<1>2. QED
  BY InitTypeInv, NextTypeInv, InitClosed, NextClosed, InitSize, NextSize, <1>1, PTL DEF Spec
----------------------------------------------------------------------------
(* While nobody touches the screen: a thread is there, or asked for, only  *)
(* after the minute of hasMan, and by then every openDoor has run; so no   *)
(* door is reopened and the list stays as the threads have found it.       *)
Ticks == IF idle = "near" THEN {<<"check">>, <<"destroy">>}
                          ELSE {<<"check">>, <<"destroy">>, <<"autoExit">>}

Holds(queue, messages) == \A k \in 1..Len(queue) : queue[k] \in messages

UntouchedInv ==
    touches = 0 =>
        /\ phase # "camera"
        /\ Holds(mainQueue, Ticks)
        /\ idle = "near" =>
              threads = <<>> /\ \A d \in Door : ordered[d] \in {"none", "open"}
        /\ idle # "near" => NoDelay
        /\ \A d \in Door : ordered[d] # "reopen"
        /\ \A i \in DOMAIN threads :
              /\ threads[i].pc # "dead"
              /\ threads[i].pc # "start" => threads[i].size = Len(needClose)

LEMMA HoldsQueue ==
    ASSUME NEW S, NEW messages, NEW queue \in Seq(S), Holds(queue, messages)
    PROVE  /\ queue # <<>> => Holds(Tail(queue), messages) /\ Head(queue) \in messages
           /\ \A m \in messages \cap S : Holds(Append(queue, m), messages)
<1>1. ASSUME queue # <<>>
      PROVE  Holds(Tail(queue), messages) /\ Head(queue) \in messages
  <2>1. /\ Len(queue) \in Nat \ {0} /\ Head(queue) = queue[1]
        /\ Len(Tail(queue)) = Len(queue) - 1
        /\ \A k \in 1..Len(queue) - 1 : Tail(queue)[k] = queue[k + 1]
    BY <1>1, HeadTailProperties, EmptySeq
  <2>2. QED
    BY <2>1 DEF Holds
<1>2. ASSUME NEW m \in messages \cap S PROVE Holds(Append(queue, m), messages)
  <2>1. /\ Len(queue) \in Nat /\ Len(Append(queue, m)) = Len(queue) + 1
        /\ \A k \in 1..Len(queue) : Append(queue, m)[k] = queue[k]
        /\ Append(queue, m)[Len(queue) + 1] = m
    BY LenProperties, AppendProperties
  <2>2. QED
    BY <2>1 DEF Holds
<1>3. QED
  BY <1>1, <1>2

LEMMA InitUntouched == Init => UntouchedInv
<1> SUFFICES ASSUME Init PROVE UntouchedInv
  OBVIOUS
<1>1. Holds(mainQueue, Ticks)
  BY DEF Init, Holds
<1>2. DOMAIN threads = {}
  BY DEF Init
<1>3. QED
  BY <1>1, <1>2 DEF Init, UntouchedInv

LEMMA NextUntouched ==
    TypeInv /\ SizeInv /\ UntouchedInv /\ [Next]_vars => UntouchedInv'
<1> SUFFICES ASSUME TypeInv, SizeInv, UntouchedInv, [Next]_vars, touches' = 0
             PROVE  UntouchedInv'
  BY DEF UntouchedInv
<1>0. /\ TypeOK /\ mainQueue \in Seq(Message) /\ touches \in Nat
      /\ ordered \in [Door -> {"none", "open", "close", "reopen"}]
  BY SessionAssumption DEF TypeInv, TypeOK
<1>1. touches = 0 /\ ~ TouchAny /\ ~ ProximitySeen
  <2>1. touches' \in {touches, touches + 1}
    BY DEF Next, TouchAny, Touch, ProximitySeen, Login, ControlResult, Pass, Timer,
           TickPost, TickTest, Main, HandleCheck, HandleExit, HandleItem, HandleCamera,
           HandleDestroy, OnStop, CameraReturns, RunOpen, SettleTimeout, Threads,
           ThreadStart, ThreadNext, ThreadRecord, ThreadEnd, vars, countVars
  <2>2. TouchAny \/ ProximitySeen => touches' = touches + 1
    BY DEF TouchAny, Touch, ProximitySeen
  <2>3. QED
    BY <1>0, <2>1, <2>2
<1>2. /\ phase # "camera" /\ Holds(mainQueue, Ticks)
      /\ idle = "near" =>
            threads = <<>> /\ \A d \in Door : ordered[d] \in {"none", "open"}
      /\ idle # "near" => NoDelay
      /\ \A d \in Door : ordered[d] # "reopen"
      /\ \A i \in DOMAIN threads :
            /\ threads[i].pc # "dead"
            /\ threads[i].pc # "start" => threads[i].size = Len(needClose)
  BY <1>1 DEF UntouchedInv
<1>3. ~ OnStop /\ ~ CameraReturns
  BY <1>2 DEF OnStop, CameraReturns
(* What the main queue still holds, whatever else a step does. *)
<1>t. <<"check">> \in Message /\ <<"destroy">> \in Message /\ <<"autoExit">> \in Message
  BY DEF Message
<1>h. ASSUME mainQueue # <<>>
      PROVE  /\ Holds(Tail(mainQueue), Ticks) /\ Head(mainQueue) \in Ticks
             /\ Tail(mainQueue) \in Seq(Message)
  BY <1>0, <1>2, <1>h, HoldsQueue, HeadTailProperties
<1>f. ASSUME NEW queue \in Seq(Message), Holds(queue, Ticks), NEW others,
             Finish(queue, "exit", others)
      PROVE  phase' # "camera" /\ Holds(mainQueue', Ticks)
  <2>1. <<"destroy">> \in Ticks \cap Message
    BY <1>t DEF Ticks
  <2>2. Holds(Append(queue, <<"destroy">>), Ticks)
    BY <1>f, <2>1, HoldsQueue
  <2>3. QED
    BY <1>2, <1>f, <2>2 DEF Finish, Post, Open
(* Steps of the main thread and the timers that leave the doors alone. *)
<1>q. ASSUME UNCHANGED <<idle, threads, doorVars>>, phase' # "camera",
             Holds(mainQueue', Ticks)
      PROVE  UntouchedInv'
  BY <1>1, <1>2, <1>q DEF UntouchedInv, Ticks, Holds, NoDelay, doorVars
<1>4. CASE UNCHANGED vars \/ Login \/ ControlResult
  BY <1>2, <1>4, <1>q DEF vars, Login, ControlResult, sessionVars, timerVars, doorVars, Holds
<1>5. CASE Pass
  <2>1. /\ idle' # "near" /\ NoDelay /\ phase' # "camera"
        /\ UNCHANGED <<threads, doorVars, mainQueue>>
    BY <1>2, <1>5 DEF Pass, sessionVars
  <2>2. Holds(mainQueue', Ticks')
    BY <1>2, <2>1 DEF Holds, Ticks
  <2>3. QED
    BY <1>2, <2>1, <2>2 DEF UntouchedInv, NoDelay, doorVars
<1>6. CASE TickPost
  <2>1. <<"check">> \in Ticks \cap Message
    BY <1>t DEF Ticks
  <2>2. Holds(Append(mainQueue, <<"check">>), Ticks)
    BY <1>0, <1>2, <2>1, HoldsQueue
  <2>3. mainQueue' = Append(mainQueue, <<"check">>)
    BY <1>6 DEF TickPost, Post
  <2>4. QED
    BY <1>2, <1>6, <1>q, <2>2, <2>3 DEF TickPost, sessionVars
<1>7. CASE TickTest
  <2>1. CASE hasManIsRun /\ idle # "near"
    <3>1. <<"autoExit">> \in Ticks \cap Message
      BY <1>t, <2>1 DEF Ticks
    <3>2. Holds(Append(mainQueue, <<"autoExit">>), Ticks)
      BY <1>0, <1>2, <3>1, HoldsQueue
    <3>3. mainQueue' = Append(mainQueue, <<"autoExit">>)
      BY <1>7, <2>1 DEF TickTest, Post
    <3>4. QED
      BY <1>2, <1>7, <1>q, <3>2, <3>3 DEF TickTest, sessionVars
  <2>2. CASE ~ (hasManIsRun /\ idle # "near")
    BY <1>2, <1>7, <1>q, <2>2 DEF TickTest, sessionVars
  <2>3. QED
    BY <2>1, <2>2
<1>8. CASE HandleCheck
  <2>1. CASE idle = "over"
    <3>1. Finish(Tail(mainQueue), "exit", DOMAIN threads) /\ mainQueue # <<>>
      BY <1>8, <2>1 DEF HandleCheck, Handles
    <3>2. QED
      BY <1>8, <1>f, <1>h, <1>q, <3>1 DEF HandleCheck, timerVars
  <2>2. CASE idle # "over"
    <3>1. mainQueue' = Tail(mainQueue) /\ mainQueue # <<>> /\ phase' = phase
      BY <1>8, <2>2 DEF HandleCheck, Handles
    <3>2. QED
      BY <1>2, <1>8, <1>h, <1>q, <3>1 DEF HandleCheck, timerVars
  <2>3. QED
    BY <2>1, <2>2
<1>9. CASE HandleDestroy
  <2>1. mainQueue' = Tail(mainQueue) /\ mainQueue # <<>> /\ phase' = "destroyed"
    BY <1>9 DEF HandleDestroy, Handles
  <2>2. QED
    BY <1>9, <1>h, <1>q, <2>1 DEF HandleDestroy
<1>10. ~ HandleItem /\ ~ HandleCamera
  <2>1. \A d \in Door : <<"item", d>> \notin Ticks
    BY DEF Ticks
  <2>2. <<"camera">> \notin Ticks
    BY DEF Ticks
  <2>3. QED
    BY <1>h, <2>1, <2>2 DEF HandleItem, HandleCamera, Handles
<1>11. CASE HandleExit
  <2>1. /\ mainQueue # <<>> /\ mainQueue' = Tail(mainQueue)
        /\ Head(mainQueue) \in {<<"autoExit">>, <<"exitTap">>}
        /\ UNCHANGED <<idle, doorVars>> /\ phase' # "camera"
    BY <1>2, <1>11 DEF HandleExit, Handles, timerVars
  <2>2. idle # "near"
    <3>1. <<"exitTap">> \notin Ticks
      BY DEF Ticks
    <3>2. idle = "near" => <<"autoExit">> \notin Ticks
      BY DEF Ticks
    <3>3. QED
      BY <1>h, <2>1, <3>1, <3>2
  <2>3. CASE UNCHANGED threads
    BY <1>h, <1>q, <2>1, <2>3
  <2>4. CASE threads' = Append(threads, NewThread("settle"))
    <3>1. /\ DOMAIN threads' = 1..Len(threads) + 1 /\ DOMAIN threads = 1..Len(threads)
          /\ \A k \in DOMAIN threads : threads'[k] = threads[k]
          /\ threads'[Len(threads) + 1] = NewThread("settle")
          /\ Len(threads) \in Nat
      BY <1>0, <2>4, ThreadJoins, LenProperties DEF TypeOK
    <3>2. NewThread("settle").pc = "start"
      BY DEF NewThread
    <3>3. \A i \in DOMAIN threads' : i \in DOMAIN threads \/ threads'[i].pc = "start"
      BY <3>1, <3>2
    <3>4. Holds(mainQueue', Ticks')
      BY <1>h, <2>1 DEF Holds, Ticks
    <3>5. needClose' = needClose /\ ordered' = ordered /\ opening' = opening
      BY <2>1 DEF doorVars
    <3>6. \A i \in DOMAIN threads' :
             /\ threads'[i].pc # "dead"
             /\ threads'[i].pc # "start" => threads'[i].size = Len(needClose')
      BY <1>2, <3>1, <3>3, <3>5
    <3>7. QED
      BY <1>2, <2>1, <2>2, <3>4, <3>5, <3>6 DEF UntouchedInv, NoDelay
  <2>5. QED
    BY <1>11, <2>3, <2>4 DEF HandleExit
<1>12. CASE RunOpen
  <2>1. PICK d \in Door :
          /\ opening[d] > 0
          /\ opening' = [opening EXCEPT ![d] = @ - 1]
          /\ ordered' = [ordered EXCEPT
                  ![d] = IF @ \in {"none", "open"} THEN "open" ELSE "reopen"]
          /\ UNCHANGED <<idle, phase, mainQueue, threads, needClose>>
    BY <1>12 DEF RunOpen, timerVars, sessionVars
  <2>2. idle = "near"
    BY <1>0, <1>2, <2>1 DEF NoDelay
  <2>3. \A e \in Door : ordered'[e] \in {"none", "open"}
    BY <1>0, <1>2, <2>1, <2>2
  <2>4. Holds(mainQueue', Ticks')
    BY <1>2, <2>1 DEF Holds, Ticks
  <2>5. QED
    BY <1>2, <2>1, <2>2, <2>3, <2>4 DEF UntouchedInv
<1>13. CASE SettleTimeout
  BY <1>0, <1>2, <1>13, <1>f, <1>q DEF SettleTimeout, timerVars
<1>14. ASSUME NEW i \in DOMAIN threads,
              ThreadStart(i) \/ ThreadNext(i) \/ ThreadRecord(i) \/ ThreadEnd(i)
       PROVE  UntouchedInv'
  <2>0. idle # "near" /\ idle' = idle
    <3>1. idle # "near"
      BY <1>2
    <3>2. QED
      BY <1>14, <3>1 DEF ThreadStart, ThreadNext, ThreadRecord, ThreadEnd, timerVars
  <2>1. phase' # "camera" /\ Holds(mainQueue', Ticks)
    <3>1. CASE UNCHANGED <<phase, mainQueue>>
      BY <1>2, <3>1
    <3>2. CASE Finish(mainQueue, "exit", DOMAIN threads \ {i})
      BY <1>0, <1>2, <1>f, <3>2
    <3>3. QED
      BY <1>14, <3>1, <3>2 DEF ThreadStart, ThreadNext, ThreadRecord, ThreadEnd,
                               sessionVars
  <2>2. /\ needClose' = needClose /\ opening' = opening
        /\ DOMAIN threads' = DOMAIN threads
        /\ \A k \in DOMAIN threads \ {i} : threads'[k] = threads[k]
    BY <1>14, ThreadMove DEF ThreadStart, ThreadNext, ThreadRecord, ThreadEnd, doorVars
  <2>3. /\ threads'[i].size = IF ThreadStart(i) THEN Len(needClose) ELSE threads[i].size
        /\ threads'[i].pc # "start"
        /\ threads'[i].pc = "dead" => ThreadNext(i) /\ threads[i].size # Len(needClose)
    BY <1>0, <1>14, ThreadSize
  <2>4. ~ ThreadStart(i) => threads[i].size = Len(needClose)
    BY <1>2, <1>14 DEF ThreadNext, ThreadRecord, ThreadEnd
  <2>5. threads'[i].size = Len(needClose) /\ threads'[i].pc # "dead"
    <3>1. ThreadNext(i) => ~ ThreadStart(i)
      BY DEF ThreadNext, ThreadStart
    <3>2. QED
      BY <2>3, <2>4, <3>1
  <2>6. \A d \in Door : ordered'[d] # "reopen"
    <3>1. CASE ordered' = ordered
      BY <1>2, <3>1
    <3>2. CASE ordered' = [ordered EXCEPT ![needClose[threads[i].cursor + 1]] = "close"]
      BY <1>0, <1>2, <3>2
    <3>3. QED
      BY <1>14, <3>1, <3>2 DEF ThreadStart, ThreadNext, ThreadRecord, ThreadEnd, doorVars
  <2>7. Holds(mainQueue', Ticks')
    BY <2>0, <2>1 DEF Ticks
  <2>8. NoDelay'
    BY <1>2, <2>0, <2>2 DEF NoDelay
  <2>9. \A k \in DOMAIN threads' :
           threads'[k].pc # "dead"
           /\ (threads'[k].pc # "start" => threads'[k].size = Len(needClose'))
    BY <1>2, <2>2, <2>5
  <2>10. QED
    BY <2>0, <2>1, <2>6, <2>7, <2>8, <2>9 DEF UntouchedInv
<1>15. QED
  BY <1>1, <1>3, <1>4, <1>5, <1>6, <1>7, <1>8, <1>9, <1>10, <1>11, <1>12, <1>13, <1>14
  DEF Next, Timer, Main, Threads

(* A session whose screen nobody touches is settled without a race: for    *)
(* any doors and any timing within a minute, its doors are closed when the *)
(* thread has come to its end, and the thread does not die.                *)
THEOREM UntouchedDoorsClose == Spec => []UntouchedSessionClosesDoors
<1>1. TypeInv /\ ListCoversOpenDoors /\ ClosedInv /\ UntouchedInv
      => UntouchedSessionClosesDoors
  <2> SUFFICES ASSUME TypeInv, ListCoversOpenDoors, ClosedInv, UntouchedInv, touches = 0,
                      NEW i \in DOMAIN threads
               PROVE  /\ threads[i].pc # "dead"
                      /\ threads[i].pc = "done" =>
                            \A d \in Door : ordered[d] \in {"none", "close"}
    BY DEF UntouchedSessionClosesDoors
  <2>1. threads[i].pc # "dead"
    BY DEF UntouchedInv
  <2>2. ASSUME threads[i].pc = "done", NEW d \in Door
        PROVE  ordered[d] \in {"none", "close"}
    <3>1. threads[i].cursor = Len(needClose) /\ DOMAIN needClose = 1..Len(needClose)
      BY <2>2, LenProperties DEF UntouchedInv, ClosedInv, TypeInv, TypeOK
    <3>2. CASE d \in Opened
      <4>1. PICK j \in DOMAIN needClose : d = needClose[j]
        BY <3>2 DEF Opened
      <4>2. ordered[d] \in {"close", "reopen"}
        BY <3>1, <4>1 DEF ClosedInv
      <4>3. QED
        BY <4>2 DEF UntouchedInv
    <3>3. CASE d \notin Opened
      BY <3>3 DEF ListCoversOpenDoors
    <3>4. QED
      BY <3>2, <3>3
  <2>3. QED
    BY <2>1, <2>2
<1>2. QED
  BY InitTypeInv, NextTypeInv, InitListed, NextListed, InitClosed, NextClosed, InitSize,
     NextSize, InitUntouched, NextUntouched, <1>1, PTL DEF Spec
----------------------------------------------------------------------------
(* While the activity is open its user is logged in and no onDestroy is on *)
(* its way.                                                                *)
NoDestroy(queue) == \A k \in 1..Len(queue) : queue[k] # <<"destroy">>

PhaseInv ==
    /\ Open => userId # 0
    /\ Open => NoDestroy(mainQueue)

LEMMA NoDestroyQueue ==
    ASSUME NEW queue \in Seq(Message), NoDestroy(queue)
    PROVE  /\ queue # <<>> => NoDestroy(Tail(queue)) /\ Head(queue) # <<"destroy">>
           /\ \A m \in Message \ {<<"destroy">>} : NoDestroy(Append(queue, m))
<1>1. ASSUME queue # <<>>
      PROVE  NoDestroy(Tail(queue)) /\ Head(queue) # <<"destroy">>
  <2>1. /\ Len(queue) \in Nat \ {0} /\ Head(queue) = queue[1]
        /\ Len(Tail(queue)) = Len(queue) - 1
        /\ \A k \in 1..Len(queue) - 1 : Tail(queue)[k] = queue[k + 1]
    BY <1>1, HeadTailProperties, EmptySeq
  <2>2. QED
    BY <2>1 DEF NoDestroy
<1>2. ASSUME NEW m \in Message \ {<<"destroy">>} PROVE NoDestroy(Append(queue, m))
  <2> DEFINE longer == Append(queue, m)
  <2>1. /\ Len(queue) \in Nat /\ Len(longer) = Len(queue) + 1
        /\ \A k \in 1..Len(queue) : longer[k] = queue[k]
        /\ longer[Len(queue) + 1] = m
    BY LenProperties, AppendProperties
  <2>2. m # <<"destroy">>
    OBVIOUS
  <2>3. \A k \in 1..Len(queue) : queue[k] # <<"destroy">>
    BY DEF NoDestroy
  <2> HIDE DEF longer
  <2>4. \A k \in 1..Len(longer) : longer[k] # <<"destroy">>
    <3> DEFINE last == <<"destroy">>
    <3>1. m # last /\ \A k \in 1..Len(queue) : queue[k] # last
      BY <2>2, <2>3
    <3> HIDE DEF last
    <3>2. \A k \in 1..Len(longer) : longer[k] # last
      BY <2>1, <3>1
    <3>3. QED
      BY <3>2 DEF last
  <2>5. QED
    BY <2>4 DEF NoDestroy, longer
<1>3. QED
  BY <1>1, <1>2

(* After finish() the activity is not open. *)
LEMMA FinishCloses ==
    ASSUME NEW queue, NEW kind, NEW others, Finish(queue, kind, others)
    PROVE  ~ Open'
BY DEF Finish, Open

LEMMA InitPhase == Init => PhaseInv
BY SessionAssumption DEF Init, PhaseInv, NoDestroy

LEMMA NextPhase == TypeInv /\ PhaseInv /\ [Next]_vars => PhaseInv'
<1> SUFFICES ASSUME TypeInv, PhaseInv, [Next]_vars PROVE PhaseInv'
  OBVIOUS
<1>0. TypeOK /\ mainQueue \in Seq(Message)
  BY DEF TypeInv, TypeOK
<1>1. ASSUME ~ Open' PROVE PhaseInv'
  BY <1>1 DEF PhaseInv
<1>2. ASSUME UNCHANGED <<phase, mainQueue>>, userId' = userId \/ userId' # 0
      PROVE  PhaseInv'
  BY <1>2 DEF PhaseInv, Open, NoDestroy
<1>3. ASSUME NEW m \in Message \ {<<"destroy">>}, mainQueue' = Append(mainQueue, m),
             UNCHANGED <<phase, userId>>
      PROVE  PhaseInv'
  <2>1. Open' => NoDestroy(Append(mainQueue, m)) /\ userId' # 0
    BY <1>0, <1>3, NoDestroyQueue DEF PhaseInv, Open
  <2>2. QED
    BY <1>3, <2>1 DEF PhaseInv, NoDestroy
<1>4. ASSUME mainQueue # <<>>, mainQueue' = Tail(mainQueue), UNCHANGED userId,
             Open' => Open
      PROVE  PhaseInv'
  <2>1. Open' => NoDestroy(Tail(mainQueue)) /\ userId' # 0
    BY <1>0, <1>4, NoDestroyQueue DEF PhaseInv
  <2>2. QED
    BY <1>4, <2>1 DEF PhaseInv, NoDestroy
<1>5. ASSUME NEW m \in {<<"exitTap">>, <<"camera">>} \cup {<<"item", d>> : d \in Door},
             Touch(m)
      PROVE  PhaseInv'
  <2>1. m \in Message \ {<<"destroy">>}
    BY <1>5 DEF Message
  <2>2. mainQueue' = Append(mainQueue, m) /\ UNCHANGED <<phase, userId>>
    BY <1>5 DEF Touch, Post, sessionVars
  <2>3. QED
    BY <1>3, <2>1, <2>2
<1>6. CASE Timer
  <2>1. <<"check">> \in Message \ {<<"destroy">>} /\ <<"autoExit">> \in Message \ {<<"destroy">>}
    BY DEF Message
  <2>2. /\ UNCHANGED <<phase, userId>>
        /\ \/ mainQueue' = mainQueue \/ mainQueue' = Append(mainQueue, <<"check">>)
           \/ mainQueue' = Append(mainQueue, <<"autoExit">>)
    BY <1>6 DEF Timer, TickPost, TickTest, Post, sessionVars
  <2>3. QED
    BY <1>2, <1>3, <2>1, <2>2
<1>7. CASE HandleCheck
  <2>1. CASE idle = "over"
    BY <1>1, <1>7, <2>1, FinishCloses DEF HandleCheck
  <2>2. CASE idle # "over"
    BY <1>4, <1>7, <2>2 DEF HandleCheck, Handles, Open
  <2>3. QED
    BY <2>1, <2>2
<1>8. CASE HandleExit \/ HandleCamera \/ HandleItem
  <2>1. mainQueue # <<>> /\ mainQueue' = Tail(mainQueue) /\ UNCHANGED userId
    BY <1>8 DEF HandleExit, HandleCamera, HandleItem, Handles
  <2>2. Open' => Open
    BY <1>8 DEF HandleExit, HandleCamera, HandleItem, Open, sessionVars
  <2>3. QED
    BY <1>4, <2>1, <2>2
<1>9. CASE HandleDestroy
  BY <1>1, <1>9 DEF HandleDestroy, Open
<1>10. CASE CameraReturns \/ SettleTimeout
  BY <1>1, <1>10, FinishCloses DEF CameraReturns, SettleTimeout
<1>11. CASE Login
  BY <1>2, <1>11, SessionAssumption DEF Login, sessionVars
<1>12. CASE ControlResult
  BY <1>1, <1>12 DEF ControlResult, Open
<1>13. CASE Threads
  <2>1. CASE UNCHANGED <<phase, mainQueue>> /\ userId' = userId
    BY <1>2, <2>1
  <2>2. CASE \E i \in DOMAIN threads : Finish(mainQueue, "exit", DOMAIN threads \ {i})
    BY <1>1, <2>2, FinishCloses
  <2>3. QED
    BY <1>13, <2>1, <2>2 DEF Threads, ThreadStart, ThreadNext, ThreadRecord, ThreadEnd,
                             sessionVars
<1>14. CASE UNCHANGED vars \/ ProximitySeen \/ Pass \/ OnStop \/ RunOpen
  BY <1>2, <1>14 DEF vars, ProximitySeen, Pass, OnStop, RunOpen, sessionVars
<1>15. QED
  BY <1>5, <1>6, <1>7, <1>8, <1>9, <1>10, <1>11, <1>12, <1>13, <1>14
  DEF Next, TouchAny, Main

----------------------------------------------------------------------------
(* Who is still settling when the activity has ended has been cut; only    *)
(* settlements make records.                                               *)
CutInv ==
    /\ \A i \in DOMAIN threads : threads[i].pc = "record" => threads[i].kind = "settle"
    /\ ~cut => \A n \in DOMAIN records : records[n].user # 0
    /\ ~cut => Open \/ \A i \in DOMAIN threads : ~ Settling(threads[i])

LEMMA InitCut == Init => CutInv
BY DEF Init, CutInv

LEMMA NextCut == TypeInv /\ PhaseInv /\ CutInv /\ [Next]_vars => CutInv'
<1> SUFFICES ASSUME TypeInv, PhaseInv, CutInv, [Next]_vars PROVE CutInv'
  OBVIOUS
<1>0. TypeOK /\ mainQueue \in Seq(Message) /\ cut \in BOOLEAN
      /\ records \in Seq(Record) /\ threads \in Seq(Thread)
  BY DEF TypeInv, TypeOK
<1>1. ASSUME UNCHANGED <<threads, records, cut>>, Open => Open' PROVE CutInv'
  BY <1>1 DEF CutInv, Settling
<1>2. ASSUME NEW queue, UNCHANGED <<threads, records>>,
             Finish(queue, "exit", DOMAIN threads)
      PROVE  CutInv'
  <2>1. CASE Open
    BY <1>2, <2>1 DEF CutInv, Finish, Settling
  <2>2. CASE ~Open
    BY <1>1, <1>2, <2>2 DEF Finish
  <2>3. QED
    BY <2>1, <2>2
<1>3. ASSUME NEW kind \in {"settle", "close"}, threads' = Append(threads, NewThread(kind)),
             UNCHANGED records
      PROVE  /\ \A i \in DOMAIN threads' :
                    threads'[i].pc = "record" => threads'[i].kind = "settle"
             /\ kind = "close" /\ (\A i \in DOMAIN threads : ~ Settling(threads[i]))
                   => \A i \in DOMAIN threads' : ~ Settling(threads'[i])
  <2>1. /\ DOMAIN threads' = DOMAIN threads \cup {Len(threads) + 1}
        /\ \A k \in DOMAIN threads : threads'[k] = threads[k]
        /\ threads'[Len(threads) + 1] = NewThread(kind)
    <3>1. Len(threads) \in Nat
      BY <1>0, LenProperties
    <3>2. QED
      BY <1>0, <1>3, <3>1, ThreadJoins
  <2>2. NewThread(kind).pc = "start" /\ NewThread(kind).kind = kind
    BY DEF NewThread
  <2>3. QED
    BY <2>1, <2>2 DEF CutInv, Settling
<1>4. CASE HandleExit
  <2>1. CASE phase = "destroyed"
    BY <1>1, <1>4, <2>1 DEF HandleExit, Open
  <2>2. CASE phase # "destroyed"
    <3>1. /\ threads' = Append(threads, NewThread("settle")) /\ records' = records
          /\ phase' = phase /\ cut' = (cut \/ ~Open)
      BY <1>4, <2>2 DEF HandleExit
    <3>2. ~cut' => ~cut /\ Open'
      BY <3>1 DEF Open
    <3>3. QED
      BY <1>3, <3>1, <3>2 DEF CutInv
  <2>3. QED
    BY <2>1, <2>2
<1>5. CASE CameraReturns
  <2>1. threads' = Append(threads, NewThread("close")) /\ records' = records /\ Open
    BY <1>5 DEF CameraReturns, Open
  <2>2. cut' = (cut \/ \E i \in DOMAIN threads : Settling(threads[i]))
    BY <1>5, <2>1 DEF CameraReturns, Finish
  <2>3. ~cut' => ~cut /\ \A i \in DOMAIN threads : ~ Settling(threads[i])
    BY <2>2
  <2>4. ~cut' => \A i \in DOMAIN threads' : ~ Settling(threads'[i])
    BY <1>3, <2>1, <2>3
  <2>5. \A i \in DOMAIN threads' : threads'[i].pc = "record" => threads'[i].kind = "settle"
    BY <1>3, <2>1
  <2>6. ~cut' => \A n \in DOMAIN records' : records'[n].user # 0
    BY <2>1, <2>3 DEF CutInv
  <2>7. QED
    BY <2>4, <2>5, <2>6 DEF CutInv, Settling
<1>6. CASE HandleCheck
  <2>1. CASE idle = "over"
    BY <1>2, <1>6, <2>1 DEF HandleCheck
  <2>2. CASE idle # "over"
    BY <1>1, <1>6, <2>2 DEF HandleCheck, Open
  <2>3. QED
    BY <2>1, <2>2
<1>7. CASE SettleTimeout
  BY <1>2, <1>7 DEF SettleTimeout
<1>8. CASE HandleDestroy
  <2>1. ~Open
    BY <1>0, <1>8, NoDestroyQueue DEF HandleDestroy, Handles, PhaseInv
  <2>2. QED
    BY <1>1, <1>8, <2>1 DEF HandleDestroy
<1>9. ASSUME NEW i \in DOMAIN threads,
             ThreadStart(i) \/ ThreadNext(i) \/ ThreadRecord(i) \/ ThreadEnd(i)
      PROVE  CutInv'
  <2>1. /\ DOMAIN threads' = DOMAIN threads
        /\ \A k \in DOMAIN threads \ {i} : threads'[k] = threads[k]
        /\ threads'[i].kind = threads[i].kind
    BY <1>9, ThreadMove
  <2>2. threads'[i].pc = "record" => threads[i].kind = "settle"
    BY <1>9, ThreadMove
  <2>3. \A k \in DOMAIN threads' : threads'[k].pc = "record" => threads'[k].kind = "settle"
    BY <2>1, <2>2 DEF CutInv
  <2>4. threads[i].pc \notin {"done", "dead"}
    BY <1>9 DEF ThreadStart, ThreadNext, ThreadRecord, ThreadEnd
  <2>5. \A k \in DOMAIN threads : Settling(threads'[k]) => Settling(threads[k])
    BY <2>1, <2>4 DEF Settling
  <2>6. CASE ThreadStart(i) \/ ThreadNext(i)
    <3>1. UNCHANGED <<phase, records, cut>>
      BY <2>6 DEF ThreadStart, ThreadNext, sessionVars
    <3>2. QED
      BY <2>1, <2>3, <2>5, <3>1 DEF CutInv, Open
  <2>7. CASE ThreadRecord(i)
    <3> DEFINE r == [door |-> needClose[threads[i].cursor], user |-> userId]
    <3>1. UNCHANGED <<phase, cut>> /\ records' = Append(records, r)
      BY <2>7 DEF ThreadRecord, sessionVars
    <3>2. Settling(threads[i])
      BY <2>7 DEF CutInv, ThreadRecord, Settling
    <3>3. ~cut => r.user # 0
      BY <3>2 DEF CutInv, PhaseInv
    <3> HIDE DEF r
    <3>4. \A n \in DOMAIN records' :
             \/ n \in DOMAIN records /\ records'[n] = records[n]
             \/ records'[n] = r
      <4>1. records \in Seq(Record) /\ records' = Append(records, r)
        BY <1>0, <3>1
      <4>2. DOMAIN records' = 1 .. Len(records) + 1 /\ DOMAIN records = 1 .. Len(records)
        BY <4>1
      <4>3. /\ \A n \in 1 .. Len(records) : records'[n] = records[n]
            /\ records'[Len(records) + 1] = r
        BY <4>1
      <4>4. Len(records) \in Nat
        BY <4>1
      <4>5. QED
        BY <4>2, <4>3, <4>4
    <3>5. QED
      BY <2>1, <2>3, <2>5, <3>1, <3>3, <3>4 DEF CutInv, Open
  <2>8. CASE ThreadEnd(i)
    <3>1. records' = records /\ ~ Settling(threads'[i])
      <4>1. threads' = [threads EXCEPT ![i].pc = "done"] /\ records' = records
        BY <2>8 DEF ThreadEnd
      <4>2. threads[i] \in Thread
        BY <1>0, ThreadFields
      <4>3. threads'[i].pc = "done"
        BY <4>1, <4>2 DEF Thread
      <4>4. QED
        BY <4>1, <4>3 DEF Settling
    <3>2. CASE UNCHANGED <<phase, cut>>
      BY <2>1, <2>3, <2>5, <3>1, <3>2 DEF CutInv, Open
    <3>3. CASE Open /\ cut' = (cut \/ \E k \in DOMAIN threads \ {i} : Settling(threads[k]))
      <4>1. ~cut' => ~cut /\ \A k \in DOMAIN threads \ {i} : ~ Settling(threads[k])
        BY <3>3
      <4>2. ~cut' => \A k \in DOMAIN threads' : ~ Settling(threads'[k])
        BY <2>1, <3>1, <4>1 DEF Settling
      <4>3. QED
        BY <2>3, <3>1, <4>1, <4>2 DEF CutInv, Settling
    <3>4. QED
      BY <2>8, <3>2, <3>3 DEF ThreadEnd, Finish
  <2>9. QED
    BY <1>9, <2>6, <2>7, <2>8
<1>10. CASE \/ UNCHANGED vars \/ TouchAny \/ ProximitySeen \/ Login \/ ControlResult
            \/ Pass \/ Timer \/ HandleItem \/ HandleCamera \/ OnStop \/ RunOpen
  <2>1. UNCHANGED <<threads, records, cut>>
    BY <1>10 DEF vars, TouchAny, Touch, ProximitySeen, Login, ControlResult, Pass, Timer,
                 TickPost, TickTest, HandleItem, HandleCamera, OnStop, RunOpen
  <2>2. Open => Open'
    BY <1>10 DEF vars, TouchAny, Touch, ProximitySeen, Login, ControlResult, Pass, Timer,
                 TickPost, TickTest, HandleItem, HandleCamera, OnStop, RunOpen, Open,
                 sessionVars
  <2>3. QED
    BY <1>1, <2>1, <2>2
<1>11. QED
  BY <1>4, <1>5, <1>6, <1>7, <1>8, <1>9, <1>10 DEF Next, Main, Threads

(* Nobody (userId 0) is charged for a delivery unless a settlement was     *)
(* overtaken: the logout in MainActivity comes after the last record of    *)
(* every settlement that was left to end by itself.                        *)
THEOREM NobodyPays == Spec => []NobodyPaysOnlyIfCut
<1>1. TypeInv /\ CutInv => NobodyPaysOnlyIfCut
  BY DEF CutInv, NobodyPaysOnlyIfCut
<1>2. QED
  BY InitTypeInv, NextTypeInv, InitPhase, NextPhase, InitCut, NextCut, <1>1, PTL DEF Spec
----------------------------------------------------------------------------
(* The settlements that have passed a door and made its record: a thread   *)
(* that is about to make one is not among them yet.                        *)
Passed(d) ==
    {i \in DOMAIN threads :
        /\ threads[i].kind = "settle" /\ d \in Covered(i)
        /\ ~ (threads[i].pc = "record" /\ needClose[threads[i].cursor] = d)}

LedgerInv == \A d \in Door : Cardinality(Recorded(d)) <= Cardinality(Passed(d))

(* The sets that are counted are finite. *)
LEMMA LedgerFinite ==
    ASSUME TypeOK, NEW d
    PROVE  /\ IsFiniteSet(Recorded(d)) /\ Cardinality(Recorded(d)) \in Nat
           /\ IsFiniteSet(Passed(d)) /\ Cardinality(Passed(d)) \in Nat
           /\ IsFiniteSet(DOMAIN threads)
<1>1. /\ DOMAIN records = 1..Len(records) /\ Len(records) \in Nat
      /\ DOMAIN threads = 1..Len(threads) /\ Len(threads) \in Nat
  BY LenProperties DEF TypeOK
<1>2. IsFiniteSet(DOMAIN records) /\ IsFiniteSet(DOMAIN threads)
  BY <1>1, FS_Interval
<1>3. Recorded(d) \subseteq DOMAIN records /\ Passed(d) \subseteq DOMAIN threads
  BY DEF Recorded, Passed
<1>4. QED
  BY <1>2, <1>3, FS_Subset, FS_CardinalityType

(* A door without a new record has lost no settlement. *)
LEMMA LedgerKeeps ==
    ASSUME TypeOK, TypeOK', LedgerInv, NEW d \in Door,
           Recorded(d)' = Recorded(d), Passed(d) \subseteq Passed(d)'
    PROVE  Cardinality(Recorded(d)') <= Cardinality(Passed(d)')
<1>1. /\ Cardinality(Recorded(d)) \in Nat /\ Cardinality(Passed(d)) \in Nat
      /\ IsFiniteSet(Passed(d)')
  <2>1. IsFiniteSet(Passed(d))'
    BY LedgerFinite, PTL
  <2>2. QED
    BY <2>1, LedgerFinite
<1>2. Cardinality(Passed(d)) <= Cardinality(Passed(d)') /\ Cardinality(Passed(d)') \in Nat
  BY <1>1, FS_Subset, FS_CardinalityType
<1>3. Cardinality(Recorded(d)) <= Cardinality(Passed(d))
  BY DEF LedgerInv
<1>4. QED
  BY <1>1, <1>2, <1>3
LEMMA InitLedger == Init => LedgerInv
<1> SUFFICES ASSUME Init, NEW d \in Door
             PROVE  Cardinality(Recorded(d)) <= Cardinality(Passed(d))
  BY DEF LedgerInv
<1>1. Recorded(d) = {} /\ Passed(d) = {}
  BY DEF Init, Recorded, Passed
<1>2. QED
  BY <1>1, FS_EmptySet

(* The threads' places in the list and what is behind them. *)
LEMMA ListPlaces ==
    ASSUME TypeInv, ListCoversOpenDoors
    PROVE  /\ Len(needClose) \in Nat
           /\ \A k \in DOMAIN threads : /\ threads[k].cursor \in Nat
                                        /\ threads[k].cursor <= Len(needClose)
           /\ \A j, k \in 1..Len(needClose) : needClose[j] = needClose[k] => j = k
<1>1. TypeOK /\ needClose \in Seq(Door) /\ Len(needClose) \in Nat
      /\ DOMAIN needClose = 1..Len(needClose)
  BY LenProperties DEF TypeInv, TypeOK
<1>2. QED
  BY <1>1, ThreadFields DEF TypeInv, ThreadInv, ListCoversOpenDoors

LEMMA NextLedger ==
    TypeInv /\ ListCoversOpenDoors /\ CutInv /\ LedgerInv /\ [Next]_vars => LedgerInv'
<1> SUFFICES ASSUME TypeInv, ListCoversOpenDoors, CutInv, LedgerInv, [Next]_vars,
                    NEW d \in Door
             PROVE  Cardinality(Recorded(d)') <= Cardinality(Passed(d)')
  BY DEF LedgerInv
<1>0. TypeOK /\ TypeOK' /\ records \in Seq(Record) /\ Len(records) \in Nat
  BY NextTypeInv, LenProperties DEF TypeInv, TypeOK
<1>p. /\ Len(needClose) \in Nat
      /\ \A k \in DOMAIN threads : /\ threads[k].cursor \in Nat
                                   /\ threads[k].cursor <= Len(needClose)
      /\ \A j, k \in 1..Len(needClose) : needClose[j] = needClose[k] => j = k
  BY ListPlaces
<1>k. ASSUME UNCHANGED records, Passed(d) \subseteq Passed(d)'
      PROVE  Cardinality(Recorded(d)') <= Cardinality(Passed(d)')
  BY <1>0, <1>k, LedgerKeeps DEF Recorded
<1>1. CASE UNCHANGED <<threads, records, doorVars>>
  BY <1>1, <1>k DEF Passed, Covered, doorVars
<1>2. CASE (HandleItem \/ RunOpen) /\ UNCHANGED <<threads, records>>
  <2>1. \A j \in 1..Len(needClose) : needClose'[j] = needClose[j]
    <3>1. CASE HandleItem
      <4>1. PICK e \in Door : AddNeedCloseDustbin(e)
        BY <3>1 DEF HandleItem
      <4>2. QED
        BY <1>0, <4>1, ListGrows
    <3>2. CASE RunOpen
      BY <3>2 DEF RunOpen
    <3>3. QED
      BY <1>2, <3>1, <3>2
  <2>2. \A k \in DOMAIN threads : \A j \in 1..threads[k].cursor :
           needClose'[j] = needClose[j]
    BY <1>p, <2>1
  <2>3. \A k \in DOMAIN threads : threads[k].pc = "record" =>
           needClose'[threads[k].cursor] = needClose[threads[k].cursor]
    BY <1>p, <2>2 DEF TypeInv, ThreadInv
  <2>4. Passed(d) \subseteq Passed(d)'
    BY <1>2, <2>2, <2>3 DEF Passed, Covered
  <2>5. QED
    BY <1>2, <1>k, <2>4
<1>3. ASSUME NEW kind \in {"settle", "close"}, UNCHANGED <<records, doorVars>>,
             threads' = Append(threads, NewThread(kind))
      PROVE  Cardinality(Recorded(d)') <= Cardinality(Passed(d)')
  <2>1. /\ DOMAIN threads \subseteq DOMAIN threads'
        /\ \A k \in DOMAIN threads : threads'[k] = threads[k]
    <3>1. Len(threads) \in Nat
      BY <1>0, LenProperties DEF TypeOK
    <3>2. QED
      BY <1>0, <1>3, <3>1, ThreadJoins
  <2>2. needClose' = needClose
    BY <1>3 DEF doorVars
  <2>3. Passed(d) \subseteq Passed(d)'
    BY <2>1, <2>2 DEF Passed, Covered
  <2>4. QED
    BY <1>3, <1>k, <2>3
<1>4. ASSUME NEW i \in DOMAIN threads,
             ThreadStart(i) \/ ThreadNext(i) \/ ThreadRecord(i) \/ ThreadEnd(i)
      PROVE  Cardinality(Recorded(d)') <= Cardinality(Passed(d)')
  <2>1. /\ needClose' = needClose /\ DOMAIN threads' = DOMAIN threads
        /\ \A k \in DOMAIN threads \ {i} : threads'[k] = threads[k]
        /\ threads'[i].kind = threads[i].kind
    BY <1>4, ThreadMove
  <2>2. \A k \in DOMAIN threads \ {i} : k \in Passed(d) => k \in Passed(d)'
    BY <2>1 DEF Passed, Covered
  <2>3. CASE ThreadNext(i) /\ threads'[i].cursor = threads[i].cursor + 1
             /\ threads'[i].cursor \in 1..Len(needClose)
    <3>1. ASSUME i \in Passed(d) PROVE i \in Passed(d)'
      <4>1. threads[i].kind = "settle" /\ d \in Covered(i)
        BY <3>1 DEF Passed
      <4>2. PICK j \in 1..threads[i].cursor : d = needClose[j]
        BY <4>1 DEF Covered
      <4>3. j \in 1..Len(needClose) /\ j # threads'[i].cursor /\ j \in 1..threads'[i].cursor
        BY <1>p, <2>3, <4>2
      <4>4. needClose[threads'[i].cursor] # d
        BY <1>p, <2>3, <4>2, <4>3
      <4>5. d \in Covered(i)'
        BY <2>1, <4>2, <4>3 DEF Covered
      <4>6. QED
        BY <2>1, <4>1, <4>4, <4>5 DEF Passed
    <3>2. Passed(d) \subseteq Passed(d)'
      BY <2>2, <3>1 DEF Passed
    <3>3. records' = records
      BY <2>3 DEF ThreadNext
    <3>4. QED
      BY <1>k, <3>2, <3>3
  <2>4. CASE threads'[i].cursor = threads[i].cursor /\ threads'[i].pc # "record"
    <3>1. i \in Passed(d) => i \in Passed(d)'
      BY <2>1, <2>4 DEF Passed, Covered
    <3>2. Passed(d) \subseteq Passed(d)'
      BY <2>2, <3>1 DEF Passed
    <3>3. CASE UNCHANGED records
      BY <1>k, <3>2, <3>3
    <3>4. CASE ThreadRecord(i)
      <4> DEFINE r == [door |-> needClose[threads[i].cursor], user |-> userId]
      <4>1. /\ records' = Append(records, r) /\ threads[i].pc = "record"
            /\ threads[i].kind = "settle"
        BY <3>4 DEF ThreadRecord, CutInv
      <4>2. r.door = needClose[threads[i].cursor]
        OBVIOUS
      <4> HIDE DEF r
      <4>3. /\ DOMAIN records = 1..Len(records)
            /\ DOMAIN records' = DOMAIN records \cup {Len(records) + 1}
            /\ Len(records) + 1 \notin DOMAIN records
            /\ \A n \in DOMAIN records : records'[n] = records[n]
            /\ records'[Len(records) + 1] = r
        BY <1>0, <4>1
      <4>4. CASE r.door # d
        <5>1. Recorded(d)' = Recorded(d)
          BY <4>3, <4>4 DEF Recorded
        <5>2. QED
          BY <1>0, <3>2, <5>1, LedgerKeeps
      <4>5. CASE r.door = d
        <5>1. Recorded(d)' = Recorded(d) \cup {Len(records) + 1}
              /\ Len(records) + 1 \notin Recorded(d)
          BY <4>3, <4>5 DEF Recorded
        <5>2. i \notin Passed(d)
          BY <4>1, <4>2, <4>5 DEF Passed
        <5>3. i \in Passed(d)'
          <6>1. threads[i].cursor \in 1..threads[i].cursor
            BY <1>p, <4>1 DEF TypeInv, ThreadInv
          <6>2. d \in Covered(i)'
            BY <2>1, <2>4, <4>2, <4>5, <6>1 DEF Covered
          <6>3. QED
            BY <2>1, <2>4, <4>1, <6>2 DEF Passed
        <5>4. /\ IsFiniteSet(Recorded(d)) /\ Cardinality(Recorded(d)) \in Nat
              /\ IsFiniteSet(Passed(d)) /\ Cardinality(Passed(d)) \in Nat
              /\ IsFiniteSet(DOMAIN threads)
          BY <1>0, LedgerFinite
        <5>5. Cardinality(Recorded(d)') = Cardinality(Recorded(d)) + 1
          BY <5>1, <5>4, FS_AddElement
        <5>6. Cardinality(Passed(d) \cup {i}) = Cardinality(Passed(d)) + 1
          BY <5>2, <5>4, FS_AddElement
        <5>7. Passed(d) \cup {i} \subseteq Passed(d)' /\ Passed(d)' \subseteq DOMAIN threads
          BY <2>1, <3>2, <5>3 DEF Passed
        <5>8. IsFiniteSet(Passed(d)') /\ Cardinality(Passed(d)') \in Nat
          BY <5>4, <5>7, FS_Subset, FS_CardinalityType
        <5>9. Cardinality(Passed(d) \cup {i}) <= Cardinality(Passed(d)')
          BY <5>7, <5>8, FS_Subset
        <5>10. QED
          BY <5>4, <5>5, <5>6, <5>8, <5>9 DEF LedgerInv
      <4>6. QED
        BY <4>4, <4>5
    <3>5. QED
      BY <1>4, <3>3, <3>4 DEF ThreadStart, ThreadNext, ThreadEnd
  <2>5. QED
    BY <1>4, <2>3, <2>4, ThreadMove
<1>5. QED
  BY <1>1, <1>2, <1>3, <1>4, ThreadSteps

(* A door has at most as many records as settlements have passed it: no    *)
(* settlement charges a door twice, however many threads walk over the     *)
(* list at once, and none charges a door it has not ordered to close.      *)
THEOREM RecordsAreEarned == Spec => []RecordsNeedSettlements
<1>1. TypeInv /\ LedgerInv => RecordsNeedSettlements
  <2> SUFFICES ASSUME TypeInv, LedgerInv, NEW d \in Door
               PROVE  Cardinality(Recorded(d)) <=
                         Cardinality({i \in DOMAIN threads :
                             threads[i].kind = "settle" /\ d \in Covered(i)})
    BY DEF RecordsNeedSettlements
  <2> DEFINE S == {i \in DOMAIN threads :
                      threads[i].kind = "settle" /\ d \in Covered(i)}
  <2>1. /\ IsFiniteSet(DOMAIN threads)
        /\ Cardinality(Passed(d)) \in Nat /\ Cardinality(Recorded(d)) \in Nat
    BY LedgerFinite DEF TypeInv
  <2>2. Passed(d) \subseteq S /\ S \subseteq DOMAIN threads
    BY DEF Passed
  <2>3. Cardinality(Recorded(d)) <= Cardinality(Passed(d))
    BY DEF LedgerInv
  <2> HIDE DEF S
  <2>4. IsFiniteSet(S) /\ Cardinality(S) \in Nat
    BY <2>1, <2>2, FS_Subset, FS_CardinalityType
  <2>5. Cardinality(Passed(d)) <= Cardinality(S)
    BY <2>2, <2>4, FS_Subset
  <2>6. Cardinality(Recorded(d)) <= Cardinality(S)
    BY <2>1, <2>3, <2>4, <2>5
  <2>7. QED
    BY <2>6 DEF S
<1>2. QED
  BY InitTypeInv, NextTypeInv, InitListed, NextListed, InitPhase, NextPhase,
     InitCut, NextCut, InitLedger, NextLedger, <1>1, PTL DEF Spec
=============================================================================
