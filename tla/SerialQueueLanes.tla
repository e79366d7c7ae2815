-------------------------- MODULE SerialQueueLanes --------------------------
(***************************************************************************)
(* The serial queue implements CommandLanes, for every set of commands and *)
(* every assignment of addresses and functions: each step of a thread is a *)
(* step of the lanes, or changes nothing that a caller can see.            *)
(***************************************************************************)
EXTENDS SerialQueueProofs, FiniteSetTheorems

(* In L the door commands are the first d, and no others.                  *)
DoorsEnd(L, d) ==
    /\ d \in 0..Len(L)
    /\ \A i \in 1..Len(L) : IsDoor(L[i]) <=> i <= d

(* Then d is how many there are. *)
LEMMA CountOfDoors ==
    ASSUME NEW L \in Seq(Command), NEW d, DoorsEnd(L, d)
    PROVE  Cardinality({i \in DOMAIN L : IsDoor(L[i])}) = d
<1>1. d \in Nat /\ Len(L) \in Nat /\ d <= Len(L) /\ DOMAIN L = 1..Len(L)
  BY LenProperties DEF DoorsEnd
<1>2. {i \in DOMAIN L : IsDoor(L[i])} = 1..d
  BY <1>1 DEF DoorsEnd
<1>3. Cardinality(1..d) = d
  BY <1>1, FS_Interval
<1>4. QED
  BY <1>2, <1>3

(* A part of a list of commands. *)
LEMMA Part ==
    ASSUME NEW L \in Seq(Command), NEW m \in 1..Len(L) + 1, NEW n \in 0..Len(L)
    PROVE  /\ SubSeq(L, m, n) \in Seq(Command)
           /\ Len(SubSeq(L, m, n)) = IF m <= n THEN n - m + 1 ELSE 0
           /\ \A i \in 1..n - m + 1 : SubSeq(L, m, n)[i] = L[m + i - 1]
<1>1. m \in Int /\ n \in Int /\ \A i \in m..n : L[i] \in Command
  BY LenProperties, ElementOfSeq
<1>2. QED
  BY <1>1, SubSeqProperties

(* The two lanes make the list. *)
LEMMA LanesJoin ==
    ASSUME NEW L \in Seq(Command), NEW d \in 0..Len(L)
    PROVE  SubSeq(L, 1, d) \o SubSeq(L, d + 1, Len(L)) = L
<1>1. Len(L) \in Nat
  BY LenProperties
<1>2. 1 \in 1..Len(L) + 1 /\ d \in 1 - 1..Len(L) /\ Len(L) \in d..Len(L)
  BY <1>1
<1>3. SubSeq(L, 1, d) \o SubSeq(L, d + 1, Len(L)) = SubSeq(L, 1, Len(L))
  BY <1>2, ConcatAdjacentSubSeq
<1>4. QED
  BY <1>3, SubSeqFull

(* insertSendQueue puts a door command in front of the doors.              *)
LEMMA InsertDoor ==
    ASSUME NEW L \in Seq(Command), NEW d, DoorsEnd(L, d),
           NEW c \in Command, IsDoor(c)
    PROVE  LET M == <<c>> \o L
           IN  /\ DoorsEnd(M, d + 1)
               /\ SubSeq(M, 1, d + 1) = <<c>> \o SubSeq(L, 1, d)
               /\ SubSeq(M, d + 2, Len(M)) = SubSeq(L, d + 1, Len(L))
<1> DEFINE M == <<c>> \o L
           F == SubSeq(L, 1, d)
<1>1. d \in Nat /\ Len(L) \in Nat /\ d <= Len(L)
  BY LenProperties DEF DoorsEnd
<1>2. /\ M \in Seq(Command) /\ Len(M) = Len(L) + 1 /\ M[1] = c
      /\ \A i \in 2..Len(L) + 1 : M[i] = L[i - 1]
  BY ConsProperties
<1>3. F \in Seq(Command) /\ Len(F) = d /\ \A i \in 1..d : F[i] = L[i]
  BY <1>1, Part
<1>4. /\ <<c>> \o F \in Seq(Command) /\ Len(<<c>> \o F) = d + 1
      /\ (<<c>> \o F)[1] = c
      /\ \A i \in 2..d + 1 : (<<c>> \o F)[i] = F[i - 1]
  BY <1>3, ConsProperties
<1> HIDE DEF M, F
<1>5. DoorsEnd(M, d + 1)
  <2>1. ASSUME NEW i \in 1..Len(M) PROVE IsDoor(M[i]) <=> i <= d + 1
    <3>1. CASE i = 1
      BY <1>1, <1>2, <3>1
    <3>2. CASE i # 1
      <4>1. i - 1 \in 1..Len(L) /\ M[i] = L[i - 1]
        BY <1>1, <1>2, <3>2
      <4>2. IsDoor(L[i - 1]) <=> i - 1 <= d
        BY <4>1 DEF DoorsEnd
      <4>3. QED
        BY <1>1, <4>1, <4>2
    <3>3. QED
      BY <3>1, <3>2
  <2>2. d + 1 \in 0..Len(M)
    BY <1>1, <1>2
  <2>3. QED
    BY <2>1, <2>2 DEF DoorsEnd
<1>6. SubSeq(M, 1, d + 1) = <<c>> \o F
  <2>1. /\ SubSeq(M, 1, d + 1) \in Seq(Command)
        /\ Len(SubSeq(M, 1, d + 1)) = d + 1
        /\ \A i \in 1..d + 1 : SubSeq(M, 1, d + 1)[i] = M[i]
    BY <1>1, <1>2, Part
  <2>2. ASSUME NEW i \in 1..d + 1 PROVE M[i] = (<<c>> \o F)[i]
    <3>1. CASE i = 1
      BY <1>2, <1>4, <3>1
    <3>2. CASE i # 1
      <4>1. i \in 2..d + 1 /\ i \in 2..Len(L) + 1 /\ i - 1 \in 1..d
        BY <1>1, <3>2
      <4>2. QED
        BY <1>2, <1>3, <1>4, <4>1
    <3>3. QED
      BY <3>1, <3>2
  <2>3. QED
    BY <1>4, <2>1, <2>2, SeqEqual
<1>7. SubSeq(M, d + 2, Len(M)) = SubSeq(L, d + 1, Len(L))
  <2>1. d + 2 \in 1..Len(M) + 1 /\ Len(M) \in 0..Len(M)
    BY <1>1, <1>2
  <2>2. /\ SubSeq(M, d + 2, Len(M)) \in Seq(Command)
        /\ Len(SubSeq(M, d + 2, Len(M))) = Len(L) - d
        /\ \A i \in 1..Len(L) - d : SubSeq(M, d + 2, Len(M))[i] = M[d + i + 1]
    BY <1>1, <1>2, <2>1, Part
  <2>3. /\ SubSeq(L, d + 1, Len(L)) \in Seq(Command)
        /\ Len(SubSeq(L, d + 1, Len(L))) = Len(L) - d
        /\ \A i \in 1..Len(L) - d : SubSeq(L, d + 1, Len(L))[i] = L[d + i]
    BY <1>1, Part
  <2>4. \A i \in 1..Len(L) - d : M[d + i + 1] = L[d + i]
    BY <1>1, <1>2
  <2>5. QED
    BY <2>2, <2>3, <2>4, SeqEqual
<1>8. QED
  BY <1>5, <1>6, <1>7 DEF M, F

(* It puts every other command behind the others.                          *)
LEMMA InsertOther ==
    ASSUME NEW L \in Seq(Command), NEW d, DoorsEnd(L, d),
           NEW c \in Command, ~IsDoor(c)
    PROVE  LET M == Append(L, c)
           IN  /\ DoorsEnd(M, d)
               /\ SubSeq(M, 1, d) = SubSeq(L, 1, d)
               /\ SubSeq(M, d + 1, Len(M)) = Append(SubSeq(L, d + 1, Len(L)), c)
<1> DEFINE M == Append(L, c)
           B == SubSeq(L, d + 1, Len(L))
<1>1. d \in Nat /\ Len(L) \in Nat /\ d <= Len(L)
  BY LenProperties DEF DoorsEnd
<1>2. /\ M \in Seq(Command) /\ Len(M) = Len(L) + 1 /\ M[Len(L) + 1] = c
      /\ \A i \in 1..Len(L) : M[i] = L[i]
  BY AppendProperties
<1>3. /\ B \in Seq(Command) /\ Len(B) = Len(L) - d
      /\ \A i \in 1..Len(L) - d : B[i] = L[d + i]
  BY <1>1, Part
<1>4. /\ Append(B, c) \in Seq(Command) /\ Len(Append(B, c)) = Len(B) + 1
      /\ Append(B, c)[Len(B) + 1] = c
      /\ \A i \in 1..Len(B) : Append(B, c)[i] = B[i]
  BY <1>3, AppendProperties
<1> HIDE DEF M, B
<1>5. DoorsEnd(M, d)
  <2>1. ASSUME NEW i \in 1..Len(M) PROVE IsDoor(M[i]) <=> i <= d
    <3>1. CASE i = Len(L) + 1
      BY <1>1, <1>2, <3>1
    <3>2. CASE i # Len(L) + 1
      <4>1. i \in 1..Len(L) /\ M[i] = L[i]
        BY <1>1, <1>2, <3>2
      <4>2. QED
        BY <4>1 DEF DoorsEnd
    <3>3. QED
      BY <3>1, <3>2
  <2>2. d \in 0..Len(M)
    BY <1>1, <1>2
  <2>3. QED
    BY <2>1, <2>2 DEF DoorsEnd
<1>6. SubSeq(M, 1, d) = SubSeq(L, 1, d)
  <2>1. /\ SubSeq(M, 1, d) \in Seq(Command) /\ Len(SubSeq(M, 1, d)) = d
        /\ \A i \in 1..d : SubSeq(M, 1, d)[i] = M[i]
    BY <1>1, <1>2, Part
  <2>2. /\ SubSeq(L, 1, d) \in Seq(Command) /\ Len(SubSeq(L, 1, d)) = d
        /\ \A i \in 1..d : SubSeq(L, 1, d)[i] = L[i]
    BY <1>1, Part
  <2>3. \A i \in 1..d : M[i] = L[i]
    BY <1>1, <1>2
  <2>4. QED
    BY <2>1, <2>2, <2>3, SeqEqual
<1>7. SubSeq(M, d + 1, Len(M)) = Append(B, c)
  <2>1. /\ SubSeq(M, d + 1, Len(M)) \in Seq(Command)
        /\ Len(SubSeq(M, d + 1, Len(M))) = Len(B) + 1
        /\ \A i \in 1..Len(B) + 1 : SubSeq(M, d + 1, Len(M))[i] = M[d + i]
    BY <1>1, <1>2, <1>3, Part
  <2>2. ASSUME NEW i \in 1..Len(B) + 1 PROVE M[d + i] = Append(B, c)[i]
    <3>1. CASE i = Len(B) + 1
      BY <1>1, <1>2, <1>3, <1>4, <3>1
    <3>2. CASE i # Len(B) + 1
      <4>1. i \in 1..Len(B) /\ d + i \in 1..Len(L)
        BY <1>1, <1>3, <3>2
      <4>2. QED
        BY <1>2, <1>3, <1>4, <4>1
    <3>3. QED
      BY <3>1, <3>2
  <2>3. QED
    BY <1>4, <2>1, <2>2, SeqEqual
<1>8. QED
  BY <1>5, <1>6, <1>7 DEF M, B

(* remove(0) takes the first door, while there is one.                     *)
LEMMA RemoveDoor ==
    ASSUME NEW L \in Seq(Command), NEW d, DoorsEnd(L, d), d # 0
    PROVE  /\ L # <<>> /\ SubSeq(L, 1, d) # <<>>
           /\ DoorsEnd(Tail(L), d - 1)
           /\ SubSeq(Tail(L), 1, d - 1) = Tail(SubSeq(L, 1, d))
           /\ SubSeq(Tail(L), d, Len(Tail(L))) = SubSeq(L, d + 1, Len(L))
<1> DEFINE M == Tail(L)
           F == SubSeq(L, 1, d)
<1>1. d \in Nat \ {0} /\ Len(L) \in Nat /\ d <= Len(L)
  BY LenProperties DEF DoorsEnd
<1>2. L # <<>>
  BY <1>1, EmptySeq
<1>3. /\ M \in Seq(Command) /\ Len(M) = Len(L) - 1
      /\ \A i \in 1..Len(L) - 1 : M[i] = L[i + 1]
  BY <1>2, TailProperties
<1>4. F \in Seq(Command) /\ Len(F) = d /\ \A i \in 1..d : F[i] = L[i]
  BY <1>1, Part
<1>5. F # <<>>
  BY <1>1, <1>4, EmptySeq
<1>6. /\ Tail(F) \in Seq(Command) /\ Len(Tail(F)) = d - 1
      /\ \A i \in 1..d - 1 : Tail(F)[i] = F[i + 1]
  BY <1>4, <1>5, TailProperties
<1> HIDE DEF M, F
<1>7. DoorsEnd(M, d - 1)
  <2>1. ASSUME NEW i \in 1..Len(M) PROVE IsDoor(M[i]) <=> i <= d - 1
    <3>1. i + 1 \in 1..Len(L) /\ M[i] = L[i + 1]
      BY <1>1, <1>3
    <3>2. IsDoor(L[i + 1]) <=> i + 1 <= d
      BY <3>1 DEF DoorsEnd
    <3>3. QED
      BY <1>1, <3>1, <3>2
  <2>2. d - 1 \in 0..Len(M)
    BY <1>1, <1>3
  <2>3. QED
    BY <2>1, <2>2 DEF DoorsEnd
<1>8. SubSeq(M, 1, d - 1) = Tail(F)
  <2>1. /\ SubSeq(M, 1, d - 1) \in Seq(Command)
        /\ Len(SubSeq(M, 1, d - 1)) = d - 1
        /\ \A i \in 1..d - 1 : SubSeq(M, 1, d - 1)[i] = M[i]
    BY <1>1, <1>3, Part
  <2>2. \A i \in 1..d - 1 : M[i] = Tail(F)[i]
    BY <1>1, <1>3, <1>4, <1>6
  <2>3. QED
    BY <1>6, <2>1, <2>2, SeqEqual
<1>9. SubSeq(M, d, Len(M)) = SubSeq(L, d + 1, Len(L))
  <2>1. /\ SubSeq(M, d, Len(M)) \in Seq(Command)
        /\ Len(SubSeq(M, d, Len(M))) = Len(L) - d
        /\ \A i \in 1..Len(L) - d : SubSeq(M, d, Len(M))[i] = M[d + i - 1]
    BY <1>1, <1>3, Part
  <2>2. /\ SubSeq(L, d + 1, Len(L)) \in Seq(Command)
        /\ Len(SubSeq(L, d + 1, Len(L))) = Len(L) - d
        /\ \A i \in 1..Len(L) - d : SubSeq(L, d + 1, Len(L))[i] = L[d + i]
    BY <1>1, Part
  <2>3. \A i \in 1..Len(L) - d : M[d + i - 1] = L[d + i]
    BY <1>1, <1>3
  <2>4. QED
    BY <2>1, <2>2, <2>3, SeqEqual
<1>10. QED
  BY <1>2, <1>5, <1>7, <1>8, <1>9 DEF M, F

(* Without doors it takes the first of the others.                         *)
LEMMA RemoveOther ==
    ASSUME NEW L \in Seq(Command), L # <<>>, DoorsEnd(L, 0)
    PROVE  /\ DoorsEnd(Tail(L), 0)
           /\ SubSeq(L, 1, 0) = <<>> /\ SubSeq(Tail(L), 1, 0) = <<>>
           /\ SubSeq(Tail(L), 1, Len(Tail(L))) = Tail(SubSeq(L, 1, Len(L)))
<1>1. /\ Len(L) \in Nat \ {0} /\ Tail(L) \in Seq(Command)
      /\ Len(Tail(L)) = Len(L) - 1
      /\ \A i \in 1..Len(L) - 1 : Tail(L)[i] = L[i + 1]
  BY TailProperties
<1>2. \A i \in 1..Len(Tail(L)) : ~IsDoor(Tail(L)[i])
  BY <1>1 DEF DoorsEnd
<1>3. DoorsEnd(Tail(L), 0)
  BY <1>1, <1>2 DEF DoorsEnd
<1>4. SubSeq(L, 1, 0) = <<>> /\ SubSeq(Tail(L), 1, 0) = <<>>
  BY SubSeqEmpty
<1>5. SubSeq(L, 1, Len(L)) = L /\ SubSeq(Tail(L), 1, Len(Tail(L))) = Tail(L)
  BY <1>1, SubSeqFull
<1>6. QED
  BY <1>3, <1>4, <1>5

----------------------------------------------------------------------------
(* Where the doors end in the queue; the lanes are cut there.              *)
LaneInv == DoorsEnd(sendDataList, DoorCount)

(* A step that takes the head of the queue is a step Retire of the lanes.  *)
LEMMA RemovalRetires ==
    ASSUME TypeInv, LaneInv, sendDataList # <<>>,
           NEW outcome \in {"answered", "dropped"},
           sendDataList' = Tail(sendDataList),
           fate' = [fate EXCEPT ![Head(sendDataList)] = outcome],
           held' = held
    PROVE  LaneInv' /\ Lanes!Retire(outcome)
<1> DEFINE L == sendDataList
           d == DoorCount
<1>1. L \in Seq(Command) /\ L' \in Seq(Command) /\ DoorsEnd(L, d)
  BY TailProperties DEF TypeInv, TypeOK, LaneInv
<1>2. d \in 0..Len(L)
  BY <1>1 DEF DoorsEnd
<1>3. Lanes!Waiting = L
  BY <1>1, <1>2, LanesJoin DEF Lanes!Waiting
<1>4. CASE d # 0
  <2>1. /\ SubSeq(L, 1, d) # <<>>
        /\ DoorsEnd(L', d - 1)
        /\ SubSeq(L', 1, d - 1) = Tail(SubSeq(L, 1, d))
        /\ SubSeq(L', d, Len(L')) = SubSeq(L, d + 1, Len(L))
    BY <1>1, <1>4, RemoveDoor
  <2>2. d' = d - 1
    BY <1>1, <2>1, CountOfDoors DEF DoorCount
  <2>3. d - 1 + 1 = d
    BY <1>2
  <2>4. QED
    BY <1>3, <2>1, <2>2, <2>3 DEF LaneInv, Lanes!Retire
<1>5. CASE d = 0
  <2>1. /\ DoorsEnd(L', 0)
        /\ SubSeq(L, 1, 0) = <<>> /\ SubSeq(L', 1, 0) = <<>>
        /\ SubSeq(L', 1, Len(L')) = Tail(SubSeq(L, 1, Len(L)))
    BY <1>1, <1>5, RemoveOther
  <2>2. d' = 0
    BY <1>1, <2>1, CountOfDoors DEF DoorCount
  <2>3. d + 1 = 1 /\ d' + 1 = 1
    BY <1>5, <2>2
  <2>4. /\ SubSeq(L, 1, d) = <<>> /\ UNCHANGED SubSeq(L, 1, d)
        /\ SubSeq(L, d + 1, Len(L))' = Tail(SubSeq(L, d + 1, Len(L)))
    BY <1>5, <2>1, <2>2, <2>3
  <2>5. LaneInv'
    BY <2>1, <2>2 DEF LaneInv
  <2>6. QED
    BY <1>3, <2>4, <2>5 DEF Lanes!Retire
<1>6. QED
  BY <1>4, <1>5

(* A step of a caller is a step Accept of the lanes. *)
LEMMA InsertAccepts ==
    ASSUME TypeInv, LaneInv, NEW c \in Command, Insert(c)
    PROVE  LaneInv' /\ Lanes!Accept(c)
<1> DEFINE L == sendDataList
           d == DoorCount
<1>1. L \in Seq(Command) /\ L' \in Seq(Command) /\ DoorsEnd(L, d)
  BY ConsProperties, AppendProperties DEF TypeInv, TypeOK, LaneInv, Insert
<1>2. d \in Nat
  BY <1>1, LenProperties DEF DoorsEnd
<1>3. /\ fate[c] = "new" /\ fate' = [fate EXCEPT ![c] = "queued"]
      /\ held' = held
  BY DEF Insert, senderVars
<1>4. CASE IsDoor(c)
  <2>1. L' = <<c>> \o L
    BY <1>4 DEF Insert
  <2>2. /\ DoorsEnd(L', d + 1)
        /\ SubSeq(L', 1, d + 1) = <<c>> \o SubSeq(L, 1, d)
        /\ SubSeq(L', d + 2, Len(L')) = SubSeq(L, d + 1, Len(L))
    BY <1>1, <1>4, <2>1, InsertDoor
  <2>3. d' = d + 1 /\ d' + 1 = d + 2
    BY <1>1, <1>2, <2>2, CountOfDoors DEF DoorCount
  <2>4. QED
    BY <1>3, <1>4, <2>2, <2>3 DEF LaneInv, Lanes!Accept
<1>5. CASE ~IsDoor(c)
  <2>1. L' = Append(L, c)
    BY <1>5 DEF Insert
  <2>2. /\ DoorsEnd(L', d)
        /\ SubSeq(L', 1, d) = SubSeq(L, 1, d)
        /\ SubSeq(L', d + 1, Len(L')) = Append(SubSeq(L, d + 1, Len(L)), c)
    BY <1>1, <1>5, <2>1, InsertOther
  <2>3. d' = d
    BY <1>1, <2>2, CountOfDoors DEF DoorCount
  <2>4. QED
    BY <1>3, <1>5, <2>2, <2>3 DEF LaneInv, Lanes!Accept
<1>6. QED
  BY <1>4, <1>5

(* The sender has a command in hand only where it is about to write it.    *)
LEMMA NothingHeld ==
    ASSUME TypeInv, sender \notin {"writeFirst", "writeResend"}
    PROVE  held = <<>>
<1>1. held \in Seq(Command) /\ Len(held) <= 1 /\ Len(held) # 1
  <2>1. held \in Seq(Command) /\ Len(held) <= 1
    BY DEF TypeInv, TypeOK
  <2>2. Len(held) # 1
    BY DEF TypeInv, ControlInv
  <2>3. QED
    BY <2>1, <2>2
<1>2. ASSUME held # <<>> PROVE FALSE
  <2>1. Len(held) \in Nat \ {0}
    BY <1>1, <1>2, EmptySeq
  <2>2. \A n \in Nat \ {0} : n <= 1 => n = 1
    OBVIOUS
  <2>3. QED
    BY <1>1, <2>1, <2>2
<1>3. QED
  BY <1>2

(* When the process ends both lanes are lost. *)
LEMMA ExitLoses ==
    ASSUME TypeInv, ProcessExit
    PROVE  LaneInv' /\ Lanes!Lose
<1>1. sendDataList' = <<>> /\ Len(sendDataList') = 0 /\ sendDataList' \in Seq(Command)
  BY EmptySeq DEF ProcessExit
<1>2. DoorsEnd(sendDataList', 0)
  BY <1>1 DEF DoorsEnd
<1>3. DoorCount' = 0
  BY <1>1, <1>2, CountOfDoors DEF DoorCount
<1>4. /\ SubSeq(sendDataList', 1, DoorCount') = <<>>
      /\ SubSeq(sendDataList', DoorCount' + 1, Len(sendDataList')) = <<>>
  BY <1>1, <1>3, SubSeqEmpty
<1>5. held = <<>> /\ held' = held
  <2>1. sender = "crashed" /\ held' = held
    BY DEF ProcessExit
  <2>2. QED
    BY <2>1, NothingHeld
<1>6. fate' = [c \in Command |-> IF fate[c] = "queued" THEN "lost" ELSE fate[c]]
  BY DEF ProcessExit
<1>7. QED
  BY <1>2, <1>3, <1>4, <1>5, <1>6 DEF LaneInv, Lanes!Lose

(* Steps that leave the list and the fates alone: the sender reads the     *)
(* head, writes it, or does something no caller sees.                      *)
LEMMA BusSteps ==
    ASSUME TypeInv, LaneInv, [Next]_vars, UNCHANGED <<sendDataList, fate>>
    PROVE  LaneInv' /\ [Lanes!Next]_Lanes!vars
<1>1. LaneInv' /\ UNCHANGED DoorCount
  BY DEF LaneInv, DoorCount, DoorsEnd
<1>2. CASE UNCHANGED held
  BY <1>1, <1>2 DEF Lanes!vars
<1>3. CASE SenderGet /\ sendDataList # <<>>
  <2>1. Lanes!Waiting = sendDataList
    BY LanesJoin DEF Lanes!Waiting, LaneInv, DoorsEnd, TypeInv, TypeOK
  <2>2. held = <<>> /\ held' = <<Head(sendDataList)>>
    BY <1>3, NothingHeld DEF SenderGet
  <2>3. Lanes!Pick
    BY <1>1, <1>3, <2>1, <2>2 DEF Lanes!Pick
  <2>4. QED
    BY <1>1, <2>3 DEF Lanes!Next
<1>4. CASE SenderWriteFirst \/ SenderWriteResend
  <2>1. held # <<>> /\ held' = <<>>
    BY <1>4, EmptySeq DEF SenderWriteFirst, SenderWriteResend, TypeInv, ControlInv
  <2>2. Lanes!Write
    BY <1>1, <2>1 DEF Lanes!Write
  <2>3. QED
    BY <1>1, <2>2 DEF Lanes!Next
<1>5. CASE ~UNCHANGED held
  <2>1. \/ SenderGet /\ sendDataList # <<>>
        \/ SenderWriteFirst \/ SenderWriteResend
    BY <1>5 DEF Next, Sender, Receiver, Insert, Timeout,
       SenderSize, SenderRoute, SenderGet, SenderMark, SenderDrop, ProcessExit,
       ReceiverRead, ReceiverSize, ReceiverGet, ReceiverRemove, ReceiverFlag,
       senderVars, vars
  <2>2. QED
    BY <1>3, <1>4, <2>1
<1>6. QED
  BY <1>2, <1>5

LEMMA StepImplementsLanes ==
    TypeInv /\ LaneInv /\ [Next]_vars => LaneInv' /\ [Lanes!Next]_Lanes!vars
<1> SUFFICES ASSUME TypeInv, LaneInv, [Next]_vars
             PROVE  LaneInv' /\ [Lanes!Next]_Lanes!vars
  OBVIOUS
<1>1. CASE UNCHANGED <<sendDataList, fate>>
  BY <1>1, BusSteps
<1>2. ASSUME NEW c \in Command, Insert(c)
      PROVE  LaneInv' /\ [Lanes!Next]_Lanes!vars
  BY <1>2, InsertAccepts DEF Lanes!Next
<1>3. CASE SenderDrop /\ sendDataList # <<>>
  <2>1. LaneInv' /\ Lanes!Retire("dropped")
    BY <1>3, RemovalRetires DEF SenderDrop
  <2>2. QED
    BY <2>1 DEF Lanes!Next
<1>4. CASE ReceiverRemove /\ sendDataList # <<>>
  <2>1. LaneInv' /\ Lanes!Retire("answered")
    BY <1>4, RemovalRetires DEF ReceiverRemove, senderVars
  <2>2. QED
    BY <2>1 DEF Lanes!Next
<1>5. CASE ProcessExit
  BY <1>5, ExitLoses DEF Lanes!Next
<1>6. QED
  BY <1>1, <1>2, <1>3, <1>4, <1>5 DEF Next, Sender, Receiver, Timeout,
     SenderSize, SenderRoute, SenderGet, SenderWriteFirst, SenderMark,
     SenderWriteResend, SenderDrop, ReceiverRead, ReceiverSize, ReceiverGet,
     ReceiverRemove, ReceiverFlag, senderVars, vars

LEMMA InitImplementsLanes == Init => LaneInv /\ Lanes!Init
<1> SUFFICES ASSUME Init PROVE LaneInv /\ Lanes!Init
  OBVIOUS
<1>1. sendDataList = <<>> /\ Len(sendDataList) = 0 /\ sendDataList \in Seq(Command)
  BY EmptySeq DEF Init
<1>2. DoorsEnd(sendDataList, 0)
  BY <1>1 DEF DoorsEnd
<1>3. DoorCount = 0
  BY <1>1, <1>2, CountOfDoors DEF DoorCount
<1>4. /\ SubSeq(sendDataList, 1, DoorCount) = <<>>
      /\ SubSeq(sendDataList, DoorCount + 1, Len(sendDataList)) = <<>>
  BY <1>1, <1>3, SubSeqEmpty
<1>5. QED
  BY <1>2, <1>3, <1>4 DEF Init, LaneInv, Lanes!Init

(* Whatever the two threads do to the list, its flags and each other, the  *)
(* callers of insertSendQueue see the lanes of CommandLanes: doors first,  *)
(* the others in their order, the bus given the front, each command gone   *)
(* once and from the front.                                                *)
THEOREM QueueImplementsLanes == Spec => ImplementsLanes
<1>1. Spec => [](TypeInv /\ LaneInv)
  BY InitTypeInv, NextTypeInv, InitImplementsLanes, StepImplementsLanes, PTL DEF Spec
<1>2. QED
  BY <1>1, InitImplementsLanes, StepImplementsLanes, PTL
     DEF Spec, ImplementsLanes, Lanes!Spec
=============================================================================
