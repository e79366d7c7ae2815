--------------------------- MODULE BinStateProofs ---------------------------
(***************************************************************************)
(* Theorems about module BinState, for every table, byte size, weight and  *)
(* bound.                                                                  *)
(***************************************************************************)
EXTENDS BinState, TLAPS

----------------------------------------------------------------------------
(* Arithmetic of two bytes *)

(* The two bytes a controller sends mean the weight, and bytes2Int gives   *)
(* its last byte.                                                          *)
LEMMA EncodedWeight ==
    ASSUME NEW w \in Nat
    PROVE  /\ Meant(Encode(w)) = w
           /\ bytes2Int(Encode(w)) = w % Base
           /\ w % Base \in Nat
<1>1. Base \in Nat /\ Base > 0
  BY BinAssumption
<1>2. w \div Base \in Int /\ w % Base \in Nat /\ w = Base * (w \div Base) + (w % Base)
  BY <1>1
<1>3. (w \div Base) * Base = Base * (w \div Base)
  BY <1>1, <1>2
<1>4. QED
  BY <1>2, <1>3 DEF Meant, Encode, bytes2Int

(* A difference of weights and the difference of their last bytes differ   *)
(* by a multiple of Base.                                                  *)
LEMMA LastBytes ==
    ASSUME NEW v \in Nat, NEW w \in Nat
    PROVE  /\ (w - v + ((v % Base) - (w % Base))) % Base = 0
           /\ v < Base => v % Base = v
<1>1. Base \in Nat /\ Base > 0
  BY BinAssumption
<1>2. \A x \in Nat : x \div Base \in Int /\ x = Base * (x \div Base) + (x % Base)
                     /\ x % Base \in Nat
  BY <1>1
<1> DEFINE q == (w \div Base) - (v \div Base)
<1>3. q \in Int /\ w - v + ((v % Base) - (w % Base)) = Base * q
  BY <1>1, <1>2
<1>4. \A k \in Int : (Base * k) % Base = 0
  BY <1>1
<1>5. v < Base => v % Base = v
  BY <1>1
<1>6. QED
  BY <1>3, <1>4, <1>5

----------------------------------------------------------------------------
(* The inductive invariant.  GoodBean: what is true of each bean made by   *)
(* the table or by a frame; KeptBean: of each bean a session has kept.     *)
GoodBean == {b \in Bean :
    /\ b.id = b.doorNumber
    /\ b.isFull => b.seen # Never
    /\ b.seen # Never => b.dustbinWeight = b.seen % Base}

KeptBean == {b \in GoodBean : b.seen # Never /\ \E i \in DOMAIN Table : b.doorNumber = Table[i]}

GoodRecord == {r \in Record :
    /\ r.bin_id = r.door
    /\ r.opened # Never /\ r.settled # Never
    /\ r.now = r.opened % Base /\ r.former = r.settled % Base
    /\ (r.settled - r.opened + r.post) % Base = 0
    /\ r.settled < Base /\ r.opened < Base => r.settled - r.opened = - r.post}

RowsInv == /\ dustbinBeanList \in [DOMAIN Table -> GoodBean]
           /\ \A i \in DOMAIN Table : dustbinBeanList[i].doorNumber = Table[i]

(* The row of a kept bean has been read, too: a later reading replaces the *)
(* row by one that has been read as well.                                  *)
KeptInv == /\ needClose \in Seq(Seq(KeptBean))
           /\ \A s \in DOMAIN needClose : \A k \in DOMAIN needClose[s] :
                 \A i \in DOMAIN Table :
                    Table[i] = needClose[s][k].doorNumber => dustbinBeanList[i].seen # Never
           /\ inSession => needClose # <<>>

BinInv == /\ RowsInv /\ KeptInv
          /\ inSession \in BOOLEAN
          /\ settlements \in Seq([session : 1..Len(needClose), done : Nat])
          /\ records \in Seq(GoodRecord)

(* The row of a door of the table is found, and there is only one.         *)
LEMMA RowFound ==
    ASSUME RowsInv, NEW door
    PROVE  /\ Listed(dustbinBeanList, door) <=> \E i \in DOMAIN Table : Table[i] = door
           /\ \A i \in DOMAIN Table : Table[i] = door => RowOf(dustbinBeanList, door) = i
<1>1. DOMAIN dustbinBeanList = DOMAIN Table
  BY DEF RowsInv
<1>2. Listed(dustbinBeanList, door) <=> \E i \in DOMAIN Table : Table[i] = door
  BY <1>1 DEF RowsInv, Listed
<1>3. ASSUME NEW i \in DOMAIN Table, Table[i] = door
      PROVE  RowOf(dustbinBeanList, door) = i
  <2>1. DOMAIN Table = 1..Len(Table) /\ Len(Table) \in Nat
    BY BinAssumption
  <2>2. \A j \in DOMAIN Table : dustbinBeanList[j].doorNumber = door <=> j = i
    BY <1>3, BinAssumption DEF RowsInv
  <2>3. \A j \in 1..(i-1) : dustbinBeanList[j].doorNumber # door
    BY <2>1, <2>2
  <2>4. QED
    BY <1>1, <2>2, <2>3 DEF RowOf
<1>4. QED
  BY <1>2, <1>3

(* A frame changes the row of its own door, if there is one, to a good     *)
(* bean that has been read.                                                *)
LEMMA FrameStep ==
    ASSUME RowsInv, NEW a \in Address, NEW weight \in 0..MaxWeight, NEW room \in BOOLEAN,
           setDustbinState([address |-> a, data |-> Encode(weight), room |-> room])
    PROVE  /\ RowsInv'
           /\ \A i \in DOMAIN Table :
                 dustbinBeanList'[i].seen # Never \/ dustbinBeanList'[i] = dustbinBeanList[i]
<1> DEFINE f == [address |-> a, data |-> Encode(weight), room |-> room]
           i0 == RowOf(dustbinBeanList, a)
           b == BeanOf(f, dustbinBeanList[i0])
<1>1. CASE ~ Listed(dustbinBeanList, a)
  BY <1>1 DEF setDustbinState, RowsInv
<1>2. CASE Listed(dustbinBeanList, a)
  <2>1. i0 \in DOMAIN Table /\ Table[i0] = a
    BY <1>2, RowFound
  <2>2. weight \in Nat /\ Meant(f.data) = weight /\ bytes2Int(f.data) = weight % Base
        /\ weight % Base \in Nat
    BY EncodedWeight, BinAssumption
  <2>3. dustbinBeanList[i0] \in GoodBean /\ dustbinBeanList[i0].id = a
    BY <2>1 DEF RowsInv, GoodBean
  <2>4. b = [doorNumber |-> a, id |-> a, dustbinWeight |-> weight % Base,
             isFull |-> room, seen |-> weight]
    BY <2>2, <2>3 DEF BeanOf
  <2>5. weight # Never
    BY <2>2 DEF Never
  <2>6. b \in GoodBean /\ b.doorNumber = a /\ b.seen # Never
    BY <2>2, <2>4, <2>5 DEF GoodBean, Bean
  <2>7. dustbinBeanList' = [dustbinBeanList EXCEPT ![i0] = b]
    BY <1>2 DEF setDustbinState
  <2> HIDE DEF b, i0
  <2>8. dustbinBeanList' \in [DOMAIN Table -> GoodBean]
    BY <2>1, <2>6, <2>7 DEF RowsInv
  <2>9. \A i \in DOMAIN Table :
           dustbinBeanList'[i] = IF i = i0 THEN b ELSE dustbinBeanList[i]
    BY <2>1, <2>7 DEF RowsInv
  <2>10. QED
    BY <2>1, <2>6, <2>8, <2>9 DEF RowsInv
<1>3. QED
  BY <1>1, <1>2

(* The record of a kept bean is good.                                      *)
LEMMA RecordStep ==
    ASSUME RowsInv, NEW s \in Nat, NEW bean \in KeptBean,
           \A i \in DOMAIN Table :
              Table[i] = bean.doorNumber => dustbinBeanList[i].seen # Never
    PROVE  RecordOf(s, bean) \in GoodRecord
<1>1. PICK i \in DOMAIN Table : bean.doorNumber = Table[i]
  BY DEF KeptBean
<1> DEFINE live == Live(bean.doorNumber)
           v == bean.seen
           w == live.seen
<1>2. live = dustbinBeanList[i] /\ live.seen # Never
  BY <1>1, RowFound DEF Live
<1>3. live \in GoodBean /\ bean \in GoodBean /\ bean.seen # Never
  BY <1>1, <1>2 DEF RowsInv, KeptBean
<1>4. /\ v \in Nat /\ w \in Nat /\ v \in 0..MaxWeight /\ w \in 0..MaxWeight
      /\ bean.dustbinWeight = v % Base /\ live.dustbinWeight = w % Base
      /\ v % Base \in Nat /\ w % Base \in Nat
      /\ bean.id = bean.doorNumber /\ bean.doorNumber \in Address
  <2>1. v \in 0..MaxWeight /\ w \in 0..MaxWeight
    BY <1>2, <1>3 DEF GoodBean, Bean
  <2>2. v \in Nat /\ w \in Nat
    BY <2>1, BinAssumption
  <2>3. v % Base \in Nat /\ w % Base \in Nat
    BY <2>2, EncodedWeight
  <2>4. /\ bean.dustbinWeight = v % Base /\ live.dustbinWeight = w % Base
        /\ bean.id = bean.doorNumber /\ bean.doorNumber \in Address
    BY <1>2, <1>3 DEF GoodBean, Bean
  <2>5. QED
    BY <2>1, <2>2, <2>3, <2>4
<1>5. /\ (w - v + ((v % Base) - (w % Base))) % Base = 0
      /\ v < Base => v % Base = v
      /\ w < Base => w % Base = w
  BY <1>4, LastBytes
<1> DEFINE post == (v % Base) - (w % Base)
<1>6. /\ post \in Int
      /\ (w - v + post) % Base = 0
      /\ w < Base /\ v < Base => w - v = - post
      /\ (v % Base) - post \in Int
      /\ (v % Base) - post = w % Base
  BY <1>4, <1>5
<1>7. RecordOf(s, bean) =
        [session |-> s, door |-> bean.doorNumber, bin_id |-> bean.id,
         post |-> post, former |-> (v % Base) - post, now |-> v % Base,
         opened |-> v, settled |-> w]
  BY <1>4 DEF RecordOf
<1>8. v # Never /\ w # Never
  BY <1>2, <1>3
<1> HIDE DEF post, v, w, live
<1>9. RecordOf(s, bean) \in Record
  BY <1>4, <1>6, <1>7 DEF Record
<1>10. QED
  BY <1>4, <1>6, <1>7, <1>8, <1>9 DEF GoodRecord

----------------------------------------------------------------------------
LEMMA InitBinInv == BinInit => BinInv
<1> SUFFICES ASSUME BinInit PROVE BinInv
  OBVIOUS
<1>1. RowsInv
  <2>1. \A i \in DOMAIN Table : Table[i] \in Address
    BY BinAssumption
  <2>2. QED
    BY <2>1 DEF BinInit, RowsInv, GoodBean, Bean
<1>2. needClose = <<>> /\ inSession = FALSE /\ settlements = <<>> /\ records = <<>>
  BY DEF BinInit
<1>3. KeptInv
  BY <1>2 DEF KeptInv
<1>4. inSession \in BOOLEAN
  BY <1>2
<1> DEFINE S == [session : 1..Len(needClose), done : Nat]
<1> HIDE DEF S
<1>5. settlements \in Seq(S) /\ records \in Seq(GoodRecord)
  BY <1>2
<1> USE DEF S
<1>6. QED
  BY <1>1, <1>3, <1>4, <1>5 DEF BinInv

(* A frame keeps what is known of the kept beans.                          *)
LEMMA InOrderStringInv ==
    ASSUME BinInv, inOrderString
    PROVE  BinInv'
<1>1. PICK a \in Address, weight \in 0..MaxWeight, room \in BOOLEAN :
         setDustbinState([address |-> a, data |-> Encode(weight), room |-> room])
  BY DEF inOrderString
<1>2. /\ RowsInv'
      /\ \A i \in DOMAIN Table :
            dustbinBeanList'[i].seen # Never \/ dustbinBeanList'[i] = dustbinBeanList[i]
  BY <1>1, FrameStep DEF BinInv
<1>3. UNCHANGED <<inSession, needClose, settlements, records>>
  BY DEF inOrderString, sessionVars
<1>4. KeptInv'
  BY <1>2, <1>3 DEF BinInv, KeptInv
<1>5. QED
  BY <1>2, <1>3, <1>4 DEF BinInv

(* A door that is opened has been read, so the bean can be kept.           *)
LEMMA OpenDoorInv ==
    ASSUME BinInv, OpenDoor
    PROVE  BinInv'
<1>1. PICK i \in DOMAIN dustbinBeanList :
         /\ dustbinBeanList[i].isFull
         /\ needClose' = [needClose EXCEPT ![Current] = Append(@, dustbinBeanList[i])]
  BY DEF OpenDoor
<1>2. UNCHANGED <<dustbinBeanList, inSession, settlements, records>> /\ inSession
  BY DEF OpenDoor
<1> DEFINE b == dustbinBeanList[i]
<1>3. i \in DOMAIN Table /\ b \in GoodBean /\ b.doorNumber = Table[i]
  BY DEF BinInv, RowsInv
<1>4. b \in KeptBean
  BY <1>1, <1>3 DEF KeptBean, GoodBean
<1>5. /\ needClose \in Seq(Seq(KeptBean)) /\ Current \in 1..Len(needClose)
      /\ Current \in DOMAIN needClose
  BY <1>2 DEF BinInv, KeptInv, Current
<1>6. /\ Append(needClose[Current], b) \in Seq(KeptBean)
      /\ \A k \in DOMAIN Append(needClose[Current], b) :
            \/ Append(needClose[Current], b)[k] = b
            \/ k \in DOMAIN needClose[Current] /\ Append(needClose[Current], b)[k] = needClose[Current][k]
  BY <1>4, <1>5
<1>7. /\ needClose' \in Seq(Seq(KeptBean)) /\ Len(needClose') = Len(needClose)
      /\ DOMAIN needClose' = DOMAIN needClose
      /\ \A s \in DOMAIN needClose : needClose'[s] = IF s = Current
            THEN Append(needClose[Current], b) ELSE needClose[s]
  BY <1>1, <1>5, <1>6
<1>8. \A j \in DOMAIN Table : Table[j] = b.doorNumber => dustbinBeanList[j].seen # Never
  <2>1. b.seen # Never
    BY <1>4 DEF KeptBean
  <2>2. QED
    BY <1>3, <2>1, BinAssumption
<1> HIDE DEF b
<1>9. \A s \in DOMAIN needClose' : \A k \in DOMAIN needClose'[s] : \A j \in DOMAIN Table :
         Table[j] = needClose'[s][k].doorNumber => dustbinBeanList[j].seen # Never
  <2> SUFFICES ASSUME NEW s \in DOMAIN needClose, NEW k \in DOMAIN needClose'[s],
                      NEW j \in DOMAIN Table, Table[j] = needClose'[s][k].doorNumber
               PROVE  dustbinBeanList[j].seen # Never
    BY <1>7
  <2>1. CASE s # Current
    BY <1>7, <2>1 DEF BinInv, KeptInv
  <2>2. CASE s = Current
    <3>1. needClose'[s] = Append(needClose[Current], b)
      BY <1>7, <2>2
    <3>2. CASE needClose'[s][k] = b
      BY <1>8, <3>2
    <3>3. CASE k \in DOMAIN needClose[Current] /\ needClose'[s][k] = needClose[Current][k]
      BY <1>5, <3>3 DEF BinInv, KeptInv
    <3>4. QED
      BY <1>6, <3>1, <3>2, <3>3
  <2>3. QED
    BY <2>1, <2>2
<1>10. needClose' # <<>>
  BY <1>5, <1>7
<1>11. KeptInv'
  BY <1>2, <1>7, <1>9, <1>10 DEF KeptInv
<1>12. QED
  BY <1>2, <1>7, <1>11 DEF BinInv, RowsInv

LEMMA StartSessionInv ==
    ASSUME BinInv, StartSession
    PROVE  BinInv'
<1>1. /\ needClose' = Append(needClose, <<>>) /\ inSession' = TRUE
      /\ UNCHANGED <<dustbinBeanList, settlements, records>>
  BY DEF StartSession
<1>2. needClose \in Seq(Seq(KeptBean)) /\ <<>> \in Seq(KeptBean)
  BY DEF BinInv, KeptInv
<1>3. /\ needClose' \in Seq(Seq(KeptBean)) /\ Len(needClose') = Len(needClose) + 1
      /\ Len(needClose) \in Nat
      /\ \A s \in DOMAIN needClose' : needClose'[s] = <<>> \/
            (s \in DOMAIN needClose /\ needClose'[s] = needClose[s])
  BY <1>1, <1>2
<1>4. KeptInv'
  <2>1. \A s \in DOMAIN needClose' : \A k \in DOMAIN needClose'[s] : \A i \in DOMAIN Table :
           Table[i] = needClose'[s][k].doorNumber => dustbinBeanList'[i].seen # Never
    <3> SUFFICES ASSUME NEW s \in DOMAIN needClose', NEW k \in DOMAIN needClose'[s],
                        NEW i \in DOMAIN Table, Table[i] = needClose'[s][k].doorNumber
                 PROVE  dustbinBeanList[i].seen # Never
      BY <1>1
    <3>1. s \in DOMAIN needClose /\ needClose'[s] = needClose[s]
      BY <1>3
    <3>2. QED
      BY <3>1 DEF BinInv, KeptInv
  <2>2. needClose' # <<>>
    BY <1>3
  <2>3. QED
    BY <1>3, <2>1, <2>2 DEF KeptInv
<1>5. settlements' \in Seq([session : 1..Len(needClose'), done : Nat])
  <2> DEFINE S == [session : 1..Len(needClose), done : Nat]
             T == [session : 1..Len(needClose'), done : Nat]
  <2>1. S \subseteq T
    BY <1>3
  <2>2. settlements \in Seq(S)
    BY DEF BinInv
  <2> HIDE DEF S, T
  <2>3. settlements \in Seq(T)
    BY <2>1, <2>2
  <2> USE DEF T
  <2>4. QED
    BY <1>1, <2>3
<1>6. QED
  BY <1>1, <1>4, <1>5 DEF BinInv, RowsInv

LEMMA AddRecordInv ==
    ASSUME BinInv, NEW n \in DOMAIN settlements, AddRecord(n)
    PROVE  BinInv'
<1> DEFINE s == settlements[n].session
           k == settlements[n].done + 1
<1>1. /\ settlements[n].done < Len(needClose[s])
      /\ settlements' = [settlements EXCEPT ![n].done = @ + 1]
      /\ records' = Append(records, RecordOf(s, needClose[s][k]))
      /\ UNCHANGED <<dustbinBeanList, inSession, needClose>>
  BY DEF AddRecord, sessionVars
<1> DEFINE S == [session : 1..Len(needClose), done : Nat]
<1>2. settlements \in Seq(S)
  BY DEF BinInv
<1>3. settlements[n] \in S
  <2> HIDE DEF S
  <2>1. QED
    BY <1>2
<1>4. settlements[n] \in [session : 1..Len(needClose), done : Nat]
  BY <1>3
<1>5. s \in DOMAIN needClose /\ s \in Nat /\ k \in Nat /\ k > 0 /\ needClose[s] \in Seq(KeptBean)
  <2>1. needClose \in Seq(Seq(KeptBean))
    BY DEF BinInv, KeptInv
  <2>2. s \in 1..Len(needClose) /\ settlements[n].done \in Nat
    BY <1>4
  <2> HIDE DEF s
  <2>3. s \in DOMAIN needClose /\ s \in Nat
    BY <2>1, <2>2
  <2>4. needClose[s] \in Seq(KeptBean)
    BY <2>1, <2>3
  <2>5. QED
    BY <2>2, <2>3, <2>4
<1>6. k \in DOMAIN needClose[s] /\ needClose[s][k] \in KeptBean
  <2>1. DOMAIN needClose[s] = 1..Len(needClose[s]) /\ Len(needClose[s]) \in Nat
    BY <1>5
  <2>2. k <= Len(needClose[s])
    BY <1>1, <1>4, <2>1
  <2> HIDE DEF k, s
  <2>3. k \in DOMAIN needClose[s]
    BY <1>5, <2>1, <2>2
  <2>4. QED
    BY <1>5, <2>3
<1>7. RecordOf(s, needClose[s][k]) \in GoodRecord
  BY <1>5, <1>6, RecordStep DEF BinInv, KeptInv
<1>8. records' \in Seq(GoodRecord)
  BY <1>1, <1>7 DEF BinInv
<1>9. settlements' \in Seq([session : 1..Len(needClose'), done : Nat])
  <2> DEFINE t == [settlements[n] EXCEPT !.done = @ + 1]
  <2>1. t \in S
    BY <1>4
  <2>2. settlements' = [settlements EXCEPT ![n] = t]
    BY <1>1
  <2> HIDE DEF S, t
  <2>3. settlements' \in Seq(S)
    BY <1>2, <2>1, <2>2
  <2> USE DEF S
  <2>4. QED
    BY <1>1, <2>3
<1>10. QED
  BY <1>1, <1>8, <1>9 DEF BinInv, RowsInv, KeptInv

LEMMA NextBinInv == BinInv /\ [BinNext]_binVars => BinInv'
<1> SUFFICES ASSUME BinInv, [BinNext]_binVars PROVE BinInv'
  OBVIOUS
<1>1. CASE inOrderString
  BY <1>1, InOrderStringInv
<1>2. CASE StartSession
  BY <1>2, StartSessionInv
<1>3. CASE OpenDoor
  BY <1>3, OpenDoorInv
<1>4. CASE StartSettlement
  <2>1. /\ settlements' = Append(settlements, [session |-> Len(needClose), done |-> 0])
        /\ UNCHANGED <<dustbinBeanList, inSession, needClose, records>> /\ inSession
    BY <1>4 DEF StartSettlement, sessionVars, Current
  <2>2. Len(needClose) \in 1..Len(needClose)
    BY <2>1 DEF BinInv, KeptInv
  <2>3. settlements' \in Seq([session : 1..Len(needClose'), done : Nat])
    BY <2>1, <2>2 DEF BinInv
  <2>4. QED
    BY <2>1, <2>3 DEF BinInv, RowsInv, KeptInv
<1>5. CASE EndSession
  BY <1>5 DEF EndSession, BinInv, RowsInv, KeptInv
<1>6. CASE \E i \in DOMAIN settlements : AddRecord(i)
  BY <1>6, AddRecordInv
<1>7. CASE UNCHANGED binVars
  BY <1>7 DEF binVars, BinInv, RowsInv, KeptInv
<1>8. QED
  BY <1>1, <1>2, <1>3, <1>4, <1>5, <1>6, <1>7 DEF BinNext

LEMMA BinInvariant == BinSpec => []BinInv
  BY InitBinInv, NextBinInv, PTL DEF BinSpec

(* Every reachable state is well typed.                                    *)
THEOREM BinTypeCorrect == BinSpec => []BinTypeOK
<1>1. BinInv => BinTypeOK
  <2> SUFFICES ASSUME BinInv PROVE BinTypeOK
    OBVIOUS
  <2>1. GoodBean \subseteq Bean /\ KeptBean \subseteq Bean /\ GoodRecord \subseteq Record
    BY DEF GoodBean, KeptBean, GoodRecord
  <2>2. needClose \in Seq(Seq(Bean)) /\ records \in Seq(Record)
    BY <2>1 DEF BinInv, KeptInv
  <2>3. dustbinBeanList \in [DOMAIN Table -> Bean]
    BY <2>1 DEF BinInv, RowsInv
  <2>4. QED
    BY <2>2, <2>3 DEF BinInv, BinTypeOK
<1>2. QED
  BY <1>1, BinInvariant, PTL

(* The rows of the list and the records keep the door and the id of their  *)
(* bin, whatever frames arrive.                                            *)
THEOREM BinsKeepIdentity == BinSpec => []RowsKeepIdentity
<1>1. BinInv => RowsKeepIdentity
  <2> SUFFICES ASSUME BinInv PROVE RowsKeepIdentity
    OBVIOUS
  <2>1. \A i \in DOMAIN Table :
           dustbinBeanList[i].doorNumber = Table[i] /\ dustbinBeanList[i].id = Table[i]
    BY DEF BinInv, RowsInv, GoodBean
  <2>2. \A n \in DOMAIN records : records[n] \in GoodRecord
    BY DEF BinInv
  <2>3. QED
    BY <2>1, <2>2 DEF RowsKeepIdentity, GoodRecord
<1>2. QED
  BY <1>1, BinInvariant, PTL

(* No record rests on the weight 0 of a bin that has not been read yet.    *)
THEOREM ChargedBinsWereRead == BinSpec => []OnlyReadBinsAreCharged
<1>1. BinInv => OnlyReadBinsAreCharged
  <2> SUFFICES ASSUME BinInv PROVE OnlyReadBinsAreCharged
    OBVIOUS
  <2>1. \A n \in DOMAIN records : records[n] \in GoodRecord
    BY DEF BinInv
  <2>2. QED
    BY <2>1 DEF OnlyReadBinsAreCharged, GoodRecord
<1>2. QED
  BY <1>1, BinInvariant, PTL

(* The weight of a record, its sign turned around, is the gain of its bin  *)
(* between the two readings, up to a multiple of Base.                     *)
THEOREM RecordsAreMeasured == BinSpec => []RecordsMeasureTheirBin
<1>1. BinInv => RecordsMeasureTheirBin
  <2> SUFFICES ASSUME BinInv PROVE RecordsMeasureTheirBin
    OBVIOUS
  <2>1. \A n \in DOMAIN records : records[n] \in GoodRecord
    BY DEF BinInv
  <2>2. QED
    BY <2>1 DEF RecordsMeasureTheirBin, GoodRecord
<1>2. QED
  BY <1>1, BinInvariant, PTL

(* No frame and no later session changes what a session has kept.          *)
THEOREM KeptBeansAreStable == BinSpec => KeptBeansStay
<1>1. BinInv /\ [BinNext]_binVars =>
        [\A s \in DOMAIN needClose :
          /\ Len(needClose'[s]) >= Len(needClose[s])
          /\ \A i \in DOMAIN needClose[s] : needClose'[s][i] = needClose[s][i]
          /\ s < Current => needClose'[s] = needClose[s]]_binVars
  <2> SUFFICES ASSUME BinInv, BinNext, NEW s \in DOMAIN needClose
               PROVE  /\ Len(needClose'[s]) >= Len(needClose[s])
                      /\ \A i \in DOMAIN needClose[s] : needClose'[s][i] = needClose[s][i]
                      /\ s < Current => needClose'[s] = needClose[s]
    OBVIOUS
  <2>1. needClose \in Seq(Seq(KeptBean)) /\ needClose[s] \in Seq(KeptBean)
        /\ Len(needClose[s]) \in Nat /\ DOMAIN needClose[s] = 1..Len(needClose[s])
        /\ DOMAIN needClose = 1..Len(needClose) /\ Len(needClose) \in Nat
    BY DEF BinInv, KeptInv
  <2>2. CASE OpenDoor
    <3>1. PICK b \in KeptBean : needClose' = [needClose EXCEPT ![Current] = Append(@, b)]
      <4>1. PICK i \in DOMAIN dustbinBeanList :
              /\ dustbinBeanList[i].isFull
              /\ needClose' = [needClose EXCEPT ![Current] = Append(@, dustbinBeanList[i])]
        BY <2>2 DEF OpenDoor
      <4>2. dustbinBeanList[i] \in KeptBean
        BY <4>1 DEF BinInv, RowsInv, KeptBean, GoodBean
      <4>3. QED
        BY <4>1, <4>2
    <3> DEFINE list == Append(needClose[Current], b)
    <3>2. Current = Len(needClose) /\ Current \in DOMAIN needClose
      BY <2>1 DEF Current
    <3>3. needClose[Current] \in Seq(KeptBean)
      BY <2>1, <3>2
    <3>4. /\ Len(list) = Len(needClose[Current]) + 1
          /\ \A i \in DOMAIN needClose[Current] : list[i] = needClose[Current][i]
      BY <3>3
    <3>5. needClose'[s] = IF s = Current THEN list ELSE needClose[s]
      BY <3>1, <3>2
    <3> HIDE DEF list
    <3>6. CASE s = Current
      BY <2>1, <3>2, <3>4, <3>5, <3>6
    <3>7. CASE s # Current
      BY <2>1, <3>5, <3>7
    <3>8. QED
      BY <3>6, <3>7
  <2>3. CASE StartSession
    BY <2>1, <2>3 DEF StartSession, Current
  <2>4. CASE UNCHANGED needClose
    BY <2>1, <2>4
  <2>5. QED
    BY <2>2, <2>3, <2>4 DEF BinNext, inOrderString, sessionVars, StartSettlement, EndSession, AddRecord
<1>2. QED
  BY <1>1, BinInvariant, PTL DEF BinSpec, KeptBeansStay
=============================================================================
