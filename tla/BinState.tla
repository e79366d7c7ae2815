------------------------------ MODULE BinState ------------------------------
(***************************************************************************)
(* What the app knows of its bins and what it makes of it: state frames    *)
(* from the serial line (SerialProManager.inOrderString), the list of      *)
(* beans they update (DustbinBrainApp.setDustbinState), the beans a        *)
(* session keeps of the bins it opens and the weights of the records that  *)
(* are made from them (ControlActivity.addRecord).                         *)
(*                                                                         *)
(* setDustbinState puts a NEW bean into the list.  A bean that a session   *)
(* has listed in needCloseDustbin before is left as it was; the beans      *)
(* "before the delivery", beforeDustbinStateBeans, are the list itself.    *)
(*                                                                         *)
(* Weights are in the unit of the protocol, 10 g.  The timers, dialogs,    *)
(* doors and users of a session are those of module DeliverySession.       *)
(***************************************************************************)
EXTENDS Integers, Sequences, FiniteSets

CONSTANTS
    Address,        \* addresses a frame may carry
    Table,          \* the doors of the bins in the database, in its order
    Base,           \* number of values of a byte
    MaxWeight,      \* the heaviest a bin can be
    MaxSessions,    \* bound: sessions
    MaxSettlements, \* bound: settlement threads
    MaxRecords      \* bound: records

ASSUME BinAssumption ==
    /\ Table \in Seq(Address)
    /\ \A i, j \in DOMAIN Table : Table[i] = Table[j] => i = j
    /\ Base \in Nat \ {0} /\ MaxWeight \in Nat /\ MaxWeight < Base * Base
    /\ MaxSessions \in Nat /\ MaxSettlements \in Nat /\ MaxRecords \in Nat

VARIABLES
    dustbinBeanList,\* the beans, in the order of the table
    inSession,      \* a ControlActivity is open
    needClose,      \* needCloseDustbin of each session so far
    settlements,    \* settlement threads: session and bins done
    records         \* delivery records posted to the event bus

sessionVars == <<inSession, needClose>>
binVars == <<dustbinBeanList, inSession, needClose, settlements, records>>

Never == -1         \* no frame has been read yet

Bean  == [doorNumber : Address,
          id : Address,             \* the server's id of the bin at a door
          dustbinWeight : Nat,
          isFull : BOOLEAN,         \* TRUE if there is room, see line 123
          seen : 0..MaxWeight \cup {Never}]
                                    \* history: what the scale had shown
Record == [session : Nat, door : Address, bin_id : Address,
           post : Int, former : Int, now : Int,
           opened : 0..MaxWeight \cup {Never}, settled : 0..MaxWeight \cup {Never}]
                                    \* history: the scale at both readings

----------------------------------------------------------------------------
(* The bytes a controller sends for a weight. *)
Encode(weight) == <<weight \div Base, weight % Base>>

(* The weight that was sent in two bytes. *)
Meant(bytes) == bytes[1] * Base + bytes[2]

(* shl, or and and are infix functions of one precedence, applied from the *)
(* left: the mask of the last byte is applied to all of the result.        *)
bytes2Int(bytes) == (bytes[1] * Base + bytes[2]) % Base

(* The first bean of a door, as find and getBeforeDustbin look for it. *)
RowOf(list, door) ==
    CHOOSE i \in DOMAIN list : /\ list[i].doorNumber = door
                               /\ \A j \in 1..(i-1) : list[j].doorNumber # door
Listed(list, door) == \E i \in DOMAIN list : list[i].doorNumber = door
Live(door) == dustbinBeanList[RowOf(dustbinBeanList, door)]

(* The new bean of a frame; what a frame does not say comes from the model. *)
BeanOf(frame, model) ==
    [doorNumber    |-> frame.address,
     id            |-> model.id,
     dustbinWeight |-> bytes2Int(frame.data),
     isFull        |-> frame.room,
     seen          |-> Meant(frame.data)]

(* Variant of setDustbinState: the bean is put into the first row. *)
setDustbinStateFirst(frame) ==
    LET i == RowOf(dustbinBeanList, frame.address)
    IN dustbinBeanList' =
        IF Listed(dustbinBeanList, frame.address)
        THEN [dustbinBeanList EXCEPT ![1] = BeanOf(frame, dustbinBeanList[i])]
        ELSE dustbinBeanList

(* A bean of a door that is not in the list is not added. *)
setDustbinState(frame) ==
    LET i == RowOf(dustbinBeanList, frame.address)
    IN dustbinBeanList' =
        IF Listed(dustbinBeanList, frame.address)
        THEN [dustbinBeanList EXCEPT ![i] = BeanOf(frame, dustbinBeanList[i])]
        ELSE dustbinBeanList

----------------------------------------------------------------------------
(* At the start the beans are those of the database: without a weight, and *)
(* with isFull FALSE.                                                      *)
BinInit ==
    /\ dustbinBeanList = [i \in DOMAIN Table |->
          [doorNumber |-> Table[i], id |-> Table[i], dustbinWeight |-> 0,
           isFull |-> FALSE, seen |-> Never]]
    /\ inSession = FALSE /\ needClose = <<>>
    /\ settlements = <<>> /\ records = <<>>

(* Variant of inOrderString: the bean is changed in place, for whoever      *)
(* holds it.                                                               *)
inOrderStringInPlace ==
    /\ \E a \in Address, weight \in 0..MaxWeight, room \in BOOLEAN :
          LET frame == [address |-> a, data |-> Encode(weight), room |-> room]
          IN /\ setDustbinState(frame)
             /\ needClose' = [s \in DOMAIN needClose |->
                   [i \in DOMAIN needClose[s] |->
                      IF needClose[s][i].doorNumber = a
                      THEN BeanOf(frame, needClose[s][i]) ELSE needClose[s][i]]]
    /\ UNCHANGED <<inSession, settlements, records>>

(* inOrderString for a whole frame of the function GET_DATA.  Frames are   *)
(* answered at any time, and read late or never (a frame that is cut, or   *)
(* read together with the one before it, is not analysed): a frame may     *)
(* state any weight at any time.                                           *)
inOrderString ==
    /\ \E a \in Address, weight \in 0..MaxWeight, room \in BOOLEAN :
          setDustbinState([address |-> a, data |-> Encode(weight), room |-> room])
    /\ UNCHANGED <<sessionVars, settlements, records>>

----------------------------------------------------------------------------
(* Sessions *)

Current == Len(needClose)

StartSession ==
    /\ ~inSession /\ Current < MaxSessions
    /\ inSession' = TRUE
    /\ needClose' = Append(needClose, <<>>)
    /\ UNCHANGED <<dustbinBeanList, settlements, records>>

(* Variant of OpenDoor: a bin is opened whether it has room or not. *)
OpenDoorFull ==
    /\ inSession
    /\ \E i \in DOMAIN dustbinBeanList :
          /\ ~Listed(needClose[Current], dustbinBeanList[i].doorNumber)
          /\ needClose' = [needClose EXCEPT ![Current] = Append(@, dustbinBeanList[i])]
    /\ UNCHANGED <<dustbinBeanList, inSession, settlements, records>>

(* openDefaultDoor or a tap: the first bean of a kind with room is kept in *)
(* needCloseDustbin, unless its door is there already.                     *)
OpenDoor ==
    /\ inSession
    /\ \E i \in DOMAIN dustbinBeanList :
          /\ dustbinBeanList[i].isFull
          /\ ~Listed(needClose[Current], dustbinBeanList[i].doorNumber)
          /\ needClose' = [needClose EXCEPT ![Current] = Append(@, dustbinBeanList[i])]
    /\ UNCHANGED <<dustbinBeanList, inSession, settlements, records>>

(* Variant of StartSettlement: the thread is started for the session after. *)
StartSettlementNext ==
    /\ inSession /\ Len(settlements) < MaxSettlements
    /\ settlements' = Append(settlements, [session |-> Current + 1, done |-> 0])
    /\ UNCHANGED <<dustbinBeanList, sessionVars, records>>

(* exit_time_task.  A second exit starts a second thread. *)
StartSettlement ==
    /\ inSession /\ Len(settlements) < MaxSettlements
    /\ settlements' = Append(settlements, [session |-> Current, done |-> 0])
    /\ UNCHANGED <<dustbinBeanList, sessionVars, records>>

(* Variant of RecordOf: the second reading is the first one again. *)
RecordOfBefore(session, bean) ==
    [session |-> session, door |-> bean.doorNumber, bin_id |-> bean.id,
     post    |-> 0, former |-> bean.dustbinWeight, now |-> bean.dustbinWeight,
     opened  |-> bean.seen, settled |-> Live(bean.doorNumber).seen]

(* addRecord: bean is the one kept when the door was opened. *)
RecordOf(session, bean) ==
    LET beforeDustbin == Live(bean.doorNumber)
        diff == bean.dustbinWeight - beforeDustbin.dustbinWeight
    IN [session |-> session,
        door    |-> bean.doorNumber,
        bin_id  |-> bean.id,
        post    |-> diff,
        former  |-> bean.dustbinWeight - diff,
        now     |-> bean.dustbinWeight,
        opened  |-> bean.seen,
        settled |-> beforeDustbin.seen]

(* The next bin of a settlement.  A thread that has done them all just     *)
(* ends: bins that are opened later have no record.                        *)
AddRecord(i) ==
    LET s == settlements[i].session
    IN /\ settlements[i].done < Len(needClose[s]) /\ Len(records) < MaxRecords
       /\ settlements' = [settlements EXCEPT ![i].done = @ + 1]
       /\ records' = Append(records, RecordOf(s, needClose[s][settlements[i].done + 1]))
       /\ UNCHANGED <<dustbinBeanList, sessionVars>>

(* exitEnd: after the last bin, by a timeout or by hasMan. *)
EndSession ==
    /\ inSession
    /\ inSession' = FALSE
    /\ UNCHANGED <<dustbinBeanList, needClose, settlements, records>>

BinNext ==
    \/ inOrderString
    \/ StartSession \/ OpenDoor \/ StartSettlement \/ EndSession
    \/ \E i \in DOMAIN settlements : AddRecord(i)

BinSpec == BinInit /\ [][BinNext]_binVars

----------------------------------------------------------------------------
(* What each variable holds. *)
BinTypeOK ==
    /\ dustbinBeanList \in [DOMAIN Table -> Bean]
    /\ inSession \in BOOLEAN /\ needClose \in Seq(Seq(Bean))
    /\ settlements \in Seq([session : 1..Len(needClose), done : Nat])
    /\ records \in Seq(Record)

(* Whatever frames arrive, late or from an address that is not in the      *)
(* table: the rows keep their order, their doors and the server ids they   *)
(* were bound to, and so do the records made from them.                    *)
RowsKeepIdentity ==
    /\ \A i \in DOMAIN Table : /\ dustbinBeanList[i].doorNumber = Table[i]
                               /\ dustbinBeanList[i].id = Table[i]
    /\ \A n \in DOMAIN records : records[n].bin_id = records[n].door

(* A bin is only opened, and charged, after a frame of it has been read: a *)
(* record never compares a reading with the weight 0 of the database.      *)
OnlyReadBinsAreCharged ==
    \A n \in DOMAIN records : records[n].opened # Never /\ records[n].settled # Never

(* The two readings of a record are those of its own bin: the one taken    *)
(* when its door was opened is called now_weight, the one at the           *)
(* settlement former_weight, and post_weight is the first less the second. *)
(* With its sign turned around it is what the bin gained in between, up to *)
(* a multiple of what a byte can hold.                                     *)
RecordsMeasureTheirBin ==
    \A n \in DOMAIN records :
        LET r == records[n] IN
        /\ r.now = r.opened % Base /\ r.former = r.settled % Base
        /\ (r.settled - r.opened + r.post) % Base = 0
        /\ r.settled < Base /\ r.opened < Base => r.settled - r.opened = - r.post

(* A bean that a session has kept for a bin it opened stays the bean of    *)
(* that moment: frames that arrive until the settlement do not change it,  *)
(* and no later session adds to the list.                                  *)
KeptBeansStay ==
    [][\A s \in DOMAIN needClose :
          /\ Len(needClose'[s]) >= Len(needClose[s])
          /\ \A i \in DOMAIN needClose[s] : needClose'[s][i] = needClose[s][i]
          /\ s < Current => needClose'[s] = needClose[s]]_binVars
=============================================================================
