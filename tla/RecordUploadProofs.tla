------------------------- MODULE RecordUploadProofs -------------------------
(***************************************************************************)
(* Theorems about module RecordUpload, for every set of bins, any number   *)
(* of records and any number of pictures taken at a time.                  *)
(*                                                                         *)
(* The argument: a sound record that counts on closeDoorNum or             *)
(* binRecordImgPath finds its own door or name there, whatever the others  *)
(* do.  So the picture of a sound record is ordered under its own name,    *)
(* and what a file or a picture of another name shows is not sound.        *)
(***************************************************************************)
EXTENDS RecordUpload, TLAPS

UploadRec == [door : Bins, place : Place, sound : BOOLEAN]
Shot      == [camera : Kitchen, for : DOMAIN uploads, path : {0} \cup DOMAIN uploads]

(* A camera is connected, takes pictures and reports for records of its    *)
(* own bin; only such records go through the camera.                       *)
CameraInv ==
    /\ \A n \in DOMAIN uploads :
          uploads[n].place \notin {"start", "done"} => Door(n) \in Kitchen
    /\ \A c \in Kitchen : connected[c] # 0 => Door(connected[c]) = c
    /\ \A k \in Slots : shots[k] # NoShot => shots[k].camera = Door(shots[k].for)
    /\ event.stage # "none" => event.for \in DOMAIN uploads /\ event.camera = Door(event.for)
    /\ event.stage = "none" => event.for = 0

(* The fields that a sound record counts on are its own. *)
FieldInv ==
    \A n \in DOMAIN uploads : uploads[n].sound =>
       /\ CountsOnPath(n) => binRecordImgPath = n
       /\ CountsOnDoor(n) => closeDoorNum = Door(n)

ShotInv == \A k \in Slots : shots[k] # NoShot /\ uploads[shots[k].for].sound =>
              shots[k].path = shots[k].for

FileInv == \A n \in Records : files[n] # 0 =>
              files[n] = n \/ ~ uploads[files[n]].sound

UploadInv == /\ UploadTypeOK
             /\ CameraInv /\ FieldInv /\ ShotInv /\ FileInv
             /\ PicturesShowTheirRecord

----------------------------------------------------------------------------
(* What a step does to the records *)

LEMMA RecordTypes ==
    ASSUME UploadTypeOK
    PROVE  /\ uploads \in Seq(UploadRec) /\ Len(uploads) \in Nat
           /\ DOMAIN uploads = 1..Len(uploads) /\ 0 \notin DOMAIN uploads
           /\ \A n \in DOMAIN uploads : /\ uploads[n] \in UploadRec
                                        /\ Door(n) \in Bins /\ uploads[n].place \in Place
           /\ \A k \in Slots : shots[k] = NoShot \/ shots[k] \in Shot
           /\ \A k \in Slots : shots[k] # NoShot =>
                 /\ shots[k].camera \in Kitchen /\ shots[k].for \in DOMAIN uploads
                 /\ shots[k].path \in {0} \cup DOMAIN uploads
           /\ NoShot.for = 0 /\ NoEvent.for = 0 /\ NoEvent.stage = "none"
<1>1. uploads \in Seq(UploadRec)
  BY DEF UploadTypeOK, UploadRec
<1>2. Len(uploads) \in Nat /\ DOMAIN uploads = 1..Len(uploads)
  BY <1>1
<1>3. \A n \in DOMAIN uploads : uploads[n] \in UploadRec
  BY <1>1
<1>4. \A k \in Slots : shots[k] = NoShot \/ shots[k] \in Shot
  BY DEF UploadTypeOK, Shot
<1>5. QED
  BY <1>1, <1>2, <1>3, <1>4 DEF UploadRec, Shot, Door, NoShot, NoEvent

(* Records only lose their soundness. *)
LEMMA DisturbedRecords ==
    ASSUME UploadTypeOK, NEW S
    PROVE  /\ Disturbed(S) \in Seq(UploadRec) /\ Len(Disturbed(S)) = Len(uploads)
           /\ DOMAIN Disturbed(S) = DOMAIN uploads
           /\ \A m \in DOMAIN uploads :
                 /\ Disturbed(S)[m].door = uploads[m].door
                 /\ Disturbed(S)[m].place = uploads[m].place
                 /\ Disturbed(S)[m].sound => uploads[m].sound /\ m \notin S
<1> DEFINE spared(m) == m \notin S
           still(m) == uploads[m].sound /\ spared(m)
           new(m) == [uploads[m] EXCEPT !.sound = still(m)]
<1>1. Len(uploads) \in Nat /\ DOMAIN uploads = 1..Len(uploads)
      /\ \A m \in DOMAIN uploads : uploads[m] \in UploadRec
  BY RecordTypes
<1>2. Disturbed(S) = [m \in DOMAIN uploads |-> new(m)]
  BY DEF Disturbed
<1>3. \A m \in DOMAIN uploads : still(m) \in BOOLEAN
  BY <1>1 DEF UploadRec
<1>4. \A m \in DOMAIN uploads : still(m) => uploads[m].sound /\ m \notin S
  OBVIOUS
<1> HIDE DEF still
<1>5. \A m \in DOMAIN uploads :
         /\ new(m) \in UploadRec /\ new(m).door = uploads[m].door
         /\ new(m).place = uploads[m].place /\ new(m).sound = still(m)
  BY <1>1, <1>3 DEF UploadRec
<1> HIDE DEF new, UploadRec
<1>6. Disturbed(S) \in Seq(UploadRec) /\ Len(Disturbed(S)) = Len(uploads)
      /\ DOMAIN Disturbed(S) = DOMAIN uploads
  BY <1>1, <1>2, <1>5
<1>7. QED
  BY <1>2, <1>4, <1>5, <1>6

(* A step of a thread moves its own record. *)
LEMMA GotoMoves ==
    ASSUME UploadTypeOK, NEW n \in DOMAIN uploads, NEW from, NEW to \in Place, NEW S,
           Goto(n, from, to, S)
    PROVE  /\ uploads' \in Seq(UploadRec) /\ Len(uploads') = Len(uploads)
           /\ DOMAIN uploads' = DOMAIN uploads
           /\ uploads[n].place = from
           /\ \A m \in DOMAIN uploads :
                 /\ uploads'[m].door = uploads[m].door
                 /\ uploads'[m].place = IF m = n THEN to ELSE uploads[m].place
                 /\ uploads'[m].sound => uploads[m].sound /\ m \notin S
<1> DEFINE d == Disturbed(S)
           new == [d[n] EXCEPT !.place = to]
<1>1. /\ d \in Seq(UploadRec) /\ Len(d) = Len(uploads) /\ DOMAIN d = DOMAIN uploads
      /\ \A m \in DOMAIN uploads :
            /\ d[m].door = uploads[m].door /\ d[m].place = uploads[m].place
            /\ d[m].sound => uploads[m].sound /\ m \notin S
  BY DisturbedRecords
<1>2. uploads' = [d EXCEPT ![n] = new] /\ uploads[n].place = from
  BY DEF Goto
<1> HIDE DEF d
<1>3. d[n] \in UploadRec
  BY <1>1
<1>4. new \in UploadRec /\ new.door = d[n].door /\ new.sound = d[n].sound /\ new.place = to
  BY <1>3 DEF UploadRec
<1> HIDE DEF new, UploadRec
<1>5. QED
  BY <1>1, <1>2, <1>4

(* A new record is the last of the list. *)
LEMMA PostAppends ==
    ASSUME UploadTypeOK, NEW door \in Bins, PostRecord(door)
    PROVE  /\ uploads' \in Seq(UploadRec) /\ Len(uploads') = Len(uploads) + 1
           /\ Len(uploads') <= MaxUploads
           /\ DOMAIN uploads' = DOMAIN uploads \cup {Len(uploads) + 1}
           /\ \A m \in DOMAIN uploads : uploads'[m] = uploads[m] /\ m <= Len(uploads)
           /\ uploads'[Len(uploads) + 1] = [door |-> door, place |-> "start", sound |-> TRUE]
<1> DEFINE new == [door |-> door, place |-> "start", sound |-> TRUE]
<1>1. uploads \in Seq(UploadRec) /\ Len(uploads) \in Nat /\ MaxUploads \in Nat
  BY UploadAssumption, RecordTypes
<1>2. new \in UploadRec
  BY DEF UploadRec, Place
<1>3. uploads' = Append(uploads, new) /\ Len(uploads) < MaxUploads
  BY DEF PostRecord
<1> HIDE DEF new, UploadRec
<1>4. uploads' \in Seq(UploadRec) /\ Len(uploads') = Len(uploads) + 1
  BY <1>1, <1>2, <1>3
<1>5. DOMAIN uploads' = 1..(Len(uploads) + 1) /\ DOMAIN uploads = 1..Len(uploads)
  BY <1>1, <1>4
<1>6. \A m \in DOMAIN uploads : uploads'[m] = uploads[m] /\ m <= Len(uploads)
  BY <1>1, <1>3, <1>5
<1>7. uploads'[Len(uploads) + 1] = new
  BY <1>1, <1>3
<1>8. QED
  BY <1>1, <1>3, <1>4, <1>5, <1>6, <1>7 DEF new

(* What the other steps leave of the records: the same ones, with the same *)
(* doors, none of them sound again.                                        *)
Keeps ==
    /\ DOMAIN uploads \subseteq DOMAIN uploads'
    /\ \A m \in DOMAIN uploads : /\ uploads'[m].door = uploads[m].door
                                 /\ uploads'[m].sound => uploads[m].sound

(* Pictures under way, files and pictures at the server stay right. *)
LEMMA PicturesStay ==
    ASSUME UploadInv, Keeps
    PROVE  /\ \A k \in Slots : shots[k] # NoShot /\ uploads'[shots[k].for].sound =>
                 shots[k].path = shots[k].for
           /\ \A n \in Records : files[n] # 0 => files[n] = n \/ ~ uploads'[files[n]].sound
           /\ \A p \in pictures : p.shows = p.record \/ ~ uploads'[p.shows].sound
<1>1. UploadTypeOK
  BY DEF UploadInv
<1>2. \A k \in Slots : shots[k] # NoShot => shots[k].for \in DOMAIN uploads
  BY <1>1, RecordTypes
<1>3. \A n \in Records : files[n] # 0 => files[n] \in DOMAIN uploads
  BY <1>1 DEF UploadTypeOK
<1>4. \A p \in pictures : p.shows \in DOMAIN uploads
  BY <1>1 DEF UploadTypeOK
<1>5. QED
  BY <1>2, <1>3, <1>4 DEF UploadInv, ShotInv, FileInv, PicturesShowTheirRecord, Keeps

----------------------------------------------------------------------------
(* The steps keep the invariant *)

LEMMA UploadInitInv == UploadInit => UploadInv
<1> SUFFICES ASSUME UploadInit PROVE UploadInv
  OBVIOUS
<1>1. UploadTypeOK
  BY UploadAssumption DEF UploadInit, UploadTypeOK, Stage, NoEvent
<1>2. DOMAIN uploads = {}
  BY DEF UploadInit
<1>3. QED
  BY <1>1, <1>2 DEF UploadInit, UploadInv, CameraInv, FieldInv, ShotInv, FileInv,
                    PicturesShowTheirRecord, NoEvent

(* A step of the thread of a record. *)
LEMMA ThreadKeeps ==
    ASSUME UploadInv, NEW n \in DOMAIN uploads, UploadThread(n)
    PROVE  UploadInv'
<1>1. UploadTypeOK /\ CameraInv /\ FieldInv /\ 0 \notin DOMAIN uploads
  BY RecordTypes DEF UploadInv
<1>2. UNCHANGED cameraVars
  BY DEF UploadThread, NoCamera, OpenLight, SetCloseDoor, LiveConnect, NamePicture
<1>g. ASSUME NEW from, NEW to \in Place, NEW S, Goto(n, from, to, S)
      PROVE  /\ uploads[n].place = from
             /\ \A m \in DOMAIN uploads :
                   /\ uploads'[m].door = uploads[m].door
                   /\ uploads'[m].place = IF m = n THEN to ELSE uploads[m].place
                   /\ uploads'[m].sound => uploads[m].sound /\ m \notin S
  BY <1>1, <1>g, GotoMoves
(* The records move within their types; it remains to see that the fields  *)
(* and the connections are right.                                          *)
<1>3. ASSUME NEW from, NEW to \in Place, NEW S, Goto(n, from, to, S),
             to \notin {"start", "done"} => Door(n) \in Kitchen,
             light' \subseteq Kitchen, closeDoorNum' \in Kitchen \cup {0},
             binRecordImgPath' \in {0} \cup DOMAIN uploads,
             connected' \in [Kitchen -> {0} \cup DOMAIN uploads],
             \A c \in Kitchen : connected'[c] # 0 => Door(connected'[c]) = c,
             \A m \in DOMAIN uploads : uploads'[m].sound =>
                /\ CountsOnPath(m)' => binRecordImgPath' = m
                /\ CountsOnDoor(m)' => closeDoorNum' = Door(m)
      PROVE  UploadInv'
  <2>1. /\ uploads' \in Seq(UploadRec) /\ Len(uploads') = Len(uploads)
        /\ DOMAIN uploads' = DOMAIN uploads
        /\ \A m \in DOMAIN uploads :
              /\ uploads'[m].door = uploads[m].door
              /\ uploads'[m].place = IF m = n THEN to ELSE uploads[m].place
              /\ uploads'[m].sound => uploads[m].sound /\ m \notin S
    BY <1>1, <1>3, GotoMoves
  <2>2. UploadTypeOK'
    BY <1>1, <1>2, <1>3, <2>1 DEF UploadTypeOK, UploadRec, cameraVars
  <2>3. \A m \in DOMAIN uploads : Door(m)' = Door(m)
    BY <2>1 DEF Door
  <2>4. /\ \A k \in Slots : shots[k] # NoShot => shots[k].for \in DOMAIN uploads
        /\ \A c \in Kitchen : connected'[c] # 0 => connected'[c] \in DOMAIN uploads
    BY <1>1, <1>3, RecordTypes
  <2>5. CameraInv'
    BY <1>1, <1>2, <1>3, <2>1, <2>3, <2>4 DEF CameraInv, Door, cameraVars
  <2>6. FieldInv'
    BY <1>3, <2>1, <2>3 DEF FieldInv
  <2>7. Keeps
    BY <2>1 DEF Keeps
  <2>8. ShotInv' /\ FileInv' /\ PicturesShowTheirRecord'
    BY <1>2, <2>7, PicturesStay DEF ShotInv, FileInv, PicturesShowTheirRecord, cameraVars
  <2>9. QED
    BY <2>2, <2>5, <2>6, <2>8 DEF UploadInv
<1>4. \A m \in DOMAIN uploads :
         /\ uploads[m].sound /\ CountsOnPath(m) => binRecordImgPath = m
         /\ uploads[m].sound /\ CountsOnDoor(m) => closeDoorNum = Door(m)
  BY <1>1 DEF FieldInv
<1>5. /\ light \subseteq Kitchen /\ closeDoorNum \in Kitchen \cup {0}
      /\ binRecordImgPath \in {0} \cup DOMAIN uploads
      /\ connected \in [Kitchen -> {0} \cup DOMAIN uploads]
      /\ \A c \in Kitchen : connected[c] # 0 => Door(connected[c]) = c
  BY <1>1 DEF UploadTypeOK, CameraInv
(* Connections stay, and the record does not begin to count on a field. *)
<1>6. ASSUME NEW from, NEW to \in Place, Goto(n, from, to, {}), UNCHANGED connected,
             to # "slot", to = "done" => Door(n) \notin Kitchen,
             UNCHANGED <<closeDoorNum, binRecordImgPath>>
      PROVE  \A m \in DOMAIN uploads : uploads'[m].sound =>
                /\ CountsOnPath(m)' => binRecordImgPath' = m
                /\ CountsOnDoor(m)' => closeDoorNum' = Door(m)
  <2>1. \A m \in DOMAIN uploads :
              /\ uploads'[m].door = uploads[m].door
              /\ uploads'[m].place = IF m = n THEN to ELSE uploads[m].place
              /\ uploads'[m].sound => uploads[m].sound /\ m \notin {}
    BY <1>g, <1>6
  <2>2. \A m \in DOMAIN uploads : Connected(m) => Door(m) \in Kitchen
    BY <1>1, <1>5 DEF Connected
  <2>3. \A m \in DOMAIN uploads : /\ CountsOnPath(m)' => CountsOnPath(m)
                                  /\ CountsOnDoor(m)' => CountsOnDoor(m)
    BY <1>2, <1>6, <2>1, <2>2 DEF CountsOnPath, CountsOnDoor, Connected, cameraVars
  <2>4. QED
    BY <1>4, <1>6, <2>1, <2>3
<1>7. CASE NoCamera(n)
  BY <1>3, <1>5, <1>6, <1>7 DEF NoCamera, Place
<1>8. CASE OpenLight(n)
  BY <1>3, <1>5, <1>6, <1>8 DEF OpenLight, Place
<1>9. CASE SetCloseDoor(n)
  <2>1. /\ Goto(n, "lit", "slot", OtherDoors(n)) /\ "slot" \in Place
        /\ closeDoorNum' = Door(n) /\ UNCHANGED <<light, binRecordImgPath, connected>>
    BY <1>9 DEF SetCloseDoor, Place
  <2>2. /\ uploads[n].place = "lit"
        /\ \A m \in DOMAIN uploads :
              /\ uploads'[m].door = uploads[m].door
              /\ uploads'[m].place = IF m = n THEN "slot" ELSE uploads[m].place
              /\ uploads'[m].sound => uploads[m].sound /\ m \notin OtherDoors(n)
    BY <1>g, <2>1
  <2>3. Door(n) \in Kitchen
    BY <1>1, <2>2 DEF CameraInv
  <2>4. ASSUME NEW m \in DOMAIN uploads, uploads'[m].sound
        PROVE  /\ CountsOnPath(m)' => binRecordImgPath' = m
               /\ CountsOnDoor(m)' => closeDoorNum' = Door(m)
    <3>1. CountsOnPath(m)' => CountsOnPath(m)
      BY <2>1, <2>2 DEF CountsOnPath, Connected
    <3>2. CASE m = n
      BY <1>4, <2>1, <2>2, <2>4, <3>1, <3>2
    <3>3. CASE m # n
      <4>1. CountsOnDoor(m)' => CountsOnDoor(m)
        BY <1>2, <2>1, <2>2, <3>3 DEF CountsOnDoor, Connected, cameraVars
      <4>2. CountsOnDoor(m) => Door(m) = Door(n)
        BY <2>2, <2>4 DEF OtherDoors
      <4>3. QED
        BY <1>4, <2>1, <2>2, <2>4, <3>1, <4>1, <4>2
    <3>4. QED
      BY <3>2, <3>3
  <2>5. QED
    BY <1>3, <1>5, <2>1, <2>3, <2>4
<1>10. CASE LiveConnect(n)
  <2>1. /\ Goto(n, "slot", "connected", {}) /\ "connected" \in Place
        /\ connected' = [connected EXCEPT ![Door(n)] = n]
        /\ UNCHANGED <<light, closeDoorNum, binRecordImgPath>>
    BY <1>10 DEF LiveConnect, Place
  <2>2. /\ uploads[n].place = "slot"
        /\ \A m \in DOMAIN uploads :
              /\ uploads'[m].door = uploads[m].door
              /\ uploads'[m].place = IF m = n THEN "connected" ELSE uploads[m].place
              /\ uploads'[m].sound => uploads[m].sound /\ m \notin {}
    BY <1>g, <2>1
  <2>3. Door(n) \in Kitchen
    BY <1>1, <2>2 DEF CameraInv
  <2>4. /\ connected' \in [Kitchen -> {0} \cup DOMAIN uploads]
        /\ \A c \in Kitchen : connected'[c] # 0 => Door(connected'[c]) = c
        /\ \A m \in DOMAIN uploads \ {n} : Connected(m)' => Connected(m)
    BY <1>5, <2>1, <2>3 DEF Connected
  <2>5. ASSUME NEW m \in DOMAIN uploads, uploads'[m].sound
        PROVE  /\ CountsOnPath(m)' => binRecordImgPath' = m
               /\ CountsOnDoor(m)' => closeDoorNum' = Door(m)
    <3>1. CASE m = n
      <4>1. CountsOnDoor(n) /\ ~ CountsOnPath(n)'
        BY <2>2 DEF CountsOnDoor, CountsOnPath
      <4>2. QED
        BY <1>4, <2>1, <2>2, <2>5, <3>1, <4>1
    <3>2. CASE m # n
      <4>1. /\ CountsOnPath(m)' => CountsOnPath(m)
            /\ CountsOnDoor(m)' => CountsOnDoor(m)
        BY <1>2, <2>2, <2>4, <3>2 DEF CountsOnPath, CountsOnDoor, cameraVars
      <4>2. QED
        BY <1>4, <2>1, <2>2, <2>5, <4>1
    <3>3. QED
      BY <3>1, <3>2
  <2>6. QED
    BY <1>3, <1>5, <2>1, <2>3, <2>4, <2>5
<1>11. CASE NamePicture(n)
  <2>1. /\ Goto(n, "connected", "done", OtherPictures(n)) /\ "done" \in Place
        /\ binRecordImgPath' = n /\ UNCHANGED <<light, closeDoorNum, connected>>
    BY <1>11 DEF NamePicture, Place
  <2>2. /\ uploads[n].place = "connected"
        /\ \A m \in DOMAIN uploads :
              /\ uploads'[m].door = uploads[m].door
              /\ uploads'[m].place = IF m = n THEN "done" ELSE uploads[m].place
              /\ uploads'[m].sound => uploads[m].sound /\ m \notin OtherPictures(n)
    BY <1>g, <2>1
  <2>3. ASSUME NEW m \in DOMAIN uploads, uploads'[m].sound
        PROVE  /\ CountsOnPath(m)' => binRecordImgPath' = m
               /\ CountsOnDoor(m)' => closeDoorNum' = Door(m)
    <3>1. CountsOnDoor(m)' => CountsOnDoor(m)
      BY <1>2, <2>1, <2>2 DEF CountsOnDoor, Connected, cameraVars
    <3>2. m # n => (CountsOnPath(m)' => CountsOnPath(m)) /\ ~ CountsOnPath(m)
      BY <2>1, <2>2, <2>3 DEF CountsOnPath, Connected, OtherPictures
    <3>3. QED
      BY <1>4, <2>1, <2>2, <2>3, <3>1, <3>2
  <2>4. QED
    BY <1>3, <1>5, <2>1, <2>3
<1>12. QED
  BY <1>7, <1>8, <1>9, <1>10, <1>11 DEF UploadThread

(* A new record is sound and counts on nothing yet. *)
LEMMA PostKeeps ==
    ASSUME UploadInv, NEW door \in Bins, PostRecord(door)
    PROVE  UploadInv'
<1> DEFINE new == Len(uploads) + 1
<1>1. UploadTypeOK /\ CameraInv /\ FieldInv
  BY DEF UploadInv
<1>2. /\ uploads' \in Seq(UploadRec) /\ Len(uploads') = Len(uploads) + 1
      /\ Len(uploads') <= MaxUploads
      /\ DOMAIN uploads' = DOMAIN uploads \cup {new}
      /\ \A m \in DOMAIN uploads : uploads'[m] = uploads[m] /\ m <= Len(uploads)
      /\ uploads'[new] = [door |-> door, place |-> "start", sound |-> TRUE]
  BY <1>1, PostAppends
<1>3. UNCHANGED <<light, closeDoorNum, binRecordImgPath, connected, cameraVars>>
  BY DEF PostRecord
<1>4. /\ Len(uploads) \in Nat /\ DOMAIN uploads = 1..Len(uploads) /\ 0 \notin DOMAIN uploads
      /\ \A k \in Slots : shots[k] # NoShot => shots[k].for \in DOMAIN uploads
      /\ NoShot.for = 0 /\ NoEvent.for = 0
  BY <1>1, RecordTypes
<1>5. new # 0 /\ new \notin DOMAIN uploads /\ uploads'[new].place = "start"
  BY <1>2, <1>4
<1>6. UploadTypeOK'
  <2>1. shots' \in [Slots -> {NoShot} \cup Shot']
    BY <1>1, <1>2, <1>3 DEF UploadTypeOK, cameraVars, Shot
  <2>2. pictures' \subseteq [record : DOMAIN uploads', shows : DOMAIN uploads']
    BY <1>1, <1>2, <1>3 DEF UploadTypeOK, cameraVars
  <2>3. connected' \in [Kitchen -> {0} \cup DOMAIN uploads']
        /\ files' \in [Records -> {0} \cup DOMAIN uploads']
    BY <1>1, <1>2, <1>3 DEF UploadTypeOK, cameraVars
  <2>4. event' \in [stage : Stage, camera : Kitchen \cup {0}, for : {0} \cup DOMAIN uploads']
    BY <1>1, <1>2, <1>3 DEF UploadTypeOK, cameraVars
  <2>5. QED
    BY <1>1, <1>2, <1>3, <2>1, <2>2, <2>3, <2>4
       DEF UploadTypeOK, UploadRec, cameraVars, Shot
<1>7. \A m \in DOMAIN uploads : uploads'[m].door = Door(m)
  BY <1>2 DEF Door
<1>8. CameraInv'
  <2>1. \A c \in Kitchen : connected[c] # 0 => connected[c] \in DOMAIN uploads
    BY <1>1 DEF UploadTypeOK
  <2>2. \A m \in DOMAIN uploads' :
           uploads'[m].place \notin {"start", "done"} => uploads'[m].door \in Kitchen
    BY <1>1, <1>2, <1>5, <1>7 DEF CameraInv
  <2>3. \A c \in Kitchen : connected'[c] # 0 => uploads'[connected'[c]].door = c
    BY <1>1, <1>3, <1>7, <2>1 DEF CameraInv
  <2>4. \A k \in Slots : shots[k] # NoShot => shots[k].camera = uploads'[shots[k].for].door
    BY <1>1, <1>4, <1>7 DEF CameraInv
  <2>5. event.stage # "none" =>
           event.for \in DOMAIN uploads' /\ event.camera = uploads'[event.for].door
    BY <1>1, <1>2, <1>7 DEF CameraInv
  <2>6. QED
    BY <1>1, <1>3, <2>2, <2>3, <2>4, <2>5 DEF CameraInv, Door, cameraVars
<1>9. FieldInv'
  <2>1. ASSUME NEW m \in DOMAIN uploads', m \notin DOMAIN uploads
        PROVE  ~ CountsOnPath(m)' /\ ~ CountsOnDoor(m)'
    <3>1. m # 0 /\ uploads'[m].place = "start"
      BY <1>2, <1>5, <2>1
    <3>2. \A c \in Kitchen : connected[c] # m
      BY <1>1, <2>1, <3>1 DEF UploadTypeOK
    <3>3. \A k \in Slots : shots[k].for # m
      BY <1>4, <2>1, <3>1
    <3>4. event.for # m
      BY <1>1, <2>1, <3>1 DEF UploadTypeOK
    <3>5. QED
      BY <1>3, <3>1, <3>2, <3>3, <3>4 DEF CountsOnPath, CountsOnDoor, Connected, cameraVars
  <2>2. ASSUME NEW m \in DOMAIN uploads
        PROVE  /\ CountsOnPath(m)' => CountsOnPath(m)
               /\ CountsOnDoor(m)' => CountsOnDoor(m)
               /\ uploads'[m].sound = uploads[m].sound
    BY <1>2, <1>3 DEF CountsOnPath, CountsOnDoor, Connected, cameraVars
  <2>3. ASSUME NEW m \in DOMAIN uploads', uploads'[m].sound
        PROVE  /\ CountsOnPath(m)' => binRecordImgPath' = m
               /\ CountsOnDoor(m)' => closeDoorNum' = Door(m)'
    <3>1. CASE m \in DOMAIN uploads
      <4>1. Door(m)' = Door(m)
        BY <1>7, <3>1 DEF Door
      <4>2. QED
        BY <1>1, <1>3, <2>2, <2>3, <3>1, <4>1 DEF FieldInv
    <3>2. CASE m \notin DOMAIN uploads
      BY <2>1, <3>2
    <3>3. QED
      BY <3>1, <3>2
  <2>4. QED
    BY <2>3 DEF FieldInv
<1>10. Keeps
  BY <1>2 DEF Keeps
<1>11. ShotInv' /\ FileInv' /\ PicturesShowTheirRecord'
  BY <1>3, <1>10, PicturesStay DEF ShotInv, FileInv, PicturesShowTheirRecord, cameraVars
<1>12. QED
  BY <1>6, <1>8, <1>9, <1>11 DEF UploadInv

(* A picture is ordered: of a sound record under its own name. *)
LEMMA VideoStatusKeeps ==
    ASSUME UploadInv, NEW camera \in Kitchen, NEW k \in Slots, VideoStatus(camera, k)
    PROVE  UploadInv'
<1> DEFINE n == connected[camera]
           S == {n} \cap {m \in DOMAIN uploads : uploads[m].place # "done"}
           shot == [camera |-> camera, for |-> n, path |-> binRecordImgPath]
<1>1. UploadTypeOK /\ CameraInv /\ FieldInv
  BY DEF UploadInv
<1>2. /\ shots[k] = NoShot /\ n # 0 /\ shots' = [shots EXCEPT ![k] = shot]
      /\ uploads' = Disturbed(S)
      /\ UNCHANGED <<closeDoorNum, binRecordImgPath, light, connected, event, files,
                     sending, pictures>>
  BY DEF VideoStatus
<1>3. n \in DOMAIN uploads /\ binRecordImgPath \in {0} \cup DOMAIN uploads
  BY <1>1, <1>2 DEF UploadTypeOK
<1>4. shot \in Shot /\ shot.for = n /\ shot.camera = camera /\ shot.path = binRecordImgPath
  BY <1>3 DEF Shot
<1>5. /\ shots' \in [Slots -> {NoShot} \cup Shot]
      /\ \A j \in Slots : shots'[j] = IF j = k THEN shot ELSE shots[j]
  BY <1>1, <1>2, <1>4 DEF UploadTypeOK, Shot
<1> HIDE DEF S, shot
<1>6. /\ uploads' \in Seq(UploadRec) /\ Len(uploads') = Len(uploads)
      /\ DOMAIN uploads' = DOMAIN uploads
      /\ \A m \in DOMAIN uploads :
            /\ uploads'[m].door = uploads[m].door
            /\ uploads'[m].place = uploads[m].place
            /\ uploads'[m].sound => uploads[m].sound /\ m \notin S
  BY <1>1, <1>2, DisturbedRecords
<1> HIDE DEF n
<1>7. UploadTypeOK'
  BY <1>1, <1>2, <1>5, <1>6 DEF UploadTypeOK, UploadRec, Shot
<1>8. \A m \in DOMAIN uploads : uploads'[m].door = Door(m)
  BY <1>6 DEF Door
<1>9. \A j \in Slots : shots[j] # NoShot => shots[j].for \in DOMAIN uploads
  BY <1>1, RecordTypes
<1>10. Door(n) = camera
  BY <1>1, <1>2 DEF CameraInv, n
<1>11. CameraInv'
  <2>1. \A j \in Slots : shots'[j] # NoShot =>
                            shots'[j].camera = uploads'[shots'[j].for].door
    BY <1>1, <1>3, <1>4, <1>5, <1>8, <1>9, <1>10 DEF CameraInv
  <2>2. \A c \in Kitchen : connected[c] # 0 => uploads'[connected[c]].door = c
    BY <1>1, <1>8 DEF CameraInv, UploadTypeOK
  <2>3. event.stage # "none" =>
           event.for \in DOMAIN uploads /\ event.camera = uploads'[event.for].door
    BY <1>1, <1>8 DEF CameraInv
  <2>4. QED
    BY <1>1, <1>2, <1>6, <1>8, <2>1, <2>2, <2>3 DEF CameraInv, Door
<1>12. FieldInv'
  <2>1. ASSUME NEW m \in DOMAIN uploads
        PROVE  /\ CountsOnPath(m)' => CountsOnPath(m)
               /\ CountsOnDoor(m)' => CountsOnDoor(m)
    <3>1. Connected(m)' <=> Connected(m)
      BY <1>2 DEF Connected
    <3>2. Connected(n)
      BY DEF Connected, n
    <3>3. \A j \in Slots : shots'[j].for = m => shots[j].for = m \/ m = n
      BY <1>4, <1>5
    <3>4. QED
      BY <1>2, <1>6, <3>1, <3>2, <3>3 DEF CountsOnPath, CountsOnDoor
  <2>2. QED
    BY <1>1, <1>2, <1>6, <1>8, <2>1 DEF FieldInv, Door
<1>13. Keeps
  BY <1>6 DEF Keeps
<1>14. ShotInv'
  <2>1. ASSUME uploads'[n].sound PROVE shot.path = shot.for
    <3>1. uploads[n].sound /\ uploads[n].place = "done"
      BY <1>3, <1>6, <2>1 DEF S
    <3>2. CountsOnPath(n)
      BY <3>1 DEF CountsOnPath, Connected, n
    <3>3. QED
      BY <1>1, <1>3, <1>4, <3>1, <3>2 DEF FieldInv
  <2>2. \A j \in Slots : shots[j] # NoShot /\ uploads'[shots[j].for].sound =>
           shots[j].path = shots[j].for
    BY <1>13, PicturesStay
  <2>3. QED
    BY <1>4, <1>5, <2>1, <2>2 DEF ShotInv
<1>15. FileInv' /\ PicturesShowTheirRecord'
  BY <1>2, <1>13, PicturesStay DEF FileInv, PicturesShowTheirRecord
<1>16. QED
  BY <1>7, <1>11, <1>12, <1>14, <1>15 DEF UploadInv

(* The other steps leave the records and the fields as they are. *)
LEMMA RestKeeps ==
    ASSUME UploadInv,
           \/ \E door \in Kitchen : SessionLight(door)
           \/ \E k \in Slots : VideoCamera(k) \/ ShotFails(k)
           \/ LiveDisconnect \/ CloseLight \/ UploadImage
           \/ \E n \in Records : ImageAnswered(n)
    PROVE  UploadInv'
<1>1. UploadTypeOK /\ CameraInv /\ FieldInv /\ ShotInv /\ FileInv /\ PicturesShowTheirRecord
  BY DEF UploadInv
<1>2. /\ \A k \in Slots : shots[k] # NoShot => /\ shots[k] \in Shot
                                               /\ shots[k].for \in DOMAIN uploads
                                               /\ shots[k].camera \in Kitchen
                                               /\ shots[k].path \in {0} \cup DOMAIN uploads
      /\ 0 \notin DOMAIN uploads /\ NoShot.for = 0 /\ NoEvent.for = 0 /\ NoEvent.stage = "none"
  BY <1>1, RecordTypes
(* What has to be seen: who counts on the door, and the event. *)
<1>3. ASSUME UNCHANGED <<uploads, closeDoorNum, binRecordImgPath>>, UploadTypeOK',
             \A c \in Kitchen : connected'[c] \in {0, connected[c]},
             \A k \in Slots : shots'[k] \in {NoShot, shots[k]},
             event'.stage # "none" =>
                 event'.for \in DOMAIN uploads /\ event'.camera = Door(event'.for),
             event'.stage = "none" => event'.for = 0,
             event'.for = 0 \/ CountsOnDoor(event'.for),
             FileInv', PicturesShowTheirRecord'
      PROVE  UploadInv'
  <2>1. \A m : Door(m)' = Door(m)
    BY <1>3 DEF Door
  <2>2. CameraInv'
    BY <1>1, <1>3, <2>1 DEF CameraInv, Door
  <2>3. \A m \in DOMAIN uploads : /\ CountsOnPath(m)' => CountsOnPath(m)
                                  /\ CountsOnDoor(m)' => CountsOnDoor(m)
    <3>1. ASSUME NEW m \in DOMAIN uploads PROVE Connected(m)' => Connected(m)
      BY <1>2, <1>3, <3>1 DEF Connected
    <3>2. ASSUME NEW m \in DOMAIN uploads, NEW k \in Slots, shots'[k].for = m
          PROVE  shots[k].for = m
      BY <1>2, <1>3, <3>2
    <3>3. QED
      BY <1>2, <1>3, <3>1, <3>2 DEF CountsOnPath, CountsOnDoor
  <2>4. FieldInv'
    BY <1>1, <1>3, <2>1, <2>3 DEF FieldInv
  <2>5. ShotInv'
    BY <1>1, <1>3 DEF ShotInv
  <2>6. QED
    BY <1>3, <2>2, <2>4, <2>5 DEF UploadInv
(* The event stays as it is. *)
<1>4. ASSUME UNCHANGED <<uploads, event>>
      PROVE  /\ event'.stage # "none" =>
                    event'.for \in DOMAIN uploads /\ event'.camera = Door(event'.for)
             /\ event'.stage = "none" => event'.for = 0
             /\ event'.for = 0 \/ CountsOnDoor(event'.for)
  BY <1>1, <1>4 DEF CameraInv, CountsOnDoor
<1>5. ASSUME UNCHANGED <<uploads, files>> PROVE FileInv'
  BY <1>1, <1>5 DEF FileInv
<1>6. ASSUME UNCHANGED <<uploads, pictures>> PROVE PicturesShowTheirRecord'
  BY <1>1, <1>6 DEF PicturesShowTheirRecord
<1>7. ASSUME NEW door \in Kitchen, SessionLight(door) PROVE UploadInv'
  <2>1. UNCHANGED <<threadVars, connected, cameraVars>> /\ light' \subseteq Kitchen
    BY <1>1, <1>7 DEF SessionLight, UploadTypeOK
  <2>2. UploadTypeOK'
    BY <1>1, <2>1 DEF UploadTypeOK, threadVars, cameraVars
  <2>3. QED
    BY <1>3, <1>4, <1>5, <1>6, <2>1, <2>2 DEF threadVars, cameraVars
<1>8. ASSUME NEW k \in Slots, VideoCamera(k) PROVE UploadInv'
  <2> DEFINE s == shots[k]
  <2>1. s # NoShot /\ UNCHANGED <<threadVars, light, connected, sending, pictures>>
    BY <1>8 DEF VideoCamera
  <2>2. /\ s.for \in DOMAIN uploads /\ s.camera \in Kitchen /\ s.camera = Door(s.for)
        /\ s.path \in {0} \cup DOMAIN uploads
    BY <1>1, <1>2, <2>1 DEF CameraInv
  <2>3. files' \in [Records -> {0} \cup DOMAIN uploads]
    BY <1>1, <1>8, <2>2 DEF VideoCamera, UploadTypeOK
  <2>4. /\ event' = [stage |-> "disconnect", camera |-> s.camera, for |-> s.for]
        /\ event'.stage = "disconnect" /\ event'.for = s.for /\ event'.camera = s.camera
    BY <1>8 DEF VideoCamera
  <2>5. /\ event' \in [stage : Stage, camera : Kitchen \cup {0}, for : {0} \cup DOMAIN uploads]
        /\ CountsOnDoor(s.for)
    BY <2>2, <2>4 DEF Stage, CountsOnDoor
  <2>6. shots' \in [Slots -> {NoShot} \cup Shot]
        /\ \A j \in Slots : shots'[j] \in {NoShot, shots[j]}
    BY <1>1, <1>8 DEF VideoCamera, UploadTypeOK, Shot
  <2>7. UploadTypeOK'
    BY <1>1, <2>1, <2>3, <2>5, <2>6 DEF UploadTypeOK, threadVars, Shot
  <2>8. FileInv'
    <3>1. files' = IF s.path = 0 THEN files ELSE [files EXCEPT ![s.path] = s.for]
      BY <1>8 DEF VideoCamera
    <3>2. s.path = s.for \/ ~ uploads[s.for].sound
      BY <1>1, <2>1 DEF ShotInv
    <3>3. uploads' = uploads /\ files \in [Records -> {0} \cup DOMAIN uploads]
      BY <1>1, <2>1 DEF threadVars, UploadTypeOK
    <3>4. QED
      BY <1>1, <3>1, <3>2, <3>3 DEF FileInv
  <2>9. QED
    BY <1>3, <1>6, <2>1, <2>2, <2>4, <2>5, <2>6, <2>7, <2>8 DEF threadVars
<1>9. ASSUME NEW k \in Slots, ShotFails(k) PROVE UploadInv'
  <2>1. UNCHANGED <<threadVars, light, connected, event, files, sending, pictures>>
    BY <1>9 DEF ShotFails
  <2>2. shots' \in [Slots -> {NoShot} \cup Shot]
        /\ \A j \in Slots : shots'[j] \in {NoShot, shots[j]}
    BY <1>1, <1>9 DEF ShotFails, UploadTypeOK, Shot
  <2>3. UploadTypeOK'
    BY <1>1, <2>1, <2>2 DEF UploadTypeOK, threadVars, Shot
  <2>4. QED
    BY <1>3, <1>4, <1>5, <1>6, <2>1, <2>2, <2>3 DEF threadVars
<1>10. CASE LiveDisconnect
  <2>1. /\ event.stage = "disconnect" /\ event' = [event EXCEPT !.stage = "light"]
        /\ connected' = [connected EXCEPT ![event.camera] = 0]
        /\ UNCHANGED <<threadVars, light, shots, files, sending, pictures>>
    BY <1>10 DEF LiveDisconnect
  <2>2. /\ event' \in [stage : Stage, camera : Kitchen \cup {0}, for : {0} \cup DOMAIN uploads]
        /\ event'.stage = "light" /\ event'.for = event.for /\ event'.camera = event.camera
    BY <1>1, <2>1 DEF UploadTypeOK, Stage
  <2>3. /\ connected' \in [Kitchen -> {0} \cup DOMAIN uploads]
        /\ \A c \in Kitchen : connected'[c] \in {0, connected[c]}
    BY <1>1, <2>1 DEF UploadTypeOK
  <2>4. UploadTypeOK'
    BY <1>1, <2>1, <2>2, <2>3 DEF UploadTypeOK, threadVars
  <2>5. event.for \in DOMAIN uploads /\ event.camera = Door(event.for) /\ CountsOnDoor(event.for)
    BY <1>1, <2>1 DEF CameraInv, CountsOnDoor
  <2>6. QED
    BY <1>3, <1>5, <1>6, <2>1, <2>2, <2>3, <2>4, <2>5 DEF threadVars
<1>11. CASE CloseLight
  <2>1. /\ event.stage = "light" /\ event' = [event EXCEPT !.stage = "image"]
        /\ light' = light \ {closeDoorNum}
        /\ UNCHANGED <<threadVars, connected, shots, files, sending, pictures>>
    BY <1>11 DEF CloseLight
  <2>2. /\ event' \in [stage : Stage, camera : Kitchen \cup {0}, for : {0} \cup DOMAIN uploads]
        /\ event'.stage = "image" /\ event'.for = event.for /\ event'.camera = event.camera
    BY <1>1, <2>1 DEF UploadTypeOK, Stage
  <2>3. UploadTypeOK'
    BY <1>1, <2>1, <2>2 DEF UploadTypeOK, threadVars
  <2>4. event.for \in DOMAIN uploads /\ event.camera = Door(event.for) /\ CountsOnDoor(event.for)
    BY <1>1, <2>1 DEF CameraInv, CountsOnDoor
  <2>5. QED
    BY <1>3, <1>5, <1>6, <2>1, <2>2, <2>3, <2>4 DEF threadVars
<1>12. CASE UploadImage
  <2>1. /\ event' = NoEvent /\ sending' = sending \cup ({binRecordImgPath} \ {0})
        /\ UNCHANGED <<threadVars, light, connected, shots, files, pictures>>
    BY <1>12 DEF UploadImage
  <2>2. NoEvent \in [stage : Stage, camera : Kitchen \cup {0}, for : {0} \cup DOMAIN uploads]
    BY DEF NoEvent, Stage
  <2>3. UploadTypeOK'
    BY <1>1, <2>1, <2>2 DEF UploadTypeOK, threadVars
  <2>4. QED
    BY <1>2, <1>3, <1>5, <1>6, <2>1, <2>3 DEF threadVars
<1>13. ASSUME NEW n \in Records, ImageAnswered(n) PROVE UploadInv'
  <2>1. UNCHANGED <<threadVars, light, connected, shots, event, files>> /\ n \in sending
        /\ sending' = sending \ {n}
    BY <1>13 DEF ImageAnswered
  <2>2. /\ n \in DOMAIN uploads
        /\ \/ pictures' = pictures
           \/ /\ files[n] \in DOMAIN uploads
              /\ pictures' = pictures \cup {[record |-> n, shows |-> files[n]]}
    BY <1>1, <1>13, <2>1 DEF ImageAnswered, UploadTypeOK
  <2>3. UploadTypeOK'
    <3>1. pictures' \subseteq [record : DOMAIN uploads, shows : DOMAIN uploads]
      BY <1>1, <2>2 DEF UploadTypeOK
    <3>2. QED
      BY <1>1, <2>1, <3>1 DEF UploadTypeOK, threadVars
  <2>4. PicturesShowTheirRecord'
    <3>1. files[n] \in DOMAIN uploads => files[n] = n \/ ~ uploads[files[n]].sound
      BY <1>1, <1>2 DEF FileInv
    <3>2. uploads' = uploads
      BY <2>1 DEF threadVars
    <3>3. QED
      BY <1>1, <2>2, <3>1, <3>2 DEF PicturesShowTheirRecord
  <2>5. QED
    BY <1>3, <1>4, <1>5, <2>1, <2>3, <2>4 DEF threadVars
<1>14. QED
  BY <1>7, <1>8, <1>9, <1>10, <1>11, <1>12, <1>13

LEMMA UploadNextInv == UploadInv /\ [UploadNext]_uploadVars => UploadInv'
<1> SUFFICES ASSUME UploadInv, [UploadNext]_uploadVars PROVE UploadInv'
  OBVIOUS
<1>1. CASE UNCHANGED uploadVars
  <2>1. UNCHANGED <<uploads, light, closeDoorNum, binRecordImgPath, connected, shots, event,
                    files, sending, pictures>>
    BY <1>1 DEF uploadVars
  <2>2. QED
    BY <2>1 DEF UploadInv, UploadTypeOK, CameraInv, FieldInv, ShotInv, FileInv,
                PicturesShowTheirRecord, CountsOnPath, CountsOnDoor, Connected, Door
<1>2. CASE UploadNext
  BY <1>2, ThreadKeeps, PostKeeps, VideoStatusKeeps, RestKeeps DEF UploadNext
<1>3. QED
  BY <1>1, <1>2

----------------------------------------------------------------------------
(* Every reachable state is well typed. *)
THEOREM UploadTypeCorrect == UploadSpec => []UploadTypeOK
<1>1. UploadInv => UploadTypeOK
  BY DEF UploadInv
<1>2. QED
  BY UploadInitInv, UploadNextInv, <1>1, PTL DEF UploadSpec

(* A picture is only ever filed under another record when the record it    *)
(* shows was disturbed itself, for any number of records and cameras, and  *)
(* whatever went wrong with the others.                                    *)
THEOREM PicturesAreRight == UploadSpec => []PicturesShowTheirRecord
<1>1. UploadInv => PicturesShowTheirRecord
  BY DEF UploadInv
<1>2. QED
  BY UploadInitInv, UploadNextInv, <1>1, PTL DEF UploadSpec

(* The light of another bin only goes out for a record that was disturbed. *)
THEOREM LightsAreRight == UploadSpec => LightsFollowTheirCamera
<1> DEFINE Right ==
        \A door \in Kitchen : door \in light /\ door \notin light' =>
              event.camera = door \/ ~ uploads[event.for].sound
<1>1. UploadInv /\ [UploadNext]_uploadVars => [Right]_uploadVars
  <2> SUFFICES ASSUME UploadInv, UploadNext, NEW door \in Kitchen,
                      door \in light, door \notin light', uploads[event.for].sound
               PROVE  event.camera = door
    OBVIOUS
  <2>1. CloseLight
    BY DEF UploadNext, SessionLight, PostRecord, UploadThread, NoCamera, OpenLight,
           SetCloseDoor, LiveConnect, NamePicture, VideoStatus, VideoCamera, ShotFails,
           LiveDisconnect, UploadImage, ImageAnswered
  <2>2. event.stage = "light" /\ door = closeDoorNum
    BY <2>1 DEF CloseLight
  <2>3. event.for \in DOMAIN uploads /\ event.camera = Door(event.for)
    BY <2>2 DEF UploadInv, CameraInv
  <2>4. CountsOnDoor(event.for)
    BY DEF CountsOnDoor
  <2>5. QED
    BY <2>2, <2>3, <2>4 DEF UploadInv, FieldInv
<1>2. QED
  BY UploadInitInv, UploadNextInv, <1>1, PTL DEF UploadSpec, LightsFollowTheirCamera

=============================================================================
