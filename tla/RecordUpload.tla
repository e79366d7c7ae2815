---------------------------- MODULE RecordUpload ----------------------------
(***************************************************************************)
(* Delivery records and camera pictures in ResidentService.  A record that *)
(* is posted to the event bus gets a thread of its own                     *)
(* (uploadDustBinRecord); for a bin of kitchen waste the thread switches   *)
(* the light on, connects the bin's camera and names a picture before the  *)
(* record is sent.  The camera answers through m_OnEvent, which finds the  *)
(* door of the light and the file of the picture in two fields of the      *)
(* service, closeDoorNum and binRecordImgPath, that all records share.     *)
(*                                                                         *)
(* A record is its place in uploads.  The name of a picture is the record  *)
(* it was made for; a file holds the record whose connection its picture   *)
(* was taken through.                                                      *)
(*                                                                         *)
(* A record counts on the two fields from the moment its thread has        *)
(* written them until its camera has answered.  The history flag sound of  *)
(* a record says that they were its own all that time: it goes when        *)
(* another record writes one meanwhile, or when the camera answers before  *)
(* the picture has its name, and it goes from no other record.             *)
(***************************************************************************)
EXTENDS Naturals, Sequences, FiniteSets

CONSTANTS
    Kitchen,        \* doors of the bins of kitchen waste, which have a camera
    OtherBin,       \* doors of the other bins
    MaxUploads,     \* bound: records
    MaxShots        \* bound: pictures being taken at a time

ASSUME UploadAssumption ==
    /\ 0 \notin Kitchen \cup OtherBin
    /\ Kitchen \cap OtherBin = {}
    /\ MaxUploads \in Nat /\ MaxShots \in Nat

VARIABLES
    uploads,            \* records posted so far, with the place of their thread
    light,              \* doors whose light was last switched on
    closeDoorNum,
    binRecordImgPath,   \* the record a picture is named for, 0 for ""
    connected,          \* camera -> record it is connected for, 0 for none
    shots,              \* pictures the cameras are taking
    event,              \* the camera event being handled
    files,              \* picture files
    sending,            \* files being uploaded
    pictures            \* pictures the server has got

threadVars == <<uploads, closeDoorNum, binRecordImgPath>>
cameraVars == <<shots, event, files, sending, pictures>>
uploadVars == <<uploads, light, closeDoorNum, binRecordImgPath, connected,
                shots, event, files, sending, pictures>>

Records == 1..MaxUploads
Slots   == 1..MaxShots
Bins    == Kitchen \cup OtherBin
Place   == {"start", "lit", "slot", "connected", "done"}
Stage   == {"none", "disconnect", "light", "image"}
NoEvent == [stage |-> "none", camera |-> 0, for |-> 0]
NoShot  == [camera |-> 0, for |-> 0, path |-> 0]

Door(n) == uploads[n].door

(* A record whose camera is connected will have its picture put under the  *)
(* name in binRecordImgPath; one that also may still be answered will have *)
(* the light of closeDoorNum switched off.                                 *)
Connected(n)    == \E c \in Kitchen : connected[c] = n
CountsOnPath(n) == uploads[n].place = "done" /\ Connected(n)
CountsOnDoor(n) == \/ uploads[n].place = "slot" \/ Connected(n)
                   \/ \E k \in Slots : shots[k].for = n
                   \/ event.for = n

(* The records after some have lost a field they count on. *)
Disturbed(records) ==
    [n \in DOMAIN uploads |-> [uploads[n] EXCEPT !.sound = @ /\ n \notin records]]

UploadInit ==
    /\ uploads = <<>>
    /\ light = {} /\ closeDoorNum = 0 /\ binRecordImgPath = 0
    /\ connected = [c \in Kitchen |-> 0]
    /\ shots = [k \in Slots |-> NoShot] /\ event = NoEvent
    /\ files = [n \in Records |-> 0]
    /\ sending = {} /\ pictures = {}

----------------------------------------------------------------------------
(* A session opens a kitchen bin and switches its light on. *)
SessionLight(door) ==
    /\ light' = light \cup {door}
    /\ UNCHANGED <<threadVars, connected, cameraVars>>

(* addRecord posts a record: a thread for it. *)
PostRecord(door) ==
    /\ Len(uploads) < MaxUploads
    /\ uploads' = Append(uploads, [door |-> door, place |-> "start", sound |-> TRUE])
    /\ UNCHANGED <<light, closeDoorNum, binRecordImgPath, connected, cameraVars>>

Goto(n, from, to, disturbed) ==
    /\ uploads[n].place = from
    /\ uploads' = [Disturbed(disturbed) EXCEPT ![n].place = to]

(* Another bin than one of kitchen waste: no light, no picture. *)
NoCamera(n) ==
    /\ Door(n) \notin Kitchen
    /\ Goto(n, "start", "done", {})
    /\ UNCHANGED <<light, closeDoorNum, binRecordImgPath, connected, cameraVars>>

OpenLight(n) ==
    /\ Door(n) \in Kitchen
    /\ Goto(n, "start", "lit", {})
    /\ light' = light \cup {Door(n)}
    /\ UNCHANGED <<closeDoorNum, binRecordImgPath, connected, cameraVars>>

OtherDoors(n)   == {m \in DOMAIN uploads : CountsOnDoor(m) /\ Door(m) # Door(n)}
OtherPictures(n) == {m \in DOMAIN uploads \ {n} : CountsOnPath(m)}

(* Variant of SetCloseDoor: the door is only stored if none is. *)
SetCloseDoorOnce(n) ==
    /\ Goto(n, "lit", "slot", OtherDoors(n))
    /\ closeDoorNum' = IF closeDoorNum = 0 THEN Door(n) ELSE closeDoorNum
    /\ UNCHANGED <<light, binRecordImgPath, connected, cameraVars>>

SetCloseDoor(n) ==
    /\ Goto(n, "lit", "slot", OtherDoors(n))
    /\ closeDoorNum' = Door(n)
    /\ UNCHANGED <<light, binRecordImgPath, connected, cameraVars>>

(* The camera of the door, whose connection is dropped first. *)
LiveConnect(n) ==
    /\ Goto(n, "slot", "connected", {})
    /\ connected' = [connected EXCEPT ![Door(n)] = n]
    /\ UNCHANGED <<light, closeDoorNum, binRecordImgPath, cameraVars>>

(* Variant of NamePicture: the name is only stored if none is. *)
NamePictureOnce(n) ==
    /\ Goto(n, "connected", "done", OtherPictures(n))
    /\ binRecordImgPath' = IF binRecordImgPath = 0 THEN n ELSE binRecordImgPath
    /\ UNCHANGED <<light, closeDoorNum, connected, cameraVars>>

NamePicture(n) ==
    /\ Goto(n, "connected", "done", OtherPictures(n))
    /\ binRecordImgPath' = n
    /\ UNCHANGED <<light, closeDoorNum, connected, cameraVars>>

----------------------------------------------------------------------------
(* m_OnEvent.  Events come on one thread. *)

(* Variant of VideoStatus: a picture is ordered without a look at frmplay. *)
VideoStatusAny(camera, k) ==
    /\ event = NoEvent /\ shots[k] = NoShot
    /\ shots' = [shots EXCEPT ![k] = [camera |-> camera, for |-> connected[camera],
                                      path |-> binRecordImgPath]]
    /\ UNCHANGED <<threadVars, light, connected, event, files, sending, pictures>>

(* "VideoStatus" with frmplay > 0, which a camera repeats: a picture is    *)
(* ordered into the file named last.                                       *)
VideoStatus(camera, k) ==
    /\ event = NoEvent /\ connected[camera] # 0 /\ shots[k] = NoShot
    /\ shots' = [shots EXCEPT ![k] = [camera |-> camera, for |-> connected[camera],
                                      path |-> binRecordImgPath]]
    /\ uploads' = Disturbed({connected[camera]} \cap
                            {n \in DOMAIN uploads : uploads[n].place # "done"})
    /\ UNCHANGED <<closeDoorNum, binRecordImgPath, light, connected, event, files, sending, pictures>>

(* The picture is in its file, and "VideoCamera" is reported. *)
VideoCamera(k) ==
    /\ event = NoEvent /\ shots[k] # NoShot
    /\ files' = IF shots[k].path = 0 THEN files
                ELSE [files EXCEPT ![shots[k].path] = shots[k].for]
    /\ shots' = [shots EXCEPT ![k] = NoShot]
    /\ event' = [stage |-> "disconnect", camera |-> shots[k].camera, for |-> shots[k].for]
    /\ UNCHANGED <<threadVars, light, connected, sending, pictures>>

(* No picture: the connection has been dropped, or the camera failed. *)
ShotFails(k) ==
    /\ shots[k] # NoShot
    /\ shots' = [shots EXCEPT ![k] = NoShot]
    /\ UNCHANGED <<threadVars, light, connected, event, files, sending, pictures>>

(* LiveDisconnect(sCapID), whichever record the camera is connected for. *)
LiveDisconnect ==
    /\ event.stage = "disconnect"
    /\ connected' = [connected EXCEPT ![event.camera] = 0]
    /\ event' = [event EXCEPT !.stage = "light"]
    /\ UNCHANGED <<threadVars, light, shots, files, sending, pictures>>

CloseLight ==
    /\ event.stage = "light"
    /\ light' = light \ {closeDoorNum}
    /\ event' = [event EXCEPT !.stage = "image"]
    /\ UNCHANGED <<threadVars, connected, shots, files, sending, pictures>>

(* uploadImageFile(binRecordImgPath): the file is read when it is sent. *)
UploadImage ==
    /\ event.stage = "image"
    /\ sending' = sending \cup ({binRecordImgPath} \ {0})
    /\ event' = NoEvent
    /\ UNCHANGED <<threadVars, light, connected, shots, files, pictures>>

(* A file that is missing, or whose upload fails, is only logged. *)
ImageAnswered(n) ==
    /\ n \in sending
    /\ sending' = sending \ {n}
    /\ \/ files[n] # 0 /\ pictures' = pictures \cup {[record |-> n, shows |-> files[n]]}
       \/ UNCHANGED pictures
    /\ UNCHANGED <<threadVars, light, connected, shots, event, files>>

UploadThread(n) ==
    \/ NoCamera(n) \/ OpenLight(n) \/ SetCloseDoor(n) \/ LiveConnect(n)
    \/ NamePicture(n)

UploadNext ==
    \/ \E door \in Kitchen : SessionLight(door)
    \/ \E door \in Bins : PostRecord(door)
    \/ \E n \in DOMAIN uploads : UploadThread(n)
    \/ \E camera \in Kitchen, k \in Slots : VideoStatus(camera, k)
    \/ \E k \in Slots : VideoCamera(k) \/ ShotFails(k)
    \/ LiveDisconnect \/ CloseLight \/ UploadImage
    \/ \E n \in Records : ImageAnswered(n)

UploadSpec == UploadInit /\ [][UploadNext]_uploadVars

----------------------------------------------------------------------------
(* What each variable holds. *)
UploadTypeOK ==
    /\ uploads \in Seq([door : Bins, place : Place, sound : BOOLEAN])
    /\ Len(uploads) <= MaxUploads
    /\ light \subseteq Kitchen
    /\ closeDoorNum \in Kitchen \cup {0}
    /\ binRecordImgPath \in {0} \cup DOMAIN uploads
    /\ connected \in [Kitchen -> {0} \cup DOMAIN uploads]
    /\ shots \in [Slots -> {NoShot} \cup [camera : Kitchen, for : DOMAIN uploads,
                                      path : {0} \cup DOMAIN uploads]]
    /\ event \in [stage : Stage, camera : Kitchen \cup {0}, for : {0} \cup DOMAIN uploads]
    /\ files \in [Records -> {0} \cup DOMAIN uploads]
    /\ sending \subseteq DOMAIN uploads
    /\ pictures \subseteq [record : DOMAIN uploads, shows : DOMAIN uploads]

(* A picture that is bound to a record was taken through the connection    *)
(* made for this record, unless the record it shows was itself disturbed:  *)
(* the picture was named for another while its camera was connected, or    *)
(* not yet named.  Records that went wrong, and cameras that never answer, *)
(* do not mislead the next one.                                            *)
PicturesShowTheirRecord ==
    \A p \in pictures : p.shows = p.record \/ ~ uploads[p.shows].sound

(* The light that goes out is the one of the bin whose camera has          *)
(* answered, unless the record it has answered was disturbed by another    *)
(* bin's record before the answer was handled.                             *)
LightsFollowTheirCamera ==
    [][\A door \in Kitchen : door \in light /\ door \notin light' =>
          event.camera = door \/ ~ uploads[event.for].sound]_uploadVars
=============================================================================
