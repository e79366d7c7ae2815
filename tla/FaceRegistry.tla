---------------------------- MODULE FaceRegistry ----------------------------
(***************************************************************************)
(* How users get faces and faces log users in (MainActivity, UserMessage   *)
(* in DataBaseUtil).  A face lives in two places: its feature in the face  *)
(* library, under a faceToken, and a row of UserMessage that gives the     *)
(* token a user.  Both columns are unique, and a row is stored with        *)
(* insertOrReplace: a row with the same token is deleted.                  *)
(*                                                                         *)
(* Faces come from the TCP connection (QrReturn, nearByFeatrueSend,        *)
(* addFaceImage, whose picture is downloaded by a thread of its own), and  *)
(* from a session that ends with a picture (onActivityResult, and later    *)
(* the answer of uploadFace).  All of them, and the recognition of faces,  *)
(* share two fields, nowFaceToken and the app's userId.                    *)
(*                                                                         *)
(* Tokens are numbers in the order of their creation; the face library is  *)
(* assumed to recognise faces rightly.  The delay of 2 s between two       *)
(* logins by face is left out: a recognition may log nobody in.            *)
(*                                                                         *)
(* Who reads a shared field later counts on it, and so does a job on the   *)
(* face it has put into the library.  The history flags (sound) say who    *)
(* still may: a field that is written, or a face that is deleted, while    *)
(* somebody counts on it takes the flag from that job, session or          *)
(* recognition, and from no other.                                         *)
(***************************************************************************)
EXTENDS Naturals, Sequences

CONSTANTS
    User,           \* users; 0 is nobody
    MaxTokens,      \* bound: faces put into the library
    MaxJobs         \* bound: messages and registrations handled

ASSUME FaceAssumption ==
    /\ 0 \notin User
    /\ MaxTokens \in Nat /\ MaxJobs \in Nat

VARIABLES
    owner,          \* whose face each token is, in the order of creation
    library,        \* tokens bound to the group
    table,          \* rows of UserMessage
    nowFaceToken,
    userId,         \* DustbinBrainApp.userId
    person,         \* who uses the station in the session on top, 0 if none is open
    recognised,     \* token whose result is posted to the main thread, 0 if none
    canRecognize,
    jobs,           \* messages, registrations and phone logins, with the place of each
    sessionSound, recognisedSound   \* history: nothing they count on was written since

faceVars == <<owner, library, table, nowFaceToken, userId, person, recognised,
              canRecognize, jobs, sessionSound, recognisedSound>>

Token == 1..MaxTokens
Kind  == {"QrReturn", "nearByFeatrueSend", "addFaceImage", "register", "uploadFace",
          "deleteAllFace", "PhoneLogin", "none"}
Place == {"find", "delete", "download", "insert", "bind", "store", "exception", "go",
          "clear", "done"}
Job   == [kind : Kind, user : User \cup {0}, place : Place, token : Nat, row : Nat,
          sound : BOOLEAN]
Row   == [id : Nat, user : User \cup {0}, token : Nat]

(* What the actions leave alone, in groups. *)
faces    == <<owner, library>>
sessions == <<person, sessionSound, canRecognize>>
posted   == <<recognised, recognisedSound>>

----------------------------------------------------------------------------
(* insertOrReplace and its callers *)

RowsOf(user) == {r \in table : r.user = user}

InsertOrReplace(row) ==
    {r \in table : r.id # row.id /\ r.user # row.user /\ r.token # row.token} \cup {row}

(* A row that is inserted gets an id of its own.  Ids only tell rows apart: *)
(* one that no row and no job has any more is as good as a new one, and    *)
(* there is one, as a job inserts and looks for one row at a time.         *)
Id == 1..(2 * MaxJobs + 1)
Unused(id) == (\A r \in table : r.id # id) /\ (\A j \in DOMAIN jobs : jobs[j].row # id)

InsertNew(user, token) ==
    \E id \in Id :
       /\ Unused(id) /\ \A k \in 1..(id - 1) : ~ Unused(k)
       /\ table' = InsertOrReplace([id |-> id, user |-> user, token |-> token])

(* A user who has a row gets the new token. *)
insertUserIdAndFaceToken(user, token) ==
    \/ RowsOf(user) = {} /\ InsertNew(user, token)
    \/ \E old \in RowsOf(user) : table' = InsertOrReplace([old EXCEPT !.token = token])

(* A user who has a row keeps the old token. *)
insertUserIdAndFaceTokenThread(user, token) ==
    \/ RowsOf(user) = {} /\ InsertNew(user, token)
    \/ RowsOf(user) # {} /\ UNCHANGED table

----------------------------------------------------------------------------
(* Who still counts on a shared field *)

Jobs == DOMAIN jobs

Live(b) == b.place # "done"

CountsOnToken(b) ==
    \/ b.kind = "uploadFace" /\ Live(b)
    \/ b.kind = "register" /\ b.place \in {"bind", "find", "delete", "store"}
    \/ b.kind = "addFaceImage" /\ b.place \in {"bind", "store"}

CountsOnUser(b) == b.kind \in {"QrReturn", "register", "uploadFace", "PhoneLogin"} /\ Live(b)

(* The jobs after somebody has written nowFaceToken, or userId. *)
TokenOverwritten ==
    [j \in Jobs |-> [jobs[j] EXCEPT !.sound = @ /\ ~ CountsOnToken(jobs[j])]]
UserOverwritten ==
    [j \in Jobs |-> [jobs[j] EXCEPT !.sound = @ /\ ~ CountsOnUser(jobs[j])]]

(* The jobs after somebody has deleted a face from the library: a job      *)
(* counts on the face it has put there itself.                             *)
FaceDeleted(token) ==
    [j \in Jobs |-> [jobs[j] EXCEPT !.sound =
                        @ /\ ~ (token # 0 /\ jobs[j].token = token /\ jobs[j].place # "go")]]

(* Whether the open session, if any, is sound after userId is written. *)
SessionSpared == sessionSound /\ person = 0

(* The TCP connection, and the main thread, handle one thing at a time. *)
TcpBusy == \E j \in Jobs :
    \/ jobs[j].kind \in {"QrReturn", "nearByFeatrueSend", "deleteAllFace"} /\ Live(jobs[j])
    \/ jobs[j].kind = "addFaceImage" /\ jobs[j].place \in {"find", "delete"}
PhoneOnTop == \E j \in Jobs : jobs[j].kind = "PhoneLogin"
MainBusy == \E j \in Jobs : jobs[j].kind = "register" /\ Live(jobs[j])

Begin(kind, user, place) ==
    [kind |-> kind, user |-> user, place |-> place, token |-> 0, row |-> 0, sound |-> TRUE]

(* What is left of a job that is done. *)
Ended == Begin("none", 0, "done")

NewJob(known, b) == Len(jobs) < MaxJobs /\ jobs' = Append(known, b)

FaceInit ==
    /\ owner = <<>> /\ library = {} /\ table = {}
    /\ nowFaceToken = 0 /\ userId = 0
    /\ person = 0 /\ recognised = 0 /\ canRecognize = TRUE
    /\ jobs = <<>>
    /\ sessionSound = TRUE /\ recognisedSound = TRUE

----------------------------------------------------------------------------
(* Sessions *)

(* goControlActivity: MainActivity starts the session and is paused by it, *)
(* unless it is already.  A message may set canRecognize while another     *)
(* screen is on top: then a second session covers the first.               *)
OpenSession(user, can, sound) ==
    /\ can
    /\ person' = user /\ sessionSound' = sound
    /\ canRecognize' = (person # 0 \/ \E j \in Jobs : jobs'[j].kind = "PhoneLogin")

(* Not in the work time, or canRecognize is FALSE. *)
NoSession(can, sound) ==
    /\ canRecognize' = can
    /\ UNCHANGED person /\ sessionSound' = sound

(* userId is written, and a session opened or not. *)
LogIn(user, can) ==
    /\ userId' = user
    /\ jobs' = UserOverwritten
    /\ OpenSession(user, can, TRUE) \/ NoSession(can, SessionSpared)
    /\ UNCHANGED <<faces, table, nowFaceToken, posted>>

nfcActivity(user) == ~ TcpBusy /\ LogIn(user, canRecognize)

(* GQrReturn and out_time set canRecognize first, whatever is on top. *)
GQrReturn(user) == ~ TcpBusy /\ LogIn(user, TRUE)

(* So does the answer to a scanned code, on the main thread; a session may *)
(* have been started that does not cover MainActivity yet.                 *)
ScanLogin(user) == ~ MainBusy /\ LogIn(user, TRUE)

(* PhoneLoginActivity, opened from MainActivity and so pausing it, logs in *)
(* and finishes: its result is on the way back.                            *)
PhoneLogin(user) ==
    /\ person = 0 /\ ~ PhoneOnTop
    /\ NewJob(UserOverwritten, Begin("PhoneLogin", user, "go"))
    /\ userId' = user
    /\ canRecognize' = FALSE
    /\ UNCHANGED <<faces, table, nowFaceToken, person, sessionSound, posted>>

(* The result of a session without a picture logs the user out.  Results   *)
(* of sessions on top of each other come when MainActivity is back.        *)
EndSession ==
    /\ person # 0 /\ ~ MainBusy
    /\ person' = 0 /\ sessionSound' = TRUE /\ canRecognize' = TRUE
    /\ userId' = 0
    /\ jobs' = UserOverwritten
    /\ UNCHANGED <<faces, table, nowFaceToken, posted>>

(* With a picture the user's face is registered. *)
RegisterFace ==
    /\ person # 0 /\ ~ MainBusy
    /\ NewJob(jobs, [Begin("register", person, "insert") EXCEPT !.sound = sessionSound])
    /\ person' = 0 /\ sessionSound' = TRUE /\ canRecognize' = TRUE
    /\ UNCHANGED <<faces, table, nowFaceToken, userId, posted>>

----------------------------------------------------------------------------
(* Messages from the server *)

(* QrReturn: with a face it is put into the library, without one only the  *)
(* user is set.                                                            *)
QrReturn(user) ==
    /\ ~ TcpBusy
    /\ \E b \in {Begin("QrReturn", user, "find"), Ended} :
          NewJob(UserOverwritten, b)
    /\ userId' = user
    /\ sessionSound' = SessionSpared
    /\ UNCHANGED <<faces, table, nowFaceToken, person, canRecognize, posted>>

nearByFeatrueSend(user) ==
    /\ ~ TcpBusy
    /\ NewJob(jobs, Begin("nearByFeatrueSend", user, "insert"))
    /\ UNCHANGED <<faces, table, nowFaceToken, userId, sessions, posted>>

addFaceImage(user) ==
    /\ ~ TcpBusy
    /\ NewJob(UserOverwritten, Begin("addFaceImage", user, "find"))
    /\ userId' = user
    /\ sessionSound' = SessionSpared
    /\ UNCHANGED <<faces, table, nowFaceToken, person, canRecognize, posted>>

(* The rows are deleted first, then the faces, then the app restarts. *)
deleteAllFace ==
    /\ ~ TcpBusy
    /\ NewJob(jobs, Begin("deleteAllFace", 0, "clear"))
    /\ table' = {}
    /\ UNCHANGED <<faces, nowFaceToken, userId, sessions, posted>>

----------------------------------------------------------------------------
(* The steps of a job *)

Goto(j, place) ==
    jobs' = [jobs EXCEPT ![j] = IF place = "done" THEN Ended ELSE [@ EXCEPT !.place = place]]

(* The user whose row a job looks for: the app's userId for a registration. *)
Subject(j) == IF jobs[j].kind = "register" THEN userId ELSE jobs[j].user

AfterDelete(j) == CASE jobs[j].kind = "QrReturn"     -> "insert"
                    [] jobs[j].kind = "addFaceImage" -> "download"
                    [] OTHER                         -> "store"

(* Variant of DeleteFace: the query has lost its condition. *)
DeleteFaceAny(j) ==
    /\ jobs[j].place = "find"
    /\ \/ table = {} /\ Goto(j, AfterDelete(j)) /\ UNCHANGED library
       \/ \E r \in table :
             /\ library' = library \ {r.token}
             /\ jobs' = [FaceDeleted(r.token) EXCEPT ![j].place = "delete", ![j].row = r.id]
    /\ UNCHANGED <<owner, table, nowFaceToken, userId, sessions, posted>>

(* The face of a user who has a row is deleted from the library. *)
DeleteFace(j) ==
    /\ jobs[j].place = "find"
    /\ \/ RowsOf(Subject(j)) = {} /\ Goto(j, AfterDelete(j)) /\ UNCHANGED library
       \/ \E r \in RowsOf(Subject(j)) :
             /\ library' = library \ {r.token}
             /\ jobs' = [FaceDeleted(r.token) EXCEPT ![j].place = "delete", ![j].row = r.id]
    /\ UNCHANGED <<owner, table, nowFaceToken, userId, sessions, posted>>

(* Variant of DeleteRow: the row stays. *)
DeleteRowNot(j) ==
    /\ jobs[j].place = "delete"
    /\ jobs' = [jobs EXCEPT ![j].place = AfterDelete(j), ![j].row = 0]
    /\ UNCHANGED <<faces, table, nowFaceToken, userId, sessions, posted>>

(* Then the row that was found. *)
DeleteRow(j) ==
    /\ jobs[j].place = "delete"
    /\ table' = {r \in table : r.id # jobs[j].row}
    /\ jobs' = [jobs EXCEPT ![j].place = AfterDelete(j), ![j].row = 0]
    /\ UNCHANGED <<faces, nowFaceToken, userId, sessions, posted>>

(* addFaceImage: the picture comes, or does not. *)
Download(j) ==
    /\ jobs[j].place = "download"
    /\ \E place \in {"insert", "done"} : Goto(j, place)
    /\ UNCHANGED <<faces, table, nowFaceToken, userId, sessions, posted>>

(* insertFeature gives the face a token, which registrations also put into *)
(* nowFaceToken.                                                           *)
InsertFeature(j) ==
    LET token == Len(owner) + 1
        Bind(known) == [known EXCEPT ![j].place = "bind", ![j].token = token]
    IN /\ jobs[j].place = "insert" /\ token <= MaxTokens
       /\ owner' = Append(owner, jobs[j].user)
       /\ IF jobs[j].kind \in {"addFaceImage", "register"}
          THEN /\ nowFaceToken' = token
               /\ jobs' = Bind(TokenOverwritten)
               /\ recognisedSound' = (recognisedSound /\ recognised = 0)
          ELSE jobs' = Bind(jobs) /\ UNCHANGED <<nowFaceToken, recognisedSound>>
       /\ UNCHANGED <<library, table, userId, sessions, recognised>>

(* No face in the picture, or an exception: a registration goes on in its  *)
(* catch block.                                                            *)
NoFeature(j) ==
    /\ jobs[j].place = "insert"
    /\ \/ Goto(j, "done")
       \/ jobs[j].kind = "register" /\ Goto(j, "exception")
    /\ UNCHANGED <<faces, table, nowFaceToken, userId, sessions, posted>>

AfterBind(j) == IF jobs[j].kind = "register" THEN "find" ELSE "store"

(* Variant of BindGroup: the token after is bound. *)
BindGroupNext(j) ==
    /\ jobs[j].place = "bind"
    /\ \/ library' = library \cup {jobs[j].token + 1} /\ Goto(j, AfterBind(j))
       \/ UNCHANGED library /\ Goto(j, "done")
       \/ UNCHANGED library /\ jobs[j].kind = "register" /\ Goto(j, "exception")
    /\ UNCHANGED <<owner, table, nowFaceToken, userId, sessions, posted>>

(* bindGroup; a face that is not bound is deleted again. *)
BindGroup(j) ==
    /\ jobs[j].place = "bind"
    /\ \/ library' = library \cup {jobs[j].token} /\ Goto(j, AfterBind(j))
       \/ UNCHANGED library /\ Goto(j, "done")
       \/ UNCHANGED library /\ jobs[j].kind = "register" /\ Goto(j, "exception")
    /\ UNCHANGED <<owner, table, nowFaceToken, userId, sessions, posted>>

(* Variant of StoreTcp: nowFaceToken is stored. *)
StoreTcpNow(j) ==
    /\ jobs[j].place = "store"
    /\ \/ /\ jobs[j].kind = "QrReturn"
          /\ insertUserIdAndFaceToken(userId, nowFaceToken)
          /\ Goto(j, "go")
       \/ /\ jobs[j].kind = "nearByFeatrueSend"
          /\ insertUserIdAndFaceToken(jobs[j].user, nowFaceToken)
          /\ Goto(j, "done")
    /\ UNCHANGED <<faces, nowFaceToken, userId, sessions, posted>>

(* QrReturn stores its token for the app's userId, nearByFeatrueSend for   *)
(* the user of the message.                                                *)
StoreTcp(j) ==
    /\ jobs[j].place = "store"
    /\ \/ /\ jobs[j].kind = "QrReturn"
          /\ insertUserIdAndFaceToken(userId, jobs[j].token)
          /\ Goto(j, "go")
       \/ /\ jobs[j].kind = "nearByFeatrueSend"
          /\ insertUserIdAndFaceToken(jobs[j].user, jobs[j].token)
          /\ Goto(j, "done")
    /\ UNCHANGED <<faces, nowFaceToken, userId, sessions, posted>>

(* The downloaded picture is stored under nowFaceToken. *)
StoreDownloaded(j) ==
    /\ jobs[j].place = "store" /\ jobs[j].kind = "addFaceImage"
    /\ insertUserIdAndFaceTokenThread(jobs[j].user, nowFaceToken)
    /\ Goto(j, "done")
    /\ UNCHANGED <<faces, nowFaceToken, userId, sessions, posted>>

(* A registration stores nowFaceToken for the app's userId, and uploads    *)
(* the picture.                                                            *)
StoreRegistered(j) ==
    /\ jobs[j].place = "store" /\ jobs[j].kind = "register"
    /\ insertUserIdAndFaceTokenThread(userId, nowFaceToken)
    /\ jobs' = [jobs EXCEPT ![j].kind = "uploadFace"]
    /\ UNCHANGED <<faces, nowFaceToken, userId, sessions, posted>>

(* The catch block stores a token that may not be the user's: no feature   *)
(* of this picture may have come that far.                                 *)
StoreInCatch(j) ==
    /\ jobs[j].place = "exception"
    /\ insertUserIdAndFaceTokenThread(userId, nowFaceToken)
    /\ Goto(j, "done")
    /\ UNCHANGED <<faces, nowFaceToken, userId, sessions, posted>>

(* uploadFace: the answer of the server stores the two fields again, as    *)
(* they are by then; an upload may also fail.                              *)
FaceUploaded(j) ==
    /\ jobs[j].kind = "uploadFace" /\ Live(jobs[j])
    /\ insertUserIdAndFaceToken(userId, nowFaceToken) \/ UNCHANGED table
    /\ Goto(j, "done")
    /\ UNCHANGED <<faces, nowFaceToken, userId, sessions, posted>>

(* The last step of QrReturn, and the result of a phone login, with which  *)
(* MainActivity is back.                                                   *)
GoControlActivity(j) ==
    LET can == canRecognize \/ jobs[j].kind = "PhoneLogin"
    IN /\ jobs[j].place = "go" /\ (jobs[j].kind = "PhoneLogin" => ~ MainBusy)
       /\ Goto(j, "done")
       /\ OpenSession(jobs[j].user, can, jobs[j].sound) \/ NoSession(can, sessionSound)
       /\ UNCHANGED <<faces, table, nowFaceToken, userId, posted>>

(* A restart, by deleteAllFace, by a message or after a crash: what is not *)
(* in the library or the database is lost.                                 *)
Lose ==
    /\ nowFaceToken' = 0 /\ userId' = 0 /\ person' = 0 /\ recognised' = 0
    /\ canRecognize' = TRUE
    /\ sessionSound' = TRUE /\ recognisedSound' = TRUE
    /\ jobs' = [j \in Jobs |-> Ended]

ClearFaces(j) ==
    /\ jobs[j].place = "clear"
    /\ library' = {}
    /\ Lose
    /\ UNCHANGED <<owner, table>>

Restart == Lose /\ UNCHANGED <<faces, table>>

----------------------------------------------------------------------------
(* Recognition *)

(* RecognizeThread: every result goes into nowFaceToken, one with a good   *)
(* score to the main thread as well.  A face that is not found has an      *)
(* empty token and no score.                                               *)
Recognise ==
    /\ \/ \E t \in library : /\ nowFaceToken' = t
                             /\ recognised = 0 /\ recognised' = t
                             /\ recognisedSound' = TRUE
       \/ /\ nowFaceToken' \in library \cup {0}
          /\ recognisedSound' = (recognisedSound /\ recognised = 0)
          /\ UNCHANGED recognised
    /\ jobs' = TokenOverwritten
    /\ UNCHANGED <<faces, table, userId, sessions>>

(* A row gives a token to the user whose face it is. *)
Right(r) == r.token # 0 /\ r.user = owner[r.token]

(* Variant of queryFaceToken: the query has lost its condition. *)
queryFaceTokenAny ==
    /\ recognised # 0 /\ ~ MainBusy
    /\ recognised' = 0 /\ recognisedSound' = TRUE
    /\ \/ UNCHANGED <<userId, sessions, jobs>>
       \/ \E r \in table :
             /\ userId' = r.user
             /\ jobs' = UserOverwritten
             /\ \/ OpenSession(owner[recognised], canRecognize, recognisedSound /\ Right(r))
                \/ NoSession(canRecognize, SessionSpared)
    /\ UNCHANGED <<faces, table, nowFaceToken>>

(* queryFaceToken on the main thread, with nowFaceToken as it is now. *)
queryFaceToken ==
    /\ recognised # 0 /\ ~ MainBusy
    /\ recognised' = 0 /\ recognisedSound' = TRUE
    /\ \/ UNCHANGED <<userId, sessions, jobs>>
       \/ \E r \in table :
             /\ r.token = nowFaceToken
             /\ userId' = r.user
             /\ jobs' = UserOverwritten
             /\ \/ OpenSession(owner[recognised], canRecognize, recognisedSound /\ Right(r))
                \/ NoSession(canRecognize, SessionSpared)
    /\ UNCHANGED <<faces, table, nowFaceToken>>

JobStep(j) ==
    \/ DeleteFace(j) \/ DeleteRow(j) \/ Download(j) \/ InsertFeature(j) \/ NoFeature(j)
    \/ BindGroup(j) \/ StoreTcp(j) \/ StoreDownloaded(j) \/ StoreRegistered(j)
    \/ StoreInCatch(j) \/ FaceUploaded(j) \/ GoControlActivity(j) \/ ClearFaces(j)

FaceNext ==
    \/ \E user \in User : \/ QrReturn(user) \/ nearByFeatrueSend(user) \/ addFaceImage(user)
                          \/ nfcActivity(user) \/ GQrReturn(user) \/ ScanLogin(user)
                          \/ PhoneLogin(user)
    \/ deleteAllFace \/ EndSession \/ RegisterFace
    \/ \E j \in Jobs : JobStep(j)
    \/ Recognise \/ queryFaceToken
    \/ Restart

FaceSpec == FaceInit /\ [][FaceNext]_faceVars

----------------------------------------------------------------------------
(* What each variable holds. *)
FaceTypeOK ==
    /\ owner \in Seq(User) /\ Len(owner) <= MaxTokens
    /\ library \subseteq DOMAIN owner
    /\ table \subseteq Row
    /\ \A r \in table : r.token \in DOMAIN owner \cup {0}
    /\ nowFaceToken \in DOMAIN owner \cup {0} /\ recognised \in DOMAIN owner \cup {0}
    /\ userId \in User \cup {0} /\ person \in User \cup {0}
    /\ canRecognize \in BOOLEAN
    /\ jobs \in Seq(Job) /\ Len(jobs) <= MaxJobs
    /\ sessionSound \in BOOLEAN /\ recognisedSound \in BOOLEAN

(* A job takes a step although it has lost what it counts on, or from its  *)
(* catch block.                                                            *)
Misled(j) == jobs'[j] # jobs[j] /\ (~ jobs[j].sound \/ jobs[j].place = "exception")

(* A row that is written gives a token to the user whose face it is,       *)
(* unless the very job that writes it has lost what it counts on, or       *)
(* failed: however the others went, the next face is registered rightly.   *)
RowsNameTheOwner ==
    [][\A r \in table' \ table : Right(r)' \/ \E j \in Jobs : Misled(j)]_faceVars

(* The user that is logged in is the one who is at the station, however    *)
(* the session was opened, unless userId has been written since, or the    *)
(* login itself went by an overwritten field or a wrong row.               *)
FaceLogsInItsOwner == person # 0 /\ sessionSound => userId = person

(* No user loses a right row to the face of another: it goes, or gets      *)
(* another token, by a job for its user, by deleteAllFace or by a job that *)
(* is misled itself.                                                       *)
RowsGoForTheirUser ==
    [][\A r \in table \ table' : Right(r) =>
          \/ Len(jobs') > Len(jobs) /\ jobs'[Len(jobs')].kind = "deleteAllFace"
          \/ \E j \in Jobs : Misled(j) \/ (jobs'[j] # jobs[j] /\ jobs[j].user = r.user)]_faceVars

(* A row whose face is not in the library, and that no job is about to     *)
(* delete.                                                                 *)
Faceless(r) ==
    /\ r.token \notin library
    /\ \A j \in Jobs : jobs[j].place = "delete" => jobs[j].row # r.id

(* A row loses its face, or is written without one, only by a job that is  *)
(* misled, by a restart between the deletion of a face and of its row, or  *)
(* by deleteAllFace, whose rows go before its faces.                       *)
RowsKeepTheirFace ==
    [][\A r \in table' : Faceless(r)' /\ ~ (r \in table /\ Faceless(r)) =>
          \E j \in Jobs :
             \/ Misled(j)
             \/ jobs[j].place \in {"delete", "clear"} /\ jobs'[j].place = "done"]_faceVars
=============================================================================
