------------------------- MODULE FaceRegistryProofs -------------------------
(***************************************************************************)
(* Theorems about module FaceRegistry, for every set of users and any      *)
(* number of faces, messages, registrations and logins.                    *)
(*                                                                         *)
(* The argument: a job that is sound finds its own token in nowFaceToken,  *)
(* its own user in userId and its own face in the library, whenever it     *)
(* counts on them; so what it stores is right, and the row it is about to  *)
(* delete is of its user.  Ids and tokens tell the rows of the table       *)
(* apart, whatever the jobs that were misled have stored.                  *)
(***************************************************************************)
EXTENDS FaceRegistry, TLAPS

----------------------------------------------------------------------------
(* The inductive invariant *)

HasToken(b) ==
    \/ b.place \in {"bind", "store"}
    \/ b.kind = "register" /\ b.place \in {"find", "delete"}

(* The face of the job is in the library. *)
Bound(b) ==
    \/ b.place = "store"
    \/ b.kind = "register" /\ b.place \in {"find", "delete"}

(* The places of each kind of job, and whose its token is. *)
Fit(own, b) ==
    /\ b.kind = "QrReturn" => b.place \in {"find", "delete", "insert", "bind", "store", "go"}
    /\ b.kind = "nearByFeatrueSend" => b.place \in {"insert", "bind", "store"}
    /\ b.kind = "addFaceImage" =>
          b.place \in {"find", "delete", "download", "insert", "bind", "store"}
    /\ b.kind = "register" =>
          b.place \in {"insert", "exception", "bind", "find", "delete", "store"}
    /\ b.kind = "uploadFace" => b.place = "store"
    /\ b.kind = "deleteAllFace" => b.place = "clear"
    /\ b.kind = "PhoneLogin" => b.place = "go"
    /\ b.kind = "none" => b.place = "done"
    /\ b.kind \notin {"deleteAllFace", "none"} => b.user \in User
    /\ b.token \in DOMAIN own \cup {0}
    /\ HasToken(b) => b.token # 0 /\ b.user = own[b.token]

(* What a sound job counts on is there. *)
Knows(now, user, lib, b) ==
    b.sound => /\ CountsOnToken(b) => now = b.token
               /\ CountsOnUser(b) => user = b.user
               /\ Bound(b) => b.token \in lib

JobsKnow == \A j \in Jobs : /\ Fit(owner, jobs[j])
                            /\ Knows(nowFaceToken, userId, library, jobs[j])

LoginsHold ==
    /\ person # 0 /\ sessionSound => userId = person
    /\ recognised # 0 /\ recognisedSound => nowFaceToken = recognised

Apart(T) == \A r, s \in T : /\ r.id = s.id => r.user = s.user
                            /\ r.token = s.token => r.id = s.id

(* A row that a sound job is about to delete is of its user. *)
HeldRows == \A j \in Jobs : jobs[j].place = "delete" /\ jobs[j].sound =>
               \A r \in table : r.id = jobs[j].row => r.user = jobs[j].user

FaceInv == FaceTypeOK /\ JobsKnow /\ LoginsHold /\ Apart(table) /\ HeldRows

----------------------------------------------------------------------------
(* The two ways to store a row *)

(* A row that is new after insertOrReplace is the one of the user and the  *)
(* token, with an id nobody has or that was the user's; a row that has     *)
(* gone is of the same user or token.                                      *)
Stored(T, user, token) ==
    /\ T \subseteq Row
    /\ Apart(T)
    /\ \A r \in T : \/ r \in table
                    \/ /\ r.user = user /\ r.token = token
                       /\ Unused(r.id) \/ \E o \in RowsOf(user) : r.id = o.id
    /\ \A r \in table \ T : r.user = user \/ r.token = token

LEMMA StoredRow ==
    ASSUME table \subseteq Row, Apart(table), NEW row \in Row,
           Unused(row.id) \/ \E o \in RowsOf(row.user) : row.id = o.id
    PROVE  Stored(InsertOrReplace(row), row.user, row.token)
<1> DEFINE T == InsertOrReplace(row)
<1>1. T \subseteq Row /\ \A r \in T : r \in table \/ r = row
  BY DEF InsertOrReplace
<1>2. \A r \in T : r # row => r \in table /\ r.id # row.id /\ r.token # row.token
  BY DEF InsertOrReplace
<1>3. \A r \in table \ T : r.id = row.id \/ r.user = row.user \/ r.token = row.token
  BY DEF InsertOrReplace
<1>4. \A r \in table : r.id = row.id => r.user = row.user
  BY DEF Unused, RowsOf, Apart
<1>5. Apart(T)
  <2> SUFFICES ASSUME NEW r \in T, NEW s \in T
               PROVE  /\ r.id = s.id => r.user = s.user
                      /\ r.token = s.token => r.id = s.id
    BY Zenon DEF Apart
  <2> HIDE DEF T
  <2>1. CASE r = row \/ s = row
    BY <1>2, <2>1
  <2>2. CASE r # row /\ s # row
    BY <1>2, <2>2 DEF Apart
  <2>3. QED
    BY <2>1, <2>2
<1> HIDE DEF T
<1>6. QED
  BY <1>1, <1>3, <1>4, <1>5 DEF Stored, T

LEMMA NewStored ==
    ASSUME table \subseteq Row, Apart(table), MaxJobs \in Nat,
           NEW user \in User \cup {0}, NEW token \in Nat, InsertNew(user, token)
    PROVE  Stored(table', user, token)
<1>1. PICK id \in Id : /\ Unused(id)
                       /\ table' = InsertOrReplace([id |-> id, user |-> user, token |-> token])
  BY DEF InsertNew
<1> DEFINE row == [id |-> id, user |-> user, token |-> token]
<1>2. row \in Row /\ row.id = id /\ row.user = user /\ row.token = token
  BY DEF Row, Id
<1> HIDE DEF row
<1>3. Stored(InsertOrReplace(row), row.user, row.token)
  BY <1>1, <1>2, StoredRow
<1>4. table' = InsertOrReplace(row)
  BY <1>1 DEF row
<1>5. QED
  BY <1>2, <1>3, <1>4

LEMMA InsertStores ==
    ASSUME table \subseteq Row, Apart(table), MaxJobs \in Nat,
           NEW user \in User \cup {0}, NEW token \in Nat,
           insertUserIdAndFaceToken(user, token)
    PROVE  Stored(table', user, token)
<1>1. CASE InsertNew(user, token)
  BY <1>1, NewStored
<1>2. ASSUME NEW old \in RowsOf(user), table' = InsertOrReplace([old EXCEPT !.token = token])
      PROVE  Stored(table', user, token)
  <2> DEFINE row == [old EXCEPT !.token = token]
  <2>1. old \in Row /\ old.user = user
    BY DEF RowsOf
  <2>2. row \in Row /\ row.id = old.id /\ row.user = user /\ row.token = token
    BY <2>1 DEF Row
  <2> HIDE DEF row
  <2>3. Stored(InsertOrReplace(row), row.user, row.token)
    BY <2>2, StoredRow
  <2>4. table' = InsertOrReplace(row)
    BY <1>2 DEF row
  <2>5. QED
    BY <2>2, <2>3, <2>4
<1>3. QED
  BY <1>1, <1>2 DEF insertUserIdAndFaceToken

LEMMA InsertThreadStores ==
    ASSUME table \subseteq Row, Apart(table), MaxJobs \in Nat,
           NEW user \in User \cup {0}, NEW token \in Nat,
           insertUserIdAndFaceTokenThread(user, token)
    PROVE  Stored(table', user, token)
<1>1. CASE InsertNew(user, token)
  BY <1>1, NewStored
<1>2. CASE table' = table
  BY <1>2, Zenon DEF Stored
<1>3. QED
  BY <1>1, <1>2 DEF insertUserIdAndFaceTokenThread

----------------------------------------------------------------------------
(* What a step does to the jobs that do not take it *)

SameJob(a, b) == /\ a.kind = b.kind /\ a.user = b.user /\ a.place = b.place
                 /\ a.token = b.token /\ a.row = b.row

(* The jobs of known are those of jobs, some with less soundness.          *)
Marks(known) ==
    /\ known \in Seq(Job) /\ Len(known) = Len(jobs) /\ DOMAIN known = Jobs
    /\ \A i \in Jobs : SameJob(known[i], jobs[i]) /\ (known[i].sound => jobs[i].sound)

LEMMA JobsAreJobs ==
    ASSUME FaceTypeOK
    PROVE  /\ jobs \in Seq(Job) /\ Len(jobs) \in Nat /\ Jobs = 1..Len(jobs)
           /\ \A i \in Jobs : jobs[i] \in Job
<1> HIDE DEF Job
<1>1. QED
  BY DEF FaceTypeOK, Jobs

LEMMA JobsMark == FaceTypeOK => Marks(jobs)
<1> HIDE DEF Job
<1>1. QED
  BY JobsAreJobs DEF Marks, SameJob, Jobs

LEMMA TokenMarks ==
    ASSUME FaceTypeOK
    PROVE  /\ Marks(TokenOverwritten)
           /\ \A i \in Jobs : TokenOverwritten[i].sound =>
                 jobs[i].sound /\ ~ CountsOnToken(jobs[i])
<1>1. \A i \in Jobs : jobs[i] \in Job
  BY JobsAreJobs
<1> DEFINE b(i) == [jobs[i] EXCEPT !.sound = @ /\ ~ CountsOnToken(jobs[i])]
<1>2. ASSUME NEW i \in Jobs
      PROVE  /\ b(i) \in Job /\ SameJob(b(i), jobs[i])
             /\ b(i).sound => jobs[i].sound /\ ~ CountsOnToken(jobs[i])
  <2>1. jobs[i] \in Job
    BY <1>1
  <2>2. (jobs[i].sound /\ ~ CountsOnToken(jobs[i])) \in BOOLEAN
    OBVIOUS
  <2>3. b(i).sound = (jobs[i].sound /\ ~ CountsOnToken(jobs[i]))
    BY <2>1 DEF Job
  <2>4. b(i) \in Job /\ SameJob(b(i), jobs[i])
    BY <2>1, <2>2 DEF Job, SameJob
  <2>5. QED
    BY <2>3, <2>4
<1> DEFINE known == TokenOverwritten
<1>3. known = [i \in Jobs |-> b(i)]
  BY DEF TokenOverwritten
<1>4. Len(jobs) \in Nat /\ Jobs = 1..Len(jobs)
  BY JobsAreJobs
<1> HIDE DEF b, Job, known
<1>5. /\ known \in Seq(Job) /\ Len(known) = Len(jobs) /\ DOMAIN known = Jobs
      /\ \A i \in Jobs : known[i] = b(i)
  BY <1>2, <1>3, <1>4
<1>6. Marks(known) /\ \A i \in Jobs : known[i].sound = b(i).sound
  BY <1>2, <1>5 DEF Marks
<1>7. QED
  BY <1>2, <1>6 DEF known

LEMMA UserMarks ==
    ASSUME FaceTypeOK
    PROVE  /\ Marks(UserOverwritten)
           /\ \A i \in Jobs : UserOverwritten[i].sound =>
                 jobs[i].sound /\ ~ CountsOnUser(jobs[i])
<1>1. \A i \in Jobs : jobs[i] \in Job
  BY JobsAreJobs
<1> DEFINE b(i) == [jobs[i] EXCEPT !.sound = @ /\ ~ CountsOnUser(jobs[i])]
<1>2. ASSUME NEW i \in Jobs
      PROVE  /\ b(i) \in Job /\ SameJob(b(i), jobs[i])
             /\ b(i).sound => jobs[i].sound /\ ~ CountsOnUser(jobs[i])
  <2>1. jobs[i] \in Job
    BY <1>1
  <2>2. (jobs[i].sound /\ ~ CountsOnUser(jobs[i])) \in BOOLEAN
    OBVIOUS
  <2>3. b(i).sound = (jobs[i].sound /\ ~ CountsOnUser(jobs[i]))
    BY <2>1 DEF Job
  <2>4. b(i) \in Job /\ SameJob(b(i), jobs[i])
    BY <2>1, <2>2 DEF Job, SameJob
  <2>5. QED
    BY <2>3, <2>4
<1> DEFINE known == UserOverwritten
<1>3. known = [i \in Jobs |-> b(i)]
  BY DEF UserOverwritten
<1>4. Len(jobs) \in Nat /\ Jobs = 1..Len(jobs)
  BY JobsAreJobs
<1> HIDE DEF b, Job, known
<1>5. /\ known \in Seq(Job) /\ Len(known) = Len(jobs) /\ DOMAIN known = Jobs
      /\ \A i \in Jobs : known[i] = b(i)
  BY <1>2, <1>3, <1>4
<1>6. Marks(known) /\ \A i \in Jobs : known[i].sound = b(i).sound
  BY <1>2, <1>5 DEF Marks
<1>7. QED
  BY <1>2, <1>6 DEF known

LEMMA FaceMarks ==
    ASSUME FaceTypeOK, NEW token
    PROVE  /\ Marks(FaceDeleted(token))
           /\ \A i \in Jobs : FaceDeleted(token)[i].sound =>
                 jobs[i].sound /\ ~ (token # 0 /\ jobs[i].token = token /\ jobs[i].place # "go")
<1>1. \A i \in Jobs : jobs[i] \in Job
  BY JobsAreJobs
<1> DEFINE b(i) == [jobs[i] EXCEPT !.sound = @ /\ ~ (token # 0 /\ jobs[i].token = token /\ jobs[i].place # "go")]
<1>2. ASSUME NEW i \in Jobs
      PROVE  /\ b(i) \in Job /\ SameJob(b(i), jobs[i])
             /\ b(i).sound => jobs[i].sound /\ ~ (token # 0 /\ jobs[i].token = token /\ jobs[i].place # "go")
  <2>1. jobs[i] \in Job
    BY <1>1
  <2>2. (jobs[i].sound /\ ~ (token # 0 /\ jobs[i].token = token /\ jobs[i].place # "go")) \in BOOLEAN
    OBVIOUS
  <2>3. b(i).sound = (jobs[i].sound /\ ~ (token # 0 /\ jobs[i].token = token /\ jobs[i].place # "go"))
    BY <2>1 DEF Job
  <2>4. b(i) \in Job /\ SameJob(b(i), jobs[i])
    BY <2>1, <2>2 DEF Job, SameJob
  <2>5. QED
    BY <2>3, <2>4
<1> DEFINE known == FaceDeleted(token)
<1>3. known = [i \in Jobs |-> b(i)]
  BY DEF FaceDeleted
<1>4. Len(jobs) \in Nat /\ Jobs = 1..Len(jobs)
  BY JobsAreJobs
<1> HIDE DEF b, Job, known
<1>5. /\ known \in Seq(Job) /\ Len(known) = Len(jobs) /\ DOMAIN known = Jobs
      /\ \A i \in Jobs : known[i] = b(i)
  BY <1>2, <1>3, <1>4
<1>6. Marks(known) /\ \A i \in Jobs : known[i].sound = b(i).sound
  BY <1>2, <1>5 DEF Marks
<1>7. QED
  BY <1>2, <1>6 DEF known

----------------------------------------------------------------------------
(* The list of jobs after a step: known, but for job j, which is b         *)

Lists(known, j, b) ==
    /\ jobs' \in Seq(Job) /\ Len(jobs') <= MaxJobs /\ Jobs \subseteq DOMAIN jobs'
    /\ j \in DOMAIN jobs' => jobs'[j] = b
    /\ \A i \in DOMAIN jobs' : i # j => i \in Jobs /\ jobs'[i] = known[i]

LEMMA ListSame ==
    ASSUME FaceTypeOK, NEW known, Marks(known), jobs' = known
    PROVE  Lists(known, 0, Ended)
<1> HIDE DEF Job
<1>1. Len(jobs) <= MaxJobs
  BY DEF FaceTypeOK
<1>2. 0 \notin Jobs
  BY JobsAreJobs
<1>3. QED
  BY <1>1, <1>2 DEF Marks, Lists

LEMMA ListAppend ==
    ASSUME FaceTypeOK, MaxJobs \in Nat, NEW known, Marks(known), NEW b \in Job,
           NewJob(known, b)
    PROVE  Lists(known, Len(jobs) + 1, b)
<1> HIDE DEF Job
<1>1. Len(jobs) \in Nat /\ Jobs = 1..Len(jobs) /\ Len(jobs) < MaxJobs
  BY JobsAreJobs DEF NewJob
<1>2. known \in Seq(Job) /\ Len(known) = Len(jobs) /\ jobs' = Append(known, b)
  BY DEF Marks, NewJob
<1>3. /\ jobs' \in Seq(Job) /\ Len(jobs') = Len(jobs) + 1
      /\ DOMAIN jobs' = 1..(Len(jobs) + 1)
  BY <1>1, <1>2
<1>4. \A i \in 1..(Len(jobs) + 1) : jobs'[i] = IF i <= Len(jobs) THEN known[i] ELSE b
  BY <1>1, <1>2
<1>5. QED
  BY <1>1, <1>3, <1>4 DEF Lists

LEMMA ListMove ==
    ASSUME FaceTypeOK, NEW known, Marks(known), NEW j \in Jobs, NEW b \in Job,
           jobs' = [known EXCEPT ![j] = b]
    PROVE  Lists(known, j, b)
<1> HIDE DEF Job
<1>1. Len(jobs) \in Nat /\ Jobs = 1..Len(jobs) /\ Len(jobs) <= MaxJobs
  BY JobsAreJobs DEF FaceTypeOK
<1>2. known \in Seq(Job) /\ Len(known) = Len(jobs) /\ DOMAIN known = Jobs
  BY DEF Marks
<1>3. jobs' \in Seq(Job) /\ Len(jobs') = Len(jobs) /\ DOMAIN jobs' = Jobs
  BY <1>1, <1>2
<1>4. \A i \in Jobs : jobs'[i] = IF i = j THEN b ELSE known[i]
  BY <1>2
<1>5. QED
  BY <1>1, <1>3, <1>4 DEF Lists

----------------------------------------------------------------------------
(* What a step must leave to the other jobs *)

OwnerGrows == /\ DOMAIN owner \subseteq DOMAIN owner'
              /\ \A t \in DOMAIN owner : owner'[t] = owner[t]

(* A job that is still sound finds what it counts on as it was.            *)
Kept(b) ==
    b.sound => /\ CountsOnToken(b) => nowFaceToken' = nowFaceToken
               /\ CountsOnUser(b) => userId' = userId
               /\ Bound(b) /\ b.token \in library => b.token \in library'

(* The rows are those of before, some with another token, and new ones.    *)
RowsKept ==
    /\ Apart(table')
    /\ \A r \in table' : \/ Unused(r.id)
                         \/ \E o \in table : r.id = o.id /\ r.user = o.user

LEMMA JobKept ==
    ASSUME NEW a, NEW b, SameJob(b, a), b.sound => a.sound,
           Fit(owner, a), Knows(nowFaceToken, userId, library, a),
           OwnerGrows, Kept(b)
    PROVE  Fit(owner', b) /\ Knows(nowFaceToken', userId', library', b)
<1>1. /\ b.kind = a.kind /\ b.user = a.user /\ b.place = a.place
      /\ b.token = a.token /\ b.row = a.row
  BY DEF SameJob
<1>2. HasToken(b) => b.token # 0 /\ b.user = owner[b.token]
  BY <1>1 DEF Fit, HasToken
<1>3. b.token \in DOMAIN owner \cup {0}
  BY <1>1 DEF Fit
<1>4. b.token \in DOMAIN owner' \cup {0}
  BY <1>3 DEF OwnerGrows
<1>5. HasToken(b) => b.token # 0 /\ b.user = owner'[b.token]
  BY <1>2, <1>3 DEF OwnerGrows
<1>6. Fit(owner', b)
  BY <1>1, <1>4, <1>5 DEF Fit, HasToken
<1>7. Knows(nowFaceToken, userId, library, b)
  BY <1>1 DEF Knows, CountsOnToken, CountsOnUser, Bound, Live
<1>8. Knows(nowFaceToken', userId', library', b)
  BY <1>7 DEF Knows, Kept, CountsOnToken, CountsOnUser, Bound, Live
<1>9. QED
  BY <1>6, <1>8

(* What the step must give the job that is new or moves.                   *)
Fresh(b) ==
    /\ Fit(owner', b) /\ Knows(nowFaceToken', userId', library', b)
    /\ b.place = "delete" /\ b.sound =>
          \A r \in table' : r.id = b.row => r.user = b.user

LEMMA KeepJobs ==
    ASSUME FaceTypeOK, JobsKnow, HeldRows, NEW known, NEW j, NEW b,
           Marks(known), Lists(known, j, b), OwnerGrows, RowsKept,
           \A i \in Jobs : i # j => Kept(known[i]),
           j \in DOMAIN jobs' => Fresh(b)
    PROVE  JobsKnow' /\ HeldRows'
<1>1. ASSUME NEW i \in DOMAIN jobs', i # j
      PROVE  /\ i \in Jobs /\ jobs'[i] = known[i]
             /\ SameJob(known[i], jobs[i]) /\ (known[i].sound => jobs[i].sound)
  BY <1>1 DEF Lists, Marks
<1>2. ASSUME NEW i \in Jobs'
      PROVE  Fit(owner', jobs'[i]) /\ Knows(nowFaceToken', userId', library', jobs'[i])
  <2>0. i \in DOMAIN jobs'
    BY <1>2 DEF Jobs
  <2>1. CASE i = j
    <3>1. jobs'[i] = b /\ Fresh(b)
      BY <2>0, <2>1 DEF Lists
    <3>2. QED
      BY <3>1 DEF Fresh
  <2>2. CASE i # j
    <3>1. /\ i \in Jobs /\ jobs'[i] = known[i]
          /\ SameJob(known[i], jobs[i]) /\ (known[i].sound => jobs[i].sound)
      BY <1>1, <2>0, <2>2
    <3>2. Fit(owner, jobs[i]) /\ Knows(nowFaceToken, userId, library, jobs[i])
      BY <3>1 DEF JobsKnow
    <3>3. Kept(known[i])
      BY <2>2, <3>1
    <3> DEFINE a == jobs[i]
               c == known[i]
    <3>4. Fit(owner', c) /\ Knows(nowFaceToken', userId', library', c)
      <4>1. SameJob(c, a) /\ (c.sound => a.sound) /\ Fit(owner, a) /\ Kept(c)
            /\ Knows(nowFaceToken, userId, library, a)
        BY <3>1, <3>2, <3>3
      <4> HIDE DEF a, c
      <4>2. QED
        BY <4>1, JobKept
    <3>5. QED
      BY <3>1, <3>4
  <2>3. QED
    BY <2>1, <2>2
<1>3. ASSUME NEW i \in Jobs', jobs'[i].place = "delete", jobs'[i].sound,
             NEW r \in table', r.id = jobs'[i].row
      PROVE  r.user = jobs'[i].user
  <2>0. i \in DOMAIN jobs'
    BY <1>3 DEF Jobs
  <2>1. CASE i = j
    <3>1. jobs'[i] = b /\ Fresh(b)
      BY <2>0, <2>1 DEF Lists
    <3>2. QED
      BY <1>3, <3>1 DEF Fresh
  <2>2. CASE i # j
    <3>1. /\ i \in Jobs /\ jobs'[i] = known[i]
          /\ SameJob(known[i], jobs[i]) /\ (known[i].sound => jobs[i].sound)
      BY <1>1, <2>0, <2>2
    <3>2. /\ jobs[i].place = "delete" /\ jobs[i].sound /\ r.id = jobs[i].row
          /\ jobs'[i].user = jobs[i].user
      BY <1>3, <3>1 DEF SameJob
    <3>3. ~ Unused(r.id)
      BY <3>1, <3>2 DEF Unused, Jobs
    <3>4. PICK o \in table : r.id = o.id /\ r.user = o.user
      BY <3>3 DEF RowsKept
    <3>5. o.user = jobs[i].user
      BY <3>1, <3>2, <3>4 DEF HeldRows
    <3>6. QED
      BY <3>2, <3>4, <3>5
  <2>3. QED
    BY <2>1, <2>2
<1>4. JobsKnow'
  BY <1>2, Zenon DEF JobsKnow
<1>5. HeldRows'
  BY <1>3, Zenon DEF HeldRows
<1>6. QED
  BY <1>4, <1>5

----------------------------------------------------------------------------
(* What every step is shown to do *)

FieldsTyped ==
    /\ owner \in Seq(User) /\ Len(owner) <= MaxTokens
    /\ library \subseteq DOMAIN owner
    /\ table \subseteq Row
    /\ \A r \in table : r.token \in DOMAIN owner \cup {0}
    /\ nowFaceToken \in DOMAIN owner \cup {0} /\ recognised \in DOMAIN owner \cup {0}
    /\ userId \in User \cup {0} /\ person \in User \cup {0}
    /\ canRecognize \in BOOLEAN
    /\ sessionSound \in BOOLEAN /\ recognisedSound \in BOOLEAN

LEMMA Advance ==
    ASSUME FaceInv, NEW known, NEW j, NEW b, Marks(known), Lists(known, j, b),
           FieldsTyped', OwnerGrows, RowsKept, LoginsHold',
           \A i \in Jobs : i # j => Kept(known[i]),
           j \in DOMAIN jobs' => Fresh(b)
    PROVE  FaceInv'
<1>1. JobsKnow' /\ HeldRows'
  BY KeepJobs DEF FaceInv
<1>2. FaceTypeOK'
  <2>1. jobs' \in Seq(Job) /\ Len(jobs') <= MaxJobs
    BY DEF Lists
  <2>2. QED
    BY <2>1 DEF FieldsTyped, FaceTypeOK
<1>3. Apart(table)'
  BY DEF RowsKept, Apart
<1>4. QED
  BY <1>1, <1>2, <1>3 DEF FaceInv

LEMMA Fields == FaceTypeOK => FieldsTyped
BY DEF FaceTypeOK, FieldsTyped

LEMMA SameCounts ==
    ASSUME NEW a, NEW b, SameJob(b, a)
    PROVE  CountsOnToken(b) = CountsOnToken(a) /\ CountsOnUser(b) = CountsOnUser(a)
BY DEF SameJob, CountsOnToken, CountsOnUser, Live

LEMMA TokenKept ==
    ASSUME FaceTypeOK, userId' = userId, library' = library
    PROVE  \A i \in Jobs : Kept(TokenOverwritten[i])
<1> TAKE i \in Jobs
<1> DEFINE b == TokenOverwritten[i]
<1>1. SameJob(b, jobs[i]) /\ (b.sound => ~ CountsOnToken(jobs[i]))
  BY TokenMarks DEF Marks
<1> HIDE DEF b
<1>2. b.sound => ~ CountsOnToken(b)
  BY <1>1, SameCounts
<1>3. QED
  BY <1>2 DEF Kept, b

LEMMA UserKept ==
    ASSUME FaceTypeOK, nowFaceToken' = nowFaceToken, library' = library
    PROVE  \A i \in Jobs : Kept(UserOverwritten[i])
<1> TAKE i \in Jobs
<1> DEFINE b == UserOverwritten[i]
<1>1. SameJob(b, jobs[i]) /\ (b.sound => ~ CountsOnUser(jobs[i]))
  BY UserMarks DEF Marks
<1> HIDE DEF b
<1>2. b.sound => ~ CountsOnUser(b)
  BY <1>1, SameCounts
<1>3. QED
  BY <1>2 DEF Kept, b

LEMMA FaceKept ==
    ASSUME FaceTypeOK, NEW token, JobsKnow, nowFaceToken' = nowFaceToken, userId' = userId,
           library' = library \ {token}
    PROVE  \A i \in Jobs : Kept(FaceDeleted(token)[i])
<1> TAKE i \in Jobs
<1> DEFINE b == FaceDeleted(token)[i]
<1>1. /\ SameJob(b, jobs[i])
      /\ b.sound => ~ (token # 0 /\ jobs[i].token = token /\ jobs[i].place # "go")
  BY FaceMarks DEF Marks
<1>2. Bound(jobs[i]) => jobs[i].token # 0
  BY DEF JobsKnow, Fit, Bound, HasToken
<1> HIDE DEF b
<1>3. Bound(b) => b.token # 0 /\ b.place # "go"
  BY <1>1, <1>2 DEF Bound, SameJob
<1>4. b.sound /\ Bound(b) => b.token # token
  BY <1>1, <1>3 DEF SameJob
<1>5. QED
  BY <1>4 DEF Kept, b

LEMMA RowsShrink ==
    ASSUME Apart(table), table' \subseteq table
    PROVE  RowsKept
BY DEF Apart, RowsKept

LEMMA RowsStored ==
    ASSUME FaceTypeOK, NEW user, NEW token \in DOMAIN owner \cup {0},
           Stored(table', user, token)
    PROVE  /\ RowsKept /\ table' \subseteq Row
           /\ \A r \in table' : r.token \in DOMAIN owner \cup {0}
<1>1. \A r \in table' : \/ r \in table
                        \/ r.user = user /\ Unused(r.id) /\ r.token = token
                        \/ r.user = user /\ r.token = token /\ \E o \in RowsOf(user) : r.id = o.id
  BY DEF Stored
<1>2. \A o \in RowsOf(user) : o \in table /\ o.user = user
  BY DEF RowsOf
<1>3. RowsKept
  BY <1>1, <1>2 DEF RowsKept, Stored
<1>4. QED
  BY <1>1, <1>3 DEF Stored, FaceTypeOK

LEMMA EndedFresh == Ended \in Job /\ Fresh(Ended)
<1>1. /\ Ended.kind = "none" /\ Ended.user = 0 /\ Ended.place = "done"
      /\ Ended.token = 0 /\ Ended.row = 0 /\ Ended.sound = TRUE
  BY DEF Ended, Begin
<1>2. Ended \in Job
  BY DEF Ended, Begin, Job, Kind, Place
<1>3. Fresh(Ended)
  BY <1>1 DEF Fresh, Fit, Knows, HasToken, Bound, CountsOnToken, CountsOnUser
<1>4. QED
  BY <1>2, <1>3

(* A message or login begins.                                             *)
LEMMA BeginFresh ==
    ASSUME FaceAssumption, NEW kind \in Kind \ {"none", "uploadFace"},
           NEW user \in User \cup {0},
           NEW place \in {"find", "insert", "clear", "go"},
           kind # "deleteAllFace" => user \in User,
           place = "find" => kind \in {"QrReturn", "addFaceImage"},
           place = "insert" => kind = "nearByFeatrueSend",
           place = "clear" => kind = "deleteAllFace",
           place = "go" => kind = "PhoneLogin",
           kind \in {"QrReturn", "PhoneLogin"} => userId' = user
    PROVE  Begin(kind, user, place) \in Job /\ Fresh(Begin(kind, user, place))
<1> DEFINE b == Begin(kind, user, place)
<1>1. /\ b.kind = kind /\ b.user = user /\ b.place = place
      /\ b.token = 0 /\ b.row = 0 /\ b.sound = TRUE
  BY DEF Begin
<1>2. b \in Job
  BY DEF Begin, Job, Place, Kind
<1> HIDE DEF b
<1>3. Fit(owner', b)
  BY <1>1 DEF Fit, HasToken, Kind
<1>4. Knows(nowFaceToken', userId', library', b)
  BY <1>1 DEF Knows, CountsOnToken, CountsOnUser, Bound
<1>5. QED
  BY <1>1, <1>2, <1>3, <1>4 DEF Fresh, b

----------------------------------------------------------------------------
(* Sessions and logins *)

LEMMA LogInKeeps ==
    ASSUME FaceAssumption, FaceInv, NEW user \in User, NEW can \in BOOLEAN, LogIn(user, can)
    PROVE  FaceInv'
<1>1. FaceTypeOK /\ Apart(table) /\ LoginsHold /\ FieldsTyped
  BY Fields DEF FaceInv
<1>2. /\ UNCHANGED <<owner, library, table, nowFaceToken, recognised, recognisedSound>>
      /\ userId' = user /\ jobs' = UserOverwritten
      /\ OpenSession(user, can, TRUE) \/ NoSession(can, SessionSpared)
  BY DEF LogIn, faces, posted
<1>3. /\ Marks(UserOverwritten) /\ Lists(UserOverwritten, 0, Ended)
  BY <1>1, <1>2, TokenMarks, UserMarks, ListSame
<1>4. \A i \in Jobs : Kept(UserOverwritten[i])
  BY <1>1, <1>2, UserKept
<1>5. person' \in User \cup {0} /\ sessionSound' \in BOOLEAN /\ canRecognize' \in BOOLEAN
  BY <1>1, <1>2 DEF OpenSession, NoSession, SessionSpared, FieldsTyped
<1>6. FieldsTyped'
  BY <1>1, <1>2, <1>5 DEF FieldsTyped
<1>7. person' # 0 /\ sessionSound' => userId' = person'
  BY <1>2 DEF OpenSession, NoSession, SessionSpared
<1>8. LoginsHold'
  BY <1>1, <1>2, <1>7 DEF LoginsHold
<1>9. OwnerGrows /\ RowsKept /\ Fresh(Ended)
  BY <1>1, <1>2, RowsShrink, EndedFresh DEF OwnerGrows
<1>10. QED
  BY <1>3, <1>4, <1>6, <1>8, <1>9, Advance

LEMMA PhoneLoginKeeps ==
    ASSUME FaceAssumption, FaceInv, NEW user \in User, PhoneLogin(user)
    PROVE  FaceInv'
<1>1. FaceTypeOK /\ Apart(table) /\ LoginsHold /\ FieldsTyped
  BY Fields DEF FaceInv
<1> DEFINE b == Begin("PhoneLogin", user, "go")
<1>2. /\ UNCHANGED <<owner, library, table, nowFaceToken, recognised, recognisedSound>>
      /\ UNCHANGED <<person, sessionSound>>
      /\ person = 0 /\ canRecognize' = FALSE
      /\ userId' = user /\ NewJob(UserOverwritten, b)
  BY DEF PhoneLogin, faces, posted
<1>3. b \in Job /\ Fresh(b)
  BY <1>2, BeginFresh DEF Kind
<1> HIDE DEF b
<1>4. Marks(UserOverwritten) /\ Lists(UserOverwritten, Len(jobs) + 1, b)
  BY <1>1, <1>2, <1>3, UserMarks, ListAppend DEF FaceAssumption
<1>5. \A i \in Jobs : Kept(UserOverwritten[i])
  BY <1>1, <1>2, UserKept
<1>6. FieldsTyped'
  BY <1>1, <1>2 DEF FieldsTyped
<1>7. LoginsHold'
  BY <1>1, <1>2 DEF LoginsHold
<1>8. OwnerGrows /\ RowsKept
  BY <1>1, <1>2, RowsShrink DEF OwnerGrows
<1>9. QED
  BY <1>3, <1>4, <1>5, <1>6, <1>7, <1>8, Advance

LEMMA EndSessionKeeps ==
    ASSUME FaceAssumption, FaceInv, EndSession
    PROVE  FaceInv'
<1>1. FaceTypeOK /\ Apart(table) /\ LoginsHold /\ FieldsTyped
  BY Fields DEF FaceInv
<1>2. /\ UNCHANGED <<owner, library, table, nowFaceToken, recognised, recognisedSound>>
      /\ userId' = 0 /\ jobs' = UserOverwritten
      /\ person' = 0 /\ sessionSound' = TRUE /\ canRecognize' = TRUE
  BY DEF EndSession, faces, posted
<1>3. /\ Marks(UserOverwritten) /\ Lists(UserOverwritten, 0, Ended)
  BY <1>1, <1>2, UserMarks, ListSame
<1>4. \A i \in Jobs : Kept(UserOverwritten[i])
  BY <1>1, <1>2, UserKept
<1>5. FieldsTyped'
  BY <1>1, <1>2 DEF FieldsTyped
<1>6. LoginsHold'
  BY <1>1, <1>2 DEF LoginsHold
<1>7. OwnerGrows /\ RowsKept /\ Fresh(Ended)
  BY <1>1, <1>2, RowsShrink, EndedFresh DEF OwnerGrows
<1>8. QED
  BY <1>3, <1>4, <1>5, <1>6, <1>7, Advance

LEMMA RegisterFaceKeeps ==
    ASSUME FaceAssumption, FaceInv, RegisterFace
    PROVE  FaceInv'
<1>1. FaceTypeOK /\ Apart(table) /\ LoginsHold /\ FieldsTyped
  BY Fields DEF FaceInv
<1> DEFINE b == [Begin("register", person, "insert") EXCEPT !.sound = sessionSound]
<1>2. /\ UNCHANGED <<owner, library, table, nowFaceToken, userId, recognised, recognisedSound>>
      /\ person # 0 /\ person' = 0 /\ sessionSound' = TRUE /\ canRecognize' = TRUE
      /\ NewJob(jobs, b)
  BY DEF RegisterFace, faces, posted
<1>3. /\ b \in Job /\ b.kind = "register" /\ b.user = person /\ b.place = "insert"
      /\ b.token = 0 /\ b.row = 0 /\ b.sound = sessionSound
  <2>1. person \in User \cup {0} /\ sessionSound \in BOOLEAN
    BY <1>1 DEF FieldsTyped
  <2>2. "register" \in Kind \ {"none"} /\ "insert" \in Place
    BY DEF Kind, Place
  <2>3. QED
    BY <2>1, <2>2 DEF Begin, Job
<1> HIDE DEF b
<1>4. Fresh(b)
  <2>1. Fit(owner', b)
    BY <1>1, <1>2, <1>3 DEF Fit, HasToken, FieldsTyped
  <2>2. Knows(nowFaceToken', userId', library', b)
    BY <1>1, <1>2, <1>3 DEF Knows, CountsOnToken, CountsOnUser, Bound, LoginsHold
  <2>3. QED
    BY <1>3, <2>1, <2>2 DEF Fresh
<1>5. Marks(jobs) /\ Lists(jobs, Len(jobs) + 1, b)
  BY <1>1, <1>2, <1>3, JobsMark, ListAppend DEF FaceAssumption
<1>6. \A i \in Jobs : Kept(jobs[i])
  BY <1>2 DEF Kept
<1>7. FieldsTyped'
  BY <1>1, <1>2 DEF FieldsTyped
<1>8. LoginsHold'
  BY <1>1, <1>2 DEF LoginsHold
<1>9. OwnerGrows /\ RowsKept
  BY <1>1, <1>2, RowsShrink DEF OwnerGrows
<1>10. QED
  BY <1>4, <1>5, <1>6, <1>7, <1>8, <1>9, Advance

----------------------------------------------------------------------------
(* Messages from the server *)

LEMMA UserMessageKeeps ==
    ASSUME FaceAssumption, FaceInv, NEW user \in User,
           NEW b \in {Begin("QrReturn", user, "find"), Begin("addFaceImage", user, "find"), Ended},
           NewJob(UserOverwritten, b), userId' = user, sessionSound' = SessionSpared,
           UNCHANGED <<faces, table, nowFaceToken, person, canRecognize, posted>>
    PROVE  FaceInv'
<1>1. FaceTypeOK /\ Apart(table) /\ LoginsHold /\ FieldsTyped
  BY Fields DEF FaceInv
<1>2. UNCHANGED <<owner, library, table, nowFaceToken, person, canRecognize, recognised, recognisedSound>>
  BY DEF faces, posted
<1>3. b \in Job /\ Fresh(b)
  <2>1. Begin("QrReturn", user, "find") \in Job /\ Fresh(Begin("QrReturn", user, "find"))
    BY BeginFresh DEF Kind
  <2>2. Begin("addFaceImage", user, "find") \in Job /\ Fresh(Begin("addFaceImage", user, "find"))
    BY BeginFresh DEF Kind
  <2>3. QED
    BY <2>1, <2>2, EndedFresh
<1>4. Marks(UserOverwritten) /\ Lists(UserOverwritten, Len(jobs) + 1, b)
  BY <1>1, <1>3, UserMarks, ListAppend DEF FaceAssumption
<1>5. \A i \in Jobs : Kept(UserOverwritten[i])
  BY <1>1, <1>2, UserKept
<1>6. sessionSound' \in BOOLEAN /\ (sessionSound' => person = 0)
  BY <1>1 DEF SessionSpared, FieldsTyped
<1>7. FieldsTyped'
  BY <1>1, <1>2, <1>6 DEF FieldsTyped
<1>8. LoginsHold'
  BY <1>1, <1>2, <1>6 DEF LoginsHold
<1>9. OwnerGrows /\ RowsKept
  BY <1>1, <1>2, RowsShrink DEF OwnerGrows
<1>10. QED
  BY <1>3, <1>4, <1>5, <1>7, <1>8, <1>9, Advance

LEMMA QrReturnKeeps ==
    ASSUME FaceAssumption, FaceInv, NEW user \in User, QrReturn(user)
    PROVE  FaceInv'
BY UserMessageKeeps DEF QrReturn

LEMMA AddFaceImageKeeps ==
    ASSUME FaceAssumption, FaceInv, NEW user \in User, addFaceImage(user)
    PROVE  FaceInv'
BY UserMessageKeeps DEF addFaceImage

LEMMA OtherMessageKeeps ==
    ASSUME FaceAssumption, FaceInv,
           \/ deleteAllFace
           \/ \E user \in User : nearByFeatrueSend(user)
    PROVE  FaceInv'
<1>1. FaceTypeOK /\ Apart(table) /\ LoginsHold /\ FieldsTyped
  BY Fields DEF FaceInv
<1>2. /\ UNCHANGED <<owner, library, nowFaceToken, userId, person, sessionSound,
                     canRecognize, recognised, recognisedSound>>
      /\ table' = {} \/ table' = table
  BY DEF deleteAllFace, nearByFeatrueSend, faces, sessions, posted
<1>3. PICK b \in Job : NewJob(jobs, b) /\ Fresh(b)
  <2>1. CASE deleteAllFace
    <3>1. LET b == Begin("deleteAllFace", 0, "clear") IN b \in Job /\ Fresh(b)
      BY BeginFresh DEF Kind
    <3>2. QED
      BY <2>1, <3>1 DEF deleteAllFace
  <2>2. ASSUME NEW user \in User, nearByFeatrueSend(user)
        PROVE  \E b \in Job : NewJob(jobs, b) /\ Fresh(b)
    <3>1. LET b == Begin("nearByFeatrueSend", user, "insert") IN b \in Job /\ Fresh(b)
      BY BeginFresh DEF Kind
    <3>2. QED
      BY <2>2, <3>1 DEF nearByFeatrueSend
  <2>3. QED
    BY <2>1, <2>2
<1>4. Marks(jobs) /\ Lists(jobs, Len(jobs) + 1, b)
  BY <1>1, <1>3, JobsMark, ListAppend DEF FaceAssumption
<1>5. \A i \in Jobs : Kept(jobs[i])
  BY <1>2 DEF Kept
<1>6. FieldsTyped'
  BY <1>1, <1>2 DEF FieldsTyped
<1>7. LoginsHold'
  BY <1>1, <1>2 DEF LoginsHold
<1>8. OwnerGrows /\ RowsKept
  BY <1>1, <1>2, RowsShrink DEF OwnerGrows
<1>9. QED
  BY <1>3, <1>4, <1>5, <1>6, <1>7, <1>8, Advance

----------------------------------------------------------------------------
(* The steps of a job *)

LEMMA JobFacts ==
    ASSUME FaceInv, NEW j \in Jobs
    PROVE  /\ jobs[j] \in Job /\ Fit(owner, jobs[j])
           /\ Knows(nowFaceToken, userId, library, jobs[j])
BY JobsAreJobs DEF FaceInv, JobsKnow

(* A step that writes no shared field.                                     *)
LEMMA JobStepKeeps ==
    ASSUME FaceInv, NEW known, NEW j \in Jobs, NEW b, Marks(known), Lists(known, j, b),
           UNCHANGED <<owner, nowFaceToken, userId, sessions, posted>>,
           library' \subseteq DOMAIN owner, table' \subseteq Row,
           \A r \in table' : r.token \in DOMAIN owner \cup {0},
           RowsKept, \A i \in Jobs : i # j => Kept(known[i]), Fresh(b)
    PROVE  FaceInv'
<1>1. LoginsHold /\ FieldsTyped
  BY Fields DEF FaceInv
<1>2. /\ UNCHANGED <<person, sessionSound, canRecognize, recognised, recognisedSound>>
      /\ UNCHANGED <<owner, nowFaceToken, userId>>
  BY DEF sessions, posted
<1>3. FieldsTyped' /\ LoginsHold'
  BY <1>1, <1>2 DEF FieldsTyped, LoginsHold
<1>4. OwnerGrows
  BY <1>2 DEF OwnerGrows
<1>5. QED
  BY <1>3, <1>4, Advance

LEMMA GotoMoves ==
    ASSUME FaceInv, NEW j \in Jobs, NEW place \in Place, Goto(j, place)
    PROVE  \E b \in Job :
              /\ Lists(jobs, j, b)
              /\ place = "done" => b = Ended
              /\ place # "done" =>
                    /\ b.kind = jobs[j].kind /\ b.user = jobs[j].user /\ b.place = place
                    /\ b.token = jobs[j].token /\ b.row = jobs[j].row
                    /\ b.sound = jobs[j].sound
<1>1. FaceTypeOK /\ Marks(jobs) /\ jobs[j] \in Job
  BY JobsMark, JobFacts DEF FaceInv
<1>2. CASE place = "done"
  <2>1. jobs' = [jobs EXCEPT ![j] = Ended]
    BY <1>2 DEF Goto
  <2>2. Ended \in Job
    BY EndedFresh
  <2>3. QED
    BY <1>1, <1>2, <2>1, <2>2, ListMove
<1>3. CASE place # "done"
  <2> DEFINE b == [jobs[j] EXCEPT !.place = place]
  <2>1. jobs' = [jobs EXCEPT ![j] = b]
    BY <1>3 DEF Goto
  <2>2. /\ b \in Job /\ b.kind = jobs[j].kind /\ b.user = jobs[j].user /\ b.place = place
        /\ b.token = jobs[j].token /\ b.row = jobs[j].row /\ b.sound = jobs[j].sound
    BY <1>1 DEF Job
  <2> HIDE DEF b
  <2>3. Lists(jobs, j, b)
    BY <1>1, <2>1, <2>2, ListMove
  <2>4. QED
    BY <1>3, <2>2, <2>3
<1>4. QED
  BY <1>2, <1>3

(* A job may go on to a place if it fits there and finds what it counts on. *)
Leads(j, place) ==
    \A b \in Job :
       /\ b.kind = jobs[j].kind /\ b.user = jobs[j].user /\ b.place = place
       /\ b.token = jobs[j].token /\ b.sound = jobs[j].sound
       => Fit(owner, b) /\ Knows(nowFaceToken, userId, library', b)

LEMMA GotoKeeps ==
    ASSUME FaceInv, NEW j \in Jobs, NEW place \in Place \ {"delete"}, Goto(j, place),
           place # "done" => Leads(j, place),
           UNCHANGED <<owner, nowFaceToken, userId, sessions, posted>>,
           library \subseteq library', library' \subseteq DOMAIN owner,
           table' \subseteq Row, \A r \in table' : r.token \in DOMAIN owner \cup {0},
           RowsKept
    PROVE  FaceInv'
<1>1. PICK b \in Job :
              /\ Lists(jobs, j, b)
              /\ place = "done" => b = Ended
              /\ place # "done" =>
                    /\ b.kind = jobs[j].kind /\ b.user = jobs[j].user /\ b.place = place
                    /\ b.token = jobs[j].token /\ b.row = jobs[j].row
                    /\ b.sound = jobs[j].sound
  BY GotoMoves, Zenon
<1>2. Fresh(b)
  <2>1. CASE place = "done"
    BY <1>1, <2>1, EndedFresh
  <2>2. CASE place # "done"
    <3>1. Fit(owner, b) /\ Knows(nowFaceToken, userId, library', b)
      BY <1>1, <2>2 DEF Leads
    <3>2. QED
      BY <1>1, <2>2, <3>1 DEF Fresh
  <2>3. QED
    BY <2>1, <2>2
<1>3. Marks(jobs)
  BY JobsMark DEF FaceInv
<1>4. \A i \in Jobs : Kept(jobs[i])
  BY DEF Kept
<1>5. QED
  BY <1>1, <1>2, <1>3, <1>4, JobStepKeeps

(* The same when neither the library nor the table is written.             *)
LEMMA OnlyGoto ==
    ASSUME FaceInv, NEW j \in Jobs, NEW place \in Place \ {"delete"}, Goto(j, place),
           place # "done" => Leads(j, place),
           UNCHANGED <<faces, table, nowFaceToken, userId, sessions, posted>>
    PROVE  FaceInv'
<1>1. FaceTypeOK /\ Apart(table)
  BY DEF FaceInv
<1>2. /\ UNCHANGED <<owner, nowFaceToken, userId, sessions, posted>>
      /\ library \subseteq library' /\ library' \subseteq DOMAIN owner
      /\ table' \subseteq Row /\ \A r \in table' : r.token \in DOMAIN owner \cup {0}
  BY <1>1 DEF faces, FaceTypeOK
<1>3. RowsKept
  BY <1>1, RowsShrink
<1>4. QED
  BY <1>2, <1>3, GotoKeeps

(* The same when a row is stored.                                          *)
LEMMA StoreGoto ==
    ASSUME FaceInv, NEW j \in Jobs, NEW place \in Place \ {"delete"}, Goto(j, place),
           place # "done" => Leads(j, place),
           NEW user, NEW token \in DOMAIN owner \cup {0}, Stored(table', user, token),
           UNCHANGED <<faces, nowFaceToken, userId, sessions, posted>>
    PROVE  FaceInv'
<1>1. FaceTypeOK /\ Apart(table)
  BY DEF FaceInv
<1>2. /\ UNCHANGED <<owner, nowFaceToken, userId, sessions, posted>>
      /\ library \subseteq library' /\ library' \subseteq DOMAIN owner
  BY <1>1 DEF faces, FaceTypeOK
<1>3. RowsKept /\ table' \subseteq Row /\ \A r \in table' : r.token \in DOMAIN owner \cup {0}
  BY <1>1, RowsStored
<1>4. QED
  BY <1>2, <1>3, GotoKeeps

LEMMA DownloadKeeps ==
    ASSUME FaceInv, NEW j \in Jobs, Download(j)
    PROVE  FaceInv'
<1>1. PICK place \in {"insert", "done"} : Goto(j, place)
  BY DEF Download
<1>2. place # "done" => Leads(j, place)
  BY JobFacts DEF Download, Leads, Fit, Knows, HasToken, Bound, CountsOnToken,
                  CountsOnUser, Live
<1>3. QED
  BY <1>1, <1>2, OnlyGoto DEF Download, Place

LEMMA NoFeatureKeeps ==
    ASSUME FaceInv, NEW j \in Jobs, NoFeature(j)
    PROVE  FaceInv'
<1>1. PICK place \in {"exception", "done"} :
              Goto(j, place) /\ (place # "done" => jobs[j].kind = "register")
  BY DEF NoFeature
<1>2. place # "done" => Leads(j, place)
  BY <1>1, JobFacts DEF NoFeature, Leads, Fit, Knows, HasToken, Bound, CountsOnToken,
                        CountsOnUser, Live
<1>3. QED
  BY <1>1, <1>2, OnlyGoto DEF NoFeature, Place

LEMMA BindGroupKeeps ==
    ASSUME FaceInv, NEW j \in Jobs, BindGroup(j)
    PROVE  FaceInv'
<1>1. FaceTypeOK /\ Apart(table)
  BY DEF FaceInv
<1>2. /\ jobs[j].place = "bind" /\ Fit(owner, jobs[j])
      /\ Knows(nowFaceToken, userId, library, jobs[j])
      /\ UNCHANGED <<owner, table, nowFaceToken, userId, sessions, posted>>
  BY JobFacts DEF BindGroup
<1>3. jobs[j].token \in DOMAIN owner
  BY <1>2 DEF Fit, HasToken
<1>4. PICK place \in {"find", "store", "exception", "done"} :
         /\ Goto(j, place)
         /\ library' \in {library, library \cup {jobs[j].token}}
         /\ place = "exception" => jobs[j].kind = "register"
         /\ place \in {"find", "store"} =>
               place = AfterBind(j) /\ library' = library \cup {jobs[j].token}
  BY DEF BindGroup, AfterBind
<1>5. place # "done" => Leads(j, place)
  BY <1>2, <1>4 DEF Leads, AfterBind, Fit, Knows, HasToken, Bound, CountsOnToken,
                    CountsOnUser, Live
<1>6. library \subseteq library' /\ library' \subseteq DOMAIN owner
  BY <1>1, <1>3, <1>4 DEF FaceTypeOK
<1>7. RowsKept /\ table' \subseteq Row /\ \A r \in table' : r.token \in DOMAIN owner \cup {0}
  BY <1>1, <1>2, RowsShrink DEF FaceTypeOK
<1>8. place \in Place \ {"delete"}
  BY <1>4 DEF Place
<1>9. QED
  BY <1>2, <1>4, <1>5, <1>6, <1>7, <1>8, GotoKeeps

LEMMA Tokens ==
    ASSUME FaceAssumption, FaceInv, NEW token \in DOMAIN owner \cup {0}
    PROVE  /\ token \in Nat /\ userId \in User \cup {0} /\ table \subseteq Row
           /\ Apart(table) /\ MaxJobs \in Nat
BY DEF FaceAssumption, FaceInv, FaceTypeOK

LEMMA StoreTcpKeeps ==
    ASSUME FaceAssumption, FaceInv, NEW j \in Jobs, StoreTcp(j)
    PROVE  FaceInv'
<1>1. /\ jobs[j] \in Job /\ Fit(owner, jobs[j])
      /\ Knows(nowFaceToken, userId, library, jobs[j])
  BY JobFacts
<1>2. jobs[j].token \in DOMAIN owner \cup {0} /\ jobs[j].user \in User \cup {0}
  BY <1>1 DEF Fit, Job
<1>3. UNCHANGED <<faces, nowFaceToken, userId, sessions, posted>>
  BY DEF StoreTcp
<1>4. PICK user \in User \cup {0}, place \in {"go", "done"} :
         /\ insertUserIdAndFaceToken(user, jobs[j].token) /\ Goto(j, place)
         /\ place = "go" => jobs[j].kind = "QrReturn"
  BY <1>2, Tokens DEF StoreTcp
<1>5. Stored(table', user, jobs[j].token)
  BY <1>2, <1>4, Tokens, InsertStores
<1>6. place # "done" => Leads(j, place)
  BY <1>1, <1>3, <1>4 DEF StoreTcp, faces, Leads, Fit, Knows, HasToken, Bound, CountsOnToken,
                          CountsOnUser, Live
<1>7. place \in Place \ {"delete"}
  BY DEF Place
<1>8. QED
  BY <1>2, <1>3, <1>4, <1>5, <1>6, <1>7, StoreGoto

(* The three jobs that store nowFaceToken and are done.                    *)
LEMMA StoreNowKeeps ==
    ASSUME FaceAssumption, FaceInv, NEW j \in Jobs,
           StoreDownloaded(j) \/ StoreInCatch(j) \/ FaceUploaded(j)
    PROVE  FaceInv'
<1>1. nowFaceToken \in DOMAIN owner \cup {0} /\ jobs[j].user \in User \cup {0}
  BY JobFacts DEF FaceInv, FaceTypeOK, Job
<1>2. UNCHANGED <<faces, nowFaceToken, userId, sessions, posted>> /\ Goto(j, "done")
  BY DEF StoreDownloaded, StoreInCatch, FaceUploaded
<1>3. "done" \in Place \ {"delete"}
  BY DEF Place
<1>4. \/ \E user \in User \cup {0} : \/ insertUserIdAndFaceToken(user, nowFaceToken)
                                     \/ insertUserIdAndFaceTokenThread(user, nowFaceToken)
      \/ UNCHANGED table
  BY <1>1, Tokens DEF StoreDownloaded, StoreInCatch, FaceUploaded
<1>5. CASE UNCHANGED table
  BY <1>2, <1>3, <1>5, OnlyGoto
<1>6. ASSUME NEW user \in User \cup {0},
             \/ insertUserIdAndFaceToken(user, nowFaceToken)
             \/ insertUserIdAndFaceTokenThread(user, nowFaceToken)
      PROVE  FaceInv'
  <2>1. Stored(table', user, nowFaceToken)
    BY <1>1, <1>6, Tokens, InsertStores, InsertThreadStores
  <2>2. QED
    BY <1>1, <1>2, <1>3, <2>1, StoreGoto
<1>7. QED
  BY <1>4, <1>5, <1>6

LEMMA StoreRegisteredKeeps ==
    ASSUME FaceAssumption, FaceInv, NEW j \in Jobs, StoreRegistered(j)
    PROVE  FaceInv'
<1>1. /\ jobs[j] \in Job /\ Fit(owner, jobs[j])
      /\ Knows(nowFaceToken, userId, library, jobs[j])
  BY JobFacts
<1>2. FaceTypeOK /\ nowFaceToken \in DOMAIN owner \cup {0}
  BY DEF FaceInv, FaceTypeOK
<1>3. /\ UNCHANGED <<owner, library, nowFaceToken, userId, sessions, posted>>
      /\ insertUserIdAndFaceTokenThread(userId, nowFaceToken)
      /\ jobs[j].place = "store" /\ jobs[j].kind = "register"
  BY DEF StoreRegistered, faces
<1>4. RowsKept /\ table' \subseteq Row /\ \A r \in table' : r.token \in DOMAIN owner \cup {0}
  BY <1>2, <1>3, Tokens, InsertThreadStores, RowsStored
<1> DEFINE b == [jobs[j] EXCEPT !.kind = "uploadFace"]
<1>5. jobs' = [jobs EXCEPT ![j] = b]
  BY DEF StoreRegistered
<1>6. /\ b \in Job /\ b.kind = "uploadFace" /\ b.user = jobs[j].user /\ b.place = "store"
      /\ b.token = jobs[j].token /\ b.row = jobs[j].row /\ b.sound = jobs[j].sound
  BY <1>1, <1>3 DEF Job, Kind
<1> HIDE DEF b
<1>7. Marks(jobs) /\ Lists(jobs, j, b)
  BY <1>2, <1>5, <1>6, JobsMark, ListMove
<1>8. Fresh(b)
  BY <1>1, <1>3, <1>6 DEF Fresh, Fit, Knows, HasToken, Bound, CountsOnToken, CountsOnUser, Live
<1>9. \A i \in Jobs : Kept(jobs[i])
  BY <1>3 DEF Kept
<1>10. library' \subseteq DOMAIN owner
  BY <1>2, <1>3 DEF FaceTypeOK
<1>11. QED
  BY <1>3, <1>4, <1>7, <1>8, <1>9, <1>10, JobStepKeeps

LEMMA GoControlActivityKeeps ==
    ASSUME FaceAssumption, FaceInv, NEW j \in Jobs, GoControlActivity(j)
    PROVE  FaceInv'
<1>1. FaceTypeOK /\ Apart(table) /\ LoginsHold /\ FieldsTyped
  BY Fields DEF FaceInv
<1>2. /\ jobs[j] \in Job /\ Fit(owner, jobs[j])
      /\ Knows(nowFaceToken, userId, library, jobs[j])
  BY JobFacts
<1> DEFINE can == canRecognize \/ jobs[j].kind = "PhoneLogin"
<1>3. /\ UNCHANGED <<owner, library, table, nowFaceToken, userId, recognised, recognisedSound>>
      /\ jobs[j].place = "go" /\ Goto(j, "done")
      /\ OpenSession(jobs[j].user, can, jobs[j].sound) \/ NoSession(can, sessionSound)
  BY DEF GoControlActivity, faces, posted
<1>4. jobs[j].kind \in {"QrReturn", "PhoneLogin"}
  BY <1>2, <1>3 DEF Fit, Job, Kind
<1>5. jobs[j].sound => userId = jobs[j].user
  BY <1>2, <1>3, <1>4 DEF Knows, CountsOnUser, Live
<1>6. Marks(jobs) /\ Lists(jobs, j, Ended) /\ Fresh(Ended)
  <2>1. "done" \in Place
    BY DEF Place
  <2>2. \E b \in Job : Lists(jobs, j, b) /\ ("done" = "done" => b = Ended)
    BY <1>3, <2>1, GotoMoves, Zenon
  <2>3. Lists(jobs, j, Ended)
    BY <2>2
  <2>4. QED
    BY <1>1, <2>3, JobsMark, EndedFresh
<1>7. can \in BOOLEAN /\ jobs[j].sound \in BOOLEAN /\ jobs[j].user \in User \cup {0}
  BY <1>1, <1>2 DEF Job, FieldsTyped
<1> HIDE DEF can
<1>8. person' \in User \cup {0} /\ sessionSound' \in BOOLEAN /\ canRecognize' \in BOOLEAN
  BY <1>1, <1>3, <1>7 DEF OpenSession, NoSession, FieldsTyped
<1>9. FieldsTyped'
  BY <1>1, <1>3, <1>8 DEF FieldsTyped
<1>10. LoginsHold'
  BY <1>1, <1>3, <1>5 DEF LoginsHold, OpenSession, NoSession
<1>11. OwnerGrows /\ RowsKept /\ \A i \in Jobs : Kept(jobs[i])
  BY <1>1, <1>3, RowsShrink DEF OwnerGrows, Kept
<1>12. QED
  BY <1>6, <1>9, <1>10, <1>11, Advance

(* DeleteRow, and the part of DeleteFace where no row is found.            *)
LEMMA AfterDeleteLeads ==
    ASSUME FaceInv, NEW j \in Jobs, NEW b, Fit(owner, jobs[j]),
           Knows(nowFaceToken, userId, library, jobs[j]),
           jobs[j].place \in {"find", "delete"},
           b.kind = jobs[j].kind, b.user = jobs[j].user, b.token = jobs[j].token,
           b.sound => jobs[j].sound, b.place = AfterDelete(j)
    PROVE  /\ Fit(owner, b) /\ Knows(nowFaceToken, userId, library, b)
           /\ b.place \in {"insert", "download", "store"}
<1>1. /\ jobs[j].kind = "QrReturn" => AfterDelete(j) = "insert"
      /\ jobs[j].kind = "addFaceImage" => AfterDelete(j) = "download"
      /\ jobs[j].kind = "register" => AfterDelete(j) = "store"
  BY DEF AfterDelete
<1>2. jobs[j].kind \in {"QrReturn", "addFaceImage", "register"}
  BY JobFacts DEF Fit, Job, Kind
<1>3. Fit(owner, b)
  BY <1>1, <1>2 DEF Fit, HasToken
<1>4. Knows(nowFaceToken, userId, library, b)
  BY <1>1, <1>2 DEF Knows, Bound, CountsOnToken, CountsOnUser, Live
<1>5. QED
  BY <1>1, <1>2, <1>3, <1>4

LEMMA DeleteRowKeeps ==
    ASSUME FaceAssumption, FaceInv, NEW j \in Jobs, DeleteRow(j)
    PROVE  FaceInv'
<1>1. /\ jobs[j] \in Job /\ Fit(owner, jobs[j])
      /\ Knows(nowFaceToken, userId, library, jobs[j]) /\ jobs[j].place = "delete"
  BY JobFacts DEF DeleteRow
<1>2. FaceTypeOK /\ Apart(table)
  BY DEF FaceInv
<1>3. /\ UNCHANGED <<owner, library, nowFaceToken, userId, sessions, posted>>
      /\ table' \subseteq table
  BY DEF DeleteRow, faces
<1> DEFINE b == [jobs[j] EXCEPT !.place = AfterDelete(j), !.row = 0]
<1>4. jobs' = [jobs EXCEPT ![j] = b]
  BY DEF DeleteRow
<1>5. AfterDelete(j) \in Place
  BY DEF AfterDelete, Place
<1>6. /\ b \in Job /\ b.kind = jobs[j].kind /\ b.user = jobs[j].user
      /\ b.place = AfterDelete(j) /\ b.token = jobs[j].token /\ b.sound = jobs[j].sound
  BY <1>1, <1>5 DEF Job
<1> HIDE DEF b
<1>7. Marks(jobs) /\ Lists(jobs, j, b)
  BY <1>2, <1>4, <1>6, JobsMark, ListMove
<1>8. /\ Fit(owner, b) /\ Knows(nowFaceToken, userId, library, b)
      /\ b.place \in {"insert", "download", "store"}
  BY <1>1, <1>6, AfterDeleteLeads
<1>9. Fresh(b)
  BY <1>3, <1>8 DEF Fresh
<1>10. RowsKept /\ table' \subseteq Row /\ \A r \in table' : r.token \in DOMAIN owner \cup {0}
  BY <1>2, <1>3, RowsShrink DEF FaceTypeOK
<1>11. library' \subseteq DOMAIN owner /\ \A i \in Jobs : Kept(jobs[i])
  BY <1>2, <1>3 DEF FaceTypeOK, Kept
<1>12. QED
  BY <1>3, <1>7, <1>9, <1>10, <1>11, JobStepKeeps

(* The row that is found is of the user of a sound job.                    *)
LEMMA Found ==
    ASSUME FaceInv, NEW j \in Jobs, jobs[j].place = "find", jobs[j].sound,
           NEW r \in RowsOf(Subject(j))
    PROVE  r \in table /\ r.user = jobs[j].user
<1>1. Knows(nowFaceToken, userId, library, jobs[j])
  BY JobFacts
<1>2. r \in table /\ r.user = Subject(j)
  BY DEF RowsOf
<1>3. QED
  BY <1>1, <1>2 DEF Knows, CountsOnUser, Live, Subject

LEMMA DeleteFaceKeeps ==
    ASSUME FaceAssumption, FaceInv, NEW j \in Jobs, DeleteFace(j)
    PROVE  FaceInv'
<1>1. /\ jobs[j] \in Job /\ Fit(owner, jobs[j])
      /\ Knows(nowFaceToken, userId, library, jobs[j]) /\ jobs[j].place = "find"
  BY JobFacts DEF DeleteFace
<1>2. FaceTypeOK /\ Apart(table) /\ JobsKnow
  BY DEF FaceInv
<1>3. UNCHANGED <<owner, table, nowFaceToken, userId, sessions, posted>>
  BY DEF DeleteFace
<1>4. CASE Goto(j, AfterDelete(j)) /\ UNCHANGED library
  <2>1. AfterDelete(j) \in {"insert", "download", "store"}
    BY DEF AfterDelete
  <2>2. AfterDelete(j) \in Place \ {"delete"}
    BY <2>1 DEF Place
  <2>3. Leads(j, AfterDelete(j))
    BY <1>1, <1>4, AfterDeleteLeads DEF Leads
  <2>4. UNCHANGED faces
    BY <1>3, <1>4 DEF faces
  <2>5. QED
    BY <1>3, <1>4, <2>2, <2>3, <2>4, OnlyGoto
<1>5. ASSUME NEW r \in RowsOf(Subject(j)), library' = library \ {r.token},
             jobs' = [FaceDeleted(r.token) EXCEPT ![j].place = "delete", ![j].row = r.id]
      PROVE  FaceInv'
  <2> DEFINE known == FaceDeleted(r.token)
             b == [known[j] EXCEPT !.place = "delete", !.row = r.id]
  <2>1. r \in table /\ r.id \in Nat
    BY <1>2 DEF RowsOf, FaceTypeOK, Row
  <2>2. /\ Marks(known) /\ known[j] \in Job
        /\ known[j].sound => jobs[j].sound /\ ~ (r.token # 0 /\ jobs[j].token = r.token)
    BY <1>1, <1>2, FaceMarks DEF Marks
  <2>3. /\ b \in Job /\ b.kind = known[j].kind /\ b.user = known[j].user
        /\ b.place = "delete" /\ b.token = known[j].token /\ b.sound = known[j].sound
        /\ b.row = r.id
    BY <2>1, <2>2 DEF Job, Place
  <2>4. jobs' = [known EXCEPT ![j] = b]
    BY <1>5
  <2>5. \A i \in Jobs : Kept(known[i])
    BY <1>2, <1>3, <1>5, FaceKept
  <2> HIDE DEF known, b
  <2>6. /\ b.kind = jobs[j].kind /\ b.user = jobs[j].user /\ b.token = jobs[j].token
        /\ b.sound => jobs[j].sound /\ ~ (r.token # 0 /\ jobs[j].token = r.token)
    BY <2>2, <2>3 DEF Marks, SameJob
  <2>7. Lists(known, j, b)
    BY <1>2, <2>2, <2>3, <2>4, ListMove
  <2>8. Fit(owner, b)
    BY <1>1, <2>3, <2>6 DEF Fit, HasToken
  <2>9. Knows(nowFaceToken, userId, library', b)
    <3>1. b.sound /\ Bound(b) => b.token # r.token /\ b.token \in library
      BY <1>1, <2>3, <2>6, <2>8 DEF Knows, Bound, Fit, HasToken
    <3>2. b.sound /\ Bound(b) => b.token \in library'
      BY <1>5, <3>1
    <3>3. QED
      BY <1>1, <2>3, <2>6, <3>2 DEF Knows, CountsOnToken, CountsOnUser, Live
  <2>10. b.sound => \A q \in table' : q.id = b.row => q.user = b.user
    BY <1>1, <1>2, <1>3, <2>1, <2>3, <2>6, Found DEF Apart
  <2>11. Fresh(b)
    BY <1>3, <2>8, <2>9, <2>10 DEF Fresh
  <2>12. RowsKept /\ table' \subseteq Row /\ \A q \in table' : q.token \in DOMAIN owner \cup {0}
    BY <1>2, <1>3, RowsShrink DEF FaceTypeOK
  <2>13. library' \subseteq DOMAIN owner
    BY <1>2, <1>5 DEF FaceTypeOK
  <2>14. QED
    BY <1>3, <2>2, <2>5, <2>7, <2>11, <2>12, <2>13, JobStepKeeps
<1>6. QED
  BY <1>4, <1>5 DEF DeleteFace

LEMMA InsertFeatureKeeps ==
    ASSUME FaceAssumption, FaceInv, NEW j \in Jobs, InsertFeature(j)
    PROVE  FaceInv'
<1>1. /\ jobs[j] \in Job /\ Fit(owner, jobs[j])
      /\ Knows(nowFaceToken, userId, library, jobs[j])
  BY JobFacts
<1>2. FaceTypeOK /\ Apart(table) /\ LoginsHold /\ FieldsTyped
  BY Fields DEF FaceInv
<1> DEFINE token == Len(owner) + 1
           count == jobs[j].kind \in {"addFaceImage", "register"}
           known == IF count THEN TokenOverwritten ELSE jobs
           b == [known[j] EXCEPT !.place = "bind", !.token = token]
<1>3. /\ jobs[j].place = "insert" /\ token <= MaxTokens
      /\ owner' = Append(owner, jobs[j].user)
      /\ UNCHANGED <<library, table, userId, person, sessionSound, canRecognize, recognised>>
      /\ nowFaceToken' = IF count THEN token ELSE nowFaceToken
      /\ recognisedSound' = IF count THEN recognisedSound /\ recognised = 0 ELSE recognisedSound
      /\ jobs' = [known EXCEPT ![j] = b]
  BY DEF InsertFeature, sessions
<1>4. /\ Marks(known) /\ known[j] \in Job
      /\ known[j].sound => jobs[j].sound
  BY <1>1, <1>2, TokenMarks, JobsMark DEF Marks
<1>5. \A i \in Jobs : Kept(known[i])
  <2>1. CASE count
    BY <1>2, <1>3, <2>1, TokenKept
  <2>2. CASE ~ count
    BY <1>3, <2>2 DEF Kept
  <2>3. QED
    BY <2>1, <2>2
<1>6. jobs[j].user \in User /\ jobs[j].kind \in {"QrReturn", "nearByFeatrueSend", "addFaceImage", "register"}
  BY <1>1, <1>3 DEF Fit, Job, Kind
<1>7. /\ owner' \in Seq(User) /\ Len(owner') = token /\ DOMAIN owner' = DOMAIN owner \cup {token}
      /\ \A t \in DOMAIN owner : owner'[t] = owner[t]
      /\ owner'[token] = jobs[j].user /\ token \in Nat \ {0}
  BY <1>2, <1>3, <1>6 DEF FaceTypeOK
<1>8. /\ b \in Job /\ b.kind = known[j].kind /\ b.user = known[j].user
      /\ b.place = "bind" /\ b.token = token /\ b.sound = known[j].sound
  BY <1>4, <1>7 DEF Job, Place
<1>9. b.kind = jobs[j].kind /\ b.user = jobs[j].user
  BY <1>4, <1>8 DEF Marks, SameJob
<1> HIDE DEF known, b, token
<1>10. Lists(known, j, b)
  BY <1>2, <1>3, <1>4, <1>8, ListMove
<1>11. Fit(owner', b)
  BY <1>6, <1>7, <1>8, <1>9 DEF Fit, HasToken
<1>12. Knows(nowFaceToken', userId', library', b)
  <2>1. b.sound /\ CountsOnUser(b) => userId = b.user
    BY <1>1, <1>3, <1>4, <1>6, <1>8, <1>9 DEF Knows, CountsOnUser, Live
  <2>2. CountsOnToken(b) => nowFaceToken' = b.token
    BY <1>3, <1>6, <1>8, <1>9 DEF CountsOnToken
  <2>3. ~ Bound(b)
    BY <1>8 DEF Bound
  <2>4. QED
    BY <1>3, <2>1, <2>2, <2>3 DEF Knows
<1>13. Fresh(b)
  BY <1>8, <1>11, <1>12 DEF Fresh
<1>14. nowFaceToken' \in DOMAIN owner' \cup {0} /\ recognisedSound' \in BOOLEAN
  BY <1>2, <1>3, <1>7 DEF FieldsTyped
<1>15. FieldsTyped'
  <2>1. library' \subseteq DOMAIN owner' /\ recognised' \in DOMAIN owner' \cup {0}
        /\ \A r \in table' : r.token \in DOMAIN owner' \cup {0}
    BY <1>2, <1>3, <1>7 DEF FieldsTyped
  <2>2. QED
    BY <1>2, <1>3, <1>7, <1>14, <2>1 DEF FieldsTyped
<1>16. LoginsHold'
  BY <1>2, <1>3 DEF LoginsHold
<1>17. OwnerGrows /\ RowsKept
  BY <1>2, <1>3, <1>7, RowsShrink DEF OwnerGrows
<1>18. QED
  BY <1>4, <1>5, <1>10, <1>13, <1>15, <1>16, <1>17, Advance

(* A restart leaves the library, or nothing of it, and the table.          *)
LEMMA LoseKeeps ==
    ASSUME FaceAssumption, FaceInv, Lose, UNCHANGED <<owner, table>>,
           library' \in {library, {}}
    PROVE  FaceInv'
<1>1. FaceTypeOK /\ Apart(table)
  BY DEF FaceInv
<1>2. /\ Len(jobs) \in Nat /\ Jobs = 1..Len(jobs) /\ Len(jobs) <= MaxJobs
      /\ jobs' = [j \in Jobs |-> Ended] /\ Ended \in Job /\ Fresh(Ended)
  BY <1>1, JobsAreJobs, EndedFresh DEF Lose, FaceTypeOK
<1> HIDE DEF Job, Ended
<1>3. jobs' \in Seq(Job) /\ Len(jobs') <= MaxJobs /\ Jobs' = Jobs
  BY <1>2 DEF Jobs
<1>4. \A j \in Jobs' : jobs'[j] = Ended
  BY <1>2, <1>3
<1>5. FieldsTyped'
  BY <1>1 DEF Lose, FaceTypeOK, FieldsTyped
<1>6. FaceTypeOK'
  BY <1>3, <1>5 DEF FieldsTyped, FaceTypeOK
<1>7. JobsKnow'
  <2>1. ASSUME NEW j \in Jobs'
        PROVE  Fit(owner', jobs'[j]) /\ Knows(nowFaceToken', userId', library', jobs'[j])
    BY <1>2, <1>4 DEF Fresh
  <2>2. QED
    BY <2>1, Zenon DEF JobsKnow
<1>8. HeldRows'
  <2>1. Ended.place = "done"
    BY DEF Ended, Begin
  <2>2. QED
    BY <1>4, <2>1 DEF HeldRows
<1>9. LoginsHold' /\ Apart(table)'
  BY <1>1 DEF Lose, LoginsHold, Apart
<1>10. QED
  BY <1>6, <1>7, <1>8, <1>9 DEF FaceInv

----------------------------------------------------------------------------
(* Recognition *)

LEMMA RecogniseKeeps ==
    ASSUME FaceAssumption, FaceInv, Recognise
    PROVE  FaceInv'
<1>1. FaceTypeOK /\ Apart(table) /\ LoginsHold /\ FieldsTyped
  BY Fields DEF FaceInv
<1>2. /\ UNCHANGED <<owner, library, table, userId, person, sessionSound, canRecognize>>
      /\ jobs' = TokenOverwritten
      /\ \/ \E t \in library : /\ nowFaceToken' = t
                               /\ recognised' = t
                               /\ recognisedSound' = TRUE
         \/ /\ nowFaceToken' \in library \cup {0}
            /\ recognisedSound' = (recognisedSound /\ recognised = 0)
            /\ UNCHANGED recognised
  BY DEF Recognise, faces, sessions
<1>3. Marks(TokenOverwritten) /\ Lists(TokenOverwritten, 0, Ended)
  BY <1>1, <1>2, TokenMarks, ListSame
<1>4. \A i \in Jobs : Kept(TokenOverwritten[i])
  BY <1>1, <1>2, TokenKept
<1>5. FieldsTyped'
  BY <1>1, <1>2 DEF FieldsTyped
<1>6. LoginsHold'
  BY <1>1, <1>2 DEF LoginsHold
<1>7. OwnerGrows /\ RowsKept /\ Fresh(Ended)
  BY <1>1, <1>2, RowsShrink, EndedFresh DEF OwnerGrows
<1>8. QED
  BY <1>3, <1>4, <1>5, <1>6, <1>7, Advance

LEMMA QueryFaceTokenKeeps ==
    ASSUME FaceAssumption, FaceInv, queryFaceToken
    PROVE  FaceInv'
<1>1. FaceTypeOK /\ Apart(table) /\ LoginsHold /\ FieldsTyped
  BY Fields DEF FaceInv
<1>2. /\ UNCHANGED <<owner, library, table, nowFaceToken>>
      /\ recognised # 0 /\ recognised' = 0 /\ recognisedSound' = TRUE
  BY DEF queryFaceToken, faces
<1>3. OwnerGrows /\ RowsKept /\ Fresh(Ended)
  BY <1>1, <1>2, RowsShrink, EndedFresh DEF OwnerGrows
<1>4. CASE UNCHANGED <<userId, sessions, jobs>>
  <2>1. UNCHANGED <<userId, person, sessionSound, canRecognize, jobs>>
    BY <1>4 DEF sessions
  <2>2. Marks(jobs) /\ Lists(jobs, 0, Ended)
    BY <1>1, <2>1, JobsMark, ListSame
  <2>3. \A i \in Jobs : Kept(jobs[i])
    BY <1>2, <2>1 DEF Kept
  <2>4. FieldsTyped' /\ LoginsHold'
    BY <1>1, <1>2, <2>1 DEF FieldsTyped, LoginsHold
  <2>5. QED
    BY <1>3, <2>2, <2>3, <2>4, Advance
<1>5. ASSUME NEW r \in table, r.token = nowFaceToken, userId' = r.user,
             jobs' = UserOverwritten,
             \/ OpenSession(owner[recognised], canRecognize, recognisedSound /\ Right(r))
             \/ NoSession(canRecognize, SessionSpared)
      PROVE  FaceInv'
  <2>1. Marks(UserOverwritten) /\ Lists(UserOverwritten, 0, Ended)
    BY <1>1, <1>5, UserMarks, ListSame
  <2>2. \A i \in Jobs : Kept(UserOverwritten[i])
    BY <1>1, <1>2, UserKept
  <2>3. owner[recognised] \in User /\ Right(r) \in BOOLEAN /\ r.user \in User \cup {0}
    BY <1>1, <1>2 DEF FieldsTyped, Right, Row
  <2>4. person' \in User \cup {0} /\ sessionSound' \in BOOLEAN /\ canRecognize' \in BOOLEAN
    BY <1>1, <1>5, <2>3 DEF OpenSession, NoSession, SessionSpared, FieldsTyped
  <2>5. FieldsTyped'
    BY <1>1, <1>2, <1>5, <2>3, <2>4 DEF FieldsTyped
  <2>6. recognisedSound /\ Right(r) => owner[recognised] = r.user
    BY <1>1, <1>2, <1>5 DEF LoginsHold, Right
  <2>7. person' # 0 /\ sessionSound' => userId' = person'
    BY <1>5, <2>6 DEF OpenSession, NoSession, SessionSpared
  <2>8. LoginsHold'
    BY <1>2, <2>7 DEF LoginsHold
  <2>9. QED
    BY <1>3, <2>1, <2>2, <2>5, <2>8, Advance
<1>6. QED
  BY <1>4, <1>5 DEF queryFaceToken

----------------------------------------------------------------------------
(* The invariant *)

LEMMA JobStepsKeep ==
    ASSUME FaceAssumption, FaceInv, NEW j \in Jobs, JobStep(j)
    PROVE  FaceInv'
<1>1. CASE ClearFaces(j)
  BY <1>1, LoseKeeps DEF ClearFaces
<1>2. QED
  BY <1>1, DeleteFaceKeeps, DeleteRowKeeps, DownloadKeeps, InsertFeatureKeeps, NoFeatureKeeps,
     BindGroupKeeps, StoreTcpKeeps, StoreNowKeeps, StoreRegisteredKeeps,
     GoControlActivityKeeps, Zenon DEF JobStep

LEMMA NextKeeps ==
    ASSUME FaceAssumption, FaceInv, [FaceNext]_faceVars
    PROVE  FaceInv'
<1>1. ASSUME NEW user \in User,
             \/ QrReturn(user) \/ nearByFeatrueSend(user) \/ addFaceImage(user)
             \/ nfcActivity(user) \/ GQrReturn(user) \/ ScanLogin(user)
             \/ PhoneLogin(user)
      PROVE  FaceInv'
  <2>1. canRecognize \in BOOLEAN
    BY DEF FaceInv, FaceTypeOK
  <2>2. CASE nfcActivity(user) \/ GQrReturn(user) \/ ScanLogin(user)
    BY <2>1, <2>2, LogInKeeps DEF nfcActivity, GQrReturn, ScanLogin
  <2>3. CASE nearByFeatrueSend(user)
    BY <2>3, OtherMessageKeeps, Zenon
  <2>4. QED
    BY <1>1, <2>2, <2>3, QrReturnKeeps, AddFaceImageKeeps, PhoneLoginKeeps, Zenon
<1>2. ASSUME NEW j \in Jobs, JobStep(j)
      PROVE  FaceInv'
  BY <1>2, JobStepsKeep
<1>3. CASE deleteAllFace
  BY <1>3, OtherMessageKeeps, Zenon
<1>4. CASE Restart
  <2>1. library' = library /\ UNCHANGED <<owner, table>> /\ Lose
    BY <1>4 DEF Restart, faces
  <2>2. QED
    BY <2>1, LoseKeeps
<1>5. CASE UNCHANGED faceVars
  <2> USE DEF FaceInv, FaceTypeOK, JobsKnow, LoginsHold, Apart, HeldRows, Jobs
  <2> HIDE DEF Job, Row
  <2>1. QED
    BY <1>5 DEF faceVars
<1>6. QED
  BY <1>1, <1>2, <1>3, <1>4, <1>5, EndSessionKeeps, RegisterFaceKeeps, RecogniseKeeps,
     QueryFaceTokenKeeps, Zenon DEF FaceNext

LEMMA FaceInvariant == FaceSpec => []FaceInv
<1>1. FaceInit => FaceInv
  <2> SUFFICES ASSUME FaceInit PROVE FaceInv
    OBVIOUS
  <2>1. jobs = <<>> /\ Jobs = {} /\ owner = <<>> /\ DOMAIN owner = {} /\ table = {}
    BY DEF FaceInit, Jobs
  <2>2. FaceTypeOK
    BY <2>1, FaceAssumption DEF FaceInit, FaceTypeOK, FaceAssumption
  <2>3. JobsKnow /\ HeldRows /\ Apart(table)
    BY <2>1 DEF JobsKnow, HeldRows, Apart
  <2>4. LoginsHold
    BY DEF FaceInit, LoginsHold
  <2>5. QED
    BY <2>2, <2>3, <2>4 DEF FaceInv
<1>2. FaceInv /\ [FaceNext]_faceVars => FaceInv'
  BY FaceAssumption, NextKeeps
<1>3. QED
  BY <1>1, <1>2, PTL DEF FaceSpec

----------------------------------------------------------------------------
(* What a step does to the rows and to their faces *)

Store(j) == \/ StoreTcp(j) \/ StoreDownloaded(j) \/ StoreRegistered(j)
            \/ StoreInCatch(j) \/ FaceUploaded(j)

(* A row that a job is about to delete stays with that job.                *)
Holds == \A i \in Jobs : jobs[i].place = "delete" =>
            /\ i \in Jobs' /\ jobs'[i].place = "delete" /\ jobs'[i].row = jobs[i].row

LEMMA ListHolds ==
    ASSUME NEW known, NEW j, NEW b, Marks(known), Lists(known, j, b),
           j \in Jobs => jobs[j].place # "delete"
    PROVE  Holds
<1> SUFFICES ASSUME NEW i \in Jobs, jobs[i].place = "delete"
             PROVE  /\ i \in Jobs' /\ jobs'[i].place = "delete" /\ jobs'[i].row = jobs[i].row
  BY DEF Holds
<1>1. i # j /\ i \in DOMAIN jobs' /\ jobs'[i] = known[i]
  BY DEF Lists
<1>2. SameJob(known[i], jobs[i])
  BY DEF Marks
<1>3. QED
  BY <1>1, <1>2 DEF SameJob, Jobs

LEMMA GotoHolds ==
    ASSUME FaceInv, NEW j \in Jobs, NEW place \in Place, Goto(j, place),
           jobs[j].place # "delete"
    PROVE  Holds
<1>1. PICK b \in Job : Lists(jobs, j, b)
  BY GotoMoves
<1>2. Marks(jobs)
  BY JobsMark DEF FaceInv
<1>3. QED
  BY <1>1, <1>2, ListHolds

(* What is stored is right, and its face is in the library, unless the job *)
(* is misled.                                                              *)
LEMMA StoresRight ==
    ASSUME FaceAssumption, FaceInv, NEW j \in Jobs, Store(j)
    PROVE  /\ UNCHANGED <<owner, library>> /\ jobs'[j] # jobs[j] /\ Holds
           /\ \/ table' = table
              \/ Misled(j)
              \/ /\ jobs[j].token # 0 /\ jobs[j].user = owner[jobs[j].token]
                 /\ jobs[j].token \in library
                 /\ Stored(table', jobs[j].user, jobs[j].token)
<1>1. /\ jobs[j] \in Job /\ Fit(owner, jobs[j])
      /\ Knows(nowFaceToken, userId, library, jobs[j])
  BY JobFacts
<1>2. /\ FaceTypeOK /\ Apart(table) /\ MaxJobs \in Nat /\ table \subseteq Row
      /\ DOMAIN owner \subseteq Nat /\ nowFaceToken \in Nat /\ userId \in User \cup {0}
  BY DEF FaceInv, FaceTypeOK, FaceAssumption
<1>3. UNCHANGED <<owner, library>>
  BY DEF Store, StoreTcp, StoreDownloaded, StoreRegistered, StoreInCatch, FaceUploaded, faces
<1>4. jobs[j].place \in {"store", "exception"}
  <2>1. jobs[j].kind = "uploadFace" => jobs[j].place = "store"
    BY <1>1 DEF Fit
  <2>2. QED
    BY <2>1 DEF Store, StoreTcp, StoreDownloaded, StoreRegistered, StoreInCatch, FaceUploaded
<1>5. jobs'[j] # jobs[j] /\ Holds
  <2>1. CASE StoreRegistered(j)
    <3> DEFINE b == [jobs[j] EXCEPT !.kind = "uploadFace"]
    <3>1. jobs' = [jobs EXCEPT ![j] = b] /\ jobs[j].kind = "register"
      BY <2>1 DEF StoreRegistered
    <3>2. b \in Job /\ b.kind = "uploadFace"
      BY <1>1 DEF Job, Kind
    <3> HIDE DEF b
    <3>3. Marks(jobs) /\ Lists(jobs, j, b) /\ j \in DOMAIN jobs'
      BY <1>2, <3>1, <3>2, JobsMark, ListMove DEF Lists
    <3>4. jobs'[j] = b
      BY <3>3 DEF Lists
    <3>5. QED
      BY <1>4, <3>1, <3>2, <3>3, <3>4, ListHolds
  <2>2. ASSUME NEW place \in {"go", "done"}, Goto(j, place)
        PROVE  jobs'[j] # jobs[j] /\ Holds
    <3>1. place \in Place
      BY DEF Place
    <3>2. PICK b \in Job : /\ Lists(jobs, j, b)
                           /\ place = "done" => b = Ended
                           /\ place # "done" => b.place = place
      BY <2>2, <3>1, GotoMoves, Zenon
    <3>3. Ended.place = "done"
      BY DEF Ended, Begin
    <3>4. b.place = place
      BY <3>2, <3>3
    <3>5. jobs'[j] = b
      BY <3>2 DEF Lists
    <3>6. jobs'[j] # jobs[j]
      BY <1>4, <3>4, <3>5
    <3>7. QED
      BY <1>4, <2>2, <3>1, <3>6, GotoHolds
  <2>3. QED
    BY <2>1, <2>2 DEF Store, StoreTcp, StoreDownloaded, StoreInCatch, FaceUploaded
<1>6. SUFFICES ASSUME jobs[j].sound, jobs[j].place = "store", table' # table
               PROVE  /\ jobs[j].token # 0 /\ jobs[j].user = owner[jobs[j].token]
                      /\ jobs[j].token \in library
                      /\ Stored(table', jobs[j].user, jobs[j].token)
  BY <1>3, <1>4, <1>5 DEF Misled
<1>7. /\ jobs[j].token # 0 /\ jobs[j].user = owner[jobs[j].token]
      /\ jobs[j].token \in library
  BY <1>1, <1>6 DEF Fit, HasToken, Knows, Bound
<1>8. jobs[j].token \in Nat /\ jobs[j].user \in User \cup {0}
  BY <1>1 DEF Job
<1>9. CountsOnToken(jobs[j]) => nowFaceToken = jobs[j].token
  BY <1>1, <1>6 DEF Knows
<1>10. CountsOnUser(jobs[j]) => userId = jobs[j].user
  BY <1>1, <1>6 DEF Knows
<1>11. \/ insertUserIdAndFaceToken(jobs[j].user, jobs[j].token)
       \/ insertUserIdAndFaceTokenThread(jobs[j].user, jobs[j].token)
  <2>1. CASE StoreTcp(j)
    BY <1>6, <1>10, <2>1 DEF StoreTcp, CountsOnUser, Live
  <2>2. CASE StoreDownloaded(j)
    BY <1>6, <1>9, <2>2 DEF StoreDownloaded, CountsOnToken
  <2>3. CASE StoreRegistered(j)
    BY <1>6, <1>9, <1>10, <2>3 DEF StoreRegistered, CountsOnToken, CountsOnUser, Live
  <2>4. CASE FaceUploaded(j)
    BY <1>6, <1>9, <1>10, <2>4 DEF FaceUploaded, CountsOnToken, CountsOnUser, Live
  <2>5. CASE StoreInCatch(j)
    BY <1>6, <2>5 DEF StoreInCatch
  <2>6. QED
    BY <2>1, <2>2, <2>3, <2>4, <2>5 DEF Store
<1>12. QED
  BY <1>2, <1>7, <1>8, <1>11, InsertStores, InsertThreadStores

(* All other steps write no row and delete no face, but for four of them.  *)
LEMMA QuietSteps ==
    ASSUME FaceAssumption, FaceInv, [FaceNext]_faceVars
    PROVE  \/ /\ library \subseteq library' /\ Holds
              /\ table' = table \/ (deleteAllFace /\ table' = {})
           \/ \E j \in Jobs : \/ Store(j) \/ DeleteFace(j) \/ DeleteRow(j) \/ ClearFaces(j)
           \/ Restart
<1> DEFINE Quiet == /\ library \subseteq library' /\ Holds
                    /\ table' = table \/ (deleteAllFace /\ table' = {})
<1>1. FaceTypeOK /\ MaxJobs \in Nat /\ Marks(jobs) /\ Marks(UserOverwritten)
      /\ Marks(TokenOverwritten) /\ Len(jobs) + 1 \notin Jobs /\ 0 \notin Jobs
  BY JobsMark, UserMarks, TokenMarks, JobsAreJobs DEF FaceInv, FaceAssumption
<1>2. ASSUME NEW known, Marks(known), jobs' = known
      PROVE  Holds
  <2>1. Lists(known, 0, Ended)
    BY <1>1, <1>2, ListSame
  <2>2. QED
    BY <1>1, <1>2, <2>1, ListHolds
<1>3. ASSUME NEW known, Marks(known), NEW b, NewJob(known, b)
      PROVE  Holds
  <2> SUFFICES ASSUME NEW i \in Jobs, jobs[i].place = "delete"
               PROVE  /\ i \in Jobs' /\ jobs'[i].place = "delete" /\ jobs'[i].row = jobs[i].row
    BY DEF Holds
  <2>1. known \in Seq(Job) /\ Len(known) = Len(jobs) /\ jobs' = Append(known, b)
    BY <1>3 DEF Marks, NewJob
  <2>2. Len(jobs) \in Nat /\ i \in 1..Len(jobs)
    BY <1>1, JobsAreJobs
  <2> HIDE DEF Job
  <2>3. i \in DOMAIN jobs' /\ jobs'[i] = known[i]
    BY <2>1, <2>2
  <2>4. SameJob(known[i], jobs[i])
    BY <1>3 DEF Marks
  <2>5. QED
    BY <2>3, <2>4 DEF SameJob, Jobs
<1>4. ASSUME NEW user \in User,
             \/ QrReturn(user) \/ nearByFeatrueSend(user) \/ addFaceImage(user)
             \/ nfcActivity(user) \/ GQrReturn(user) \/ ScanLogin(user)
             \/ PhoneLogin(user)
      PROVE  Quiet
  <2>1. library' = library /\ table' = table
    BY <1>4 DEF QrReturn, nearByFeatrueSend, addFaceImage, nfcActivity, GQrReturn, ScanLogin, LogIn,
                PhoneLogin, faces
  <2>2. \/ jobs' = UserOverwritten
        \/ \E b \in {Begin("QrReturn", user, "find"), Ended, Begin("addFaceImage", user, "find"),
                     Begin("PhoneLogin", user, "go")} : NewJob(UserOverwritten, b)
        \/ NewJob(jobs, Begin("nearByFeatrueSend", user, "insert"))
    BY <1>4 DEF QrReturn, nearByFeatrueSend, addFaceImage, nfcActivity, GQrReturn, ScanLogin, LogIn,
                PhoneLogin
  <2>3. Holds
    BY <1>1, <1>2, <1>3, <2>2
  <2>4. QED
    BY <2>1, <2>3
<1>5. CASE deleteAllFace
  BY <1>1, <1>3, <1>5 DEF deleteAllFace, faces
<1>6. CASE EndSession \/ RegisterFace
  BY <1>1, <1>2, <1>3, <1>6 DEF EndSession, RegisterFace, faces
<1>7. CASE Recognise
  BY <1>1, <1>2, <1>7 DEF Recognise, faces
<1>8. CASE queryFaceToken
  BY <1>1, <1>2, <1>8 DEF queryFaceToken, faces
<1>9. CASE UNCHANGED faceVars
  BY <1>1, <1>2, <1>9 DEF faceVars
<1>10. ASSUME NEW j \in Jobs,
              \/ Download(j) \/ NoFeature(j) \/ BindGroup(j) \/ GoControlActivity(j)
       PROVE  Quiet
  <2>1. library \subseteq library' /\ table' = table
    BY <1>10 DEF Download, NoFeature, BindGroup, GoControlActivity, faces
  <2>2. PICK place : Goto(j, place) /\ place \in {"insert", "done", "exception", "find", "store"}
    BY <1>10 DEF Download, NoFeature, BindGroup, GoControlActivity, AfterBind
  <2>3. place \in Place /\ jobs[j].place # "delete"
    BY <1>10, <2>2 DEF Download, NoFeature, BindGroup, GoControlActivity, Place
  <2>4. QED
    BY <2>1, <2>2, <2>3, GotoHolds
<1>11. ASSUME NEW j \in Jobs, InsertFeature(j)
       PROVE  Quiet
  <2>1. UNCHANGED <<library, table>> /\ jobs[j].place = "insert"
    BY <1>11 DEF InsertFeature
  <2>2. PICK known \in {jobs, TokenOverwritten} :
           jobs' = [known EXCEPT ![j] = [known[j] EXCEPT !.place = "bind", !.token = Len(owner) + 1]]
    BY <1>11 DEF InsertFeature
  <2>3. Marks(known)
    BY <1>1, <2>2
  <2>4. \A i \in Jobs : i # j => i \in DOMAIN jobs' /\ jobs'[i] = known[i]
    BY <2>2, <2>3 DEF Marks
  <2>5. Holds
    BY <2>1, <2>3, <2>4 DEF Holds, Marks, SameJob, Jobs
  <2>6. QED
    BY <2>1, <2>5
<1>12. ASSUME NEW j \in Jobs, JobStep(j)
       PROVE  Quiet \/ Store(j) \/ DeleteFace(j) \/ DeleteRow(j) \/ ClearFaces(j)
  <2> HIDE DEF Quiet
  <2>1. QED
    BY <1>10, <1>11, <1>12, Zenon DEF JobStep, Store
<1> HIDE DEF Quiet
<1>13. Quiet \/ (\E j \in Jobs : Store(j) \/ DeleteFace(j) \/ DeleteRow(j) \/ ClearFaces(j))
       \/ Restart
  <2>1. CASE deleteAllFace
    BY <1>5, <2>1 DEF Quiet
  <2>2. CASE EndSession \/ RegisterFace
    BY <1>6, <2>2 DEF Quiet
  <2>3. CASE Recognise \/ queryFaceToken \/ UNCHANGED faceVars
    BY <1>7, <1>8, <1>9, <2>3 DEF Quiet
  <2>4. QED
    BY <1>4, <1>12, <2>1, <2>2, <2>3, Zenon DEF FaceNext
<1>14. QED
  BY <1>13 DEF Quiet

(* The face that is deleted is of a row that the job then holds.           *)
LEMMA FaceIsHeld ==
    ASSUME FaceInv, NEW j \in Jobs, DeleteFace(j)
    PROVE  /\ UNCHANGED table /\ Holds
           /\ \A r \in table : r.token \in library /\ r.token \notin library' =>
                 \E i \in Jobs' : jobs'[i].place = "delete" /\ jobs'[i].row = r.id
<1>1. FaceTypeOK /\ Apart(table) /\ Len(jobs) \in Nat
  BY JobsAreJobs DEF FaceInv
<1>2. table' = table /\ jobs[j].place = "find"
  BY DEF DeleteFace
<1>3. CASE Goto(j, AfterDelete(j)) /\ UNCHANGED library
  <2>1. AfterDelete(j) \in Place
    BY DEF AfterDelete, Place
  <2>2. Holds
    BY <1>2, <1>3, <2>1, GotoHolds
  <2>3. QED
    BY <1>2, <1>3, <2>2
<1>4. ASSUME NEW q \in RowsOf(Subject(j)), library' = library \ {q.token},
             jobs' = [FaceDeleted(q.token) EXCEPT ![j].place = "delete", ![j].row = q.id]
      PROVE  /\ Holds
             /\ \A r \in table : r.token \in library /\ r.token \notin library' =>
                   \E i \in Jobs' : jobs'[i].place = "delete" /\ jobs'[i].row = r.id
  <2> DEFINE known == FaceDeleted(q.token)
             b == [known[j] EXCEPT !.place = "delete", !.row = q.id]
  <2>1. q \in table /\ q.id \in Nat
    BY <1>1 DEF RowsOf, FaceTypeOK, Row
  <2>2. Marks(known)
    BY <1>1, FaceMarks
  <2>3. known[j] \in Job
    BY <2>2 DEF Marks
  <2>4. b \in Job /\ b.place = "delete" /\ b.row = q.id
    BY <2>1, <2>3 DEF Job, Place
  <2>5. jobs' = [known EXCEPT ![j] = b]
    BY <1>4
  <2> HIDE DEF known, b
  <2>6. Lists(known, j, b)
    BY <1>1, <2>2, <2>4, <2>5, ListMove
  <2>7. Holds
    BY <1>2, <2>2, <2>6, ListHolds
  <2>8. j \in Jobs' /\ jobs'[j] = b
    BY <2>6 DEF Lists, Jobs
  <2>9. \A r \in table : r.token \in library /\ r.token \notin library' => r.id = q.id
    BY <1>1, <1>4, <2>1 DEF Apart
  <2>10. QED
    BY <2>4, <2>7, <2>8, <2>9
<1>5. QED
  BY <1>2, <1>3, <1>4 DEF DeleteFace

LEMMA RowIsDeleted ==
    ASSUME FaceInv, NEW j \in Jobs, DeleteRow(j)
    PROVE  /\ jobs[j].place = "delete" /\ jobs'[j] # jobs[j]
           /\ table' = {r \in table : r.id # jobs[j].row} /\ library' = library
           /\ \A i \in Jobs : i # j => i \in Jobs' /\ jobs'[i] = jobs[i]
<1>1. jobs[j] \in Job /\ jobs[j].place = "delete"
  BY JobFacts DEF DeleteRow
<1>2. FaceTypeOK /\ Marks(jobs)
  BY JobsMark DEF FaceInv
<1> DEFINE b == [jobs[j] EXCEPT !.place = AfterDelete(j), !.row = 0]
<1>3. jobs' = [jobs EXCEPT ![j] = b]
  BY DEF DeleteRow
<1>4. AfterDelete(j) \in {"insert", "download", "store"}
  BY DEF AfterDelete
<1>5. b \in Job /\ b.place # "delete"
  BY <1>1, <1>4 DEF Job, Place
<1> HIDE DEF b
<1>6. Lists(jobs, j, b)
  BY <1>2, <1>3, <1>5, ListMove
<1>7. jobs'[j] = b /\ \A i \in Jobs : i # j => i \in Jobs' /\ jobs'[i] = jobs[i]
  BY <1>6 DEF Lists, Jobs
<1>8. QED
  BY <1>1, <1>5, <1>7 DEF DeleteRow, faces

(* A restart ends every job.                                               *)
LEMMA JobsAreLost ==
    ASSUME FaceInv, Lose
    PROVE  \A j \in Jobs : jobs'[j].place = "done"
<1>1. jobs' = [j \in Jobs |-> Ended] /\ Ended.place = "done"
  BY DEF Lose, Ended, Begin
<1> HIDE DEF Ended
<1>2. QED
  BY <1>1

----------------------------------------------------------------------------
(* Theorems *)

(* Every variable keeps its type, whatever overwrites what: in particular  *)
(* a row, a recognition and the library only ever name tokens that exist.  *)
THEOREM FaceTypeCorrect == FaceSpec => []FaceTypeOK
<1>1. FaceInv => FaceTypeOK
  BY DEF FaceInv
<1>2. QED
  BY <1>1, FaceInvariant, PTL

(* The user that is logged in is the one at the station, for a face, a     *)
(* code, the scanner or the phone, unless userId has been written since or *)
(* this very login went by an overwritten field: the mistake of one        *)
(* session does not reach the next.                                        *)
THEOREM LoginsAreRight == FaceSpec => []FaceLogsInItsOwner
<1>1. FaceInv => FaceLogsInItsOwner
  BY DEF FaceInv, LoginsHold, FaceLogsInItsOwner
<1>2. QED
  BY <1>1, FaceInvariant, PTL

(* A job that stores a row stores the token of its own user, unless a      *)
(* field it counts on was overwritten, or it failed: no other job, login   *)
(* or recognition, and no earlier mistake, makes its row wrong.            *)
THEOREM RowsAreRight == FaceSpec => RowsNameTheOwner
<1> DEFINE A == \A r \in table' \ table : Right(r)' \/ \E j \in Jobs : Misled(j)
<1>1. ASSUME FaceInv, [FaceNext]_faceVars
      PROVE  A
  <2>1. CASE table' \subseteq table
    BY <2>1
  <2>2. ASSUME NEW j \in Jobs, Store(j)
        PROVE  A
    <3>1. CASE table' = table \/ Misled(j)
      BY <3>1
    <3>2. CASE /\ jobs[j].token # 0 /\ jobs[j].user = owner[jobs[j].token]
               /\ Stored(table', jobs[j].user, jobs[j].token) /\ owner' = owner
      <4>1. \A r \in table' \ table : r.user = jobs[j].user /\ r.token = jobs[j].token
        BY <3>2 DEF Stored
      <4>2. QED
        BY <3>2, <4>1 DEF Right
    <3>3. QED
      BY <1>1, <2>2, <3>1, <3>2, FaceAssumption, StoresRight
  <2>3. ASSUME NEW j \in Jobs, DeleteFace(j) \/ DeleteRow(j) \/ ClearFaces(j)
        PROVE  table' \subseteq table
    BY <2>3 DEF DeleteFace, DeleteRow, ClearFaces
  <2>4. CASE Restart
    BY <2>1, <2>4 DEF Restart
  <2> HIDE DEF A
  <2>5. QED
    BY <1>1, <2>1, <2>2, <2>3, <2>4, FaceAssumption, QuietSteps
<1>2. FaceInv /\ [FaceNext]_faceVars => [A]_faceVars
  BY <1>1
<1>3. QED
  BY <1>2, FaceInvariant, PTL DEF FaceSpec, RowsNameTheOwner

(* insertOrReplace and the deletes take a right row away only for its own  *)
(* user, by deleteAllFace, or in a job that is misled itself: another      *)
(* user's sound job never does, whatever its order with the others.        *)
THEOREM RowsStayWithTheirUser == FaceSpec => RowsGoForTheirUser
<1> DEFINE All == Len(jobs') > Len(jobs) /\ jobs'[Len(jobs')].kind = "deleteAllFace"
           A == \A r \in table \ table' : Right(r) =>
                   \/ Len(jobs') > Len(jobs) /\ jobs'[Len(jobs')].kind = "deleteAllFace"
                   \/ \E j \in Jobs :
                         Misled(j) \/ (jobs'[j] # jobs[j] /\ jobs[j].user = r.user)
<1>1. ASSUME FaceInv, [FaceNext]_faceVars
      PROVE  A
  <2>1. CASE table' = table
    BY <2>1
  <2>2. ASSUME NEW j \in Jobs, Store(j)
        PROVE  A
    <3>1. CASE table' = table
      BY <3>1
    <3>2. CASE Misled(j)
      BY <3>2
    <3>3. CASE /\ jobs[j].token # 0 /\ jobs[j].user = owner[jobs[j].token]
               /\ Stored(table', jobs[j].user, jobs[j].token) /\ jobs'[j] # jobs[j]
      <4> SUFFICES ASSUME NEW r \in table \ table', Right(r)
                   PROVE  jobs[j].user = r.user
        BY <3>3
      <4>1. r.user = jobs[j].user \/ r.token = jobs[j].token
        BY <3>3 DEF Stored
      <4>2. QED
        BY <3>3, <4>1 DEF Right
    <3>4. QED
      BY <1>1, <2>2, <3>1, <3>2, <3>3, FaceAssumption, StoresRight
  <2>3. ASSUME NEW j \in Jobs, DeleteRow(j)
        PROVE  A
    <3> SUFFICES ASSUME NEW r \in table \ table', jobs[j].sound
                 PROVE  jobs'[j] # jobs[j] /\ jobs[j].user = r.user
      BY <1>1, <2>3, RowIsDeleted DEF Misled
    <3>1. /\ jobs[j].place = "delete" /\ jobs'[j] # jobs[j]
          /\ table' = {q \in table : q.id # jobs[j].row}
      BY <1>1, <2>3, RowIsDeleted
    <3>2. r \in table /\ r.id = jobs[j].row
      BY <3>1
    <3>3. QED
      BY <1>1, <3>1, <3>2 DEF FaceInv, HeldRows
  <2>4. CASE deleteAllFace
    <3>1. NewJob(jobs, Begin("deleteAllFace", 0, "clear"))
      BY <2>4 DEF deleteAllFace
    <3>2. Begin("deleteAllFace", 0, "clear").kind = "deleteAllFace"
      BY DEF Begin
    <3> DEFINE b == Begin("deleteAllFace", 0, "clear")
    <3>3. jobs' = Append(jobs, b) /\ b.kind = "deleteAllFace"
      BY <3>1, <3>2 DEF NewJob
    <3>4. jobs \in Seq(Job) /\ Len(jobs) \in Nat
      BY <1>1, JobsAreJobs DEF FaceInv
    <3> HIDE DEF b, Job
    <3>5. Len(jobs') = Len(jobs) + 1 /\ jobs'[Len(jobs) + 1] = b
      BY <3>3, <3>4
    <3>6. All
      BY <3>3, <3>4, <3>5
    <3>7. QED
      BY <3>6
  <2>5. ASSUME NEW j \in Jobs, DeleteFace(j) \/ ClearFaces(j)
        PROVE  table' = table
    BY <2>5 DEF DeleteFace, ClearFaces
  <2>6. CASE Restart
    BY <2>1, <2>6 DEF Restart
  <2> HIDE DEF A
  <2>7. QED
    BY <1>1, <2>1, <2>2, <2>3, <2>4, <2>5, <2>6, FaceAssumption, QuietSteps
<1>2. FaceInv /\ [FaceNext]_faceVars => [A]_faceVars
  BY <1>1
<1>3. QED
  BY <1>2, FaceInvariant, PTL DEF FaceSpec, RowsGoForTheirUser

(* Library and table stay together: a row whose face is gone, and that no  *)
(* job is about to delete, comes only from a job that is misled or from a  *)
(* restart in the middle of a deletion.                                    *)
THEOREM RowsHaveTheirFace == FaceSpec => RowsKeepTheirFace
<1> DEFINE Cut == \E j \in Jobs : \/ Misled(j)
                                  \/ /\ jobs[j].place \in {"delete", "clear"}
                                     /\ jobs'[j].place = "done"
           A == \A r \in table' : Faceless(r)' /\ ~ (r \in table /\ Faceless(r)) =>
                   \E j \in Jobs :
                      \/ Misled(j)
                      \/ jobs[j].place \in {"delete", "clear"} /\ jobs'[j].place = "done"
<1>1. ASSUME FaceInv, [FaceNext]_faceVars
      PROVE  A
  <2>1. ASSUME NEW r \in table, Holds, r.token \notin library, Faceless(r)'
        PROVE  Faceless(r)
    BY <2>1 DEF Holds, Faceless
  <2>2. ASSUME Holds, library \subseteq library', table' \subseteq table
        PROVE  A
    BY <2>1, <2>2 DEF Faceless
  <2>3. ASSUME NEW j \in Jobs, Store(j)
        PROVE  A
    <3>1. /\ UNCHANGED <<owner, library>> /\ Holds
          /\ \/ table' = table
             \/ Misled(j)
             \/ /\ jobs[j].token \in library
                /\ Stored(table', jobs[j].user, jobs[j].token)
      BY <1>1, <2>3, FaceAssumption, StoresRight
    <3>2. CASE table' = table
      BY <2>2, <3>1, <3>2
    <3>3. CASE Misled(j)
      BY <3>3
    <3>4. CASE /\ jobs[j].token \in library
               /\ Stored(table', jobs[j].user, jobs[j].token)
      <4> SUFFICES ASSUME NEW r \in table', Faceless(r)'
                   PROVE  r \in table /\ Faceless(r)
        OBVIOUS
      <4>1. r.token \notin library
        BY <3>1 DEF Faceless
      <4>2. r \in table
        BY <3>4, <4>1 DEF Stored
      <4>3. QED
        BY <2>1, <3>1, <4>1, <4>2
    <3>5. QED
      BY <3>1, <3>2, <3>3, <3>4
  <2>4. ASSUME NEW j \in Jobs, DeleteFace(j)
        PROVE  A
    <3>1. /\ table' = table /\ Holds
          /\ \A r \in table : r.token \in library /\ r.token \notin library' =>
                \E i \in Jobs' : jobs'[i].place = "delete" /\ jobs'[i].row = r.id
      BY <1>1, <2>4, FaceIsHeld
    <3> SUFFICES ASSUME NEW r \in table, Faceless(r)'
                 PROVE  Faceless(r)
      BY <3>1
    <3>2. r.token \notin library'
      BY DEF Faceless
    <3>3. \A i \in Jobs' : jobs'[i].place = "delete" => jobs'[i].row # r.id
      BY Zenon DEF Faceless
    <3>4. r.token \notin library
      BY <3>1, <3>2, <3>3
    <3>5. QED
      BY <2>1, <3>1, <3>4
  <2>5. ASSUME NEW j \in Jobs, DeleteRow(j)
        PROVE  A
    <3>1. /\ jobs[j].place = "delete"
          /\ table' = {r \in table : r.id # jobs[j].row} /\ library' = library
          /\ \A i \in Jobs : i # j => i \in Jobs' /\ jobs'[i] = jobs[i]
      BY <1>1, <2>5, RowIsDeleted
    <3> SUFFICES ASSUME NEW r \in table', Faceless(r)'
                 PROVE  r \in table /\ Faceless(r)
      OBVIOUS
    <3>2. r \in table /\ r.id # jobs[j].row
      BY <3>1
    <3>3. \A i \in Jobs' : jobs'[i].place = "delete" => jobs'[i].row # r.id
      BY Zenon DEF Faceless
    <3>4. r.token \notin library
      BY <3>1 DEF Faceless
    <3>5. \A i \in Jobs : jobs[i].place = "delete" => jobs[i].row # r.id
      BY <3>1, <3>2, <3>3
    <3>6. QED
      BY <3>2, <3>4, <3>5 DEF Faceless
  <2>6. ASSUME NEW j \in Jobs, ClearFaces(j)
        PROVE  A
    <3>1. jobs'[j].place = "done" /\ jobs[j].place = "clear"
      BY <1>1, <2>6, JobsAreLost DEF ClearFaces
    <3>2. QED
      BY <3>1
  <2>7. CASE Restart
    <3>1. /\ UNCHANGED <<library, table>>
          /\ \A j \in Jobs : jobs'[j].place = "done"
      BY <1>1, <2>7, JobsAreLost DEF Restart, faces
    <3> SUFFICES ASSUME NEW r \in table', Faceless(r)', ~ Cut
                 PROVE  r \in table /\ Faceless(r)
      OBVIOUS
    <3>2. \A j \in Jobs : jobs[j].place # "delete"
      BY <3>1
    <3>3. QED
      BY <3>1, <3>2 DEF Faceless
  <2> HIDE DEF A
  <2>8. ASSUME library \subseteq library', Holds,
               table' = table \/ (deleteAllFace /\ table' = {})
        PROVE  A
    BY <2>2, <2>8
  <2>9. QED
    BY <1>1, <2>3, <2>4, <2>5, <2>6, <2>7, <2>8, FaceAssumption, QuietSteps
<1>2. FaceInv /\ [FaceNext]_faceVars => [A]_faceVars
  BY <1>1
<1>3. QED
  BY <1>2, FaceInvariant, PTL DEF FaceSpec, RowsKeepTheirFace

=============================================================================
