------------------------------ MODULE FileStore ------------------------------
(***************************************************************************)
(* What the handlers of api/ do to the stores of picBed.  The tables        *)
(* user_file_list, file_info and share_file_list are in MySQL, counters,    *)
(* ranking and names in redis, the contents in FastDFS.  No handler uses a  *)
(* transaction, so a call that fails and a crash leave what was done.       *)
(*                                                                          *)
(* The event loop executes one request at a time: req is that request and   *)
(* the call it does next.  A login runs on a thread of the pool meanwhile.  *)
(*                                                                          *)
(* Shared pictures, which also count as references to a content, are added  *)
(* by PictureStore.                                                         *)
(*                                                                         *)
(* A file stands for its md5 and its name: every user names a content in    *)
(* the same way.  Numbers of downloads and tokens are left out; a value a   *)
(* query returns with NULL, which the handlers dereference, is a Crash.     *)
(***************************************************************************)
EXTENDS Integers, FiniteSets

CONSTANTS
  Users,        \* accounts
  Files,        \* contents with their names
  Ids,          \* the identities FastDFS gives to what it stores
  Copies,       \* tells rows apart that are equal in all their columns
  MaxTrouble,   \* bound on the calls that fail and the crashes together
  UploadOnce,   \* a content is uploaded only while file_info has no row of it
  OwnOnly       \* a user shares and deletes only what is in his list

ASSUME BoundsAssumption ==
  MaxTrouble \in Nat /\ UploadOnce \in BOOLEAN /\ OwnOnly \in BOOLEAN

VARIABLES
  list,         \* rows of user_file_list
  info,         \* rows of file_info
  shares,       \* rows of share_file_list
  stored,       \* contents in FastDFS
  ranked,       \* members of FILE_PUBLIC_ZSET
  named,        \* fields of FILE_NAME_HASH
  publicCount,  \* FILE_PUBLIC_COUNT
  userCount,    \* FILE_USER_COUNT of every user
  req,          \* the request the event loop executes
  logins,       \* per user, the number of files a login has read, or -1
  forgotten,    \* files whose row of file_info could not be deleted
  faults,       \* calls that have failed
  crashes       \* crashes that have happened

redis   == <<ranked, named, publicCount, userCount>>
tables  == <<list, info, shares>>
others  == <<logins, forgotten, crashes>>
vars    == <<tables, stored, redis, req, others, faults>>

Rows(u, f)  == {r \in list : r.user = u /\ r.file = f}
RowsOf(f)   == {r \in list : r.file = f}
FilesOf(u)  == {r \in list : r.user = u}
InfoOf(f)   == {i \in info : i.file = f}
SharesOf(f) == {s \in shares : s.file = f}
Shared      == {s.file : s \in shares}
UsedIds     == stored \union {i.id : i \in info}

NoReq == [at |-> "idle"]
At(step)    == req.at = step
Go(step)    == req' = [req EXCEPT !.at = step]
Answer      == req' = NoReq

\* A call to a store works, or fails and the handler learns of it.
Fails       == faults + crashes < MaxTrouble /\ faults' = faults + 1
Do(ok, bad) == (UNCHANGED faults /\ ok) \/ (Fails /\ bad)

Init ==
  /\ list = {} /\ info = {} /\ shares = {} /\ stored = {}
  /\ ranked = {} /\ named = {}
  /\ publicCount = 0 /\ userCount = [u \in Users |-> 0]
  /\ req = NoReq
  /\ logins = [u \in Users |-> -1]
  /\ forgotten = {} /\ faults = 0 /\ crashes = 0

------------------------------------------------------------------------------
(* Statements on the tables that several handlers use *)

Fresh(S) == {k \in Copies : \A r \in S : r.copy # k}

InsertRow(u, f) ==
  \E k \in Fresh(Rows(u, f)) :
    list' = list \union {[user |-> u, file |-> f, copy |-> k, shared |-> FALSE]}

MarkShared(u, f, status) ==
  list' = {IF r \in Rows(u, f) THEN [r EXCEPT !.shared = status] ELSE r : r \in list}

SetCounts(f, n) ==
  info' = {IF i.file = f THEN [i EXCEPT !.count = n] ELSE i : i \in info}

DeleteShares(u, f) == shares' = {s \in shares : ~(s.user = u /\ s.file = f)}

\* CacheDecrCount: a counter below zero is set to zero by a second call.
DecrPublic(floor, next) ==
  Do(/\ publicCount' = publicCount - 1
     /\ IF publicCount <= 0 THEN Go(floor) ELSE Go(next),
     UNCHANGED publicCount /\ Answer)

FloorPublic(next) ==
  Do(publicCount' = 0 /\ Go(next), UNCHANGED publicCount /\ Answer)

------------------------------------------------------------------------------
(* api/api_md5.cc: a user gets a file that the server already has *)

Md5Refs ==
  /\ At("md5_refs")
  /\ \/ \E i \in InfoOf(req.file) :
          req' = [req EXCEPT !.at = "md5_own", !.n = i.count]
     \/ InfoOf(req.file) = {} /\ Answer
  /\ UNCHANGED <<tables, stored, redis, others, faults>>

\* A query that fails counts as a user without the file.
Md5Own ==
  /\ At("md5_own")
  /\ Do(IF Rows(req.user, req.file) # {} THEN Answer ELSE Go("md5_update"),
        Go("md5_update"))
  /\ UNCHANGED <<tables, stored, redis, others>>

\* Mutant: md5 goes on when the count could not be raised.
Md5Update_Ignored ==
  /\ At("md5_update")
  /\ Do(SetCounts(req.file, req.n + 1), UNCHANGED info)
  /\ Go("md5_insert")
  /\ UNCHANGED <<list, shares, stored, redis, others>>

Md5Update ==
  /\ At("md5_update")
  /\ Do(SetCounts(req.file, req.n + 1) /\ Go("md5_insert"), UNCHANGED info /\ Answer)
  /\ UNCHANGED <<list, shares, stored, redis, others>>

Md5Insert ==
  /\ At("md5_insert")
  /\ Do(InsertRow(req.user, req.file) /\ Go("count_up"),
        UNCHANGED list /\ Go("md5_restore"))
  /\ UNCHANGED <<info, shares, stored, redis, others>>

Md5Restore ==
  /\ At("md5_restore")
  /\ Do(SetCounts(req.file, req.n), UNCHANGED info)
  /\ Answer
  /\ UNCHANGED <<list, shares, stored, redis, others>>

\* md5 ignores a failure and save does not, but both have ended.
CountUp ==
  /\ At("count_up")
  /\ Do(userCount' = [userCount EXCEPT ![req.user] = @ + 1], UNCHANGED userCount)
  /\ Answer
  /\ UNCHANGED <<tables, stored, ranked, named, publicCount, others>>

handleDealMd5 == Md5Refs \/ Md5Own \/ Md5Update \/ Md5Insert \/ Md5Restore \/ CountUp

------------------------------------------------------------------------------
(* api/api_upload.cc: a user sends the content of a file *)

UploadStore ==
  /\ At("up_store")
  /\ Do(\E d \in Ids \ UsedIds :
          /\ stored' = stored \union {d}
          /\ req' = [req EXCEPT !.at = "up_info", !.id = d],
        UNCHANGED stored /\ Answer)
  /\ UNCHANGED <<tables, redis, others>>

\* Mutant: a new row of file_info gets the default of the schema, zero.
UploadInfo_Zero ==
  /\ At("up_info")
  /\ Do(/\ info' = info \union {[id |-> req.id, file |-> req.file, count |-> 0]}
        /\ Go("up_list"),
        UNCHANGED info /\ Answer)
  /\ UNCHANGED <<list, shares, stored, redis, others>>

UploadInfo ==
  /\ At("up_info")
  /\ Do(/\ info' = info \union {[id |-> req.id, file |-> req.file, count |-> 1]}
        /\ Go("up_list"),
        UNCHANGED info /\ Answer)
  /\ UNCHANGED <<list, shares, stored, redis, others>>

\* The key that is incremented afterwards is the name of the user: no counter.
UploadList ==
  /\ At("up_list")
  /\ Do(InsertRow(req.user, req.file), UNCHANGED list)
  /\ Answer
  /\ UNCHANGED <<info, shares, stored, redis, others>>

ApiUpload == UploadStore \/ UploadInfo \/ UploadList

------------------------------------------------------------------------------
(* handleShareFile of api/api_dealfile.cc *)

ShareZset ==
  /\ At("share_zset")
  /\ Do(IF req.file \in ranked THEN Answer ELSE Go("share_row"), Answer)
  /\ UNCHANGED <<tables, stored, redis, others>>

\* Mutant: the ranking alone says whether a file is shared.
ShareRow_Skipped ==
  /\ At("share_row")
  /\ Go("share_mark")
  /\ UNCHANGED <<tables, stored, redis, others, faults>>

\* A query that fails counts as a file that is not shared.
ShareRow ==
  /\ At("share_row")
  /\ Do(IF SharesOf(req.file) # {} THEN Go("zset_in") ELSE Go("share_mark"),
        Go("share_mark"))
  /\ UNCHANGED <<tables, stored, redis, others>>

ShareMark ==
  /\ At("share_mark")
  /\ Do(MarkShared(req.user, req.file, TRUE) /\ Go("share_insert"),
        UNCHANGED list /\ Answer)
  /\ UNCHANGED <<info, shares, stored, redis, others>>

ShareInsert ==
  /\ At("share_insert")
  /\ Do(/\ \E k \in Fresh({s \in SharesOf(req.file) : s.user = req.user}) :
             shares' = shares \union {[user |-> req.user, file |-> req.file, copy |-> k]}
        /\ Go("share_count"),
        UNCHANGED shares /\ Answer)
  /\ UNCHANGED <<list, info, stored, redis, others>>

ShareCount ==
  /\ At("share_count")
  /\ Do(publicCount' = publicCount + 1 /\ Go("zset_in"),
        UNCHANGED publicCount /\ Answer)
  /\ UNCHANGED <<tables, stored, ranked, named, userCount, others>>

ZsetAdd ==
  /\ At("zset_in")
  /\ Do(ranked' = ranked \union {req.file}, UNCHANGED ranked)
  /\ Go("hash_in")
  /\ UNCHANGED <<tables, stored, named, publicCount, userCount, others>>

Hset ==
  /\ At("hash_in")
  /\ Do(named' = named \union {req.file}, UNCHANGED named)
  /\ Answer
  /\ UNCHANGED <<tables, stored, ranked, publicCount, userCount, others>>

handleShareFile ==
  ShareZset \/ ShareRow \/ ShareMark \/ ShareInsert \/ ShareCount \/ ZsetAdd \/ Hset

------------------------------------------------------------------------------
(* handleDeleteFile of api/api_dealfile.cc *)

DeleteZset ==
  /\ At("del_zset")
  /\ Do(IF req.file \in ranked
        THEN req' = [req EXCEPT !.at = "del_share", !.both = TRUE]
        ELSE Go("del_status"),
        Answer)
  /\ UNCHANGED <<tables, stored, redis, others>>

DeleteStatus ==
  /\ At("del_status")
  /\ \/ \E r \in Rows(req.user, req.file) :
          IF r.shared THEN Go("del_share") ELSE Go("del_count")
     \/ Rows(req.user, req.file) = {} /\ Go("del_count")
  /\ UNCHANGED <<tables, stored, redis, others, faults>>

DeleteShare ==
  /\ At("del_share")
  /\ Do(DeleteShares(req.user, req.file) /\ Go("del_public"),
        UNCHANGED shares /\ Answer)
  /\ UNCHANGED <<list, info, stored, redis, others>>

AfterDeletePublic == IF req.both THEN "del_rank" ELSE "del_count"

DeletePublic ==
  /\ \/ At("del_public") /\ DecrPublic("del_public_floor", AfterDeletePublic)
     \/ At("del_public_floor") /\ FloorPublic(AfterDeletePublic)
  /\ UNCHANGED <<tables, stored, ranked, named, userCount, others>>

DeleteRank ==
  /\ \/ /\ At("del_rank")
        /\ Do(ranked' = ranked \ {req.file}, UNCHANGED ranked)
        /\ Go("del_name") /\ UNCHANGED named
     \/ /\ At("del_name")
        /\ Do(named' = named \ {req.file}, UNCHANGED named)
        /\ Go("del_count") /\ UNCHANGED ranked
  /\ UNCHANGED <<tables, stored, publicCount, userCount, others>>

\* Mutant: nothing lifts a counter that went below zero.
DeleteCount_NoFloor ==
  /\ At("del_count")
  /\ Do(userCount' = [userCount EXCEPT ![req.user] = @ - 1] /\ Go("del_list"),
        UNCHANGED userCount /\ Answer)
  /\ UNCHANGED <<tables, stored, ranked, named, publicCount, others>>

DeleteCount ==
  /\ \/ /\ At("del_count")
        /\ Do(/\ userCount' = [userCount EXCEPT ![req.user] = @ - 1]
              /\ IF userCount[req.user] <= 0 THEN Go("del_count_floor") ELSE Go("del_list"),
              UNCHANGED userCount /\ Answer)
     \/ /\ At("del_count_floor")
        /\ Do(userCount' = [userCount EXCEPT ![req.user] = 0] /\ Go("del_list"),
              UNCHANGED userCount /\ Answer)
  /\ UNCHANGED <<tables, stored, ranked, named, publicCount, others>>

DeleteList ==
  /\ At("del_list")
  /\ Do(list' = list \ Rows(req.user, req.file) /\ Go("del_refs"),
        UNCHANGED list /\ Answer)
  /\ UNCHANGED <<info, shares, stored, redis, others>>

DeleteRefs ==
  /\ At("del_refs")
  /\ \/ \E i \in InfoOf(req.file) :
          IF i.count > 0 THEN req' = [req EXCEPT !.at = "del_update", !.n = i.count - 1]
                         ELSE Go("del_id")
     \/ InfoOf(req.file) = {} /\ Answer
  /\ UNCHANGED <<tables, stored, redis, others, faults>>

\* Mutant: the last owner but one takes the content with him.
DeleteUpdate_Early ==
  /\ At("del_update")
  /\ Do(/\ SetCounts(req.file, req.n)
        /\ IF req.n <= 1 THEN Go("del_id") ELSE Answer,
        UNCHANGED info /\ Answer)
  /\ UNCHANGED <<list, shares, stored, redis, others>>

DeleteUpdate ==
  /\ At("del_update")
  /\ Do(/\ SetCounts(req.file, req.n)
        /\ IF req.n = 0 THEN Go("del_id") ELSE Answer,
        UNCHANGED info /\ Answer)
  /\ UNCHANGED <<list, shares, stored, redis, others>>

DeleteId ==
  /\ At("del_id")
  /\ \E i \in InfoOf(req.file) : req' = [req EXCEPT !.at = "del_info", !.id = i.id]
  /\ UNCHANGED <<tables, stored, redis, others, faults>>

\* A failure is only logged: the content is removed in either case.
DeleteInfo ==
  /\ At("del_info")
  /\ Do(info' = info \ InfoOf(req.file) /\ UNCHANGED forgotten,
        UNCHANGED info /\ forgotten' = forgotten \union {req.file})
  /\ Go("del_file")
  /\ UNCHANGED <<list, shares, stored, redis, logins, crashes>>

RemoveFileFromFastDfs ==
  /\ At("del_file")
  /\ Do(stored' = stored \ {req.id}, UNCHANGED stored)
  /\ Answer
  /\ UNCHANGED <<tables, redis, others>>

handleDeleteFile ==
  \/ DeleteZset \/ DeleteStatus \/ DeleteShare \/ DeletePublic \/ DeleteRank
  \/ DeleteCount \/ DeleteList \/ DeleteRefs \/ DeleteUpdate \/ DeleteId
  \/ DeleteInfo \/ RemoveFileFromFastDfs

------------------------------------------------------------------------------
(* api/api_deal_sharefile.cc *)

CancelMark ==
  /\ At("can_mark")
  /\ Do(MarkShared(req.user, req.file, FALSE) /\ Go("can_public"),
        UNCHANGED list /\ Answer)
  /\ UNCHANGED <<info, shares, stored, redis, others>>

CancelPublic ==
  /\ \/ At("can_public") /\ DecrPublic("can_public_floor", "can_share")
     \/ At("can_public_floor") /\ FloorPublic("can_share")
  /\ UNCHANGED <<tables, stored, ranked, named, userCount, others>>

CancelShare ==
  /\ At("can_share")
  /\ Do(DeleteShares(req.user, req.file) /\ Go("can_rank"),
        UNCHANGED shares /\ Answer)
  /\ UNCHANGED <<list, info, stored, redis, others>>

CancelRank ==
  /\ At("can_rank")
  /\ Do(ranked' = ranked \ {req.file} /\ Go("can_name"), UNCHANGED ranked /\ Answer)
  /\ UNCHANGED <<tables, stored, named, publicCount, userCount, others>>

CancelName ==
  /\ At("can_name")
  /\ Do(named' = named \ {req.file}, UNCHANGED named)
  /\ Answer
  /\ UNCHANGED <<tables, stored, ranked, publicCount, userCount, others>>

handleCancelShareFile ==
  CancelMark \/ CancelPublic \/ CancelShare \/ CancelRank \/ CancelName

SaveOwn ==
  /\ At("save_own")
  /\ Do(IF Rows(req.user, req.file) # {} THEN Answer ELSE Go("save_refs"), Answer)
  /\ UNCHANGED <<tables, stored, redis, others>>

SaveRefs ==
  /\ At("save_refs")
  /\ \/ \E i \in InfoOf(req.file) :
          req' = [req EXCEPT !.at = "save_update", !.n = i.count]
     \/ InfoOf(req.file) = {} /\ Answer
  /\ UNCHANGED <<tables, stored, redis, others, faults>>

SaveUpdate ==
  /\ At("save_update")
  /\ Do(SetCounts(req.file, req.n + 1) /\ Go("save_insert"),
        UNCHANGED info /\ Answer)
  /\ UNCHANGED <<list, shares, stored, redis, others>>

\* Unlike md5, save does not restore the count when the row is refused.
SaveInsert ==
  /\ At("save_insert")
  /\ Do(InsertRow(req.user, req.file) /\ Go("count_up"),
        UNCHANGED list /\ Answer)
  /\ UNCHANGED <<info, shares, stored, redis, others>>

handleSaveFile == SaveOwn \/ SaveRefs \/ SaveUpdate \/ SaveInsert

\* A download of a shared file puts it back into the ranking.
PvRow ==
  /\ At("pv_row")
  /\ Do(IF SharesOf(req.file) # {} THEN Go("pv_zset") ELSE Answer, Answer)
  /\ UNCHANGED <<tables, stored, redis, others>>

PvZset ==
  /\ At("pv_zset")
  /\ Do(IF req.file \in ranked THEN Answer ELSE Go("zset_in"), Answer)
  /\ UNCHANGED <<tables, stored, redis, others>>

handlePvFile == PvRow \/ PvZset

------------------------------------------------------------------------------
(* Lists: api/api_sharefiles.cc and api/api_myfiles.cc *)

\* A count of zero, or one that cannot be read, is loaded from the table.
TotalGet ==
  /\ At("total")
  /\ Do(IF publicCount = 0
        THEN Go("total_load")
        ELSE req' = [req EXCEPT !.at = "card", !.n = publicCount],
        Go("total_load"))
  /\ UNCHANGED <<tables, stored, redis, others>>

TotalLoad ==
  /\ At("total_load")
  /\ Do(/\ publicCount' = Cardinality(shares)
        /\ req' = [req EXCEPT !.at = "card", !.n = Cardinality(shares)],
        UNCHANGED publicCount /\ Answer)
  /\ UNCHANGED <<tables, stored, ranked, named, userCount, others>>

\* The number of shared files is all that count and normal need.
TotalRead ==
  /\ At("card")
  /\ Answer
  /\ UNCHANGED <<tables, stored, redis, others, faults>>

getShareFilesCount == TotalGet \/ TotalLoad \/ TotalRead

RankingCard ==
  /\ At("card")
  /\ Do(IF Cardinality(ranked) # req.n THEN Go("clear_zset") ELSE Go("ranking"), Answer)
  /\ UNCHANGED <<tables, stored, redis, others>>

RankingClear ==
  /\ \/ /\ At("clear_zset")
        /\ Do(ranked' = {}, UNCHANGED ranked)
        /\ Go("clear_hash") /\ UNCHANGED named
     \/ /\ At("clear_hash")
        /\ Do(named' = {}, UNCHANGED named)
        /\ Go("fill") /\ UNCHANGED ranked
  /\ UNCHANGED <<tables, stored, publicCount, userCount, others>>

\* When calls fail only a part arrives.
RankingFill ==
  /\ At("fill")
  /\ Do(ranked' = ranked \union Shared /\ named' = named \union Shared,
        \E S \in SUBSET Shared : ranked' = ranked \union S /\ named' = named \union S)
  /\ Go("ranking")
  /\ UNCHANGED <<tables, stored, publicCount, userCount, others>>

RankingRead ==
  /\ At("ranking")
  /\ Answer
  /\ UNCHANGED <<tables, stored, redis, others, faults>>

handleGetRankingFilelist ==
  getShareFilesCount \/ RankingCard \/ RankingClear \/ RankingFill \/ RankingRead

getUserFilesCount ==
  /\ \/ /\ At("mine")
        /\ Do(IF userCount[req.user] = 0 THEN Go("mine_load") ELSE Answer, Go("mine_load"))
        /\ UNCHANGED userCount
     \/ /\ At("mine_load")
        /\ Do(userCount' = [userCount EXCEPT ![req.user] = Cardinality(FilesOf(req.user))],
              UNCHANGED userCount)
        /\ Answer
  /\ UNCHANGED <<tables, stored, ranked, named, publicCount, others>>

------------------------------------------------------------------------------
(* A login loads the count of the user on a thread of the pool *)

\* One login at a time: a bound, logins of two users touch other counters.
LoginRead(u) ==
  /\ \A v \in Users : logins[v] = -1
  /\ logins' = [logins EXCEPT ![u] = Cardinality(FilesOf(u))]
  /\ UNCHANGED <<tables, stored, redis, req, forgotten, faults, crashes>>

LoginSet(u) ==
  /\ logins[u] # -1
  /\ Do(userCount' = [userCount EXCEPT ![u] = logins[u]], UNCHANGED userCount)
  /\ logins' = [logins EXCEPT ![u] = -1]
  /\ UNCHANGED <<tables, stored, ranked, named, publicCount, req, forgotten, crashes>>

ApiUserLogin(u) == LoginRead(u) \/ LoginSet(u)

\* The server stops anywhere; the stores stay.  main calls ApiInit again,
\* which loads the number of shared files.
Crash ==
  /\ faults + crashes < MaxTrouble
  /\ crashes' = crashes + 1
  /\ req' = NoReq
  /\ logins' = [u \in Users |-> -1]
  /\ publicCount' = Cardinality(shares)
  /\ UNCHANGED <<tables, stored, ranked, named, userCount, forgotten, faults>>

------------------------------------------------------------------------------
(* Requests.  No handler looks whether the user has the file: requests may  *)
(* be late or repeated, but with OwnOnly a user shares and deletes what his  *)
(* list of files shows him.  A client uploads when md5 has failed, which it  *)
(* does for an unknown content, for a call that fails and, unless UploadOnce,*)
(* for one that somebody else is uploading.                                  *)

Request(u, f, step) ==
  /\ At("idle")
  /\ req' = [at |-> step, user |-> u, file |-> f, n |-> 0, id |-> 0, both |-> FALSE]

Owns(u, f)   == Rows(u, f) # {}

Accept(u, f) ==
  /\ \/ Request(u, f, "md5_refs")
     \/ /\ UploadOnce => InfoOf(f) = {}
        /\ Ids \ UsedIds # {}
        /\ Request(u, f, "up_store")
     \/ (OwnOnly => Owns(u, f)) /\ Request(u, f, "share_zset")
     \/ (OwnOnly => Owns(u, f)) /\ Request(u, f, "del_zset")
     \/ Request(u, f, "can_mark")
     \/ Request(u, f, "save_own")
     \/ Request(u, f, "pv_row")
     \/ Request(u, f, "total")
     \/ Request(u, f, "mine")
  /\ UNCHANGED <<tables, stored, redis, logins, forgotten, faults, crashes>>

Next ==
  \/ \E u \in Users, f \in Files : Accept(u, f)
  \/ handleDealMd5 \/ ApiUpload \/ handleShareFile \/ handleDeleteFile
  \/ handleCancelShareFile \/ handleSaveFile \/ handlePvFile
  \/ handleGetRankingFilelist \/ getUserFilesCount
  \/ \E u \in Users : ApiUserLogin(u)
  \/ Crash

Spec == Init /\ [][Next]_vars
------------------------------------------------------------------------------
(* Properties *)

Steps == {
  "md5_refs", "md5_own", "md5_update", "md5_insert", "md5_restore", "count_up",
  "up_store", "up_info", "up_list", "share_zset", "share_row", "share_mark",
  "share_insert", "share_count", "zset_in", "hash_in", "del_zset", "del_status",
  "del_share", "del_public", "del_public_floor", "del_rank", "del_name",
  "del_count", "del_count_floor", "del_list", "del_refs", "del_update", "del_id",
  "del_info", "del_file", "can_mark", "can_public", "can_public_floor", "can_share",
  "can_rank", "can_name", "save_own", "save_refs", "save_update", "save_insert",
  "pv_row", "pv_zset", "total", "total_load", "card", "clear_zset", "clear_hash",
  "fill", "ranking", "mine", "mine_load"}

\* The stores hold rows, counts and members of the kinds the schema of
\* sql/picbed_db.sql gives them, and a count of owners never goes below zero.
TypeOK ==
  /\ list \subseteq [user : Users, file : Files, copy : Copies, shared : BOOLEAN]
  /\ info \subseteq [id : Ids, file : Files, count : Nat]
  /\ shares \subseteq [user : Users, file : Files, copy : Copies]
  /\ stored \subseteq Ids
  /\ ranked \subseteq Files /\ named \subseteq Files
  /\ publicCount \in Int /\ userCount \in [Users -> Int]
  /\ \/ req = NoReq
     \/ req \in [at : Steps, user : Users, file : Files, n : Int, id : Ids \union {0},
                 both : BOOLEAN]
  /\ logins \in [Users -> Int]
  /\ forgotten \subseteq Files
  /\ faults \in Nat /\ crashes \in Nat

Quiet    == req = NoReq
NoFailed == faults = 0
NoTrouble == faults = 0 /\ crashes = 0

\* A content that somebody has in his list is in FastDFS, whatever call of
\* these handlers fails and wherever one of them crashes, unless its row of
\* file_info could not be deleted once: each counts an owner in before it
\* adds the row and counts him out after it has removed it.  The handlers
\* of pictures do not, see PictureStore.
NoDangling ==
  \A r \in list : r.file \notin forgotten =>
    \E i \in info : i.file = r.file /\ i.id \in stored

\* The count of file_info is never below the number of owners, and between
\* two requests it is that number if no call has failed and no crash was.
RefCounts ==
  \A i \in info :
    /\ Cardinality(RowsOf(i.file)) <= i.count
    /\ Quiet /\ NoTrouble => Cardinality(RowsOf(i.file)) = i.count

\* "No user refers to this file": handleDeleteFile takes a content out of
\* FastDFS only when that is so (comment at api/api_dealfile.cc:332).
UnownedWhenRemoved ==
  req.at \in {"del_id", "del_info", "del_file"} => RowsOf(req.file) = {}

\* A file is in the list of shared files once at most, as handleShareFile
\* intends, also when redis has lost it from the ranking or a crash comes
\* between the steps of a share.
SharedOnce == NoFailed => \A f \in Files : Cardinality(SharesOf(f)) <= 1

\* Who shares a file has it: deleting a file takes it off the list of
\* shared files although the ranking, which is asked first, may no longer
\* hold it because another owner has deleted his copy.
SharerOwns == NoTrouble => \A s \in shares : Owns(s.user, s.file)

\* The ranking shows no file that nobody shares.
RankedAreShared ==
  Quiet /\ NoTrouble => ranked \subseteq Shared /\ named = ranked

\* The lists of users, the list of shared files and the ranking of redis
\* agree on who shares what, in all three ways.
SharesAgree == SharedOnce /\ SharerOwns /\ RankedAreShared

\* FILE_PUBLIC_COUNT does not run ahead of the table, over crashes as well.
PublicCountBound ==
  Quiet /\ NoFailed => publicCount <= Cardinality(shares)

\* "The least we allow is 0" (comment at api/api_common.cc:82): no counter
\* stays below zero, although a login may set one between the two calls of
\* CacheDecrCount and a client may delete what was never counted.
CountersFloored ==
  Quiet /\ NoTrouble => publicCount >= 0 /\ \A u \in Users : userCount[u] >= 0

\* The counters of redis stay between zero and what they count.
CountersBounded == PublicCountBound /\ CountersFloored
==============================================================================
