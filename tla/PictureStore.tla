----------------------------- MODULE PictureStore -----------------------------
(***************************************************************************)
(* Shared pictures (api/api_sharepicture.cc).  A user publishes a file of   *)
(* his under a random url; the content then has one more reference in       *)
(* file_info, beside those of the users who have it in their lists.         *)
(*                                                                         *)
(* The handlers run on the event loop like those of FileStore, of which     *)
(* the requests that change user_file_list or file_info run beside: md5,    *)
(* upload, delete and save.  The others touch neither table but for the     *)
(* mark of a shared file.  A browse only counts itself and is left out.     *)
(***************************************************************************)
EXTENDS FileStore

CONSTANT MaxDrawn   \* bound on the random strings drawn in a run of the server

ASSUME DrawnAssumption == MaxDrawn \in Nat

VARIABLES
  pics,       \* rows of share_picture_list
  picCount,   \* SHARE_PIC_COUNT of every user
  picLogins,  \* per user, the number of pictures a login has read, or -1
  drawn       \* random strings drawn since the server was started

kept     == <<list, shares, redis, logins, forgotten, crashes>>
picVars  == <<pics, picCount, picLogins, drawn>>
allVars  == <<vars, picVars>>

NoFile       == "none"   \* the file of a request that does not name one
PicsAt(u, x) == {p \in pics : p.user = u /\ p.url = x}
PicsOf(f)    == {p \in pics : p.file = f}
PicsBy(u)    == {p \in pics : p.user = u}

PicInit ==
  /\ Init
  /\ pics = {} /\ picCount = [u \in Users |-> 0]
  /\ picLogins = [u \in Users |-> -1]
  /\ drawn = 0

------------------------------------------------------------------------------
(* handleSharePicture.  RandomString is fed by rand(), which nobody seeds:  *)
(* the k-th string after a start is the same in every run, so a string is   *)
(* its number.                                                              *)

PicInsert ==
  /\ At("pic_insert")
  /\ drawn' = drawn + 1
  /\ Do(/\ \E k \in Fresh(PicsAt(req.user, drawn + 1)) :
             pics' = pics \union
               {[user |-> req.user, file |-> req.file, url |-> drawn + 1, copy |-> k]}
        /\ Go("pic_refs"),
        UNCHANGED pics /\ Answer)
  /\ UNCHANGED <<kept, info, stored, picCount, picLogins>>

\* The row stays when file_info does not know the content.
PicRefs ==
  /\ At("pic_refs")
  /\ \/ \E i \in InfoOf(req.file) :
          req' = [req EXCEPT !.at = "pic_update", !.n = i.count]
     \/ InfoOf(req.file) = {} /\ Answer
  /\ UNCHANGED <<kept, info, stored, picVars, faults>>

\* Mutant: a picture is no reference.
PicUpdate_Skipped ==
  /\ At("pic_update")
  /\ Go("pic_count")
  /\ UNCHANGED <<kept, info, stored, picVars, faults>>

PicUpdate ==
  /\ At("pic_update")
  /\ Do(SetCounts(req.file, req.n + 1) /\ Go("pic_count"), UNCHANGED info /\ Answer)
  /\ UNCHANGED <<kept, stored, picVars>>

PicCount ==
  /\ At("pic_count")
  /\ Do(picCount' = [picCount EXCEPT ![req.user] = @ + 1], UNCHANGED picCount)
  /\ Answer
  /\ UNCHANGED <<kept, info, stored, pics, picLogins, drawn>>

handleSharePicture == PicInsert \/ PicRefs \/ PicUpdate \/ PicCount

------------------------------------------------------------------------------
(* handleCancelSharePicture *)

CancelOwn ==
  /\ At("pcan_own")
  /\ Do(IF PicsAt(req.user, req.url) = {} THEN Answer ELSE Go("pcan_file"), Answer)
  /\ UNCHANGED <<kept, info, stored, picVars>>

\* The file is looked up by the url alone.
CancelFile ==
  /\ At("pcan_file")
  /\ Do(\E p \in {q \in pics : q.url = req.url} :
          req' = [req EXCEPT !.at = "pcan_refs", !.file = p.file],
        Answer)
  /\ UNCHANGED <<kept, info, stored, picVars>>

CancelRefs ==
  /\ At("pcan_refs")
  /\ Do(\/ \E i \in InfoOf(req.file) :
             req' = [req EXCEPT !.at = IF i.count > 0 THEN "pcan_update" ELSE "pcan_row",
                                !.n = IF i.count > 0 THEN i.count - 1 ELSE i.count,
                                !.id = i.id]
        \/ InfoOf(req.file) = {} /\ Answer,
        Answer)
  /\ UNCHANGED <<kept, info, stored, picVars>>

\* Mutant: the count is not written back.
CancelUpdate_Skipped ==
  /\ At("pcan_update")
  /\ Go("pcan_row")
  /\ UNCHANGED <<kept, info, stored, picVars, faults>>

CancelUpdate ==
  /\ At("pcan_update")
  /\ Do(SetCounts(req.file, req.n) /\ Go("pcan_row"), UNCHANGED info /\ Answer)
  /\ UNCHANGED <<kept, stored, picVars>>

CancelRow ==
  /\ At("pcan_row")
  /\ Do(/\ pics' = pics \ PicsAt(req.user, req.url)
        /\ IF req.n = 0 THEN Go("pcan_info") ELSE Go("pcan_count"),
        UNCHANGED pics /\ Answer)
  /\ UNCHANGED <<kept, info, stored, picCount, picLogins, drawn>>

CancelContent ==
  /\ \/ /\ At("pcan_info")
        /\ Do(info' = info \ InfoOf(req.file) /\ Go("pcan_dfs"), UNCHANGED info /\ Answer)
        /\ UNCHANGED stored
     \/ /\ At("pcan_dfs")
        /\ Do(stored' = stored \ {req.id} /\ Go("pcan_count"), UNCHANGED stored /\ Answer)
        /\ UNCHANGED info
  /\ UNCHANGED <<kept, picVars>>

\* CacheDecrCount; a failure is only logged.
CancelCount ==
  /\ \/ /\ At("pcan_count")
        /\ Do(/\ picCount' = [picCount EXCEPT ![req.user] = @ - 1]
              /\ IF picCount[req.user] <= 0 THEN Go("pcan_floor") ELSE Answer,
              UNCHANGED picCount /\ Answer)
     \/ /\ At("pcan_floor")
        /\ Do(picCount' = [picCount EXCEPT ![req.user] = 0], UNCHANGED picCount)
        /\ Answer
  /\ UNCHANGED <<kept, info, stored, pics, picLogins, drawn>>

handleCancelSharePicture ==
  \/ CancelOwn \/ CancelFile \/ CancelRefs \/ CancelUpdate \/ CancelRow
  \/ CancelContent \/ CancelCount

------------------------------------------------------------------------------
(* The list of a user's pictures, and the part of a login about pictures *)

getSharePicturesCount ==
  /\ \/ /\ At("pics")
        /\ Do(IF picCount[req.user] = 0 THEN Go("pics_load") ELSE Answer, Go("pics_load"))
        /\ UNCHANGED picCount
     \/ /\ At("pics_load")
        /\ Do(picCount' = [picCount EXCEPT ![req.user] = Cardinality(PicsBy(req.user))],
              UNCHANGED picCount)
        /\ Answer
  /\ UNCHANGED <<kept, info, stored, pics, picLogins, drawn>>

\* setToken draws a string as well.
TokenDraw ==
  /\ drawn < MaxDrawn
  /\ drawn' = drawn + 1
  /\ UNCHANGED <<vars, pics, picCount, picLogins>>

\* One login at a time, as in FileStore.
PicLoginRead(u) ==
  /\ \A v \in Users : picLogins[v] = -1
  /\ picLogins' = [picLogins EXCEPT ![u] = Cardinality(PicsBy(u))]
  /\ UNCHANGED <<vars, pics, picCount, drawn>>

PicLoginSet(u) ==
  /\ picLogins[u] # -1
  /\ Do(picCount' = [picCount EXCEPT ![u] = picLogins[u]], UNCHANGED picCount)
  /\ picLogins' = [picLogins EXCEPT ![u] = -1]
  /\ UNCHANGED <<kept, info, stored, req, pics, drawn>>

------------------------------------------------------------------------------
(* Requests.  What a client cancels is a url that a share has given him.    *)

PicAccept(u, f) ==
  /\ \/ Request(u, f, "md5_refs")
     \/ /\ UploadOnce => InfoOf(f) = {}
        /\ Ids \ UsedIds # {}
        /\ Request(u, f, "up_store")
     \/ (OwnOnly => Owns(u, f)) /\ Request(u, f, "del_zset")
     \/ Request(u, f, "save_own")
     \/ (OwnOnly => Owns(u, f)) /\ drawn < MaxDrawn /\ Request(u, f, "pic_insert")
  /\ UNCHANGED <<kept, info, stored, faults, picVars>>

UrlAccept(u) ==
  /\ At("idle")
  /\ \/ \E p \in PicsBy(u) :
          req' = [at |-> "pcan_own", user |-> u, file |-> NoFile, n |-> 0, id |-> 0,
                  both |-> FALSE, url |-> p.url]
     \/ Request(u, NoFile, "pics")
  /\ UNCHANGED <<kept, info, stored, faults, picVars>>

FileSteps ==
  /\ handleDealMd5 \/ ApiUpload \/ handleDeleteFile \/ handleSaveFile
  /\ UNCHANGED picVars

PicCrash ==
  /\ Crash
  /\ drawn' = 0
  /\ picLogins' = [u \in Users |-> -1]
  /\ UNCHANGED <<pics, picCount>>

PicNext ==
  \/ \E u \in Users, f \in Files : PicAccept(u, f)
  \/ \E u \in Users : UrlAccept(u) \/ PicLoginRead(u) \/ PicLoginSet(u)
  \/ FileSteps
  \/ handleSharePicture \/ handleCancelSharePicture \/ getSharePicturesCount
  \/ TokenDraw
  \/ PicCrash

PicSpec == PicInit /\ [][PicNext]_allVars
------------------------------------------------------------------------------
(* Properties *)

\* While no call fails and nothing crashes, a content is in FastDFS as long
\* as somebody has it in his list or has published it, whoever of them
\* deletes or cancels first.
ContentIsKept ==
  NoTrouble =>
    \A f \in {r.file : r \in list} \union {p.file : p \in pics} :
      \E i \in info : i.file = f /\ i.id \in stored

\* Between two requests the count of file_info is the number of owners and
\* pictures, so the last of them to go takes the content with him; and a
\* counter of pictures that a login has set too low while a picture was
\* published does not stay below zero when that picture is cancelled.
RefsCounted ==
  Quiet /\ NoTrouble =>
    /\ \A i \in info : i.count = Cardinality(RowsOf(i.file)) + Cardinality(PicsOf(i.file))
    /\ \A u \in Users : picCount[u] >= 0
===============================================================================
