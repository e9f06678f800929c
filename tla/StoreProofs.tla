----------------------------- MODULE StoreProofs -----------------------------
(***************************************************************************)
(* The rows, counts and members the stores hold are of their types; no      *)
(* content that somebody has is missing from FastDFS, whatever call fails   *)
(* and wherever the server crashes; and, as long as nothing has failed, the *)
(* counts of file_info are the owners, the lists of users, the table of     *)
(* shared files and the ranking agree, and the counters keep their bounds.  *)
(* The last part is about pictures: what is published is kept as well, and  *)
(* the counts are then of owners and pictures.                              *)
(***************************************************************************)
EXTENDS PictureStore, FiniteSetTheorems, TLAPS

\* Steps at which the local count was read from file_info.
Counting == {"md5_own", "md5_update", "md5_insert", "md5_restore",
             "save_update", "save_insert", "del_update"}

\* Types, with what they need: finite tables and local counts that are not
\* negative where they are written to file_info.
TypeInv ==
  /\ TypeOK
  /\ IsFiniteSet(list) /\ IsFiniteSet(shares)
  /\ req.at \in Counting => req.n \in Nat
  /\ req.at = "up_info" => req.id \in Ids

Request0 == [at : Steps, user : Users, file : Files, n : Int, id : Ids \union {0},
             both : BOOLEAN]

\* The parts of TypeInv that speak of the stores.
StoresTyped ==
  /\ list \subseteq [user : Users, file : Files, copy : Copies, shared : BOOLEAN]
  /\ info \subseteq [id : Ids, file : Files, count : Nat]
  /\ shares \subseteq [user : Users, file : Files, copy : Copies]
  /\ stored \subseteq Ids
  /\ ranked \subseteq Files /\ named \subseteq Files
  /\ publicCount \in Int /\ userCount \in [Users -> Int]
  /\ IsFiniteSet(list) /\ IsFiniteSet(shares)

\* The parts that speak of the server.
ReqTyped ==
  /\ req = NoReq \/ req \in Request0
  /\ req.at \in Counting => req.n \in Nat
  /\ req.at = "up_info" => req.id \in Ids

RestTyped ==
  /\ logins \in [Users -> Int]
  /\ forgotten \subseteq Files
  /\ faults \in Nat /\ crashes \in Nat

LEMMA Parts == TypeInv <=> StoresTyped /\ ReqTyped /\ RestTyped
  BY DEF TypeInv, TypeOK, StoresTyped, ReqTyped, RestTyped, Request0

LEMMA PartsNext == StoresTyped' /\ ReqTyped' /\ RestTyped' => TypeInv'
  BY DEF TypeInv, TypeOK, StoresTyped, ReqTyped, RestTyped, Request0

\* A request that is not idle has all its fields.
LEMMA Busy == ASSUME TypeInv, req.at # "idle" PROVE req \in Request0
  BY DEF TypeInv, TypeOK, NoReq, Request0

\* What the handlers do to req.
LEMMA Kinds == Counting \subseteq Steps /\ "idle" \notin Steps
  BY DEF Counting, Steps

LEMMA Moved ==
  ASSUME TypeInv, req.at # "idle", NEW step \in Steps \ {"up_info"}, Go(step),
         step \in Counting => req.n \in Nat
  PROVE  ReqTyped'
<1> req \in Request0
    BY Busy
<1> QED  BY DEF Go, Request0, ReqTyped

LEMMA MovedN ==
  ASSUME TypeInv, req.at # "idle", NEW step \in Steps \ {"up_info"}, NEW n \in Int,
         req' = [req EXCEPT !.at = step, !.n = n], step \in Counting => n \in Nat
  PROVE  ReqTyped'
<1> req \in Request0
    BY Busy
<1> QED  BY DEF Request0, ReqTyped

LEMMA MovedId ==
  ASSUME TypeInv, req.at # "idle", NEW step \in Steps \ Counting, NEW d \in Ids,
         req' = [req EXCEPT !.at = step, !.id = d]
  PROVE  ReqTyped'
<1> req \in Request0
    BY Busy
<1> QED  BY DEF Request0, ReqTyped

LEMMA MovedBoth ==
  ASSUME TypeInv, req.at # "idle", NEW step \in Steps \ (Counting \union {"up_info"}), NEW b \in BOOLEAN,
         req' = [req EXCEPT !.at = step, !.both = b]
  PROVE  ReqTyped'
<1> req \in Request0
    BY Busy
<1> QED  BY DEF Request0, ReqTyped

LEMMA Answered == ASSUME Answer PROVE ReqTyped'
  BY DEF Answer, NoReq, Counting, ReqTyped

LEMMA InfoNatural == ASSUME StoresTyped, NEW i \in info
                     PROVE  i.count \in Nat /\ i.count \in Int /\ i.id \in Ids
<1> i \in [id : Ids, file : Files, count : Nat]
    BY DEF StoresTyped
<1> QED  OBVIOUS

LEMMA InfoNat == ASSUME TypeInv, NEW i \in info
                 PROVE  i.count \in Nat /\ i.count \in Int /\ i.id \in Ids
  BY Parts, InfoNatural

\* Tables that a statement has changed.
LEMMA CountedTyped ==
  ASSUME StoresTyped, NEW f, NEW n \in Nat, SetCounts(f, n)
  PROVE  info' \subseteq [id : Ids, file : Files, count : Nat]
<1> SUFFICES ASSUME NEW i \in info
             PROVE  (IF i.file = f THEN [i EXCEPT !.count = n] ELSE i)
                      \in [id : Ids, file : Files, count : Nat]
    BY DEF SetCounts
<1> i \in [id : Ids, file : Files, count : Nat]
    BY DEF StoresTyped
<1> QED  OBVIOUS

LEMMA Counts ==
  ASSUME TypeInv, NEW f, NEW n \in Nat, SetCounts(f, n)
  PROVE  info' \subseteq [id : Ids, file : Files, count : Nat]
  BY Parts, CountedTyped

LEMMA Inserted ==
  ASSUME TypeInv, NEW u \in Users, NEW f \in Files, InsertRow(u, f)
  PROVE  /\ list' \subseteq [user : Users, file : Files, copy : Copies, shared : BOOLEAN]
         /\ IsFiniteSet(list')
<1>1. PICK k \in Copies :
        list' = list \union {[user |-> u, file |-> f, copy |-> k, shared |-> FALSE]}
      BY DEF InsertRow, Fresh
<1>2. IsFiniteSet(list)
      BY DEF TypeInv
<1>3. IsFiniteSet(list')
      BY <1>1, <1>2, FS_AddElement
<1>4. [user |-> u, file |-> f, copy |-> k, shared |-> FALSE]
        \in [user : Users, file : Files, copy : Copies, shared : BOOLEAN]
      OBVIOUS
<1>5. list \subseteq [user : Users, file : Files, copy : Copies, shared : BOOLEAN]
      BY DEF TypeInv, TypeOK
<1> QED  BY <1>1, <1>3, <1>4, <1>5

\* The image of a finite set is finite and not larger.
LEMMA Image ==
  ASSUME NEW S, IsFiniteSet(S), NEW g, g = [r \in S |-> g[r]]
  PROVE  /\ IsFiniteSet({g[r] : r \in S})
         /\ Cardinality({g[r] : r \in S}) <= Cardinality(S)
<1> DEFINE T == {g[r] : r \in S}
<1>1. g \in Surjection(S, T)
      BY DEF Surjection
<1> HIDE DEF T
<1>2. IsFiniteSet(T) /\ Cardinality(T) <= Cardinality(S)
      BY <1>1, FS_Surjection
<1> QED  BY <1>2 DEF T

LEMMA Marked ==
  ASSUME TypeInv, NEW u, NEW f, NEW status \in BOOLEAN, MarkShared(u, f, status)
  PROVE  /\ list' \subseteq [user : Users, file : Files, copy : Copies, shared : BOOLEAN]
         /\ IsFiniteSet(list')
<1> DEFINE g == [r \in list |->
                   IF r \in Rows(u, f) THEN [r EXCEPT !.shared = status] ELSE r]
<1>1. list' = {g[r] : r \in list}
      BY DEF MarkShared
<1>2. ASSUME NEW r \in list
      PROVE  g[r] \in [user : Users, file : Files, copy : Copies, shared : BOOLEAN]
  <2> r \in [user : Users, file : Files, copy : Copies, shared : BOOLEAN]
      BY DEF TypeInv, TypeOK
  <2> QED  OBVIOUS
<1>3. g = [r \in list |-> g[r]]
      OBVIOUS
<1>4. IsFiniteSet(list)
      BY DEF TypeInv
<1>5. IsFiniteSet({g[r] : r \in list})
  <2> HIDE DEF g
  <2> QED  BY <1>3, <1>4, Image
<1> QED  BY <1>1, <1>2, <1>5

------------------------------------------------------------------------------
(* Types *)

LEMMA Init_Type == Init => TypeInv
<1>1. IsFiniteSet({})
      BY FS_EmptySet
<1> QED  BY <1>1 DEF Init, TypeInv, TypeOK, NoReq, Counting


LEMMA StoresSame == ASSUME StoresTyped, UNCHANGED <<tables, stored, redis>>
                    PROVE  StoresTyped'
  BY DEF StoresTyped, tables, redis

LEMMA RestSame == ASSUME RestTyped, UNCHANGED <<others, faults>> PROVE RestTyped'
  BY DEF RestTyped, others

\* Steps that only read the stores.
LEMMA Reads_Type ==
  ASSUME TypeInv
  PROVE  /\ Md5Refs \/ Md5Own \/ ShareZset \/ ShareRow => ReqTyped'
         /\ DeleteZset \/ DeleteStatus \/ DeleteRefs \/ DeleteId => ReqTyped'
         /\ SaveOwn \/ SaveRefs \/ PvRow \/ PvZset => ReqTyped'
         /\ TotalGet \/ TotalRead \/ RankingCard \/ RankingRead => ReqTyped'
<1>1. ASSUME Md5Refs PROVE ReqTyped'
      BY <1>1, Answered, MovedN, InfoNat DEF Md5Refs, At, Do, Counting, Steps, InfoOf
<1>2. ASSUME Md5Own PROVE ReqTyped'
      BY <1>2, Answered, Moved DEF Md5Own, At, Do, Counting, Steps, TypeInv
<1>3. ASSUME ShareZset PROVE ReqTyped'
      BY <1>3, Answered, Moved DEF ShareZset, At, Do, Counting, Steps
<1>4. ASSUME ShareRow PROVE ReqTyped'
      BY <1>4, Answered, Moved DEF ShareRow, At, Do, Counting, Steps
<1>5. ASSUME DeleteZset PROVE ReqTyped'
      BY <1>5, Answered, Moved, MovedBoth DEF DeleteZset, At, Do, Counting, Steps
<1>6. ASSUME DeleteStatus PROVE ReqTyped'
      BY <1>6, Answered, Moved DEF DeleteStatus, At, Do, Counting, Steps
<1>7. ASSUME DeleteRefs PROVE ReqTyped'
  <2>1. CASE InfoOf(req.file) = {} /\ Answer
        BY <2>1, Answered
  <2>2. CASE Go("del_id")
        BY <1>7, <2>2, Moved DEF DeleteRefs, At, Counting, Steps
  <2>3. ASSUME NEW i \in InfoOf(req.file), i.count > 0,
               req' = [req EXCEPT !.at = "del_update", !.n = i.count - 1]
        PROVE  ReqTyped'
    <3>1. i.count - 1 \in Nat /\ i.count - 1 \in Int
          BY <2>3, InfoNat DEF InfoOf
    <3>2. req.at # "idle" /\ "del_update" \in Steps \ {"up_info"}
          BY <1>7 DEF DeleteRefs, At, Steps
    <3> QED  BY <2>3, <3>1, <3>2, MovedN
  <2> QED  BY <1>7, <2>1, <2>2, <2>3 DEF DeleteRefs
<1>8. ASSUME DeleteId PROVE ReqTyped'
      BY <1>8, Answered, MovedId, InfoNat DEF DeleteId, At, Do, Counting, Steps, InfoOf
<1>9. ASSUME SaveOwn PROVE ReqTyped'
      BY <1>9, Answered, Moved DEF SaveOwn, At, Do, Counting, Steps
<1>10. ASSUME SaveRefs PROVE ReqTyped'
      BY <1>10, Answered, MovedN, InfoNat DEF SaveRefs, At, Do, Counting, Steps, InfoOf
<1>11. ASSUME PvRow PROVE ReqTyped'
      BY <1>11, Answered, Moved DEF PvRow, At, Do, Counting, Steps
<1>12. ASSUME PvZset PROVE ReqTyped'
      BY <1>12, Answered, Moved DEF PvZset, At, Do, Counting, Steps
<1>13. ASSUME TotalGet PROVE ReqTyped'
      BY <1>13, Answered, Moved, MovedN DEF TotalGet, At, Do, Counting, Steps, TypeInv, TypeOK
<1>14. ASSUME TotalRead PROVE ReqTyped'
      BY <1>14, Answered DEF TotalRead, At, Do, Counting, Steps
<1>15. ASSUME RankingCard PROVE ReqTyped'
      BY <1>15, Answered, Moved DEF RankingCard, At, Do, Counting, Steps
<1>16. ASSUME RankingRead PROVE ReqTyped'
      BY <1>16, Answered DEF RankingRead, At, Do, Counting, Steps
<1> QED  BY <1>1, <1>2, <1>3, <1>4, <1>5, <1>6, <1>7, <1>8, <1>9, <1>10, <1>11, <1>12, <1>13, <1>14, <1>15, <1>16

\* Steps that write to a table.
LEMMA Tables_Type ==
  ASSUME TypeInv, Md5Update \/ Md5Insert \/ Md5Restore \/ UploadInfo \/ UploadList
                  \/ ShareMark \/ ShareInsert \/ DeleteShare \/ DeleteList \/ DeleteUpdate
                  \/ DeleteInfo \/ CancelMark \/ CancelShare \/ SaveUpdate \/ SaveInsert
  PROVE  StoresTyped' /\ ReqTyped'
<1> StoresTyped
    BY Parts
<1> USE DEF At, Do
<1>1. ASSUME Md5Update PROVE StoresTyped' /\ ReqTyped'
  <2>1. req.at # "idle" /\ ReqTyped' /\ req.n + 1 \in Nat
        BY <1>1, Answered, Moved DEF Md5Update, Counting, Steps, TypeInv
  <2>2. info' \subseteq [id : Ids, file : Files, count : Nat]
        BY <1>1, <2>1, Counts DEF Md5Update, StoresTyped
  <2> QED  BY <1>1, <2>1, <2>2 DEF Md5Update, StoresTyped, redis
<1>2. ASSUME Md5Insert PROVE StoresTyped' /\ ReqTyped'
  <2>1. req.at # "idle" /\ ReqTyped'
        BY <1>2, Answered, Moved DEF Md5Insert, Counting, Steps, TypeInv
  <2>2. req.user \in Users /\ req.file \in Files
        BY <2>1, Busy DEF Request0
  <2>3. /\ list' \subseteq [user : Users, file : Files, copy : Copies, shared : BOOLEAN]
        /\ IsFiniteSet(list')
        BY <1>2, <2>2, Inserted DEF Md5Insert, StoresTyped
  <2> QED  BY <1>2, <2>1, <2>3 DEF Md5Insert, StoresTyped, redis
<1>3. ASSUME Md5Restore PROVE StoresTyped' /\ ReqTyped'
  <2>1. req.at # "idle" /\ ReqTyped' /\ req.n \in Nat
        BY <1>3, Answered, Moved DEF Md5Restore, Counting, Steps, TypeInv
  <2>2. info' \subseteq [id : Ids, file : Files, count : Nat]
        BY <1>3, <2>1, Counts DEF Md5Restore, StoresTyped
  <2> QED  BY <1>3, <2>1, <2>2 DEF Md5Restore, StoresTyped, redis
<1>4. ASSUME UploadInfo PROVE StoresTyped' /\ ReqTyped'
  <2>1. req.at # "idle" /\ ReqTyped'
        BY <1>4, Answered, Moved DEF UploadInfo, Counting, Steps
  <2>2. req \in Request0
        BY <2>1, Busy
  <2>3. req.id \in Ids
        BY <1>4 DEF UploadInfo, TypeInv
  <2>4. [id |-> req.id, file |-> req.file, count |-> 1] \in [id : Ids, file : Files, count : Nat]
        BY <2>2, <2>3 DEF Request0
  <2> QED  BY <1>4, <2>1, <2>4 DEF UploadInfo, StoresTyped, redis
<1>5. ASSUME UploadList PROVE StoresTyped' /\ ReqTyped'
  <2>1. req.at # "idle" /\ ReqTyped'
        BY <1>5, Answered, Moved DEF UploadList, Counting, Steps
  <2>2. req.user \in Users /\ req.file \in Files
        BY <2>1, Busy DEF Request0
  <2>3. /\ list' \subseteq [user : Users, file : Files, copy : Copies, shared : BOOLEAN]
        /\ IsFiniteSet(list')
        BY <1>5, <2>2, Inserted DEF UploadList, StoresTyped
  <2> QED  BY <1>5, <2>1, <2>3 DEF UploadList, StoresTyped, redis
<1>6. ASSUME ShareMark PROVE StoresTyped' /\ ReqTyped'
  <2>1. req.at # "idle" /\ ReqTyped'
        BY <1>6, Answered, Moved DEF ShareMark, Counting, Steps
  <2>2. req.user \in Users /\ req.file \in Files
        BY <2>1, Busy DEF Request0
  <2>3. /\ list' \subseteq [user : Users, file : Files, copy : Copies, shared : BOOLEAN]
        /\ IsFiniteSet(list')
        BY <1>6, <2>2, Marked DEF ShareMark, StoresTyped
  <2> QED  BY <1>6, <2>1, <2>3 DEF ShareMark, StoresTyped, redis
<1>7. ASSUME ShareInsert PROVE StoresTyped' /\ ReqTyped'
  <2>1. req.at # "idle" /\ ReqTyped'
        BY <1>7, Answered, Moved DEF ShareInsert, Counting, Steps
  <2>2. req.user \in Users /\ req.file \in Files
        BY <2>1, Busy DEF Request0
  <2>3. \/ UNCHANGED shares
        \/ \E k \in Copies :
             shares' = shares \union {[user |-> req.user, file |-> req.file, copy |-> k]}
        BY <1>7 DEF ShareInsert, Fresh
  <2>4. shares' \subseteq [user : Users, file : Files, copy : Copies]
        BY <2>2, <2>3 DEF StoresTyped
  <2>5. IsFiniteSet(shares')
    <3>1. IsFiniteSet(shares)
          BY DEF StoresTyped
    <3>2. ASSUME NEW x PROVE IsFiniteSet(shares \union {x})
          BY <3>1, FS_AddElement
    <3> QED  BY <2>3, <3>1, <3>2
  <2> QED  BY <1>7, <2>1, <2>4, <2>5 DEF ShareInsert, StoresTyped, redis
<1>8. ASSUME DeleteShare PROVE StoresTyped' /\ ReqTyped'
  <2>1. ReqTyped'
        BY <1>8, Answered, Moved DEF DeleteShare, Counting, Steps
  <2>2. shares' \subseteq shares
        BY <1>8 DEF DeleteShare, DeleteShares
  <2>3. IsFiniteSet(shares')
        BY <2>2, FS_Subset DEF StoresTyped
  <2> QED  BY <1>8, <2>1, <2>2, <2>3 DEF DeleteShare, StoresTyped, redis
<1>9. ASSUME DeleteList PROVE StoresTyped' /\ ReqTyped'
  <2>1. ReqTyped'
        BY <1>9, Answered, Moved DEF DeleteList, Counting, Steps
  <2>2. list' \subseteq list
        BY <1>9 DEF DeleteList
  <2>3. IsFiniteSet(list')
        BY <2>2, FS_Subset DEF StoresTyped
  <2> QED  BY <1>9, <2>1, <2>2, <2>3 DEF DeleteList, StoresTyped, redis
<1>10. ASSUME DeleteUpdate PROVE StoresTyped' /\ ReqTyped'
  <2>1. req.at # "idle" /\ ReqTyped' /\ req.n \in Nat
        BY <1>10, Answered, Moved DEF DeleteUpdate, Counting, Steps, TypeInv
  <2>2. info' \subseteq [id : Ids, file : Files, count : Nat]
        BY <1>10, <2>1, Counts DEF DeleteUpdate, StoresTyped
  <2> QED  BY <1>10, <2>1, <2>2 DEF DeleteUpdate, StoresTyped, redis
<1>11. ASSUME DeleteInfo PROVE StoresTyped' /\ ReqTyped'
  <2>1. ReqTyped'
        BY <1>11, Moved DEF DeleteInfo, Counting, Steps
  <2> QED  BY <1>11, <2>1 DEF DeleteInfo, StoresTyped, redis
<1>12. ASSUME CancelMark PROVE StoresTyped' /\ ReqTyped'
  <2>1. req.at # "idle" /\ ReqTyped'
        BY <1>12, Answered, Moved DEF CancelMark, Counting, Steps
  <2>2. req.user \in Users /\ req.file \in Files
        BY <2>1, Busy DEF Request0
  <2>3. /\ list' \subseteq [user : Users, file : Files, copy : Copies, shared : BOOLEAN]
        /\ IsFiniteSet(list')
        BY <1>12, <2>2, Marked DEF CancelMark, StoresTyped
  <2> QED  BY <1>12, <2>1, <2>3 DEF CancelMark, StoresTyped, redis
<1>13. ASSUME CancelShare PROVE StoresTyped' /\ ReqTyped'
  <2>1. ReqTyped'
        BY <1>13, Answered, Moved DEF CancelShare, Counting, Steps
  <2>2. shares' \subseteq shares
        BY <1>13 DEF CancelShare, DeleteShares
  <2>3. IsFiniteSet(shares')
        BY <2>2, FS_Subset DEF StoresTyped
  <2> QED  BY <1>13, <2>1, <2>2, <2>3 DEF CancelShare, StoresTyped, redis
<1>14. ASSUME SaveUpdate PROVE StoresTyped' /\ ReqTyped'
  <2>1. req.at # "idle" /\ ReqTyped' /\ req.n + 1 \in Nat
        BY <1>14, Answered, Moved DEF SaveUpdate, Counting, Steps, TypeInv
  <2>2. info' \subseteq [id : Ids, file : Files, count : Nat]
        BY <1>14, <2>1, Counts DEF SaveUpdate, StoresTyped
  <2> QED  BY <1>14, <2>1, <2>2 DEF SaveUpdate, StoresTyped, redis
<1>15. ASSUME SaveInsert PROVE StoresTyped' /\ ReqTyped'
  <2>1. req.at # "idle" /\ ReqTyped'
        BY <1>15, Answered, Moved DEF SaveInsert, Counting, Steps
  <2>2. req.user \in Users /\ req.file \in Files
        BY <2>1, Busy DEF Request0
  <2>3. /\ list' \subseteq [user : Users, file : Files, copy : Copies, shared : BOOLEAN]
        /\ IsFiniteSet(list')
        BY <1>15, <2>2, Inserted DEF SaveInsert, StoresTyped
  <2> QED  BY <1>15, <2>1, <2>3 DEF SaveInsert, StoresTyped, redis
<1> QED  BY <1>1, <1>2, <1>3, <1>4, <1>5, <1>6, <1>7, <1>8, <1>9, <1>10, <1>11, <1>12, <1>13, <1>14, <1>15

\* Steps that write to redis, to FastDFS or to nothing else.
LEMMA Redis_Type ==
  ASSUME TypeInv, CountUp \/ UploadStore \/ ShareCount \/ ZsetAdd \/ Hset \/ DeletePublic
                  \/ DeleteRank \/ DeleteCount \/ RemoveFileFromFastDfs \/ CancelPublic
                  \/ CancelRank \/ CancelName \/ TotalLoad \/ RankingClear \/ RankingFill
                  \/ getUserFilesCount
  PROVE  StoresTyped' /\ ReqTyped'
<1> StoresTyped
    BY Parts
<1>0. Cardinality(shares) \in Int /\ \A u \in Users : Cardinality(FilesOf(u)) \in Int
  <2>1. \A S : IsFiniteSet(S) => Cardinality(S) \in Int
        BY FS_CardinalityType
  <2>2. \A u \in Users : FilesOf(u) \subseteq list
        BY DEF FilesOf
  <2>3. \A u \in Users : IsFiniteSet(FilesOf(u))
        BY <2>2, FS_Subset DEF StoresTyped
  <2> QED  BY <2>1, <2>3 DEF StoresTyped
<1> USE DEF At, Do
<1>1. ASSUME CountUp PROVE StoresTyped' /\ ReqTyped'
  <2>1. ReqTyped'
        BY <1>1, Answered, Moved DEF CountUp, Counting, Steps
  <2>2. req.at # "idle"
        BY <1>1 DEF CountUp
  <2>3. req \in Request0
        BY <2>2, Busy
  <2>4. req.user \in Users /\ req.file \in Files /\ req.id \in Ids \union {0}
        BY <2>3 DEF Request0
  <2> QED  BY <1>0, <1>1, <2>1, <2>4 DEF CountUp, StoresTyped, tables
<1>2. ASSUME UploadStore PROVE StoresTyped' /\ ReqTyped'
  <2>1. ReqTyped'
        BY <1>2, Answered, Moved, MovedId DEF UploadStore, Counting, Steps
  <2>2. req.at # "idle"
        BY <1>2 DEF UploadStore
  <2>3. req \in Request0
        BY <2>2, Busy
  <2>4. req.user \in Users /\ req.file \in Files /\ req.id \in Ids \union {0}
        BY <2>3 DEF Request0
  <2> QED  BY <1>0, <1>2, <2>1, <2>4 DEF UploadStore, StoresTyped, tables, redis
<1>3. ASSUME ShareCount PROVE StoresTyped' /\ ReqTyped'
  <2>1. ReqTyped'
        BY <1>3, Answered, Moved DEF ShareCount, Counting, Steps
  <2>2. req.at # "idle"
        BY <1>3 DEF ShareCount
  <2>3. req \in Request0
        BY <2>2, Busy
  <2>4. req.user \in Users /\ req.file \in Files /\ req.id \in Ids \union {0}
        BY <2>3 DEF Request0
  <2> QED  BY <1>0, <1>3, <2>1, <2>4 DEF ShareCount, StoresTyped, tables
<1>4. ASSUME ZsetAdd PROVE StoresTyped' /\ ReqTyped'
  <2>1. ReqTyped'
        BY <1>4, Answered, Moved DEF ZsetAdd, Counting, Steps
  <2>2. req.at # "idle"
        BY <1>4 DEF ZsetAdd
  <2>3. req \in Request0
        BY <2>2, Busy
  <2>4. req.user \in Users /\ req.file \in Files /\ req.id \in Ids \union {0}
        BY <2>3 DEF Request0
  <2> QED  BY <1>0, <1>4, <2>1, <2>4 DEF ZsetAdd, StoresTyped, tables
<1>5. ASSUME Hset PROVE StoresTyped' /\ ReqTyped'
  <2>1. ReqTyped'
        BY <1>5, Answered, Moved DEF Hset, Counting, Steps
  <2>2. req.at # "idle"
        BY <1>5 DEF Hset
  <2>3. req \in Request0
        BY <2>2, Busy
  <2>4. req.user \in Users /\ req.file \in Files /\ req.id \in Ids \union {0}
        BY <2>3 DEF Request0
  <2> QED  BY <1>0, <1>5, <2>1, <2>4 DEF Hset, StoresTyped, tables
<1>6. ASSUME DeletePublic PROVE StoresTyped' /\ ReqTyped'
  <2>1. ReqTyped'
        BY <1>6, Answered, Moved DEF DeletePublic, Counting, Steps, DecrPublic, FloorPublic, AfterDeletePublic
  <2>2. req.at # "idle"
        BY <1>6 DEF DeletePublic
  <2>3. req \in Request0
        BY <2>2, Busy
  <2>4. req.user \in Users /\ req.file \in Files /\ req.id \in Ids \union {0}
        BY <2>3 DEF Request0
  <2> QED  BY <1>0, <1>6, <2>1, <2>4 DEF DeletePublic, StoresTyped, tables, DecrPublic, FloorPublic, AfterDeletePublic
<1>7. ASSUME DeleteRank PROVE StoresTyped' /\ ReqTyped'
  <2>1. ReqTyped'
        BY <1>7, Answered, Moved DEF DeleteRank, Counting, Steps
  <2>2. req.at # "idle"
        BY <1>7 DEF DeleteRank
  <2>3. req \in Request0
        BY <2>2, Busy
  <2>4. req.user \in Users /\ req.file \in Files /\ req.id \in Ids \union {0}
        BY <2>3 DEF Request0
  <2> QED  BY <1>0, <1>7, <2>1, <2>4 DEF DeleteRank, StoresTyped, tables
<1>8. ASSUME DeleteCount PROVE StoresTyped' /\ ReqTyped'
  <2>1. ReqTyped'
        BY <1>8, Answered, Moved DEF DeleteCount, Counting, Steps
  <2>2. req.at # "idle"
        BY <1>8 DEF DeleteCount
  <2>3. req \in Request0
        BY <2>2, Busy
  <2>4. req.user \in Users /\ req.file \in Files /\ req.id \in Ids \union {0}
        BY <2>3 DEF Request0
  <2> QED  BY <1>0, <1>8, <2>1, <2>4 DEF DeleteCount, StoresTyped, tables
<1>9. ASSUME RemoveFileFromFastDfs PROVE StoresTyped' /\ ReqTyped'
  <2>1. ReqTyped'
        BY <1>9, Answered, Moved DEF RemoveFileFromFastDfs, Counting, Steps
  <2>2. req.at # "idle"
        BY <1>9 DEF RemoveFileFromFastDfs
  <2>3. req \in Request0
        BY <2>2, Busy
  <2>4. req.user \in Users /\ req.file \in Files /\ req.id \in Ids \union {0}
        BY <2>3 DEF Request0
  <2> QED  BY <1>0, <1>9, <2>1, <2>4 DEF RemoveFileFromFastDfs, StoresTyped, tables, redis
<1>10. ASSUME CancelPublic PROVE StoresTyped' /\ ReqTyped'
  <2>1. ReqTyped'
        BY <1>10, Answered, Moved DEF CancelPublic, Counting, Steps, DecrPublic, FloorPublic
  <2>2. req.at # "idle"
        BY <1>10 DEF CancelPublic
  <2>3. req \in Request0
        BY <2>2, Busy
  <2>4. req.user \in Users /\ req.file \in Files /\ req.id \in Ids \union {0}
        BY <2>3 DEF Request0
  <2> QED  BY <1>0, <1>10, <2>1, <2>4 DEF CancelPublic, StoresTyped, tables, DecrPublic, FloorPublic
<1>11. ASSUME CancelRank PROVE StoresTyped' /\ ReqTyped'
  <2>1. ReqTyped'
        BY <1>11, Answered, Moved DEF CancelRank, Counting, Steps
  <2>2. req.at # "idle"
        BY <1>11 DEF CancelRank
  <2>3. req \in Request0
        BY <2>2, Busy
  <2>4. req.user \in Users /\ req.file \in Files /\ req.id \in Ids \union {0}
        BY <2>3 DEF Request0
  <2> QED  BY <1>0, <1>11, <2>1, <2>4 DEF CancelRank, StoresTyped, tables
<1>12. ASSUME CancelName PROVE StoresTyped' /\ ReqTyped'
  <2>1. ReqTyped'
        BY <1>12, Answered, Moved DEF CancelName, Counting, Steps
  <2>2. req.at # "idle"
        BY <1>12 DEF CancelName
  <2>3. req \in Request0
        BY <2>2, Busy
  <2>4. req.user \in Users /\ req.file \in Files /\ req.id \in Ids \union {0}
        BY <2>3 DEF Request0
  <2> QED  BY <1>0, <1>12, <2>1, <2>4 DEF CancelName, StoresTyped, tables
<1>13. ASSUME TotalLoad PROVE StoresTyped' /\ ReqTyped'
  <2>1. ReqTyped'
        BY <1>13, Answered, Moved, MovedN, <1>0 DEF TotalLoad, Counting, Steps
  <2>2. req.at # "idle"
        BY <1>13 DEF TotalLoad
  <2>3. req \in Request0
        BY <2>2, Busy
  <2>4. req.user \in Users /\ req.file \in Files /\ req.id \in Ids \union {0}
        BY <2>3 DEF Request0
  <2> QED  BY <1>0, <1>13, <2>1, <2>4 DEF TotalLoad, StoresTyped, tables
<1>14. ASSUME RankingClear PROVE StoresTyped' /\ ReqTyped'
  <2>1. ReqTyped'
        BY <1>14, Answered, Moved DEF RankingClear, Counting, Steps
  <2>2. req.at # "idle"
        BY <1>14 DEF RankingClear
  <2>3. req \in Request0
        BY <2>2, Busy
  <2>4. req.user \in Users /\ req.file \in Files /\ req.id \in Ids \union {0}
        BY <2>3 DEF Request0
  <2> QED  BY <1>0, <1>14, <2>1, <2>4 DEF RankingClear, StoresTyped, tables
<1>15. ASSUME RankingFill PROVE StoresTyped' /\ ReqTyped'
  <2>1. ReqTyped'
        BY <1>15, Answered, Moved DEF RankingFill, Counting, Steps
  <2>2. req.at # "idle"
        BY <1>15 DEF RankingFill
  <2>3. req \in Request0
        BY <2>2, Busy
  <2>4. req.user \in Users /\ req.file \in Files /\ req.id \in Ids \union {0}
        BY <2>3 DEF Request0
  <2> QED  BY <1>0, <1>15, <2>1, <2>4 DEF RankingFill, StoresTyped, tables, Shared
<1>16. ASSUME getUserFilesCount PROVE StoresTyped' /\ ReqTyped'
  <2>1. ReqTyped'
        BY <1>16, Answered, Moved DEF getUserFilesCount, Counting, Steps
  <2>2. req.at # "idle"
        BY <1>16 DEF getUserFilesCount
  <2>3. req \in Request0
        BY <2>2, Busy
  <2>4. req.user \in Users /\ req.file \in Files /\ req.id \in Ids \union {0}
        BY <2>3 DEF Request0
  <2> QED  BY <1>0, <1>16, <2>1, <2>4 DEF getUserFilesCount, StoresTyped, tables
<1> QED  BY <1>1, <1>2, <1>3, <1>4, <1>5, <1>6, <1>7, <1>8, <1>9, <1>10, <1>11, <1>12, <1>13, <1>14, <1>15, <1>16

\* A call that fails is counted; a row that stays is remembered.
LEMMA Faulty == ASSUME TypeInv, UNCHANGED faults \/ Fails, UNCHANGED others
                PROVE RestTyped'
<1> RestTyped
    BY Parts
<1> QED  BY DEF RestTyped, Fails, others

LEMMA Reads_Stores ==
  ASSUME TypeInv, Md5Refs \/ Md5Own \/ ShareZset \/ ShareRow \/ DeleteZset \/ DeleteStatus
                  \/ DeleteRefs \/ DeleteId \/ SaveOwn \/ SaveRefs \/ PvRow \/ PvZset \/ TotalGet
                  \/ TotalRead \/ RankingCard \/ RankingRead
  PROVE  StoresTyped'
<1>1. UNCHANGED <<tables, stored, redis>>
      BY DEF Md5Refs, Md5Own, ShareZset, ShareRow, DeleteZset, DeleteStatus, DeleteRefs, DeleteId,
             SaveOwn, SaveRefs, PvRow, PvZset, TotalGet, TotalRead, RankingCard, RankingRead
<1> QED  BY <1>1, Parts, StoresSame

LEMMA Handlers_Type ==
  ASSUME TypeInv, \/ handleDealMd5 \/ ApiUpload \/ handleShareFile \/ handleDeleteFile
                  \/ handleCancelShareFile \/ handleSaveFile \/ handlePvFile \/ handleGetRankingFilelist
                  \/ getUserFilesCount
  PROVE  TypeInv'
<1>1. ((UNCHANGED faults \/ Fails) /\ UNCHANGED others) \/ DeleteInfo
      BY DEF handleDealMd5, ApiUpload, handleShareFile, handleDeleteFile, handleCancelShareFile, handleSaveFile, handlePvFile, handleGetRankingFilelist, getUserFilesCount,
             Do, DecrPublic, FloorPublic, getShareFilesCount,
             Md5Refs, Md5Own, Md5Update, Md5Insert, Md5Restore, CountUp, UploadStore,
             UploadInfo, UploadList, ShareZset, ShareRow, ShareMark, ShareInsert, ShareCount,
             ZsetAdd, Hset, DeleteZset, DeleteStatus, DeleteShare, DeletePublic, DeleteRank,
             DeleteCount, DeleteList, DeleteRefs, DeleteUpdate, DeleteId, DeleteInfo, RemoveFileFromFastDfs,
             CancelMark, CancelPublic, CancelShare, CancelRank, CancelName, SaveOwn, SaveRefs,
             SaveUpdate, SaveInsert, PvRow, PvZset, TotalGet, TotalLoad, TotalRead,
             RankingCard, RankingClear, RankingFill, RankingRead
<1>2. DeleteInfo => RestTyped'
  <2>1. ASSUME DeleteInfo PROVE req.at # "idle"
        BY <2>1 DEF DeleteInfo, At
  <2>2. ASSUME DeleteInfo PROVE req.file \in Files
    <3>1. req \in Request0
          BY <2>1, <2>2, Busy
    <3> QED  BY <3>1 DEF Request0
  <2>3. RestTyped
        BY Parts
  <2> QED  BY <2>2, <2>3 DEF DeleteInfo, Do, Fails, RestTyped
<1>3. RestTyped'
      BY <1>1, <1>2, Faulty
<1>4. StoresTyped' /\ ReqTyped'
      BY Reads_Type, Reads_Stores, Tables_Type, Redis_Type
      DEF handleDealMd5, ApiUpload, handleShareFile, handleDeleteFile, handleCancelShareFile,
          handleSaveFile, handlePvFile, handleGetRankingFilelist, getShareFilesCount
<1> QED  BY <1>3, <1>4, PartsNext

\* Requests, logins and crashes.
LEMMA Others_Type ==
  ASSUME TypeInv, \/ \E u \in Users, f \in Files : Accept(u, f)
                  \/ \E u \in Users : ApiUserLogin(u)
                  \/ Crash
  PROVE  TypeInv'
<1> StoresTyped /\ ReqTyped /\ RestTyped
    BY Parts
<1>0. Cardinality(shares) \in Int /\ \A u \in Users : Cardinality(FilesOf(u)) \in Int
  <2>1. \A S : IsFiniteSet(S) => Cardinality(S) \in Int
        BY FS_CardinalityType
  <2>2. \A u \in Users : FilesOf(u) \subseteq list
        BY DEF FilesOf
  <2>3. \A u \in Users : IsFiniteSet(FilesOf(u))
        BY <2>2, FS_Subset DEF StoresTyped
  <2> QED  BY <2>1, <2>3 DEF StoresTyped
<1>1. ASSUME NEW u \in Users, NEW f \in Files, Accept(u, f) PROVE TypeInv'
  <2>1. \E step \in Steps \ (Counting \union {"up_info"}) : Request(u, f, step)
        BY <1>1 DEF Accept, Steps, Counting
  <2>2. ReqTyped'
        BY <2>1 DEF Request, ReqTyped, Request0
  <2>3. StoresTyped' /\ RestTyped'
    <3>1. UNCHANGED <<tables, stored, redis>> /\ UNCHANGED <<logins, forgotten, faults, crashes>>
          BY <1>1 DEF Accept
    <3> QED  BY <3>1, StoresSame DEF RestTyped
  <2> QED  BY <2>2, <2>3, PartsNext
<1>2. ASSUME NEW u \in Users, LoginRead(u) PROVE TypeInv'
  <2>1. RestTyped'
        BY <1>0, <1>2 DEF LoginRead, RestTyped
  <2>2. StoresTyped' /\ ReqTyped'
    <3>1. UNCHANGED <<tables, stored, redis>> /\ UNCHANGED req
          BY <1>2 DEF LoginRead
    <3> QED  BY <3>1, StoresSame DEF ReqTyped
  <2> QED  BY <2>1, <2>2, PartsNext
<1>3. ASSUME NEW u \in Users, LoginSet(u) PROVE TypeInv'
  <2>1. RestTyped'
        BY <1>3 DEF LoginSet, Do, Fails, RestTyped
  <2>2. logins[u] \in Int
        BY DEF RestTyped
  <2>3. StoresTyped' /\ ReqTyped'
        BY <1>3, <2>2 DEF LoginSet, Do, StoresTyped, ReqTyped, tables
  <2> QED  BY <2>1, <2>3, PartsNext
<1>4. ASSUME Crash PROVE TypeInv'
  <2>1. RestTyped' /\ StoresTyped'
        BY <1>0, <1>4 DEF Crash, RestTyped, StoresTyped, tables
  <2>2. ReqTyped'
        BY <1>4, Answered DEF Crash, Answer
  <2> QED  BY <2>1, <2>2, PartsNext
<1> QED  BY <1>1, <1>2, <1>3, <1>4 DEF ApiUserLogin

LEMMA Step_Type == TypeInv /\ [Next]_vars => TypeInv'
<1> SUFFICES ASSUME TypeInv, [Next]_vars PROVE TypeInv'
    OBVIOUS
<1>1. CASE UNCHANGED vars
  <2>1. UNCHANGED <<tables, stored, redis, others, faults, req>>
        BY <1>1 DEF vars
  <2>2. ReqTyped'
        BY <2>1, Parts DEF ReqTyped
  <2> QED  BY <2>1, <2>2, Parts, PartsNext, StoresSame, RestSame
<1> QED  BY <1>1, Handlers_Type, Others_Type DEF Next

\* Type correctness, of the stores above all: the count of owners that is
\* written to file_info is never negative.
THEOREM TypeCorrect == Spec => []TypeOK
<1>1. TypeInv => TypeOK
      BY DEF TypeInv
<1> QED  BY <1>1, Init_Type, Step_Type, PTL DEF Spec

-----------------------------------------------------------------------------
(***************************************************************************)
(* What somebody owns is not removed.  Between two calls of a handler the   *)
(* count of owners in file_info is never too low: who adds an owner counts  *)
(* him in first, who removes one counts him out last.  That has to be said  *)
(* of every call at which a handler can be interrupted (Local), with what   *)
(* the handler has read from the tables and not written back yet.           *)
(***************************************************************************)

OwnersOf(f) == Cardinality(RowsOf(f))

Deleting == {"del_zset", "del_status", "del_share", "del_public", "del_public_floor",
             "del_rank", "del_name", "del_count", "del_count_floor", "del_list"}

\* Steps at which Local says something.
Special == Deleting \union
  {"md5_own", "md5_update", "md5_insert", "md5_restore", "save_update", "save_insert",
   "up_store", "up_info", "up_list", "del_refs", "del_update", "del_id", "del_info", "del_file"}

Neutral == Steps \ Special

OneInfo == \A i, j \in info : i.file = j.file \/ i.id = j.id => i = j
Kept    == \A i \in info : i.file \notin forgotten => i.id \in stored
Known   == \A r \in list : InfoOf(r.file) # {}
Covered == \A i \in info : OwnersOf(i.file) <= i.count

Global == OneInfo /\ Kept /\ Known /\ Covered

\* The row of the request's file exists and counts n owners.
Counted(n) == InfoOf(req.file) # {} /\ \A i \in InfoOf(req.file) : i.count = n

Local ==
  /\ req.at \in Deleting => Owns(req.user, req.file)
  /\ req.at \in {"md5_own", "md5_update", "save_update"} => Counted(req.n)
  /\ req.at \in {"md5_insert", "save_insert"} => Counted(req.n + 1)
  /\ req.at \in {"md5_insert", "save_insert", "md5_restore", "del_update"} =>
       OwnersOf(req.file) <= req.n
  /\ req.at \in {"up_store", "up_info"} => InfoOf(req.file) = {}
  /\ req.at = "up_info" => req.id \in stored /\ \A i \in info : i.id # req.id
  /\ req.at = "up_list" => Counted(1)
  /\ req.at \in {"up_list", "del_id", "del_info", "del_file"} => RowsOf(req.file) = {}
  /\ req.at = "del_refs" => \A i \in InfoOf(req.file) : OwnersOf(req.file) < i.count
  /\ req.at = "del_info" => \E i \in InfoOf(req.file) : i.id = req.id
  /\ req.at = "del_file" => \A i \in info : i.id = req.id => i.file \in forgotten

OwnersInv == TypeInv /\ Global /\ Local

------------------------------------------------------------------------------
(* Steps that change no table *)

LEMMA Fields ==
  ASSUME TypeInv, req.at # "idle", NEW step, Go(step)
  PROVE  /\ req'.at = step /\ req'.user = req.user /\ req'.file = req.file
         /\ req'.n = req.n /\ req'.id = req.id
<1> req \in Request0
    BY Busy
<1> QED  BY DEF Go, Request0

LEMMA LocalCounted ==
  ASSUME req'.at \in {"md5_own", "md5_update", "save_update"}, Counted(req.n)'
  PROVE  Local'
BY DEF Local, Deleting

LEMMA LocalInfo ==
  ASSUME req'.at = "up_info", InfoOf(req.file)' = {}, (req.id)' \in stored',
         \A i \in info' : i.id # (req.id)'
  PROVE  Local'
BY DEF Local, Deleting

LEMMA LocalIdle == Answer => Local'
  BY DEF Answer, NoReq, Local, Deleting

LEMMA LocalNeutral == req'.at \in Neutral => Local'
  BY DEF Neutral, Special, Deleting, Local

LEMMA GlobalSame == ASSUME Global, UNCHANGED <<list, info, stored, forgotten>> PROVE Global'
  BY DEF Global, OneInfo, Kept, Known, Covered, OwnersOf, RowsOf, InfoOf

LEMMA LocalSame ==
  ASSUME Local, UNCHANGED <<list, info, stored, forgotten, req>> PROVE Local'
  BY DEF Local, Counted, OwnersOf, RowsOf, InfoOf, Owns, Rows

LEMMA OwnersFinite ==
  ASSUME StoresTyped, NEW f PROVE IsFiniteSet(RowsOf(f)) /\ OwnersOf(f) \in Nat
<1>1. RowsOf(f) \subseteq list /\ IsFiniteSet(list)
      BY DEF RowsOf, StoresTyped
<1>2. IsFiniteSet(RowsOf(f))
      BY <1>1, FS_Subset
<1> QED  BY <1>2, FS_CardinalityType DEF OwnersOf

LEMMA Owners == ASSUME TypeInv, NEW f PROVE IsFiniteSet(RowsOf(f)) /\ OwnersOf(f) \in Nat
  BY Parts, OwnersFinite

LEMMA NoOwners == ASSUME TypeInv, NEW f PROVE OwnersOf(f) <= 0 <=> RowsOf(f) = {}
<1>1. IsFiniteSet(RowsOf(f)) /\ OwnersOf(f) \in Nat
      BY Owners
<1> QED  BY <1>1, FS_EmptySet DEF OwnersOf

------------------------------------------------------------------------------
(* Statements *)

\* file_info after an update of the counts of f.
LEMMA RecountedStores ==
  ASSUME StoresTyped, Global, NEW f, NEW n \in Nat, OwnersOf(f) <= n, SetCounts(f, n),
         UNCHANGED <<list, stored, forgotten>>
  PROVE  /\ Global'
         /\ \A i \in info' : i.file = f => i.count = n
         /\ InfoOf(f) # {} => \E i \in info' : i.file = f
<1> DEFINE New(i) == IF i.file = f THEN [i EXCEPT !.count = n] ELSE i
<1>1. info' = {New(i) : i \in info}
      BY DEF SetCounts
<1>2. ASSUME NEW i \in info
      PROVE  /\ New(i).file = i.file /\ New(i).id = i.id
             /\ i.file = f => New(i).count = n
             /\ i.file # f => New(i) = i
  <2> i \in [id : Ids, file : Files, count : Nat]
      BY DEF StoresTyped
  <2> QED  OBVIOUS
<1> HIDE DEF New
<1>3. OneInfo'
      BY <1>1, <1>2 DEF Global, OneInfo
<1>4. Kept'
      BY <1>1, <1>2 DEF Global, Kept
<1>5. Known'
      BY <1>1, <1>2 DEF Global, Known, InfoOf
<1>6. Covered'
  <2>1. \A g : OwnersOf(g)' = OwnersOf(g)
        BY DEF OwnersOf, RowsOf
  <2>2. ASSUME NEW i \in info PROVE OwnersOf(New(i).file)' <= New(i).count
        BY <1>2, <2>1 DEF Global, Covered
  <2> QED  BY <1>1, <2>2 DEF Covered
<1> QED  BY <1>1, <1>2, <1>3, <1>4, <1>5, <1>6 DEF Global, InfoOf

LEMMA Recounted ==
  ASSUME TypeInv, Global, NEW f, NEW n \in Nat, OwnersOf(f) <= n, SetCounts(f, n),
         UNCHANGED <<list, stored, forgotten>>
  PROVE  /\ Global'
         /\ \A i \in info' : i.file = f => i.count = n
         /\ InfoOf(f) # {} => \E i \in info' : i.file = f
  BY Parts, RecountedStores

\* user_file_list after an insert: a new row at most for f.
LEMMA Grown ==
  ASSUME TypeInv, Global, NEW u \in Users, NEW f \in Files, InsertRow(u, f),
         InfoOf(f) # {}, \A i \in InfoOf(f) : OwnersOf(f) < i.count,
         UNCHANGED <<info, stored, forgotten>>
  PROVE  Global'
<1>1. PICK k \in Copies :
        list' = list \union {[user |-> u, file |-> f, copy |-> k, shared |-> FALSE]}
      BY DEF InsertRow, Fresh
<1> DEFINE row == [user |-> u, file |-> f, copy |-> k, shared |-> FALSE]
<1>2. row.file = f
      OBVIOUS
<1> HIDE DEF row
<1>3. list' = list \union {row}
      BY <1>1 DEF row
<1>4. RowsOf(f)' = RowsOf(f) \union {row} /\ \A g : g # f => RowsOf(g)' = RowsOf(g)
      BY <1>2, <1>3 DEF RowsOf
<1>5. OwnersOf(f)' <= OwnersOf(f) + 1
  <2>1. IsFiniteSet(RowsOf(f)) /\ OwnersOf(f) \in Nat
        BY Owners
  <2>2. Cardinality(RowsOf(f) \union {row}) =
          IF row \in RowsOf(f) THEN Cardinality(RowsOf(f)) ELSE Cardinality(RowsOf(f)) + 1
        BY <2>1, FS_AddElement
  <2>3. OwnersOf(f)' = Cardinality(RowsOf(f) \union {row})
        BY <1>4 DEF OwnersOf
  <2> QED  BY <2>1, <2>2, <2>3 DEF OwnersOf
<1>6. Covered'
  <2> SUFFICES ASSUME NEW i \in info PROVE OwnersOf(i.file)' <= i.count
      BY DEF Covered
  <2>1. i.count \in Nat /\ OwnersOf(f) \in Nat /\ OwnersOf(f)' \in Int
    <3>1. IsFiniteSet(RowsOf(f)')
          BY <1>4, Owners, FS_AddElement
    <3> QED  BY <3>1, Owners, InfoNat, FS_CardinalityType DEF OwnersOf
  <2>2. CASE i.file = f
    <3>1. OwnersOf(f) < i.count
          BY <2>2 DEF InfoOf
    <3> QED  BY <1>5, <2>1, <2>2, <3>1
  <2>3. CASE i.file # f
        BY <1>4, <2>3 DEF Global, Covered, OwnersOf
  <2> QED  BY <2>2, <2>3
<1>7. OneInfo' /\ Kept'
      BY DEF Global, OneInfo, Kept
<1>8. Known'
      BY <1>2, <1>3 DEF Global, Known, InfoOf
<1> QED  BY <1>6, <1>7, <1>8 DEF Global

\* user_file_list after a change of the shared flag.
LEMMA MarkedGlobal ==
  ASSUME TypeInv, Global, NEW u, NEW f, NEW status \in BOOLEAN, MarkShared(u, f, status),
         UNCHANGED <<info, stored, forgotten>>
  PROVE  Global'
<1> DEFINE New(r) == IF r \in Rows(u, f) THEN [r EXCEPT !.shared = status] ELSE r
<1>1. list' = {New(r) : r \in list}
      BY DEF MarkShared
<1>2. \A r \in list : New(r).file = r.file
  <2> SUFFICES ASSUME NEW r \in list PROVE New(r).file = r.file
      OBVIOUS
  <2> r \in [user : Users, file : Files, copy : Copies, shared : BOOLEAN]
      BY DEF TypeInv, TypeOK
  <2> QED  OBVIOUS
<1> HIDE DEF New
<1>3. ASSUME NEW h PROVE OwnersOf(h)' <= OwnersOf(h)
  <2> DEFINE g == [r \in RowsOf(h) |-> New(r)]
  <2>1. RowsOf(h)' = {g[r] : r \in RowsOf(h)}
        BY <1>1, <1>2 DEF RowsOf
  <2>2. g = [r \in RowsOf(h) |-> g[r]] /\ IsFiniteSet(RowsOf(h))
        BY Owners
  <2> HIDE DEF g
  <2>3. Cardinality({g[r] : r \in RowsOf(h)}) <= Cardinality(RowsOf(h))
        BY <2>2, Image
  <2> QED  BY <2>1, <2>3 DEF OwnersOf
<1>4. Covered'
  <2> SUFFICES ASSUME NEW i \in info PROVE OwnersOf(i.file)' <= i.count
      BY DEF Covered
  <2>1. OwnersOf(i.file)' <= OwnersOf(i.file) /\ OwnersOf(i.file) <= i.count
        BY <1>3 DEF Global, Covered
  <2>2. OwnersOf(i.file) \in Nat /\ i.count \in Nat
        BY Owners, InfoNat
  <2>3. OwnersOf(i.file)' \in Int
    <3>1. IsFiniteSet(list') /\ RowsOf(i.file)' \subseteq list'
          BY Marked DEF RowsOf
    <3>2. IsFiniteSet(RowsOf(i.file)')
          BY <3>1, FS_Subset
    <3> QED  BY <3>2, FS_CardinalityType DEF OwnersOf
  <2> QED  BY <2>1, <2>2, <2>3
<1>5. Known'
      BY <1>1, <1>2 DEF Global, Known, InfoOf
<1> QED  BY <1>4, <1>5 DEF Global, OneInfo, Kept

------------------------------------------------------------------------------
(* The handlers *)

Frame == UNCHANGED <<list, info, stored, forgotten>>

\* A step between two calls at which nothing is said.
Calm ==
  /\ Frame /\ req.at \in Neutral
  /\ Answer \/ req'.at \in Neutral \ {"save_refs"}

\* Handlers that only read these stores, or write to others.
LEMMA Aside ==
  ASSUME TypeInv, \/ CountUp \/ handlePvFile
                  \/ handleGetRankingFilelist \/ getUserFilesCount
                  \/ (handleShareFile /\ ~ShareMark)
                  \/ (handleCancelShareFile /\ ~CancelMark)
  PROVE  Calm
<1> USE DEF At, Do, Frame, Calm, tables, others
<1>0. ASSUME req.at # "idle", NEW step \in Neutral \ {"save_refs"}, Go(step) PROVE req'.at \in Neutral \ {"save_refs"}
      BY <1>0, Fields
<1>1. ASSUME CountUp PROVE Calm
      BY <1>1, <1>0 DEF CountUp, Neutral, Steps, Special, Deleting
<1>2. ASSUME ShareZset PROVE Calm
      BY <1>2, <1>0 DEF ShareZset, Neutral, Steps, Special, Deleting
<1>3. ASSUME ShareRow PROVE Calm
      BY <1>3, <1>0 DEF ShareRow, Neutral, Steps, Special, Deleting
<1>4. ASSUME ShareInsert PROVE Calm
      BY <1>4, <1>0 DEF ShareInsert, Neutral, Steps, Special, Deleting
<1>5. ASSUME ShareCount PROVE Calm
      BY <1>5, <1>0 DEF ShareCount, Neutral, Steps, Special, Deleting
<1>6. ASSUME ZsetAdd PROVE Calm
      BY <1>6, <1>0 DEF ZsetAdd, Neutral, Steps, Special, Deleting
<1>7. ASSUME Hset PROVE Calm
      BY <1>7, <1>0 DEF Hset, Neutral, Steps, Special, Deleting
<1>8. ASSUME PvRow PROVE Calm
      BY <1>8, <1>0 DEF PvRow, Neutral, Steps, Special, Deleting
<1>9. ASSUME PvZset PROVE Calm
      BY <1>9, <1>0 DEF PvZset, Neutral, Steps, Special, Deleting
<1>10. ASSUME TotalGet \/ TotalLoad PROVE Calm
  <2>1. req \in Request0
        BY <1>10, Busy DEF TotalGet, TotalLoad
  <2>2. ASSUME NEW k, req' = [req EXCEPT !.at = "card", !.n = k] PROVE req'.at \in Neutral \ {"save_refs"}
        BY <2>1, <2>2 DEF Request0, Neutral, Steps, Special, Deleting
  <2>3. ASSUME Go("total_load") PROVE req'.at \in Neutral \ {"save_refs"}
        BY <1>10, <2>3, <1>0 DEF TotalGet, TotalLoad, Neutral, Steps, Special, Deleting
  <2>4. req.at \in Neutral
        BY <1>10 DEF TotalGet, TotalLoad, Neutral, Steps, Special, Deleting
  <2> QED  BY <1>10, <2>2, <2>3, <2>4 DEF TotalGet, TotalLoad
<1>11. ASSUME TotalRead PROVE Calm
      BY <1>11, <1>0 DEF TotalRead, Neutral, Steps, Special, Deleting
<1>12. ASSUME RankingCard PROVE Calm
      BY <1>12, <1>0 DEF RankingCard, Neutral, Steps, Special, Deleting
<1>13. ASSUME RankingClear PROVE Calm
      BY <1>13, <1>0 DEF RankingClear, Neutral, Steps, Special, Deleting
<1>14. ASSUME RankingFill PROVE Calm
      BY <1>14, <1>0 DEF RankingFill, Neutral, Steps, Special, Deleting
<1>15. ASSUME RankingRead PROVE Calm
      BY <1>15, <1>0 DEF RankingRead, Neutral, Steps, Special, Deleting
<1>16. ASSUME getUserFilesCount PROVE Calm
      BY <1>16, <1>0 DEF getUserFilesCount, Neutral, Steps, Special, Deleting
<1>17. ASSUME CancelPublic PROVE Calm
      BY <1>17, <1>0 DEF CancelPublic, Neutral, Steps, Special, Deleting, DecrPublic, FloorPublic
<1>18. ASSUME CancelShare PROVE Calm
      BY <1>18, <1>0 DEF CancelShare, Neutral, Steps, Special, Deleting
<1>19. ASSUME CancelRank PROVE Calm
      BY <1>19, <1>0 DEF CancelRank, Neutral, Steps, Special, Deleting
<1>20. ASSUME CancelName PROVE Calm
      BY <1>20, <1>0 DEF CancelName, Neutral, Steps, Special, Deleting
<1> HIDE DEF At, Do, Frame, Calm, tables, others
<1> QED  BY <1>1, <1>2, <1>3, <1>4, <1>5, <1>6, <1>7, <1>8, <1>9, <1>10, <1>11, <1>12, <1>13, <1>14, <1>15, <1>16, <1>17, <1>18, <1>19, <1>20
         DEF handleShareFile, handlePvFile, handleGetRankingFilelist, getShareFilesCount,
             handleCancelShareFile

LEMMA SaveOwnAside ==
  ASSUME TypeInv, SaveOwn
  PROVE  Frame /\ (Answer \/ req'.at \in Neutral)
BY Fields DEF SaveOwn, At, Do, Frame, tables, others, Neutral, Steps, Special, Deleting

\* The part of handleDeleteFile before the row is removed.
Within == req.at \in Deleting /\ (Answer \/ req'.at \in Deleting)

LEMMA BeforeDelete ==
  ASSUME OwnersInv, DeleteZset \/ DeleteStatus \/ DeleteShare \/ DeletePublic \/ DeleteRank
                    \/ DeleteCount
  PROVE  Frame /\ Local' /\ Within
<1> USE DEF OwnersInv, At, Do, Frame, Within, tables, others
<1>0. ASSUME req.at \in Deleting, NEW step \in Deleting, Go(step), UNCHANGED list PROVE Local' /\ req'.at \in Deleting
  <2>1. req.at # "idle" /\ Owns(req.user, req.file)
        BY <1>0 DEF Local, Deleting
  <2>2. req'.at \in Deleting /\ Owns(req.user, req.file)'
        BY <1>0, <2>1, Fields DEF Owns, Rows
  <2> QED  BY <2>2 DEF Local, Deleting
<1>1. ASSUME DeleteZset PROVE Frame /\ Local' /\ Within
  <2>1. req \in Request0 /\ req.at \in Deleting
        BY <1>1, Busy DEF DeleteZset, Deleting
  <2>2. ASSUME req' = [req EXCEPT !.at = "del_share", !.both = TRUE] PROVE Local' /\ req'.at \in Deleting
    <3>1. Owns(req.user, req.file)' /\ req'.at = "del_share"
          BY <1>1, <2>1, <2>2 DEF DeleteZset, Owns, Rows, Request0, Local
    <3> QED  BY <3>1 DEF Local, Deleting
  <2> QED  BY <1>1, <1>0, <2>1, <2>2, LocalIdle DEF DeleteZset, Deleting
<1>2. ASSUME DeleteStatus PROVE Frame /\ Local' /\ Within
      BY <1>2, <1>0, LocalIdle DEF DeleteStatus, Deleting
<1>3. ASSUME DeleteShare PROVE Frame /\ Local' /\ Within
      BY <1>3, <1>0, LocalIdle DEF DeleteShare, Deleting
<1>4. ASSUME DeletePublic PROVE Frame /\ Local' /\ Within
      BY <1>4, <1>0, LocalIdle DEF DeletePublic, Deleting, DecrPublic, FloorPublic, AfterDeletePublic
<1>5. ASSUME DeleteRank PROVE Frame /\ Local' /\ Within
      BY <1>5, <1>0, LocalIdle DEF DeleteRank, Deleting
<1>6. ASSUME DeleteCount PROVE Frame /\ Local' /\ Within
      BY <1>6, <1>0, LocalIdle DEF DeleteCount, Deleting
<1> QED  BY <1>1, <1>2, <1>3, <1>4, <1>5, <1>6

\* An owner is counted in, by md5 and by save.
LEMMA Update_Owners ==
  ASSUME OwnersInv, req.at \in {"md5_update", "save_update"},
         \/ SetCounts(req.file, req.n + 1) /\ (Go("md5_insert") \/ Go("save_insert"))
         \/ UNCHANGED info /\ Answer,
         UNCHANGED <<list, stored, forgotten>>
  PROVE  Global' /\ Local'
<1> Global /\ Local /\ TypeInv
    BY DEF OwnersInv
<1>1. CASE UNCHANGED info /\ Answer
      BY <1>1, LocalIdle, GlobalSame
<1>2. CASE SetCounts(req.file, req.n + 1) /\ (Go("md5_insert") \/ Go("save_insert"))
  <2>1. InfoOf(req.file) # {} /\ \A i \in InfoOf(req.file) : i.count = req.n
        BY DEF Local, Counted
  <2>2. req.n \in Nat /\ req.n + 1 \in Nat
        BY DEF TypeInv, Counting
  <2>3. OwnersOf(req.file) <= req.n
        BY <2>1 DEF Global, Covered, InfoOf
  <2>4. OwnersOf(req.file) <= req.n + 1
        BY <2>2, <2>3, Owners
  <2>5. /\ Global'
        /\ \A i \in info' : i.file = req.file => i.count = req.n + 1
        /\ \E i \in info' : i.file = req.file
        BY <1>2, <2>1, <2>2, <2>4, Recounted
  <2>6. /\ req'.at \in {"md5_insert", "save_insert"}
        /\ req'.file = req.file /\ req'.n = req.n
        BY <1>2, Fields
  <2>7. Counted(req.n + 1)'
        BY <2>5, <2>6 DEF Counted, InfoOf
  <2>8. (OwnersOf(req.file) <= req.n)'
        BY <2>3, <2>6 DEF OwnersOf, RowsOf
  <2> QED  BY <2>5, <2>6, <2>7, <2>8 DEF Local, Deleting
<1> QED  BY <1>1, <1>2

\* His row is inserted.
LEMMA Insert_Owners ==
  ASSUME OwnersInv, req.at \in {"md5_insert", "save_insert"},
         InsertRow(req.user, req.file), Go("count_up"), UNCHANGED <<info, stored, forgotten>>
  PROVE  Global' /\ Local'
<1> Global /\ Local /\ TypeInv
    BY DEF OwnersInv
<1>1. req.user \in Users /\ req.file \in Files /\ req'.at = "count_up"
      BY Busy, Fields DEF Request0
<1>2. InfoOf(req.file) # {} /\ \A i \in InfoOf(req.file) : i.count = req.n + 1
      BY DEF Local, Counted
<1>3. req.n \in Nat /\ OwnersOf(req.file) \in Nat /\ OwnersOf(req.file) <= req.n
      BY Owners DEF TypeInv, Counting, Local
<1>4. \A i \in InfoOf(req.file) : OwnersOf(req.file) < i.count
      BY <1>2, <1>3
<1>5. Global'
      BY <1>1, <1>2, <1>4, Grown
<1>6. Local'
      BY <1>1, LocalNeutral DEF Neutral, Steps, Special, Deleting
<1> QED  BY <1>5, <1>6

\* md5: what was read from file_info is written back with one owner more
\* before the row is inserted, and without him when that fails.
LEMMA Md5_Owners == ASSUME OwnersInv, handleDealMd5 PROVE Global' /\ Local'
<1> Global /\ Local /\ TypeInv
    BY DEF OwnersInv
<1> USE DEF At, Do, tables, others
<1>1. ASSUME Md5Refs PROVE Global' /\ Local'
  <2>1. req \in Request0
        BY <1>1, Busy DEF Md5Refs
  <2>2. ASSUME NEW i \in InfoOf(req.file), req' = [req EXCEPT !.at = "md5_own", !.n = i.count]
        PROVE  Local'
    <3>1. req'.at = "md5_own" /\ req'.file = req.file /\ req'.n = i.count
          BY <2>1, <2>2 DEF Request0
    <3>2. Counted(req.n)'
      <4>1. info' = info
            BY <1>1 DEF Md5Refs
      <4>2. i \in info /\ i.file = req.file /\ OneInfo
            BY DEF InfoOf, Global
      <4>3. \A k \in info : k.file = req.file => k = i
            BY <4>2 DEF OneInfo
      <4> QED  BY <4>1, <4>2, <4>3, <3>1 DEF Counted, InfoOf
    <3> QED  BY <3>1, <3>2, LocalCounted
  <2> QED  BY <1>1, <2>2, LocalIdle, GlobalSame DEF Md5Refs
<1>2. ASSUME Md5Own PROVE Global' /\ Local'
  <2>1. ASSUME Go("md5_update") PROVE Local'
    <3>1. req'.at = "md5_update" /\ req'.file = req.file /\ req'.n = req.n /\ Counted(req.n)
          BY <1>2, <2>1, Fields DEF Md5Own, Local
    <3>2. Counted(req.n)'
          BY <1>2, <3>1 DEF Md5Own, Counted, InfoOf
    <3> QED  BY <3>1, <3>2, LocalCounted
  <2> QED  BY <1>2, <2>1, LocalIdle, GlobalSame DEF Md5Own
<1>3. ASSUME Md5Update PROVE Global' /\ Local'
      BY <1>3, Update_Owners DEF Md5Update
<1>4. ASSUME Md5Insert PROVE Global' /\ Local'
  <2>1. ASSUME UNCHANGED list, Go("md5_restore") PROVE Global' /\ Local'
    <3>1. req'.at = "md5_restore" /\ req'.file = req.file /\ req'.n = req.n
          BY <1>4, <2>1, Fields DEF Md5Insert
    <3>2. (OwnersOf(req.file) <= req.n)'
          BY <1>4, <2>1, <3>1 DEF Md5Insert, Local, OwnersOf, RowsOf
    <3> QED  BY <1>4, <2>1, <3>1, <3>2, GlobalSame DEF Md5Insert, Local, Deleting
  <2>2. ASSUME InsertRow(req.user, req.file), Go("count_up") PROVE Global' /\ Local'
        BY <1>4, <2>2, Insert_Owners DEF Md5Insert
  <2> QED  BY <1>4, <2>1, <2>2 DEF Md5Insert
<1>5. ASSUME Md5Restore PROVE Global' /\ Local'
  <2>1. req.n \in Nat /\ OwnersOf(req.file) <= req.n
        BY <1>5 DEF Md5Restore, Local, TypeInv, Counting
  <2> QED  BY <1>5, <2>1, LocalIdle, Recounted, GlobalSame DEF Md5Restore
<1>6. ASSUME CountUp PROVE Global' /\ Local'
      BY <1>6, Aside, LocalIdle, LocalNeutral, GlobalSame DEF Frame, Calm
<1> QED  BY <1>1, <1>2, <1>3, <1>4, <1>5, <1>6 DEF handleDealMd5

LEMMA Save_Owners == ASSUME OwnersInv, handleSaveFile PROVE Global' /\ Local'
<1> Global /\ Local /\ TypeInv
    BY DEF OwnersInv
<1> USE DEF At, Do, tables, others
<1>1. ASSUME SaveOwn PROVE Global' /\ Local'
      BY <1>1, SaveOwnAside, LocalIdle, LocalNeutral, GlobalSame DEF Frame
<1>2. ASSUME SaveRefs PROVE Global' /\ Local'
  <2>1. req \in Request0
        BY <1>2, Busy DEF SaveRefs
  <2>2. ASSUME NEW i \in InfoOf(req.file), req' = [req EXCEPT !.at = "save_update", !.n = i.count]
        PROVE  Local'
    <3>1. req'.at = "save_update" /\ req'.file = req.file /\ req'.n = i.count
          BY <2>1, <2>2 DEF Request0
    <3>2. Counted(req.n)'
      <4>1. info' = info
            BY <1>2 DEF SaveRefs
      <4>2. i \in info /\ i.file = req.file /\ OneInfo
            BY DEF InfoOf, Global
      <4>3. \A k \in info : k.file = req.file => k = i
            BY <4>2 DEF OneInfo
      <4> QED  BY <4>1, <4>2, <4>3, <3>1 DEF Counted, InfoOf
    <3> QED  BY <3>1, <3>2, LocalCounted
  <2> QED  BY <1>2, <2>2, LocalIdle, GlobalSame DEF SaveRefs
<1>3. ASSUME SaveUpdate PROVE Global' /\ Local'
      BY <1>3, Update_Owners DEF SaveUpdate
<1>4. ASSUME SaveInsert PROVE Global' /\ Local'
  <2>1. ASSUME UNCHANGED list, Answer PROVE Global' /\ Local'
        BY <1>4, <2>1, LocalIdle, GlobalSame DEF SaveInsert
  <2>2. ASSUME InsertRow(req.user, req.file), Go("count_up") PROVE Global' /\ Local'
        BY <1>4, <2>2, Insert_Owners DEF SaveInsert
  <2> QED  BY <1>4, <2>1, <2>2 DEF SaveInsert
<1> QED  BY <1>1, <1>2, <1>3, <1>4 DEF handleSaveFile

\* An upload makes the row of an unknown content, with a new identity.
LEMMA Upload_Owners == ASSUME OwnersInv, ApiUpload PROVE Global' /\ Local'
<1> Global /\ Local /\ TypeInv
    BY DEF OwnersInv
<1> USE DEF At, Do, tables, others
<1>1. ASSUME UploadStore PROVE Global' /\ Local'
  <2>1. ASSUME NEW d \in Ids \ UsedIds, stored' = stored \union {d},
               req' = [req EXCEPT !.at = "up_info", !.id = d]
        PROVE  Global' /\ Local'
    <3>1. req \in Request0
          BY <1>1, Busy DEF UploadStore
    <3>2. req'.at = "up_info" /\ req'.file = req.file /\ req'.id = d
          BY <2>1, <3>1 DEF Request0
    <3>3. Global'
          BY <1>1, <2>1 DEF UploadStore, Global, OneInfo, Kept, Known, Covered, OwnersOf, RowsOf, InfoOf
    <3>4. InfoOf(req.file)' = {} /\ d \in stored' /\ \A i \in info' : i.id # d
      <4>1. info' = info /\ req.at = "up_store"
            BY <1>1 DEF UploadStore
      <4>2. InfoOf(req.file) = {}
            BY <4>1 DEF Local
      <4>3. \A i \in info : i.id # d
            BY DEF UsedIds
      <4> QED  BY <2>1, <3>2, <4>1, <4>2, <4>3 DEF InfoOf
    <3> QED  BY <3>2, <3>3, <3>4, LocalInfo
  <2> QED  BY <1>1, <2>1, LocalIdle, GlobalSame DEF UploadStore
<1>2. ASSUME UploadInfo PROVE Global' /\ Local'
  <2> DEFINE row == [id |-> req.id, file |-> req.file, count |-> 1]
  <2>1. ASSUME info' = info \union {row}, Go("up_list"), UNCHANGED <<list, stored, forgotten>>
        PROVE  Global' /\ Local'
    <3>1. req'.at = "up_list" /\ req'.file = req.file
          BY <1>2, <2>1, Fields DEF UploadInfo
    <3>2. row.id = req.id /\ row.file = req.file /\ row.count = 1
          OBVIOUS
    <3> HIDE DEF row
    <3>3. InfoOf(req.file) = {} /\ req.id \in stored /\ \A i \in info : i.id # req.id
          BY <1>2 DEF UploadInfo, Local
    <3>4. RowsOf(req.file) = {}
          BY <3>3 DEF Global, Known, RowsOf
    <3>5. OwnersOf(req.file) <= 1
          BY <3>4, FS_EmptySet DEF OwnersOf
    <3>6. OneInfo' /\ Kept' /\ Known'
          BY <2>1, <3>2, <3>3 DEF Global, OneInfo, Kept, Known, InfoOf
    <3>7. Covered'
          BY <2>1, <3>2, <3>5 DEF Global, Covered, OwnersOf, RowsOf
    <3>8. Counted(1)' /\ RowsOf(req.file)' = {}
          BY <2>1, <3>1, <3>2, <3>3, <3>4 DEF Counted, InfoOf, RowsOf
    <3> QED  BY <3>1, <3>6, <3>7, <3>8 DEF Global, Local, Deleting
  <2> QED  BY <1>2, <2>1, LocalIdle, GlobalSame DEF UploadInfo
<1>3. ASSUME UploadList PROVE Global' /\ Local'
  <2>1. ASSUME InsertRow(req.user, req.file) PROVE Global'
    <3>1. req.user \in Users /\ req.file \in Files
          BY <1>3, Busy DEF UploadList, Request0
    <3>2. InfoOf(req.file) # {} /\ \A i \in InfoOf(req.file) : i.count = 1
          BY <1>3 DEF UploadList, Local, Counted
    <3>3. RowsOf(req.file) = {}
          BY <1>3 DEF UploadList, Local
    <3>4. OwnersOf(req.file) = 0
          BY <3>3, FS_EmptySet DEF OwnersOf
    <3> QED  BY <1>3, <2>1, <3>1, <3>2, <3>4, Grown DEF UploadList
  <2> QED  BY <1>3, <2>1, LocalIdle, GlobalSame DEF UploadList
<1> QED  BY <1>1, <1>2, <1>3 DEF ApiUpload

LEMMA Share_Owners ==
  ASSUME OwnersInv, handleShareFile \/ handleCancelShareFile PROVE Global' /\ Local'
<1> Global /\ Local /\ TypeInv
    BY DEF OwnersInv
<1>1. ASSUME ShareMark PROVE Global' /\ Local'
  <2>1. ASSUME MarkShared(req.user, req.file, TRUE), Go("share_insert") PROVE Global' /\ Local'
    <3>1. Global'
          BY <1>1, <2>1, MarkedGlobal DEF ShareMark, others
    <3>2. req'.at = "share_insert"
          BY <1>1, <2>1, Fields DEF ShareMark, At
    <3>3. req'.at \in Neutral
          BY <3>2 DEF Neutral, Steps, Special, Deleting
    <3> QED  BY <3>1, <3>3, LocalNeutral
  <2>2. ASSUME UNCHANGED list, Answer PROVE Global' /\ Local'
        BY <1>1, <2>2, LocalIdle, GlobalSame DEF ShareMark, others
  <2> QED  BY <1>1, <2>1, <2>2 DEF ShareMark, Do
<1>2. ASSUME CancelMark PROVE Global' /\ Local'
  <2>1. ASSUME MarkShared(req.user, req.file, FALSE), Go("can_public") PROVE Global' /\ Local'
    <3>1. Global'
          BY <1>2, <2>1, MarkedGlobal DEF CancelMark, others
    <3>2. req'.at = "can_public"
          BY <1>2, <2>1, Fields DEF CancelMark, At
    <3>3. req'.at \in Neutral
          BY <3>2 DEF Neutral, Steps, Special, Deleting
    <3> QED  BY <3>1, <3>3, LocalNeutral
  <2>2. ASSUME UNCHANGED list, Answer PROVE Global' /\ Local'
        BY <1>2, <2>2, LocalIdle, GlobalSame DEF CancelMark, others
  <2> QED  BY <1>2, <2>1, <2>2 DEF CancelMark, Do
<1> QED  BY <1>1, <1>2, Aside, LocalIdle, LocalNeutral, GlobalSame DEF Frame, Calm

\* An owner's row is removed first, then he is counted out, and only when
\* nobody is left the content goes.
LEMMA Delete_Owners == ASSUME OwnersInv, handleDeleteFile PROVE Global' /\ Local'
<1> Global /\ Local /\ TypeInv
    BY DEF OwnersInv
<1>1. ASSUME DeleteZset \/ DeleteStatus \/ DeleteShare \/ DeletePublic \/ DeleteRank \/ DeleteCount
      PROVE  Global' /\ Local'
      BY <1>1, BeforeDelete, GlobalSame DEF Frame, Calm
<1> USE DEF At, Do, tables, others
<1>2. ASSUME DeleteList PROVE Global' /\ Local'
  <2>1. ASSUME list' = list \ Rows(req.user, req.file), Go("del_refs"),
               UNCHANGED <<info, stored, forgotten>>
        PROVE  Global' /\ Local'
    <3>1. req'.at = "del_refs" /\ req'.file = req.file
          BY <1>2, <2>1, Fields DEF DeleteList
    <3>2. ASSUME NEW h PROVE OwnersOf(h)' \in Int /\ OwnersOf(h)' <= OwnersOf(h)
      <4>1. RowsOf(h)' \subseteq RowsOf(h) /\ IsFiniteSet(RowsOf(h))
            BY <2>1, Owners DEF RowsOf
      <4> QED  BY <4>1, FS_Subset, FS_CardinalityType DEF OwnersOf
    <3>3. \E r \in RowsOf(req.file) : r \notin list'
          BY <1>2, <2>1 DEF DeleteList, Local, Deleting, Owns, Rows, RowsOf
    <3>4. Cardinality({r \in list' : r.file = req.file}) < OwnersOf(req.file)
      <4> DEFINE T == {r \in list' : r.file = req.file}
      <4>1. T \subseteq RowsOf(req.file) /\ T # RowsOf(req.file) /\ IsFiniteSet(RowsOf(req.file))
            BY <2>1, <3>3, Owners DEF RowsOf
      <4> HIDE DEF T
      <4>2. Cardinality(T) < Cardinality(RowsOf(req.file))
            BY <4>1, FS_Subset, FS_CardinalityType
      <4> QED  BY <4>2 DEF T, OwnersOf
    <3>5. OneInfo' /\ Kept' /\ Known'
          BY <2>1 DEF Global, OneInfo, Kept, Known, InfoOf
    <3>6. Covered'
      <4> SUFFICES ASSUME NEW i \in info PROVE OwnersOf(i.file)' <= i.count
          BY <2>1 DEF Covered
      <4>1. OwnersOf(i.file) \in Nat /\ i.count \in Nat /\ OwnersOf(i.file) <= i.count
            BY Owners, InfoNat DEF Global, Covered
      <4> QED  BY <3>2, <4>1
    <3>7. ASSUME NEW i \in InfoOf(req.file)
          PROVE  Cardinality({r \in list' : r.file = req.file}) < i.count
      <4>1. OwnersOf(req.file) \in Nat /\ i.count \in Nat /\ OwnersOf(req.file) <= i.count
            BY Owners, InfoNat DEF Global, Covered, InfoOf
      <4>2. Cardinality({r \in list' : r.file = req.file}) \in Int
        <5>1. IsFiniteSet({r \in list' : r.file = req.file})
          <6>1. {r \in list' : r.file = req.file} \subseteq RowsOf(req.file)
                BY <2>1 DEF RowsOf
          <6> QED  BY <6>1, Owners, FS_Subset
        <5> QED  BY <5>1, FS_CardinalityType
      <4> QED  BY <3>4, <4>1, <4>2
    <3>8. (\A i \in InfoOf(req.file) : OwnersOf(req.file) < i.count)'
          BY <2>1, <3>1, <3>7 DEF InfoOf, OwnersOf, RowsOf
    <3> QED  BY <3>1, <3>5, <3>6, <3>8 DEF Global, Local, Deleting
  <2> QED  BY <1>2, <2>1, LocalIdle, GlobalSame DEF DeleteList
<1>3. ASSUME DeleteRefs PROVE Global' /\ Local'
  <2>1. req \in Request0
        BY <1>3, Busy DEF DeleteRefs
  <2>2. ASSUME NEW i \in InfoOf(req.file)
        PROVE  /\ OwnersOf(req.file) \in Nat /\ i.count \in Nat /\ OwnersOf(req.file) < i.count
        BY <1>3, Owners, InfoNat DEF DeleteRefs, Local, InfoOf
  <2>3. ASSUME NEW i \in InfoOf(req.file), req' = [req EXCEPT !.at = "del_update", !.n = i.count - 1]
        PROVE  Local'
    <3>1. req'.at = "del_update" /\ req'.file = req.file /\ req'.n = i.count - 1
          BY <2>1, <2>3 DEF Request0
    <3>2. OwnersOf(req.file) <= i.count - 1
          BY <2>2
    <3>3. (OwnersOf(req.file) <= req.n)'
          BY <1>3, <3>1, <3>2 DEF DeleteRefs, OwnersOf, RowsOf
    <3> QED  BY <3>1, <3>3 DEF Local, Deleting
  <2>4. \A i \in InfoOf(req.file) : i.count > 0
        BY <2>2
  <2> QED  BY <1>3, <2>3, <2>4, LocalIdle, GlobalSame DEF DeleteRefs
<1>4. ASSUME DeleteUpdate PROVE Global' /\ Local'
  <2>1. ASSUME SetCounts(req.file, req.n), IF req.n = 0 THEN Go("del_id") ELSE Answer,
               UNCHANGED <<list, stored, forgotten>>
        PROVE  Global' /\ Local'
    <3>1. req.n \in Nat /\ OwnersOf(req.file) <= req.n
          BY <1>4 DEF DeleteUpdate, Local, TypeInv, Counting
    <3>2. Global'
          BY <2>1, <3>1, Recounted
    <3>3. ASSUME req.n = 0, Go("del_id") PROVE Local'
      <4>1. req'.at = "del_id" /\ req'.file = req.file
            BY <1>4, <3>3, Fields DEF DeleteUpdate
      <4>2. RowsOf(req.file) = {}
            BY <3>1, <3>3, NoOwners
      <4>3. RowsOf(req.file)' = {}
            BY <2>1, <4>1, <4>2 DEF RowsOf
      <4> QED  BY <4>1, <4>3 DEF Local, Deleting
    <3> QED  BY <2>1, <3>2, <3>3, LocalIdle
  <2> QED  BY <1>4, <2>1, LocalIdle, GlobalSame DEF DeleteUpdate
<1>5. ASSUME DeleteId PROVE Global' /\ Local'
  <2>1. req \in Request0 /\ RowsOf(req.file) = {}
        BY <1>5, Busy DEF DeleteId, Local
  <2>2. PICK i \in InfoOf(req.file) : req' = [req EXCEPT !.at = "del_info", !.id = i.id]
        BY <1>5 DEF DeleteId
  <2>3. req'.at = "del_info" /\ req'.file = req.file /\ req'.id = i.id
        BY <2>1, <2>2 DEF Request0
  <2>4. RowsOf(req.file)' = {} /\ (\E j \in InfoOf(req.file) : j.id = req.id)'
        BY <1>5, <2>1, <2>2, <2>3 DEF DeleteId, RowsOf, InfoOf
  <2> QED  BY <1>5, <2>3, <2>4, GlobalSame DEF DeleteId, Local, Deleting
<1>6. ASSUME DeleteInfo PROVE Global' /\ Local'
  <2>1. /\ req'.at = "del_file" /\ req'.file = req.file /\ req'.id = req.id
        BY <1>6, Fields DEF DeleteInfo
  <2>2. RowsOf(req.file) = {} /\ \E i \in InfoOf(req.file) : i.id = req.id
        BY <1>6 DEF DeleteInfo, Local
  <2>3. UNCHANGED <<list, stored>> /\ RowsOf(req.file)' = {}
        BY <1>6, <2>1, <2>2 DEF DeleteInfo, RowsOf
  <2>4. \A r \in list : r.file # req.file
        BY <2>2 DEF RowsOf
  <2>5. CASE info' = info \ InfoOf(req.file) /\ UNCHANGED forgotten
    <3>1. OneInfo' /\ Kept'
          BY <2>3, <2>5 DEF Global, OneInfo, Kept
    <3>2. Known'
          BY <2>3, <2>4, <2>5 DEF Global, Known, InfoOf
    <3>3. Covered'
          BY <2>3, <2>5 DEF Global, Covered, OwnersOf, RowsOf
    <3>4. (\A i \in info : i.id = req.id => i.file \in forgotten)'
      <4>1. PICK i \in InfoOf(req.file) : i.id = req.id
            BY <2>2
      <4>2. \A j \in info : j.id = req.id => j = i
            BY <4>1 DEF Global, OneInfo, InfoOf
      <4>3. \A j \in info' : j.id # req.id
            BY <2>5, <4>1, <4>2
      <4> QED  BY <2>1, <4>3
    <3> QED  BY <2>1, <2>3, <3>1, <3>2, <3>3, <3>4 DEF Global, Local, Deleting
  <2>6. CASE UNCHANGED info /\ forgotten' = forgotten \union {req.file}
    <3>1. Global'
          BY <2>3, <2>6 DEF Global, OneInfo, Kept, Known, Covered, OwnersOf, RowsOf, InfoOf
    <3>2. (\A i \in info : i.id = req.id => i.file \in forgotten)'
          BY <2>1, <2>2, <2>6 DEF Global, OneInfo, InfoOf
    <3> QED  BY <2>1, <2>3, <3>1, <3>2 DEF Local, Deleting
  <2> QED  BY <1>6, <2>5, <2>6 DEF DeleteInfo
<1>7. ASSUME RemoveFileFromFastDfs PROVE Global' /\ Local'
  <2>1. \A i \in info : i.id = req.id => i.file \in forgotten
        BY <1>7 DEF RemoveFileFromFastDfs, Local
  <2>2. Kept'
        BY <1>7, <2>1 DEF RemoveFileFromFastDfs, Global, Kept
  <2>3. OneInfo' /\ Known' /\ Covered'
        BY <1>7 DEF RemoveFileFromFastDfs, Global, OneInfo, Known, Covered, OwnersOf, RowsOf, InfoOf
  <2> QED  BY <1>7, <2>2, <2>3, LocalIdle DEF RemoveFileFromFastDfs, Global
<1> QED  BY <1>1, <1>2, <1>3, <1>4, <1>5, <1>6, <1>7 DEF handleDeleteFile

\* Requests, logins and crashes.
LEMMA Others_Owners ==
  ASSUME UploadOnce, OwnOnly, OwnersInv,
         \/ \E u \in Users, f \in Files : Accept(u, f)
         \/ \E u \in Users : ApiUserLogin(u)
         \/ Crash
  PROVE  Global' /\ Local'
<1> Global /\ Local /\ TypeInv
    BY DEF OwnersInv
<1>1. ASSUME NEW u \in Users, NEW f \in Files, Accept(u, f) PROVE Global' /\ Local'
  <2>1. UNCHANGED <<list, info, stored, forgotten>>
        BY <1>1 DEF Accept, tables
  <2>2. ASSUME NEW step \in Neutral, Request(u, f, step) PROVE Local'
    <3>1. req'.at \in Neutral
          BY <2>2 DEF Request
    <3> QED  BY <3>1, LocalNeutral
  <2>3. ASSUME InfoOf(f) = {}, Request(u, f, "up_store") PROVE Local'
    <3>1. req'.at = "up_store" /\ InfoOf(req.file)' = {}
          BY <2>1, <2>3 DEF Request, InfoOf
    <3> QED  BY <3>1 DEF Local, Deleting
  <2>4. ASSUME Owns(u, f), Request(u, f, "del_zset") PROVE Local'
    <3>1. req'.at = "del_zset" /\ Owns(req.user, req.file)'
          BY <2>1, <2>4 DEF Request, Owns, Rows
    <3> QED  BY <3>1 DEF Local, Deleting
  <2>5. {"md5_refs", "share_zset", "can_mark", "save_own", "pv_row", "total", "mine"} \subseteq Neutral
        BY DEF Neutral, Steps, Special, Deleting
  <2>6. Local'
        BY <1>1, <2>2, <2>3, <2>4, <2>5 DEF Accept
  <2> QED  BY <2>1, <2>6, GlobalSame
<1>2. ASSUME NEW u \in Users, ApiUserLogin(u) PROVE Global' /\ Local'
  <2>1. UNCHANGED <<list, info, stored, forgotten, req>>
        BY <1>2 DEF ApiUserLogin, LoginRead, LoginSet, tables
  <2> QED  BY <2>1, GlobalSame, LocalSame
<1>3. ASSUME Crash PROVE Global' /\ Local'
  <2>1. UNCHANGED <<list, info, stored, forgotten>> /\ Answer
        BY <1>3 DEF Crash, tables, Answer
  <2> QED  BY <2>1, GlobalSame, LocalIdle
<1> QED  BY <1>1, <1>2, <1>3

------------------------------------------------------------------------------
(* The theorems *)

LEMMA Init_Owners == Init => OwnersInv
<1> SUFFICES ASSUME Init PROVE Global /\ Local
    BY Init_Type DEF OwnersInv
<1> QED  BY DEF Init, Global, OneInfo, Kept, Known, Covered, Local, Deleting, NoReq

LEMMA Step_Owners ==
  ASSUME UploadOnce, OwnOnly PROVE OwnersInv /\ [Next]_vars => OwnersInv'
<1> SUFFICES ASSUME OwnersInv, [Next]_vars PROVE Global' /\ Local'
    BY Step_Type DEF OwnersInv
<1>1. CASE UNCHANGED vars
  <2>1. UNCHANGED <<list, info, stored, forgotten, req>>
        BY <1>1 DEF vars, tables, others
  <2> QED  BY <2>1, GlobalSame, LocalSame DEF OwnersInv
<1>2. CASE handlePvFile \/ handleGetRankingFilelist \/ getUserFilesCount
      BY <1>2, Aside, LocalIdle, LocalNeutral, GlobalSame DEF Frame, Calm, OwnersInv
<1>3. CASE handleDealMd5 \/ ApiUpload \/ handleShareFile \/ handleDeleteFile
           \/ handleCancelShareFile \/ handleSaveFile
      BY <1>3, Md5_Owners, Upload_Owners, Share_Owners, Delete_Owners, Save_Owners
<1>4. CASE \/ \E u \in Users, f \in Files : Accept(u, f)
           \/ \E u \in Users : ApiUserLogin(u)
           \/ Crash
      BY <1>4, Others_Owners
<1> QED  BY <1>1, <1>2, <1>3, <1>4 DEF Next

\* A content that somebody has in his list is in FastDFS, wherever calls fail
\* and the server crashes, however many users and files there are.
THEOREM OwnedIsKept == ASSUME UploadOnce, OwnOnly PROVE Spec => []NoDangling
<1>1. OwnersInv => NoDangling
  <2> SUFFICES ASSUME OwnersInv, NEW r \in list, r.file \notin forgotten
               PROVE  \E i \in info : i.file = r.file /\ i.id \in stored
      BY DEF NoDangling
  <2>1. PICK i \in info : i.file = r.file
        BY DEF OwnersInv, Global, Known, InfoOf
  <2> QED  BY <2>1 DEF OwnersInv, Global, Kept
<1>2. OwnersInv /\ [Next]_vars => OwnersInv'
      BY Step_Owners
<1> QED  BY <1>1, <1>2, Init_Owners, PTL DEF Spec

\* handleDeleteFile takes a content out of FastDFS only when nobody has it.
THEOREM RemovedIsUnowned == ASSUME UploadOnce, OwnOnly PROVE Spec => []UnownedWhenRemoved
<1>1. OwnersInv => UnownedWhenRemoved
      BY DEF OwnersInv, Local, UnownedWhenRemoved
<1>2. OwnersInv /\ [Next]_vars => OwnersInv'
      BY Step_Owners
<1> QED  BY <1>1, <1>2, Init_Owners, PTL DEF Spec

------------------------------------------------------------------------------
(* Counts that are equal to owners, shares that agree, counters that keep    *)
(* their bounds: the invariants                                             *)

\* Steps at which an owner is counted whose row is not there yet, or is not
\* there any more.
Ahead == {"md5_insert", "save_insert", "up_list", "del_refs", "del_update"}

\* Steps at which the user is known not to have the file.
Without == {"md5_update", "md5_insert", "save_refs", "save_update", "save_insert"}

Extra(f) == IF req.at \in Ahead /\ req.file = f THEN 1 ELSE 0

Singles == \A r, s \in list : r.user = s.user /\ r.file = s.file => r = s

\* refs[f] is the number of references to f that no list of a user holds.
Exact(refs) == \A i \in info : OwnersOf(i.file) + Extra(i.file) + refs[i.file] = i.count

\* What is referred to has its row, also while somebody is about to remove it.
Pinned(refs) ==
  /\ refs \in [Files -> Nat]
  /\ \A f \in Files : refs[f] # 0 => InfoOf(f) # {}
  /\ req.at \in {"del_id", "del_info"} => refs[req.file] = 0

Reading ==
  /\ req.at \in Without => ~Owns(req.user, req.file)
  /\ req.at # "md5_restore"
  /\ req.at = "del_update" => Counted(req.n + 1)

\* The handlers of files know no other references.
NoOther == [f \in Files |-> 0]

ExactInv ==
  OwnersInv /\ (NoTrouble => Singles /\ Exact(NoOther) /\ Pinned(NoOther) /\ Reading)

--------------------------------------------------------------------------
Cancelling == {"can_public", "can_public_floor", "can_share"}
Unshared == {"del_public", "del_public_floor", "del_rank", "del_name", "del_count", "del_count_floor", "del_list"}

Mine(s) == s.user = req.user /\ s.file = req.file

\* A file is shared once, and who is about to share it knows that it is not.
OneShare ==
  /\ \A s, t \in shares : s.file = t.file => s = t
  /\ req.at \in {"share_mark", "share_insert"} => req.file \notin Shared

\* A share is of a marked row, but while the share is cancelled.
MarkedShares ==
  \A s \in shares :
    /\ Owns(s.user, s.file)
    /\ \/ req.at \in Cancelling /\ Mine(s)
       \/ \A r \in Rows(s.user, s.file) : r.shared

AtShares ==
  /\ req.at \in {"share_zset", "share_row", "share_mark", "share_insert"} =>
       Owns(req.user, req.file)
  /\ req.at = "share_insert" => \A r \in Rows(req.user, req.file) : r.shared
  /\ req.at \in Unshared => \A s \in shares : ~Mine(s)

\* Ranking
Leaving == {"del_public", "del_public_floor", "del_rank", "can_rank"}

RankedShared == \A f \in ranked : f \in Shared \/ (req.at \in Leaving /\ req.file = f)

NamedRanked ==
  IF req.at = "hash_in" THEN ranked = named \union {req.file}
  ELSE IF req.at \in {"del_name", "can_name"} THEN ranked = named \ {req.file}
  ELSE IF req.at = "clear_hash" THEN ranked = {}
  ELSE IF req.at = "fill" THEN ranked = {} /\ named = {}
  ELSE named = ranked

AtRanking ==
  /\ req.at \in {"share_count", "zset_in", "pv_zset"} => req.file \in Shared
  /\ req.at = "del_status" => ~req.both /\ req.file \notin ranked
  /\ req.at \in {"del_share", "del_public", "del_public_floor"} /\ ~req.both =>
       req.file \notin ranked
  /\ req.at = "del_zset" => ~req.both

SharesInv ==
  /\ ExactInv
  /\ NoFailed => OneShare
  /\ NoTrouble => MarkedShares /\ AtShares /\ RankedShared /\ NamedRanked /\ AtRanking

--------------------------------------------------------------------------
\* The table of shared files without the share of u of the file f.
SharesBut(u, f) == {s \in shares : ~(s.user = u /\ s.file = f)}

Bounded ==
  IF req.at = "share_count" THEN publicCount + 1 <= Cardinality(shares)
  ELSE IF req.at = "del_public" THEN publicCount <= Cardinality(shares) + 1
  ELSE IF req.at = "can_share" THEN publicCount <= Cardinality(SharesBut(req.user, req.file))
  ELSE publicCount <= Cardinality(shares)

PublicFloored ==
  req.at \notin {"del_public_floor", "can_public_floor"} => publicCount >= 0

UsersFloored ==
  /\ \A u \in Users :
       \/ userCount[u] >= 0
       \/ req.at = "del_count_floor" /\ req.user = u
  /\ \A u \in Users : logins[u] >= -1

CountsInv ==
  /\ SharesInv
  /\ NoFailed => Bounded
  /\ NoTrouble => PublicFloored /\ UsersFloored

------------------------------------------------------------------------------
(* What the statements do, row by row *)

\* A call that has failed, and a crash, are trouble.
LEMMA Troubled ==
  ASSUME TypeInv, Fails \/ Crash
  PROVE  ~NoTrouble' /\ (Fails => ~NoFailed')
  BY DEF TypeInv, TypeOK, Fails, Crash, NoTrouble, NoFailed

LEMMA Works ==
  ASSUME TypeInv, NoTrouble', NEW ok, NEW bad, Do(ok, bad)
  PROVE  ok
  BY Troubled DEF Do

\* Marking a row moves no row.
LEMMA MarkedRows ==
  ASSUME TypeInv, NEW u, NEW f, NEW status \in BOOLEAN, MarkShared(u, f, status)
  PROVE  /\ \A r \in list' : \E s \in list : s.user = r.user /\ s.file = r.file
         /\ \A s \in list : \E r \in list' : s.user = r.user /\ s.file = r.file
         /\ \A r \in list' : r.user = u /\ r.file = f => r.shared = status
         /\ \A r \in list' : r \in list \/ (r.user = u /\ r.file = f)
<1> DEFINE New(r) == IF r \in Rows(u, f) THEN [r EXCEPT !.shared = status] ELSE r
<1>1. list' = {New(r) : r \in list}
  BY DEF MarkShared
<1>2. ASSUME NEW r \in list
      PROVE  /\ New(r).user = r.user /\ New(r).file = r.file
             /\ r \in Rows(u, f) => New(r).shared = status
             /\ r \notin Rows(u, f) => New(r) = r
  <2>1. r \in [user : Users, file : Files, copy : Copies, shared : BOOLEAN]
    BY DEF TypeInv, TypeOK
  <2> QED
    BY <2>1
<1> HIDE DEF New
<1>3. \A r \in list : r \in Rows(u, f) <=> r.user = u /\ r.file = f
  BY DEF Rows
<1> QED
  BY <1>1, <1>2, <1>3

\* The same for the two values the handlers write.
LEMMA MarkedTrue ==
  ASSUME TypeInv, NEW u, NEW f, MarkShared(u, f, TRUE)
  PROVE  /\ \A r \in list' : \E s \in list : s.user = r.user /\ s.file = r.file
         /\ \A s \in list : \E r \in list' : s.user = r.user /\ s.file = r.file
         /\ \A r \in list' : r.user = u /\ r.file = f => r.shared
         /\ \A r \in list' : r \in list \/ (r.user = u /\ r.file = f)
<1> PICK status \in BOOLEAN : status = TRUE
  OBVIOUS
<1>1. MarkShared(u, f, status)
  OBVIOUS
<1>2. /\ \A r \in list' : \E s \in list : s.user = r.user /\ s.file = r.file
      /\ \A s \in list : \E r \in list' : s.user = r.user /\ s.file = r.file
      /\ \A r \in list' : r.user = u /\ r.file = f => r.shared = status
      /\ \A r \in list' : r \in list \/ (r.user = u /\ r.file = f)
  BY <1>1, MarkedRows
<1> QED
  BY <1>2

LEMMA MarkedFalse ==
  ASSUME TypeInv, NEW u, NEW f, MarkShared(u, f, FALSE)
  PROVE  /\ \A s \in list : \E r \in list' : s.user = r.user /\ s.file = r.file
         /\ \A r \in list' : r \in list \/ (r.user = u /\ r.file = f)
<1> PICK status \in BOOLEAN : status = FALSE
  OBVIOUS
<1>1. MarkShared(u, f, status)
  OBVIOUS
<1> QED
  BY <1>1, MarkedRows

LEMMA MarkedSingles ==
  ASSUME TypeInv, Singles, NEW u, NEW f, NEW status \in BOOLEAN,
         MarkShared(u, f, status)
  PROVE  Singles' /\ \A g : OwnersOf(g)' = OwnersOf(g)
<1> DEFINE New(r) == IF r \in Rows(u, f) THEN [r EXCEPT !.shared = status] ELSE r
<1>1. list' = {New(r) : r \in list}
  BY DEF MarkShared
<1>2. ASSUME NEW r \in list
      PROVE  New(r).user = r.user /\ New(r).file = r.file
  <2>1. r \in [user : Users, file : Files, copy : Copies, shared : BOOLEAN]
    BY DEF TypeInv, TypeOK
  <2> QED
    BY <2>1
<1> HIDE DEF New
<1>3. Singles'
  BY <1>1, <1>2 DEF Singles
<1>4. ASSUME NEW g
      PROVE  OwnersOf(g)' = OwnersOf(g)
  <2> DEFINE h == [r \in RowsOf(g) |-> New(r)]
  <2>1. h \in [RowsOf(g) -> RowsOf(g)']
    BY <1>1, <1>2 DEF RowsOf
  <2>2. \A r, s \in RowsOf(g) : h[r] = h[s] => r = s
    BY <1>2 DEF RowsOf, Singles
  <2>3. \A s \in RowsOf(g)' : \E r \in RowsOf(g) : h[r] = s
    BY <1>1, <1>2 DEF RowsOf
  <2>4. IsFiniteSet(RowsOf(g))
    BY Owners
  <2> HIDE DEF h
  <2>5. h \in Bijection(RowsOf(g), RowsOf(g)')
    BY <2>1, <2>2, <2>3 DEF Bijection, Injection, Surjection, IsInjective
  <2>6. Cardinality(RowsOf(g)') = Cardinality(RowsOf(g))
    BY <2>4, <2>5, FS_Bijection DEF ExistsBijection
  <2> QED
    BY <2>6 DEF OwnersOf
<1> QED
  BY <1>3, <1>4

\* A user who had not the file has one row of it after an insert.
LEMMA InsertedOne ==
  ASSUME TypeInv, Singles, NEW u \in Users, NEW f \in Files, InsertRow(u, f),
         ~Owns(u, f)
  PROVE  /\ Singles' /\ OwnersOf(f)' = OwnersOf(f) + 1
         /\ \A g : g # f => OwnersOf(g)' = OwnersOf(g)
         /\ \E row : /\ list' = list \union {row}
                     /\ row.user = u /\ row.file = f /\ row \notin list
<1>1. PICK k \in Copies :
        list' = list \union {[user |-> u, file |-> f, copy |-> k, shared |-> FALSE]}
  BY DEF InsertRow, Fresh
<1>2. PICK row : row = [user |-> u, file |-> f, copy |-> k, shared |-> FALSE]
  OBVIOUS
<1>3. row.user = u /\ row.file = f /\ list' = list \union {row}
  BY <1>1, <1>2
<1>4. \A r \in list : ~(r.user = u /\ r.file = f)
  BY DEF Owns, Rows
<1>5. Singles'
  BY <1>3, <1>4 DEF Singles
<1>6. RowsOf(f)' = RowsOf(f) \union {row} /\ row \notin RowsOf(f)
  BY <1>3, <1>4 DEF RowsOf
<1>7. \A g : g # f => RowsOf(g)' = RowsOf(g)
  BY <1>3 DEF RowsOf
<1>8. Cardinality(RowsOf(f) \union {row}) = Cardinality(RowsOf(f)) + 1
  BY <1>6, Owners, FS_AddElement
<1> QED
  BY <1>3, <1>4, <1>5, <1>6, <1>7, <1>8 DEF OwnersOf

\* The one row of a user goes.
LEMMA RemovedOne ==
  ASSUME TypeInv, Singles, NEW u, NEW f, Owns(u, f), list' = list \ Rows(u, f)
  PROVE  /\ Singles' /\ OwnersOf(f) = OwnersOf(f)' + 1
         /\ OwnersOf(f)' \in Nat
         /\ \A g : g # f => OwnersOf(g)' = OwnersOf(g)
<1>1. PICK row \in list : row.user = u /\ row.file = f
  BY DEF Owns, Rows
<1>2. Rows(u, f) = {row}
  BY <1>1 DEF Rows, Singles
<1>3. Singles'
  BY DEF Singles
<1>4. RowsOf(f)' = RowsOf(f) \ {row} /\ row \in RowsOf(f)
  BY <1>1, <1>2 DEF RowsOf
<1>5. \A g : g # f => RowsOf(g)' = RowsOf(g)
  BY <1>1, <1>2 DEF RowsOf
<1>6. /\ Cardinality(RowsOf(f) \ {row}) = Cardinality(RowsOf(f)) - 1
      /\ IsFiniteSet(RowsOf(f) \ {row})
  BY <1>4, Owners, FS_RemoveElement
<1>7. OwnersOf(f)' \in Nat
  BY <1>4, <1>6, FS_CardinalityType DEF OwnersOf
<1> QED
  BY <1>3, <1>4, <1>5, <1>6, <1>7, Owners DEF OwnersOf

LEMMA RecountedRows ==
  ASSUME StoresTyped, NEW f, NEW n \in Nat, SetCounts(f, n)
  PROVE  /\ \A j \in info' : j.file = f => j.count = n
         /\ \A j \in info' : j.file # f => j \in info
         /\ \A g : InfoOf(g) # {} => InfoOf(g)' # {}
         /\ \A i \in info : \E j \in info' : j.file = i.file /\ j.id = i.id
<1> DEFINE New(i) == IF i.file = f THEN [i EXCEPT !.count = n] ELSE i
<1>1. info' = {New(i) : i \in info}
  BY DEF SetCounts
<1>2. ASSUME NEW i \in info
      PROVE  /\ New(i).file = i.file /\ New(i).id = i.id
             /\ i.file = f => New(i).count = n
             /\ i.file # f => New(i) = i
  <2>1. i \in [id : Ids, file : Files, count : Nat]
    BY DEF StoresTyped
  <2> QED
    BY <2>1
<1> HIDE DEF New
<1> QED
  BY <1>1, <1>2 DEF InfoOf

LEMMA CountedRows ==
  ASSUME TypeInv, NEW f, NEW n \in Nat, SetCounts(f, n)
  PROVE  /\ \A j \in info' : j.file = f => j.count = n
         /\ \A j \in info' : j.file # f => j \in info
         /\ \A g : InfoOf(g) # {} => InfoOf(g)' # {}
  BY Parts, RecountedRows

-----------------------------------------------------------------------------
\* Steps of the counts.
SoundCounts(refs) ==
  /\ NoTrouble /\ NoTrouble' /\ OwnersInv
  /\ Singles /\ Exact(refs) /\ Pinned(refs) /\ Reading

SoundNext(refs) == Singles' /\ Exact(refs)' /\ Pinned(refs)' /\ Reading'

\* Steps at which nothing is said of the counts but what Exact says.
Plain == Steps \ (Ahead \union Without \union {"md5_restore", "del_id", "del_info"})

LEMMA PinnedSame ==
  ASSUME NEW refs, Pinned(refs), \A g : InfoOf(g) # {} => InfoOf(g)' # {},
         req'.at \notin {"del_id", "del_info"}
  PROVE  Pinned(refs)'
  BY DEF Pinned

LEMMA PlainStep ==
  ASSUME NEW refs, Singles, Exact(refs), Pinned(refs), UNCHANGED <<list, info>>,
         req.at \notin Ahead, Answer \/ req'.at \in Plain
  PROVE  SoundNext(refs)
<1>1. /\ req'.at \notin Ahead /\ req'.at \notin Without /\ req'.at # "md5_restore"
      /\ req'.at \notin {"del_id", "del_info"}
  BY DEF Answer, NoReq, Plain, Ahead, Without
<1>2. (\A f : Extra(f)' = 0) /\ (\A f : Extra(f) = 0)
  BY <1>1 DEF Extra
<1>3. req'.at # "del_update"
  BY <1>1 DEF Ahead
<1>4. Pinned(refs)'
  BY <1>1, PinnedSame DEF InfoOf
<1>5. Exact(refs)'
  BY <1>2 DEF Exact, OwnersOf, RowsOf
<1> QED
  BY <1>1, <1>3, <1>4, <1>5 DEF SoundNext, Singles, Reading

LEMMA SameStep ==
  ASSUME NEW refs, Singles, Exact(refs), Pinned(refs), UNCHANGED <<list, info>>,
         req'.file = req.file, req'.at \in Ahead <=> req.at \in Ahead, Reading',
         req'.at \notin {"del_id", "del_info"}
  PROVE  SoundNext(refs)
<1>1. \A f : Extra(f)' = Extra(f)
  BY DEF Extra
<1>2. Pinned(refs)'
  BY PinnedSame DEF InfoOf
<1>3. Exact(refs)'
  BY <1>1 DEF Exact, OwnersOf, RowsOf
<1> QED
  BY <1>2, <1>3 DEF SoundNext, Singles

LEMMA MarkStep ==
  ASSUME NEW refs, SoundCounts(refs), NEW status \in BOOLEAN,
         MarkShared(req.user, req.file, status), UNCHANGED info,
         req.at \notin Ahead, Answer \/ req'.at \in Plain
  PROVE  SoundNext(refs)
<1>1. Singles' /\ \A g : OwnersOf(g)' = OwnersOf(g)
  BY MarkedSingles DEF SoundCounts, OwnersInv
<1>2. /\ req'.at \notin Ahead /\ req'.at \notin Without /\ req'.at # "md5_restore"
      /\ req'.at \notin {"del_id", "del_info"}
  BY DEF Answer, NoReq, Plain, Ahead, Without
<1>3. (\A f : Extra(f)' = 0) /\ (\A f : Extra(f) = 0)
  BY <1>2 DEF Extra
<1>4. req'.at # "del_update"
  BY <1>2 DEF Ahead
<1>5. Pinned(refs)'
  BY <1>2, PinnedSame DEF SoundCounts, InfoOf
<1>6. Exact(refs)'
  BY <1>1, <1>3 DEF SoundCounts, Exact
<1> QED
  BY <1>1, <1>2, <1>4, <1>5, <1>6 DEF SoundNext, Reading

LEMMA CalmPlain ==
  ASSUME Calm
  PROVE  req.at \notin Ahead /\ (Answer \/ req'.at \in Plain)
  BY DEF Calm, Neutral, Special, Deleting, Plain, Ahead, Without

LEMMA WithinPlain ==
  ASSUME Within
  PROVE  req.at \notin Ahead /\ (Answer \/ req'.at \in Plain)
  BY DEF Within, Deleting, Plain, Steps, Ahead, Without

\* The numbers that are compared.
LEMMA Numbers ==
  ASSUME NEW refs, SoundCounts(refs), NEW f \in Files
  PROVE  refs[f] \in Nat /\ OwnersOf(f) \in Nat
  BY Owners DEF SoundCounts, OwnersInv, Pinned

LEMMA FileOf ==
  ASSUME NEW refs, SoundCounts(refs), req.at # "idle"
  PROVE  req.file \in Files
  BY Busy DEF SoundCounts, OwnersInv, Request0

------------------------------------------------------------------------------
(* The counts of file_info *)

LEMMA PlainKinds ==
  /\ {"md5_own", "count_up", "up_store", "up_info", "del_file"} \subseteq Plain
  /\ {"md5_update", "save_refs", "save_update"} \cap Ahead = {}
  /\ "del_update" \notin Without /\ "del_refs" \notin Without
  /\ "up_list" \notin Without
  BY DEF Plain, Steps, Ahead, Without

LEMMA ReadCount ==
  ASSUME NEW refs, SoundCounts(refs), req.at \in {"md5_update", "save_update"}
  PROVE  /\ req.n \in Nat /\ OwnersOf(req.file) + refs[req.file] = req.n
         /\ ~Owns(req.user, req.file)
<1>1. req.n \in Nat
  BY DEF SoundCounts, OwnersInv, TypeInv, Counting
<1>2. PICK i \in info : i.file = req.file /\ i.count = req.n
  BY DEF SoundCounts, OwnersInv, Local, Counted, InfoOf
<1>3. Extra(req.file) = 0
  BY DEF Extra, Ahead
<1>4. OwnersOf(req.file) + 0 + refs[req.file] = req.n
  BY <1>2, <1>3 DEF SoundCounts, Exact
<1>5. OwnersOf(req.file) \in Nat /\ refs[req.file] \in Nat
  BY FileOf, Numbers
<1>6. OwnersOf(req.file) + refs[req.file] = req.n
  BY <1>4, <1>5
<1> QED
  BY <1>1, <1>6 DEF SoundCounts, Reading, Without

LEMMA UpdateExact ==
  ASSUME NEW refs, SoundCounts(refs), req.at \in {"md5_update", "save_update"},
         SetCounts(req.file, req.n + 1), UNCHANGED list,
         Go("md5_insert") \/ Go("save_insert")
  PROVE  SoundNext(refs)
<1> USE DEF SoundCounts, OwnersInv
<1>0. PICK u, f : u = req.user /\ f = req.file
  OBVIOUS
<1> USE <1>0
<1>1. /\ req.n \in Nat /\ OwnersOf(f) + refs[f] = req.n
      /\ ~Owns(u, f) /\ req.n + 1 \in Nat
  BY ReadCount
<1>2. /\ req'.at \in {"md5_insert", "save_insert"}
      /\ req'.user = u /\ req'.file = f
  BY Fields
<1>3. /\ \A j \in info' : j.file = f => j.count = req.n + 1
      /\ \A j \in info' : j.file # f => j \in info
      /\ \A g : InfoOf(g) # {} => InfoOf(g)' # {}
  BY <1>1, CountedRows
<1>4. \A g : OwnersOf(g)' = OwnersOf(g)
  BY DEF OwnersOf, RowsOf
<1>5. Extra(f)' = 1 /\ \A g : g # f => Extra(g)' = Extra(g)
  BY <1>2 DEF Extra, Ahead
<1>6. OwnersOf(f) \in Nat /\ refs[f] \in Nat
  BY FileOf, Numbers
<1>7. OwnersOf(f) + 1 + refs[f] = req.n + 1
  BY <1>1, <1>6
<1>8. Exact(refs)'
  BY <1>3, <1>4, <1>5, <1>7 DEF Exact
<1>9. Reading'
  BY <1>1, <1>2 DEF Reading, Owns, Rows
<1>10. Pinned(refs)'
  BY <1>2, <1>3, PinnedSame
<1> QED
  BY <1>8, <1>9, <1>10 DEF SoundNext, Singles

LEMMA InsertExact ==
  ASSUME NEW refs, SoundCounts(refs), req.at \in {"md5_insert", "save_insert"},
         InsertRow(req.user, req.file), UNCHANGED info, Go("count_up")
  PROVE  SoundNext(refs)
<1> USE DEF SoundCounts, OwnersInv
<1>0. PICK u, f : u = req.user /\ f = req.file
  OBVIOUS
<1> USE <1>0
<1>1. u \in Users /\ f \in Files /\ ~Owns(u, f)
  BY Busy DEF Request0, Reading, Without
<1>2. /\ Singles' /\ OwnersOf(f)' = OwnersOf(f) + 1
      /\ \A g : g # f => OwnersOf(g)' = OwnersOf(g)
  BY <1>1, InsertedOne
<1>3. req'.at = "count_up"
  BY Fields
<1>4. /\ \A g : Extra(g)' = 0
      /\ Extra(f) = 1 /\ \A g : g # f => Extra(g) = 0
  BY <1>3 DEF Extra, Ahead
<1>5. OwnersOf(f) \in Nat /\ refs[f] \in Nat
  BY <1>1, Numbers
<1>6. Exact(refs)'
  BY <1>2, <1>4, <1>5 DEF Exact
<1>7. Reading'
  BY <1>3 DEF Reading, Without
<1>8. Pinned(refs)'
  BY <1>3, PinnedSame DEF InfoOf
<1> QED
  BY <1>2, <1>6, <1>7, <1>8 DEF SoundNext

\* md5 and save: an owner is counted in after a look at his list.
LEMMA Md5Exact ==
  ASSUME NEW refs, SoundCounts(refs), handleDealMd5
  PROVE  SoundNext(refs)
<1> USE DEF SoundCounts, OwnersInv
<1>0. PICK u, f : u = req.user /\ f = req.file
  OBVIOUS
<1> USE <1>0
<1>1. CASE Md5Refs
  <2>1. req.at = "md5_refs" /\ UNCHANGED <<list, info>> /\ req \in Request0
    BY <1>1, Busy DEF Md5Refs, At, tables
  <2>2. Answer \/ req'.at = "md5_own"
    BY <1>1, <2>1 DEF Md5Refs, Request0
  <2> QED
    BY <2>1, <2>2, PlainStep, PlainKinds DEF Ahead
<1>2. CASE Md5Own
  <2>1. req.at = "md5_own" /\ UNCHANGED <<list, info>>
    BY <1>2 DEF Md5Own, At, tables
  <2>2. IF Rows(u, f) # {} THEN Answer ELSE Go("md5_update")
    BY <1>2, Works DEF Md5Own
  <2>3. CASE Answer
    BY <2>1, <2>3, PlainStep DEF Ahead
  <2>4. CASE Rows(u, f) = {} /\ Go("md5_update")
    <3>1. req'.at = "md5_update" /\ req'.user = u /\ req'.file = f
      BY <2>1, <2>4, Fields
    <3>2. Reading'
      BY <2>1, <2>4, <3>1 DEF Reading, Owns, Rows
    <3> QED
      BY <2>1, <3>1, <3>2, SameStep DEF Ahead
  <2> QED
    BY <2>2, <2>3, <2>4
<1>3. CASE Md5Update
  <2>1. req.at = "md5_update" /\ UNCHANGED list
    BY <1>3 DEF Md5Update, At
  <2>2. SetCounts(f, req.n + 1) /\ Go("md5_insert")
    BY <1>3, Works DEF Md5Update
  <2> QED
    BY <2>1, <2>2, UpdateExact
<1>4. CASE Md5Insert
  <2>1. req.at = "md5_insert" /\ UNCHANGED info
    BY <1>4 DEF Md5Insert, At
  <2>2. InsertRow(u, f) /\ Go("count_up")
    BY <1>4, Works DEF Md5Insert
  <2> QED
    BY <2>1, <2>2, InsertExact
<1>5. CASE Md5Restore
  BY <1>5 DEF Md5Restore, At, Reading
<1>6. CASE CountUp
  BY <1>6, Aside, CalmPlain, PlainStep DEF Calm, Frame
<1> QED
  BY <1>1, <1>2, <1>3, <1>4, <1>5, <1>6 DEF handleDealMd5

LEMMA SaveExact ==
  ASSUME NEW refs, SoundCounts(refs), handleSaveFile
  PROVE  SoundNext(refs)
<1> USE DEF SoundCounts, OwnersInv
<1>0. PICK u, f : u = req.user /\ f = req.file
  OBVIOUS
<1> USE <1>0
<1>1. CASE SaveOwn
  <2>1. req.at = "save_own" /\ UNCHANGED <<list, info>>
    BY <1>1 DEF SaveOwn, At, tables
  <2>2. IF Rows(u, f) # {} THEN Answer ELSE Go("save_refs")
    BY <1>1, Works DEF SaveOwn
  <2>3. CASE Answer
    BY <2>1, <2>3, PlainStep DEF Ahead
  <2>4. CASE Rows(u, f) = {} /\ Go("save_refs")
    <3>1. req'.at = "save_refs" /\ req'.user = u /\ req'.file = f
      BY <2>1, <2>4, Fields
    <3>2. Reading'
      BY <2>1, <2>4, <3>1 DEF Reading, Owns, Rows
    <3> QED
      BY <2>1, <3>1, <3>2, SameStep DEF Ahead
  <2> QED
    BY <2>2, <2>3, <2>4
<1>2. CASE SaveRefs
  <2>1. req.at = "save_refs" /\ UNCHANGED <<list, info>> /\ req \in Request0
    BY <1>2, Busy DEF SaveRefs, At, tables
  <2>2. \/ Answer
        \/ req'.at = "save_update" /\ req'.user = u /\ req'.file = f
    BY <1>2, <2>1 DEF SaveRefs, Request0
  <2>3. CASE Answer
    BY <2>1, <2>3, PlainStep DEF Ahead
  <2>4. CASE req'.at = "save_update" /\ req'.user = u /\ req'.file = f
    <3>1. Reading'
      BY <2>1, <2>4 DEF Reading, Without, Owns, Rows
    <3> QED
      BY <2>1, <2>4, <3>1, SameStep DEF Ahead
  <2> QED
    BY <2>2, <2>3, <2>4
<1>3. CASE SaveUpdate
  <2>1. req.at = "save_update" /\ UNCHANGED list
    BY <1>3 DEF SaveUpdate, At
  <2>2. SetCounts(f, req.n + 1) /\ Go("save_insert")
    BY <1>3, Works DEF SaveUpdate
  <2> QED
    BY <2>1, <2>2, UpdateExact
<1>4. CASE SaveInsert
  <2>1. req.at = "save_insert" /\ UNCHANGED info
    BY <1>4 DEF SaveInsert, At
  <2>2. InsertRow(u, f) /\ Go("count_up")
    BY <1>4, Works DEF SaveInsert
  <2> QED
    BY <2>1, <2>2, InsertExact
<1> QED
  BY <1>1, <1>2, <1>3, <1>4 DEF handleSaveFile

\* An upload: the owner comes after his content and its row.
LEMMA UploadExact ==
  ASSUME NEW refs, SoundCounts(refs), ApiUpload
  PROVE  SoundNext(refs)
<1> USE DEF SoundCounts, OwnersInv
<1>0. PICK u, f : u = req.user /\ f = req.file
  OBVIOUS
<1> USE <1>0
<1>1. CASE UploadStore
  <2>1. req.at = "up_store" /\ UNCHANGED <<list, info>> /\ req \in Request0
    BY <1>1, Busy DEF UploadStore, At, tables
  <2>2. PICK d : req' = [req EXCEPT !.at = "up_info", !.id = d]
    BY <1>1, Works DEF UploadStore
  <2>3. req'.at = "up_info"
    BY <2>1, <2>2 DEF Request0
  <2> QED
    BY <2>1, <2>3, PlainStep, PlainKinds DEF Ahead
<1>2. CASE UploadInfo
  <2>1. req.at = "up_info" /\ UNCHANGED list
    BY <1>2 DEF UploadInfo, At
  <2>2. /\ info' = info \union {[id |-> req.id, file |-> f, count |-> 1]}
        /\ Go("up_list")
    BY <1>2, Works DEF UploadInfo
  <2>3. PICK row : /\ info' = info \union {row} /\ row.file = f /\ row.count = 1
    <3>1. PICK row : row = [id |-> req.id, file |-> f, count |-> 1]
      OBVIOUS
    <3>2. row.file = f /\ row.count = 1 /\ info' = info \union {row}
      BY <2>2, <3>1
    <3> QED
      BY <3>2
  <2>4. req'.at = "up_list" /\ req'.file = f
    BY <2>1, <2>2, Fields
  <2>5. InfoOf(f) = {} /\ RowsOf(f) = {}
    BY <2>1 DEF Local, Global, Known, RowsOf
  <2>6. OwnersOf(f) = 0 /\ \A g : OwnersOf(g)' = OwnersOf(g)
    BY <2>1, <2>5, FS_EmptySet DEF OwnersOf, RowsOf
  <2>7. Extra(f)' = 1 /\ \A g : g # f => Extra(g)' = Extra(g)
    BY <2>1, <2>4 DEF Extra, Ahead
  <2>8. refs[f] = 0
    BY <2>1, <2>5, FileOf DEF Pinned
  <2>9. Exact(refs)'
    BY <2>3, <2>5, <2>6, <2>7, <2>8 DEF Exact, InfoOf
  <2>10. Reading'
    BY <2>4 DEF Reading, Without
  <2>11. Pinned(refs)'
    BY <2>3, <2>4, PinnedSame DEF InfoOf
  <2> QED
    BY <2>1, <2>9, <2>10, <2>11 DEF SoundNext, Singles
<1>3. CASE UploadList
  <2>1. req.at = "up_list" /\ UNCHANGED info /\ Answer
    BY <1>3 DEF UploadList, At
  <2>2. InsertRow(u, f)
    BY <1>3, Works DEF UploadList
  <2>3. u \in Users /\ f \in Files /\ ~Owns(u, f)
    BY <2>1, Busy DEF Request0, Local, Owns, Rows, RowsOf
  <2>4. /\ Singles' /\ OwnersOf(f)' = OwnersOf(f) + 1
        /\ \A g : g # f => OwnersOf(g)' = OwnersOf(g)
    BY <2>2, <2>3, InsertedOne
  <2>5. req'.at = "idle"
    BY <2>1 DEF Answer, NoReq
  <2>6. /\ \A g : Extra(g)' = 0
        /\ Extra(f) = 1 /\ \A g : g # f => Extra(g) = 0
    BY <2>1, <2>5 DEF Extra, Ahead
  <2>7. OwnersOf(f) \in Nat /\ refs[f] \in Nat
    BY <2>3, Numbers
  <2>8. Exact(refs)'
    BY <2>1, <2>4, <2>6, <2>7 DEF Exact
  <2>9. Reading'
    BY <2>5 DEF Reading, Without
  <2>10. Pinned(refs)'
    BY <2>1, <2>5, PinnedSame DEF InfoOf
  <2> QED
    BY <2>4, <2>8, <2>9, <2>10 DEF SoundNext
<1> QED
  BY <1>1, <1>2, <1>3 DEF ApiUpload

\* A deletion: the owner goes before he is counted out.
LEMMA DeleteExact ==
  ASSUME NEW refs, SoundCounts(refs), handleDeleteFile
  PROVE  SoundNext(refs)
<1> USE DEF SoundCounts, OwnersInv
<1>0. PICK u, f : u = req.user /\ f = req.file
  OBVIOUS
<1> USE <1>0
<1>1. CASE DeleteZset \/ DeleteStatus \/ DeleteShare \/ DeletePublic
           \/ DeleteRank \/ DeleteCount
  BY <1>1, BeforeDelete, WithinPlain, PlainStep DEF Frame
<1>2. CASE DeleteList
  <2>1. req.at = "del_list" /\ UNCHANGED info /\ Owns(u, f)
    BY <1>2 DEF DeleteList, At, Local, Deleting
  <2>2. list' = list \ Rows(u, f) /\ Go("del_refs")
    BY <1>2, Works DEF DeleteList
  <2>3. /\ Singles' /\ OwnersOf(f) = OwnersOf(f)' + 1
        /\ OwnersOf(f)' \in Nat
        /\ \A g : g # f => OwnersOf(g)' = OwnersOf(g)
    BY <2>1, <2>2, RemovedOne
  <2>4. req'.at = "del_refs" /\ req'.file = f
    BY <2>1, <2>2, Fields
  <2>5. /\ Extra(f) = 0 /\ Extra(f)' = 1
        /\ \A g : g # f => Extra(g)' = Extra(g)
    BY <2>1, <2>4 DEF Extra, Ahead
  <2>6. OwnersOf(f) \in Nat /\ refs[f] \in Nat
    BY <2>1, FileOf, Numbers
  <2>7. Exact(refs)'
    BY <2>1, <2>3, <2>5, <2>6 DEF Exact
  <2>8. Reading'
    BY <2>4 DEF Reading, Without
  <2>9. Pinned(refs)'
    BY <2>1, <2>4, PinnedSame DEF InfoOf
  <2> QED
    BY <2>3, <2>7, <2>8, <2>9 DEF SoundNext
<1>3. CASE DeleteRefs
  <2>1. req.at = "del_refs" /\ UNCHANGED <<list, info>> /\ req \in Request0
    BY <1>3, Busy DEF DeleteRefs, At, tables
  <2>2. Extra(f) = 1 /\ \A g : g # f => Extra(g) = 0
    BY <2>1 DEF Extra, Ahead
  <2>3. \A i \in InfoOf(f) : i.count \in Nat /\ i.count > 0
    <3>1. OwnersOf(f) \in Nat /\ refs[f] \in Nat
      BY <2>1, FileOf, Numbers
    <3>2. \A i \in InfoOf(f) : OwnersOf(f) + 1 + refs[f] = i.count
      BY <2>2 DEF Exact, InfoOf
    <3> QED
      BY <3>1, <3>2
  <2>4. CASE InfoOf(f) = {} /\ Answer
    <3>1. req'.at = "idle"
      BY <2>4 DEF Answer, NoReq
    <3>2. \A g : Extra(g)' = 0
      BY <3>1 DEF Extra, Ahead
    <3>3. Exact(refs)'
      BY <2>1, <2>2, <2>4, <3>2 DEF Exact, OwnersOf, RowsOf, InfoOf
    <3>4. Pinned(refs)'
      BY <2>1, <3>1, PinnedSame DEF InfoOf
    <3> QED
      BY <2>1, <3>1, <3>3, <3>4 DEF SoundNext, Singles, Reading, Without
  <2>5. ASSUME NEW i \in InfoOf(f),
               req' = [req EXCEPT !.at = "del_update", !.n = i.count - 1]
        PROVE  SoundNext(refs)
    <3>1. /\ req'.at = "del_update" /\ req'.file = f
          /\ req'.n = i.count - 1
      BY <2>1, <2>5 DEF Request0
    <3>2. Counted(req.n + 1)'
      <4>1. \A j \in InfoOf(f) : j = i
        BY <2>5 DEF Global, OneInfo, InfoOf
      <4>2. i.count - 1 + 1 = i.count
        BY <2>3, <2>5
      <4> QED
        BY <2>1, <2>5, <3>1, <4>1, <4>2 DEF Counted, InfoOf
    <3>3. Reading'
      BY <3>1, <3>2 DEF Reading, Without
    <3> QED
      BY <2>1, <3>1, <3>3, SameStep DEF Ahead
  <2>6. \A i \in InfoOf(f) : i.count > 0
    BY <2>3
  <2>7. \/ InfoOf(f) = {} /\ Answer
        \/ \E i \in InfoOf(f) :
             IF i.count > 0 THEN req' = [req EXCEPT !.at = "del_update", !.n = i.count - 1]
                            ELSE Go("del_id")
    BY <1>3 DEF DeleteRefs
  <2> QED
    BY <2>4, <2>5, <2>6, <2>7
<1>4. CASE DeleteUpdate
  <2>1. req.at = "del_update" /\ UNCHANGED list
    BY <1>4 DEF DeleteUpdate, At
  <2>2. SetCounts(f, req.n) /\ IF req.n = 0 THEN Go("del_id") ELSE Answer
    BY <1>4, Works DEF DeleteUpdate
  <2>3. req.n \in Nat
    BY <2>1 DEF TypeInv, Counting
  <2>4. /\ \A j \in info' : j.file = f => j.count = req.n
        /\ \A j \in info' : j.file # f => j \in info
        /\ \A g : InfoOf(g) # {} => InfoOf(g)' # {}
    BY <2>2, <2>3, CountedRows
  <2>5. PICK i \in info : i.file = f /\ i.count = req.n + 1
    BY <2>1 DEF Reading, Counted, InfoOf
  <2>6. Extra(f) = 1 /\ \A g : g # f => Extra(g) = 0
    BY <2>1 DEF Extra, Ahead
  <2>7. OwnersOf(f) + 0 + refs[f] = req.n /\ refs[f] \in Nat /\ (req.n = 0 => refs[f] = 0)
    <3>1. OwnersOf(f) + 1 + refs[f] = req.n + 1
      BY <2>5, <2>6 DEF Exact
    <3>2. OwnersOf(f) \in Nat /\ refs[f] \in Nat
      BY <2>1, FileOf, Numbers
    <3> QED
      BY <2>3, <3>1, <3>2
  <2>8. \/ req'.at = "del_id" /\ req'.file = f /\ req.n = 0
        \/ req'.at = "idle"
    BY <2>1, <2>2, Fields DEF Answer, NoReq
  <2>9. \A g : Extra(g)' = 0 /\ OwnersOf(g)' = OwnersOf(g)
    BY <2>1, <2>8 DEF Extra, Ahead, OwnersOf, RowsOf
  <2>10. Exact(refs)'
    BY <2>4, <2>6, <2>7, <2>9 DEF Exact
  <2>11. Reading'
    BY <2>8 DEF Reading, Without
  <2>12. Pinned(refs)'
    BY <2>4, <2>7, <2>8 DEF Pinned
  <2> QED
    BY <2>1, <2>10, <2>11, <2>12 DEF SoundNext, Singles
<1>5. CASE DeleteId
  <2>1. req.at = "del_id" /\ UNCHANGED <<list, info>> /\ req \in Request0
    BY <1>5, Busy DEF DeleteId, At, tables
  <2>2. req'.at = "del_info" /\ req'.file = f
    BY <1>5, <2>1 DEF DeleteId, Request0
  <2>3. \A g : Extra(g)' = 0 /\ OwnersOf(g)' = OwnersOf(g) /\ Extra(g) = 0
    BY <2>1, <2>2 DEF Extra, Ahead, OwnersOf, RowsOf
  <2>4. Exact(refs)'
    BY <2>1, <2>3 DEF Exact
  <2>5. Pinned(refs)'
    BY <2>1, <2>2 DEF Pinned, InfoOf
  <2> QED
    BY <2>1, <2>2, <2>4, <2>5 DEF SoundNext, Singles, Reading, Without
<1>6. CASE DeleteInfo
  <2>1. req.at = "del_info" /\ UNCHANGED list /\ Go("del_file")
    BY <1>6 DEF DeleteInfo, At
  <2>2. info' = info \ InfoOf(f)
    BY <1>6, Works DEF DeleteInfo
  <2>3. req'.at = "del_file"
    BY <2>1, Fields
  <2>4. /\ \A g : Extra(g)' = 0 /\ OwnersOf(g)' = OwnersOf(g)
        /\ \A g : Extra(g) = 0
    BY <2>1, <2>3 DEF Extra, Ahead, OwnersOf, RowsOf
  <2>5. Exact(refs)'
    BY <2>2, <2>4 DEF Exact
  <2>6. Reading'
    BY <2>3 DEF Reading, Without
  <2>7. refs[f] = 0 /\ \A g : g # f => InfoOf(g)' = InfoOf(g)
    BY <2>1, <2>2 DEF Pinned, InfoOf
  <2>8. Pinned(refs)'
    BY <2>3, <2>7 DEF Pinned
  <2> QED
    BY <2>1, <2>5, <2>6, <2>8 DEF SoundNext, Singles
<1>7. CASE RemoveFileFromFastDfs
  <2>1. req.at = "del_file" /\ UNCHANGED <<list, info>> /\ Answer
    BY <1>7 DEF RemoveFileFromFastDfs, At, tables
  <2> QED
    BY <2>1, PlainStep DEF Ahead
<1> QED
  BY <1>1, <1>2, <1>3, <1>4, <1>5, <1>6, <1>7 DEF handleDeleteFile

------------------------------------------------------------------------------
\* Sharing marks rows; the other handlers leave these tables alone.
LEMMA ShareExact ==
  ASSUME NEW refs, SoundCounts(refs), handleShareFile \/ handleCancelShareFile
  PROVE  SoundNext(refs)
<1> USE DEF SoundCounts, OwnersInv
<1>1. CASE ShareMark
  <2>1. req.at = "share_mark" /\ UNCHANGED info
    BY <1>1 DEF ShareMark, At
  <2>2. MarkShared(req.user, req.file, TRUE) /\ Go("share_insert")
    BY <1>1, Works DEF ShareMark
  <2>3. req'.at = "share_insert"
    BY <2>1, <2>2, Fields
  <2> QED
    BY <2>1, <2>2, <2>3, MarkStep DEF Plain, Steps, Ahead, Without
<1>2. CASE CancelMark
  <2>1. req.at = "can_mark" /\ UNCHANGED info
    BY <1>2 DEF CancelMark, At
  <2>2. MarkShared(req.user, req.file, FALSE) /\ Go("can_public")
    BY <1>2, Works DEF CancelMark
  <2>3. req'.at = "can_public"
    BY <2>1, <2>2, Fields
  <2> QED
    BY <2>1, <2>2, <2>3, MarkStep DEF Plain, Steps, Ahead, Without
<1>3. CASE ~ShareMark /\ ~CancelMark
  BY <1>3, Aside, CalmPlain, PlainStep DEF Calm, Frame
<1> QED
  BY <1>1, <1>2, <1>3

LEMMA OthersExact ==
  ASSUME NEW refs, SoundCounts(refs),
         \/ \E u \in Users, f \in Files : Accept(u, f)
         \/ \E u \in Users : ApiUserLogin(u)
         \/ UNCHANGED vars
  PROVE  SoundNext(refs)
<1>1. UNCHANGED <<list, info>>
  BY DEF Accept, ApiUserLogin, LoginRead, LoginSet, tables, vars
<1>2. CASE \E u \in Users, f \in Files : Accept(u, f)
  <2>1. PICK u \in Users, f \in Files : Accept(u, f)
    BY <1>2
  <2>2. req.at = "idle"
    BY <2>1 DEF Accept, Request, At
  <2>3. ASSUME NEW step \in Plain, Request(u, f, step)
        PROVE  req'.at \in Plain
    BY <2>3 DEF Request
  <2>4. {"md5_refs", "up_store", "share_zset", "del_zset", "can_mark", "save_own",
         "pv_row", "total", "mine"} \subseteq Plain
    BY DEF Plain, Steps, Ahead, Without
  <2>5. req'.at \in Plain
    BY <2>1, <2>3, <2>4 DEF Accept
  <2> QED
    BY <1>1, <2>2, <2>5, PlainStep DEF SoundCounts, Ahead
<1>3. CASE UNCHANGED req
  BY <1>1, <1>3 DEF SoundNext, SoundCounts, Singles, Exact, Pinned, Reading, Extra, OwnersOf,
                    RowsOf, Owns, Rows, Counted, InfoOf
<1> QED
  BY <1>2, <1>3 DEF ApiUserLogin, LoginRead, LoginSet, vars

LEMMA Untroubled ==
  ASSUME TypeInv, [Next]_vars, NoTrouble'
  PROVE  NoTrouble /\ ~Crash
<1>1. ~Crash /\ ~Fails
  BY Troubled
<1>2. UNCHANGED <<faults, crashes>>
  BY <1>1 DEF Next, vars, others, Do, DecrPublic, FloorPublic, Accept, ApiUserLogin, LoginRead, LoginSet,
     handleDealMd5, Md5Refs, Md5Own, Md5Update, Md5Insert, Md5Restore, CountUp,
     ApiUpload, UploadStore, UploadInfo, UploadList,
     handleShareFile, ShareZset, ShareRow, ShareMark, ShareInsert, ShareCount, ZsetAdd, Hset,
     handleDeleteFile, DeleteZset, DeleteStatus, DeleteShare, DeletePublic, DeleteRank, DeleteCount,
     DeleteList, DeleteRefs, DeleteUpdate, DeleteId, DeleteInfo, RemoveFileFromFastDfs,
     handleCancelShareFile, CancelMark, CancelPublic, CancelShare, CancelRank, CancelName,
     handleSaveFile, SaveOwn, SaveRefs, SaveUpdate, SaveInsert, handlePvFile, PvRow, PvZset,
     handleGetRankingFilelist, getShareFilesCount, TotalGet, TotalLoad, TotalRead,
     RankingCard, RankingClear, RankingFill, RankingRead, getUserFilesCount
<1> QED
  BY <1>1, <1>2 DEF NoTrouble

LEMMA Step_Exact ==
  ASSUME UploadOnce, OwnOnly PROVE ExactInv /\ [Next]_vars => ExactInv'
<1> SUFFICES ASSUME ExactInv, [Next]_vars PROVE ExactInv'
  OBVIOUS
<1>1. OwnersInv'
  BY Step_Owners DEF ExactInv
<1>2. ASSUME NoTrouble' PROVE SoundNext(NoOther)
  <2>1. NoTrouble /\ ~Crash
    BY <1>2, Untroubled DEF ExactInv, OwnersInv
  <2>2. SoundCounts(NoOther)
    BY <1>2, <2>1 DEF SoundCounts, ExactInv
  <2>3. CASE handlePvFile \/ handleGetRankingFilelist \/ getUserFilesCount
    BY <2>2, <2>3, Aside, CalmPlain, PlainStep DEF Calm, Frame, SoundCounts, OwnersInv
  <2> QED
    BY <2>1, <2>2, <2>3, Md5Exact, SaveExact, UploadExact, DeleteExact, ShareExact,
       OthersExact DEF Next
<1> QED
  BY <1>1, <1>2 DEF ExactInv, SoundNext

LEMMA Init_Exact == Init => ExactInv
<1> SUFFICES ASSUME Init PROVE Singles /\ Exact(NoOther) /\ Pinned(NoOther) /\ Reading
  BY Init_Owners DEF ExactInv
<1> QED
  BY DEF Init, NoReq, NoOther, Singles, Exact, Pinned, Reading, Without

\* The count of a row of file_info is never below the number of the owners of
\* its file, and it is that number between two requests as long as no call has
\* failed and the server has not crashed.
THEOREM CountsAreOwners == ASSUME UploadOnce, OwnOnly PROVE Spec => []RefCounts
<1>1. ExactInv => RefCounts
  <2> SUFFICES ASSUME ExactInv, NEW i \in info
               PROVE  /\ OwnersOf(i.file) <= i.count
                      /\ Quiet /\ NoTrouble => OwnersOf(i.file) = i.count
    BY DEF RefCounts, OwnersOf
  <2>1. OwnersOf(i.file) <= i.count
    BY DEF ExactInv, OwnersInv, Global, Covered
  <2>2. ASSUME Quiet, NoTrouble PROVE OwnersOf(i.file) = i.count
    <3>1. Extra(i.file) = 0
      BY <2>2 DEF Quiet, NoReq, Extra, Ahead
    <3>2. i.file \in Files
      BY DEF ExactInv, OwnersInv, TypeInv, TypeOK
    <3>3. OwnersOf(i.file) \in Nat /\ NoOther[i.file] = 0
      BY <3>2, Owners DEF ExactInv, OwnersInv, NoOther
    <3>4. OwnersOf(i.file) + 0 + 0 = i.count
      BY <2>2, <3>1, <3>3 DEF ExactInv, Exact
    <3> QED
      BY <3>3, <3>4
  <2> QED
    BY <2>1, <2>2
<1>2. ExactInv /\ [Next]_vars => ExactInv'
  BY Step_Exact
<1> QED
  BY <1>1, <1>2, Init_Exact, PTL DEF Spec

------------------------------------------------------------------------------
(* Steps that share nothing, and a file that is shared once *)

\* Steps at which OneShare and Bounded say something.
Watched == {"share_mark", "share_insert", "share_count", "del_public",
            "del_public_floor", "can_public_floor", "can_share"}

Dry == Steps \ Watched

\* A step that neither shares nor counts what is shared.
Unwatched ==
  /\ UNCHANGED <<shares, publicCount>>
  /\ req.at \notin Watched
  /\ Answer \/ req'.at \in Dry

LEMMA DrySteps ==
   {"md5_refs", "md5_own", "md5_update", "md5_insert", "md5_restore",
    "count_up", "up_store", "up_info", "up_list", "share_zset",
    "share_row", "zset_in", "hash_in", "del_zset", "del_status",
    "del_share", "del_rank", "del_name", "del_count", "del_count_floor",
    "del_list", "del_refs", "del_update", "del_id", "del_info", "del_file",
    "can_rank", "can_name", "save_own", "save_refs", "save_update",
    "save_insert", "pv_row", "pv_zset", "total", "total_load", "card",
    "clear_zset", "clear_hash", "fill", "ranking", "mine", "mine_load",
    "can_mark", "can_public"}
    \subseteq Dry
  BY DEF Dry, Steps, Watched

LEMMA DryRead ==
  ASSUME req.at \in Dry PROVE req.at \notin Watched
  BY DEF Dry

LEMMA GoDry ==
  ASSUME TypeInv, req.at # "idle", NEW step \in Dry
  PROVE  /\ Go(step) => req'.at \in Dry
         /\ \A n : req' = [req EXCEPT !.at = step, !.n = n] => req'.at \in Dry
         /\ \A d : req' = [req EXCEPT !.at = step, !.id = d] => req'.at \in Dry
         /\ \A b : req' = [req EXCEPT !.at = step, !.both = b] => req'.at \in Dry
<1> req \in Request0
  BY Busy
<1> QED
  BY DEF Go, Request0

\* The handlers that give users files and take contents away.
OwnSteps ==
  {"md5_refs", "md5_own", "md5_update", "md5_insert", "md5_restore", "count_up",
   "up_store", "up_info", "up_list", "save_own", "save_refs", "save_update",
   "save_insert", "del_refs", "del_update", "del_id", "del_info", "del_file"}

Owning ==
  /\ UNCHANGED <<shares, ranked, named, publicCount>>
  /\ req.at \in OwnSteps
  /\ Answer \/ req'.at \in OwnSteps

LEMMA OwnNames ==
  {"md5_refs", "md5_own", "md5_update", "md5_insert", "md5_restore", "count_up",
   "up_store", "up_info", "up_list", "save_own", "save_refs", "save_update",
   "save_insert", "del_refs", "del_update", "del_id", "del_info", "del_file"} \subseteq OwnSteps
  BY DEF OwnSteps

LEMMA Owned_Moves ==
  ASSUME TypeInv,
         \/ handleDealMd5 \/ handleSaveFile \/ ApiUpload
         \/ DeleteRefs \/ DeleteUpdate \/ DeleteId \/ DeleteInfo \/ RemoveFileFromFastDfs
  PROVE  Owning
<1>0. ASSUME NEW step \in OwnSteps, req.at # "idle"
      PROVE  /\ Go(step) => req'.at \in OwnSteps
             /\ \A n : req' = [req EXCEPT !.at = step, !.n = n] => req'.at \in OwnSteps
             /\ \A d : req' = [req EXCEPT !.at = step, !.id = d] => req'.at \in OwnSteps
  <2> req \in Request0
    BY <1>0, Busy
  <2> QED
    BY DEF Go, Request0
<1> USE OwnNames DEF At, Do, Owning, tables, redis
<1>1. ASSUME Md5Refs PROVE Owning
  BY <1>0, <1>1 DEF Md5Refs
<1>2. ASSUME Md5Own PROVE Owning
  BY <1>0, <1>2 DEF Md5Own
<1>3. ASSUME Md5Update PROVE Owning
  BY <1>0, <1>3 DEF Md5Update
<1>4. ASSUME Md5Insert PROVE Owning
  BY <1>0, <1>4 DEF Md5Insert
<1>5. ASSUME Md5Restore PROVE Owning
  BY <1>0, <1>5 DEF Md5Restore
<1>6. ASSUME CountUp PROVE Owning
  BY <1>0, <1>6 DEF CountUp
<1>7. ASSUME SaveOwn PROVE Owning
  BY <1>0, <1>7 DEF SaveOwn
<1>8. ASSUME SaveRefs PROVE Owning
  BY <1>0, <1>8 DEF SaveRefs
<1>9. ASSUME SaveUpdate PROVE Owning
  BY <1>0, <1>9 DEF SaveUpdate
<1>10. ASSUME SaveInsert PROVE Owning
  BY <1>0, <1>10 DEF SaveInsert
<1>11. ASSUME UploadStore PROVE Owning
  BY <1>0, <1>11 DEF UploadStore
<1>12. ASSUME UploadInfo PROVE Owning
  BY <1>0, <1>12 DEF UploadInfo
<1>13. ASSUME UploadList PROVE Owning
  BY <1>0, <1>13 DEF UploadList
<1>14. ASSUME DeleteRefs PROVE Owning
  BY <1>0, <1>14 DEF DeleteRefs
<1>15. ASSUME DeleteUpdate PROVE Owning
  BY <1>0, <1>15 DEF DeleteUpdate
<1>16. ASSUME DeleteId PROVE Owning
  BY <1>0, <1>16 DEF DeleteId
<1>17. ASSUME DeleteInfo PROVE Owning
  BY <1>0, <1>17 DEF DeleteInfo
<1>18. ASSUME RemoveFileFromFastDfs PROVE Owning
  BY <1>0, <1>18 DEF RemoveFileFromFastDfs
<1> HIDE DEF At, Do, Owning, tables, redis
<1> QED
  BY <1>1, <1>2, <1>3, <1>4, <1>5, <1>6, <1>7, <1>8, <1>9, <1>10, <1>11,
     <1>12, <1>13, <1>14, <1>15, <1>16, <1>17, <1>18
     DEF handleDealMd5, handleSaveFile, ApiUpload

LEMMA Owned_Unwatched == ASSUME Owning PROVE Unwatched
<1>1. OwnSteps \subseteq Dry
  BY DrySteps DEF OwnSteps
<1> QED
  BY <1>1 DEF Owning, Unwatched, Dry

LEMMA Shown_Unwatched ==
  ASSUME TypeInv,
         \/ ShareZset \/ ZsetAdd \/ Hset \/ CancelRank \/ CancelName \/
            handlePvFile \/ TotalGet \/ TotalRead \/ RankingCard \/
            RankingClear \/ RankingFill \/ RankingRead \/ getUserFilesCount
  PROVE  Unwatched
<1> USE DrySteps, GoDry DEF At, Do, Unwatched, tables, redis
<1>1. ASSUME ShareZset PROVE Unwatched
  BY <1>1, DryRead DEF ShareZset
<1>2. ASSUME ZsetAdd PROVE Unwatched
  BY <1>2, DryRead DEF ZsetAdd
<1>3. ASSUME Hset PROVE Unwatched
  BY <1>3, DryRead DEF Hset
<1>4. ASSUME CancelRank PROVE Unwatched
  BY <1>4, DryRead DEF CancelRank
<1>5. ASSUME CancelName PROVE Unwatched
  BY <1>5, DryRead DEF CancelName
<1>6. ASSUME PvRow PROVE Unwatched
  BY <1>6, DryRead DEF PvRow
<1>7. ASSUME PvZset PROVE Unwatched
  BY <1>7, DryRead DEF PvZset
<1>8. ASSUME TotalGet PROVE Unwatched
  BY <1>8, DryRead DEF TotalGet
<1>9. ASSUME TotalRead PROVE Unwatched
  BY <1>9, DryRead DEF TotalRead
<1>10. ASSUME RankingCard PROVE Unwatched
  BY <1>10, DryRead DEF RankingCard
<1>11. ASSUME RankingClear PROVE Unwatched
  BY <1>11, DryRead DEF RankingClear
<1>12. ASSUME RankingFill PROVE Unwatched
  BY <1>12, DryRead DEF RankingFill
<1>13. ASSUME RankingRead PROVE Unwatched
  BY <1>13, DryRead DEF RankingRead
<1>14. ASSUME getUserFilesCount PROVE Unwatched
  BY <1>14, DryRead DEF getUserFilesCount
<1> QED
  BY <1>1, <1>2, <1>3, <1>4, <1>5, <1>6, <1>7, <1>8, <1>9, <1>10, <1>11,
     <1>12, <1>13, <1>14
     DEF handlePvFile

LEMMA Deleted_Unwatched ==
  ASSUME TypeInv,
         DeleteZset \/ DeleteStatus \/ DeleteRank \/ DeleteCount \/ DeleteList
  PROVE  Unwatched
<1> USE DrySteps, GoDry DEF At, Do, Unwatched, tables, redis
<1>1. ASSUME DeleteZset PROVE Unwatched
  BY <1>1, DryRead DEF DeleteZset
<1>2. ASSUME DeleteStatus PROVE Unwatched
  BY <1>2, DryRead DEF DeleteStatus
<1>3. ASSUME DeleteRank PROVE Unwatched
  BY <1>3, DryRead DEF DeleteRank
<1>4. ASSUME DeleteCount PROVE Unwatched
  BY <1>4, DryRead DEF DeleteCount
<1>5. ASSUME DeleteList PROVE Unwatched
  BY <1>5, DryRead DEF DeleteList
<1> QED
  BY <1>1, <1>2, <1>3, <1>4, <1>5

LEMMA Accept_Unwatched ==
  ASSUME TypeInv, NEW u \in Users, NEW f \in Files, Accept(u, f)
  PROVE  Unwatched
<1>1. UNCHANGED <<shares, publicCount>> /\ req.at = "idle"
  BY DEF Accept, tables, redis, Request, At
<1>2. ASSUME NEW step \in Steps \ Watched, Request(u, f, step)
      PROVE  req'.at \in Steps \ Watched
  BY <1>2 DEF Request
<1>3. {"md5_refs", "up_store", "share_zset", "del_zset", "can_mark", "save_own",
       "pv_row", "total", "mine"} \subseteq Steps \ Watched
  BY DEF Steps, Watched
<1>4. req'.at \in Steps \ Watched
  BY <1>2, <1>3 DEF Accept
<1> QED
  BY <1>1, <1>4 DEF Unwatched, Watched, Dry

\* What is left of Next, by what it does to the shares and their number.
LEMMA Kinds_Shares ==
  ASSUME TypeInv, [Next]_vars
  PROVE  \/ Unwatched
         \/ UNCHANGED <<shares, publicCount, req>>
         \/ ShareRow \/ ShareMark \/ ShareInsert \/ ShareCount \/ DeleteShare
         \/ DeletePublic \/ CancelMark \/ CancelPublic \/ CancelShare \/ TotalLoad \/ Crash
<1>1. CASE \E u \in Users : ApiUserLogin(u)
  BY <1>1 DEF ApiUserLogin, LoginRead, LoginSet, tables, redis
<1>2. CASE UNCHANGED vars
  BY <1>2 DEF vars, tables, redis
<1> QED
  BY <1>1, <1>2, Owned_Moves, Owned_Unwatched, Shown_Unwatched, Deleted_Unwatched, Accept_Unwatched
     DEF Next, handleShareFile, handleDeleteFile, handleCancelShareFile, handlePvFile,
         handleGetRankingFilelist, getShareFilesCount

-----------------------------------------------------------------------------
LEMMA Successful ==
  ASSUME TypeInv, NoFailed', NEW ok, NEW bad, Do(ok, bad)
  PROVE  ok
  BY Troubled DEF Do

LEMMA FailedStays ==
  ASSUME TypeInv, [Next]_vars, NoFailed'
  PROVE  NoFailed
<1>1. faults \in Nat /\ faults' = 0
  BY DEF TypeInv, TypeOK, NoFailed
<1>2. faults' = faults \/ faults' = faults + 1
  BY DEF Next, vars, others, Do, Fails, DecrPublic, FloorPublic, Accept, ApiUserLogin, LoginRead, LoginSet,
     handleDealMd5, Md5Refs, Md5Own, Md5Update, Md5Insert, Md5Restore, CountUp,
     ApiUpload, UploadStore, UploadInfo, UploadList, Crash,
     handleShareFile, ShareZset, ShareRow, ShareMark, ShareInsert, ShareCount, ZsetAdd, Hset,
     handleDeleteFile, DeleteZset, DeleteStatus, DeleteShare, DeletePublic, DeleteRank, DeleteCount,
     DeleteList, DeleteRefs, DeleteUpdate, DeleteId, DeleteInfo, RemoveFileFromFastDfs,
     handleCancelShareFile, CancelMark, CancelPublic, CancelShare, CancelRank, CancelName,
     handleSaveFile, SaveOwn, SaveRefs, SaveUpdate, SaveInsert, handlePvFile, PvRow, PvZset,
     handleGetRankingFilelist, getShareFilesCount, TotalGet, TotalLoad, TotalRead,
     RankingCard, RankingClear, RankingFill, RankingRead, getUserFilesCount
<1> QED
  BY <1>1, <1>2 DEF NoFailed

LEMMA OneSame ==
  ASSUME OneShare, UNCHANGED shares, Answer \/ req'.at \notin {"share_mark", "share_insert"}
  PROVE  OneShare'
  BY DEF OneShare, Answer, NoReq

LEMMA FewerShares ==
  ASSUME OneShare, shares' \subseteq shares,
         Answer \/ req'.at \notin {"share_mark", "share_insert"}
  PROVE  OneShare'
  BY DEF OneShare, Answer, NoReq

LEMMA Step_OneShare ==
  ASSUME TypeInv, NoFailed', OneShare, [Next]_vars
  PROVE  OneShare'
<1>0. PICK u, f : u = req.user /\ f = req.file
  OBVIOUS
<1> USE <1>0
<1>1. CASE Unwatched
  BY <1>1, OneSame DEF Unwatched, Watched, Dry
<1>2. CASE UNCHANGED <<shares, publicCount, req>>
  BY <1>2 DEF OneShare, Shared
<1>3. CASE ShareRow
  <2>1. req.at = "share_row" /\ UNCHANGED shares
    BY <1>3 DEF ShareRow, At, tables
  <2>2. IF SharesOf(f) # {} THEN Go("zset_in") ELSE Go("share_mark")
    BY <1>3, Successful DEF ShareRow
  <2>3. CASE Go("zset_in")
    BY <2>1, <2>3, Fields, OneSame
  <2>4. CASE SharesOf(f) = {} /\ Go("share_mark")
    <3>1. req'.file = f
      BY <2>1, <2>4, Fields
    <3>2. f \notin Shared'
      BY <2>1, <2>4 DEF Shared, SharesOf
    <3> QED
      BY <2>1, <3>1, <3>2 DEF OneShare
  <2> QED
    BY <2>2, <2>3, <2>4
<1>4. CASE ShareMark
  <2>1. req.at = "share_mark" /\ UNCHANGED shares
    BY <1>4 DEF ShareMark, At
  <2>2. Go("share_insert")
    BY <1>4, Successful DEF ShareMark
  <2>3. req'.file = f
    BY <2>1, <2>2, Fields
  <2> QED
    BY <2>1, <2>3 DEF OneShare, Shared
<1>5. CASE ShareInsert
  <2>1. req.at = "share_insert"
    BY <1>5 DEF ShareInsert, At
  <2>2. /\ \E k \in Copies : shares' = shares \union {[user |-> u, file |-> f, copy |-> k]}
        /\ Go("share_count")
    BY <1>5, Successful DEF ShareInsert, Fresh
  <2>3. PICK s : s.file = f /\ shares' = shares \union {s}
    <3>1. PICK k \in Copies : shares' = shares \union {[user |-> u, file |-> f, copy |-> k]}
      BY <2>2
    <3>2. PICK s : s = [user |-> u, file |-> f, copy |-> k]
      OBVIOUS
    <3> QED
      BY <3>1, <3>2
  <2>4. req'.at = "share_count"
    BY <2>1, <2>2, Fields
  <2>5. \A t \in shares : t.file # f
    BY <2>1 DEF OneShare, Shared
  <2> QED
    BY <2>3, <2>4, <2>5 DEF OneShare
<1>6. CASE DeleteShare
  <2>1. req.at = "del_share"
    BY <1>6 DEF DeleteShare, At
  <2>2. DeleteShares(u, f) /\ Go("del_public")
    BY <1>6, Successful DEF DeleteShare
  <2>3. shares' \subseteq shares
    BY <2>2 DEF DeleteShares
  <2> QED
    BY <2>1, <2>2, <2>3, Fields, FewerShares
<1>7. CASE CancelShare
  <2>1. req.at = "can_share"
    BY <1>7 DEF CancelShare, At
  <2>2. DeleteShares(u, f) /\ Go("can_rank")
    BY <1>7, Successful DEF CancelShare
  <2>3. shares' \subseteq shares
    BY <2>2 DEF DeleteShares
  <2> QED
    BY <2>1, <2>2, <2>3, Fields, FewerShares
<1>8. CASE ShareCount \/ DeletePublic \/ CancelMark \/ CancelPublic \/ TotalLoad
  <2>1. UNCHANGED shares /\ req \in Request0
    BY <1>8, Busy DEF ShareCount, DeletePublic, CancelMark, CancelPublic, TotalLoad, tables, At
  <2>2. Answer \/ req'.at \notin {"share_mark", "share_insert"}
    BY <1>8, <2>1 DEF ShareCount, DeletePublic, CancelMark, CancelPublic, TotalLoad, Do,
       DecrPublic, FloorPublic, AfterDeletePublic, Go, Request0
  <2> QED
    BY <2>1, <2>2, OneSame
<1>9. CASE Crash
  BY <1>9, OneSame DEF Crash, Answer, tables
<1> QED
  BY <1>1, <1>2, <1>3, <1>4, <1>5, <1>6, <1>7, <1>8, <1>9, Kinds_Shares

------------------------------------------------------------------------------
(* Lists, shares and ranking *)

Agree == MarkedShares /\ AtShares /\ RankedShared /\ NamedRanked /\ AtRanking

\* What holds of the stores while no step of a share, of a deletion or of the
\* ranking is on its way.
AllMarked ==
  \A s \in shares :
    Owns(s.user, s.file) /\ \A r \in Rows(s.user, s.file) : r.shared

Settled == AllMarked /\ ranked \subseteq Shared /\ named = ranked

Still == OwnSteps \union
  {"idle", "can_mark", "pv_row", "total", "total_load", "card", "clear_zset",
   "ranking", "mine", "mine_load"}

SoundShares == SoundCounts(NoOther) /\ OneShare /\ Agree

LEMMA StillAgrees ==
  ASSUME req.at \in Still PROVE Agree <=> Settled
  BY DEF Agree, Still, OwnSteps, Settled, AllMarked, MarkedShares, AtShares, RankedShared,
         NamedRanked, AtRanking, Cancelling, Unshared, Leaving, Shared

LEMMA StillAgreesNext ==
  ASSUME req'.at \in Still PROVE Agree' <=> Settled'
  BY DEF Agree, Still, OwnSteps, Settled, AllMarked, MarkedShares, AtShares, RankedShared,
         NamedRanked, AtRanking, Cancelling, Unshared, Leaving, Shared

LEMMA SettledSame ==
  ASSUME Settled, UNCHANGED <<list, shares, ranked, named>> PROVE Settled'
  BY DEF Settled, AllMarked, Owns, Rows, Shared

LEMMA StillStep ==
  ASSUME Agree, req.at \in Still, Answer \/ req'.at \in Still,
         UNCHANGED <<list, shares, ranked, named>>
  PROVE  Agree'
<1>1. req'.at \in Still
  BY DEF Answer, NoReq, Still
<1> QED
  BY <1>1, StillAgrees, StillAgreesNext, SettledSame

\* A new row is none of a user who shares the file.
LEMMA InsertSettled ==
  ASSUME Settled, NEW u, NEW f, ~Owns(u, f), InsertRow(u, f),
         UNCHANGED <<shares, ranked, named>>
  PROVE  Settled'
<1>1. PICK k \in Copies :
        list' = list \union {[user |-> u, file |-> f, copy |-> k, shared |-> FALSE]}
  BY DEF InsertRow, Fresh
<1>2. PICK row : row = [user |-> u, file |-> f, copy |-> k, shared |-> FALSE]
  OBVIOUS
<1>3. row.user = u /\ row.file = f /\ list' = list \union {row}
  BY <1>1, <1>2
<1>4. ASSUME NEW s \in shares
      PROVE  Owns(s.user, s.file)' /\ \A r \in Rows(s.user, s.file)' : r.shared
  <2>1. ~(s.user = u /\ s.file = f)
    BY DEF Settled, AllMarked
  <2>2. Rows(s.user, s.file)' = Rows(s.user, s.file)
    BY <1>3, <2>1 DEF Rows
  <2> QED
    BY <2>2 DEF Settled, AllMarked, Owns
<1> QED
  BY <1>4 DEF Settled, AllMarked, Shared

\* The handlers of files leave the list of a user alone, or add a file that
\* was not there.
LEMMA OwnedList ==
  ASSUME SoundCounts(NoOther), NEW u, NEW f, u = req.user, f = req.file,
         \/ handleDealMd5 \/ handleSaveFile \/ ApiUpload
         \/ DeleteRefs \/ DeleteUpdate \/ DeleteId \/ DeleteInfo \/ RemoveFileFromFastDfs
  PROVE  UNCHANGED list \/ (~Owns(u, f) /\ InsertRow(u, f))
<1> USE DEF SoundCounts, OwnersInv
<1>1. CASE Md5Insert
  <2>1. req.at = "md5_insert"
    BY <1>1 DEF Md5Insert, At
  <2>2. InsertRow(u, f)
    BY <1>1, Works DEF Md5Insert
  <2> QED
    BY <2>1, <2>2 DEF Reading, Without
<1>2. CASE SaveInsert
  <2>1. req.at = "save_insert"
    BY <1>2 DEF SaveInsert, At
  <2>2. InsertRow(u, f)
    BY <1>2, Works DEF SaveInsert
  <2> QED
    BY <2>1, <2>2 DEF Reading, Without
<1>3. CASE UploadList
  <2>1. req.at = "up_list"
    BY <1>3 DEF UploadList, At
  <2>2. InsertRow(u, f)
    BY <1>3, Works DEF UploadList
  <2>3. ~Owns(u, f)
    BY <2>1 DEF Local, Owns, Rows, RowsOf
  <2> QED
    BY <2>2, <2>3
<1>4. CASE handleDealMd5 /\ ~Md5Insert
  BY <1>4 DEF handleDealMd5, Md5Refs, Md5Own, Md5Update, Md5Restore, CountUp, tables
<1>5. CASE handleSaveFile /\ ~SaveInsert
  BY <1>5 DEF handleSaveFile, SaveOwn, SaveRefs, SaveUpdate, tables
<1>6. CASE ApiUpload /\ ~UploadList
  BY <1>6 DEF ApiUpload, UploadStore, UploadInfo, tables
<1>7. CASE DeleteRefs \/ DeleteUpdate \/ DeleteId \/ DeleteInfo \/ RemoveFileFromFastDfs
  BY <1>7 DEF DeleteRefs, DeleteUpdate, DeleteId, DeleteInfo, RemoveFileFromFastDfs, tables
<1> QED
  BY <1>1, <1>2, <1>3, <1>4, <1>5, <1>6, <1>7

LEMMA Owned_Agree ==
  ASSUME SoundShares,
         \/ handleDealMd5 \/ handleSaveFile \/ ApiUpload
         \/ DeleteRefs \/ DeleteUpdate \/ DeleteId \/ DeleteInfo \/ RemoveFileFromFastDfs
  PROVE  Agree'
<1>0. PICK u, f : u = req.user /\ f = req.file
  OBVIOUS
<1>1. Owning
  BY Owned_Moves DEF SoundShares, SoundCounts, OwnersInv
<1>2. req.at \in Still /\ (Answer \/ req'.at \in Still) /\ UNCHANGED <<shares, ranked, named>>
  BY <1>1 DEF Owning, Still
<1>3. req'.at \in Still
  BY <1>2 DEF Answer, NoReq, Still
<1>4. UNCHANGED list \/ (~Owns(u, f) /\ InsertRow(u, f))
  BY <1>0, OwnedList DEF SoundShares
<1>5. Settled
  BY <1>2, StillAgrees DEF SoundShares
<1>6. Settled'
  BY <1>2, <1>4, <1>5, SettledSame, InsertSettled
<1> QED
  BY <1>3, <1>6, StillAgreesNext

LEMMA Others_Agree ==
  ASSUME OwnOnly, SoundShares,
         \/ \E u \in Users, f \in Files : Accept(u, f)
         \/ \E u \in Users : ApiUserLogin(u)
         \/ UNCHANGED vars
  PROVE  Agree'
<1>1. UNCHANGED <<list, shares, ranked, named>>
  BY DEF Accept, ApiUserLogin, LoginRead, LoginSet, tables, redis, vars
<1>2. CASE \E u \in Users, f \in Files : Accept(u, f)
  <2>1. PICK u \in Users, f \in Files : Accept(u, f)
    BY <1>2
  <2>2. req.at = "idle" /\ req.at \in Still
    BY <2>1 DEF Accept, Request, At, Still
  <2>3. Settled'
    BY <1>1, <2>2, StillAgrees, SettledSame DEF SoundShares
  <2>4. ASSUME NEW step \in Still, Request(u, f, step)
        PROVE  Agree'
    <3>1. req'.at \in Still
      BY <2>4 DEF Request
    <3> QED
      BY <2>3, <3>1, StillAgreesNext
  <2>5. ASSUME Owns(u, f), Request(u, f, "share_zset")
        PROVE  Agree'
    <3>1. req'.at = "share_zset" /\ req'.user = u /\ req'.file = f /\ Owns(u, f)'
      BY <1>1, <2>5 DEF Request, Owns, Rows
    <3> QED
      BY <2>3, <3>1 DEF Agree, Settled, AllMarked, MarkedShares, AtShares, RankedShared,
         NamedRanked, AtRanking, Cancelling, Unshared, Leaving, Shared
  <2>6. ASSUME Request(u, f, "del_zset")
        PROVE  Agree'
    <3>1. req'.at = "del_zset" /\ req'.both = FALSE
      BY <2>6 DEF Request
    <3> QED
      BY <2>3, <3>1 DEF Agree, Settled, AllMarked, MarkedShares, AtShares, RankedShared,
         NamedRanked, AtRanking, Cancelling, Unshared, Leaving, Shared
  <2>7. {"md5_refs", "up_store", "can_mark", "save_own", "pv_row", "total", "mine"} \subseteq Still
    BY DEF Still, OwnSteps
  <2> QED
    BY <2>1, <2>4, <2>5, <2>6, <2>7 DEF Accept
<1>3. CASE UNCHANGED req
  BY <1>1, <1>3 DEF SoundShares, Agree, MarkedShares, AtShares, RankedShared, NamedRanked,
     AtRanking, Shared, Owns, Rows, Mine
<1> QED
  BY <1>2, <1>3 DEF ApiUserLogin, LoginRead, LoginSet, vars

------------------------------------------------------------------------------
\* handleShareFile
LEMMA Share_Agree ==
  ASSUME SoundShares, handleShareFile
  PROVE  Agree'
<1> USE DEF SoundCounts, OwnersInv
<1>0. PICK u, f : u = req.user /\ f = req.file
  OBVIOUS
<1> USE <1>0
<1>1. CASE ShareZset
  <2>1. req.at = "share_zset" /\ UNCHANGED <<list, shares, ranked, named>>
    BY <1>1 DEF ShareZset, At, tables, redis
  <2>2. Answer \/ Go("share_row")
    BY <1>1, Works DEF ShareZset, SoundShares
  <2>3. \/ req'.at = "idle"
        \/ req'.at = "share_row" /\ req'.user = u /\ req'.file = f
    BY <2>1, <2>2, Fields DEF Answer, NoReq, SoundShares
  <2> QED
    BY <2>1, <2>3 DEF SoundShares, Agree, MarkedShares, AtShares, RankedShared, NamedRanked,
           AtRanking, Cancelling, Unshared, Leaving, Shared, Owns, Rows, Mine
<1>2. CASE ShareRow
  <2>1. req.at = "share_row" /\ UNCHANGED <<list, shares, ranked, named>>
    BY <1>2 DEF ShareRow, At, tables, redis
  <2>2. IF SharesOf(f) # {} THEN Go("zset_in") ELSE Go("share_mark")
    BY <1>2, Works DEF ShareRow, SoundShares
  <2>3. /\ \/ req'.at = "zset_in" /\ f \in Shared
           \/ req'.at = "share_mark"
        /\ req'.user = u /\ req'.file = f
    BY <2>1, <2>2, Fields DEF SoundShares, SharesOf, Shared
  <2> QED
    BY <2>1, <2>3 DEF SoundShares, Agree, MarkedShares, AtShares, RankedShared, NamedRanked,
           AtRanking, Cancelling, Unshared, Leaving, Shared, Owns, Rows, Mine
<1>3. CASE ShareMark
  <2>1. req.at = "share_mark" /\ UNCHANGED <<shares, ranked, named>>
    BY <1>3 DEF ShareMark, At, redis
  <2>2. MarkShared(u, f, TRUE) /\ Go("share_insert")
    BY <1>3, Works DEF ShareMark, SoundShares
  <2>3. req'.at = "share_insert" /\ req'.user = u /\ req'.file = f
    BY <2>1, <2>2, Fields DEF SoundShares
  <2>4. /\ \A r \in list' : \E s \in list : s.user = r.user /\ s.file = r.file
        /\ \A s \in list : \E r \in list' : s.user = r.user /\ s.file = r.file
        /\ \A r \in list' : r.user = u /\ r.file = f => r.shared
        /\ \A r \in list' : r \in list \/ (r.user = u /\ r.file = f)
    BY <2>2, MarkedTrue DEF SoundShares
  <2>5. \A a, b : Owns(a, b) => Owns(a, b)'
    BY <2>4 DEF Owns, Rows
  <2>6. \A r \in Rows(u, f)' : r.shared
    BY <2>4 DEF Rows
  <2>7. AtShares'
    BY <2>1, <2>3, <2>5, <2>6 DEF SoundShares, Agree, AtShares, Unshared
  <2>8. ASSUME NEW s \in shares
        PROVE  Owns(s.user, s.file)' /\ \A r \in Rows(s.user, s.file)' : r.shared
    <3>1. Owns(s.user, s.file) /\ \A r \in Rows(s.user, s.file) : r.shared
      BY <2>1 DEF SoundShares, Agree, MarkedShares, Cancelling
    <3> QED
      BY <2>4, <2>5, <3>1 DEF Rows
  <2>9. MarkedShares'
    BY <2>1, <2>8 DEF MarkedShares
  <2>10. RankedShared' /\ NamedRanked' /\ AtRanking'
    BY <2>1, <2>3 DEF SoundShares, Agree, RankedShared, NamedRanked, AtRanking, Leaving, Shared
  <2> QED
    BY <2>7, <2>9, <2>10 DEF Agree
<1>4. CASE ShareInsert
  <2>1. req.at = "share_insert" /\ UNCHANGED <<list, ranked, named>>
    BY <1>4 DEF ShareInsert, At, redis
  <2>2. /\ \E k \in Copies : shares' = shares \union {[user |-> u, file |-> f, copy |-> k]}
        /\ Go("share_count")
    BY <1>4, Works DEF ShareInsert, Fresh, SoundShares
  <2>3. PICK s : s.user = u /\ s.file = f /\ shares' = shares \union {s}
    <3>1. PICK k \in Copies : shares' = shares \union {[user |-> u, file |-> f, copy |-> k]}
      BY <2>2
    <3>2. PICK s : s = [user |-> u, file |-> f, copy |-> k]
      OBVIOUS
    <3> QED
      BY <3>1, <3>2
  <2>4. req'.at = "share_count" /\ req'.user = u /\ req'.file = f
    BY <2>1, <2>2, Fields DEF SoundShares
  <2> QED
    BY <2>1, <2>3, <2>4 DEF SoundShares, Agree, MarkedShares, AtShares, RankedShared, NamedRanked,
           AtRanking, Cancelling, Unshared, Leaving, Shared, Owns, Rows, Mine
<1>5. CASE ShareCount
  <2>1. req.at = "share_count" /\ UNCHANGED <<list, shares, ranked, named>>
    BY <1>5 DEF ShareCount, At, tables
  <2>2. Go("zset_in")
    BY <1>5, Works DEF ShareCount, SoundShares
  <2>3. req'.at = "zset_in" /\ req'.user = u /\ req'.file = f
    BY <2>1, <2>2, Fields DEF SoundShares
  <2> QED
    BY <2>1, <2>3 DEF SoundShares, Agree, MarkedShares, AtShares, RankedShared, NamedRanked,
           AtRanking, Cancelling, Unshared, Leaving, Shared, Owns, Rows, Mine
<1>6. CASE ZsetAdd
  <2>1. req.at = "zset_in" /\ UNCHANGED <<list, shares, named>>
    BY <1>6 DEF ZsetAdd, At, tables
  <2>2. ranked' = ranked \union {f} /\ Go("hash_in")
    BY <1>6, Works DEF ZsetAdd, SoundShares
  <2>3. req'.at = "hash_in" /\ req'.user = u /\ req'.file = f
    BY <2>1, <2>2, Fields DEF SoundShares
  <2> QED
    BY <2>1, <2>2, <2>3 DEF SoundShares, Agree, MarkedShares, AtShares, RankedShared, NamedRanked,
           AtRanking, Cancelling, Unshared, Leaving, Shared, Owns, Rows, Mine
<1>7. CASE Hset
  <2>1. req.at = "hash_in" /\ UNCHANGED <<list, shares, ranked>> /\ req'.at = "idle"
    BY <1>7 DEF Hset, At, tables, Answer, NoReq
  <2>2. named' = named \union {f}
    BY <1>7, Works DEF Hset, SoundShares
  <2> QED
    BY <2>1, <2>2 DEF SoundShares, Agree, MarkedShares, AtShares, RankedShared, NamedRanked,
           AtRanking, Cancelling, Unshared, Leaving, Shared, Owns, Rows, Mine
<1> QED
  BY <1>1, <1>2, <1>3, <1>4, <1>5, <1>6, <1>7 DEF handleShareFile

\* handleCancelShareFile
LEMMA Cancel_Agree ==
  ASSUME SoundShares, handleCancelShareFile
  PROVE  Agree'
<1> USE DEF SoundCounts, OwnersInv
<1>0. PICK u, f : u = req.user /\ f = req.file
  OBVIOUS
<1> USE <1>0
<1>1. CASE CancelMark
  <2>1. req.at = "can_mark" /\ UNCHANGED <<shares, ranked, named>>
    BY <1>1 DEF CancelMark, At, redis
  <2>2. MarkShared(u, f, FALSE) /\ Go("can_public")
    BY <1>1, Works DEF CancelMark, SoundShares
  <2>3. req'.at = "can_public" /\ req'.user = u /\ req'.file = f
    BY <2>1, <2>2, Fields DEF SoundShares
  <2>4. /\ \A s \in list : \E r \in list' : s.user = r.user /\ s.file = r.file
        /\ \A r \in list' : r \in list \/ (r.user = u /\ r.file = f)
    BY <2>2, MarkedFalse DEF SoundShares
  <2>5. \A a, b : Owns(a, b) => Owns(a, b)'
    BY <2>4 DEF Owns, Rows
  <2>6. ASSUME NEW s \in shares, ~(s.user = u /\ s.file = f)
        PROVE  \A r \in Rows(s.user, s.file)' : r.shared
    <3>1. \A r \in Rows(s.user, s.file) : r.shared
      BY <2>1 DEF SoundShares, Agree, MarkedShares, Cancelling
    <3> QED
      BY <2>4, <2>6, <3>1 DEF Rows
  <2>7. MarkedShares'
    BY <2>1, <2>3, <2>5, <2>6 DEF SoundShares, Agree, MarkedShares, Mine, Cancelling
  <2>8. AtShares' /\ RankedShared' /\ NamedRanked' /\ AtRanking'
    BY <2>1, <2>3 DEF SoundShares, Agree, AtShares, Unshared, RankedShared, NamedRanked, AtRanking, Leaving, Shared
  <2> QED
    BY <2>7, <2>8 DEF Agree
<1>2. CASE CancelPublic
  <2>1. /\ req.at \in {"can_public", "can_public_floor"}
        /\ UNCHANGED <<list, shares, ranked, named>>
    BY <1>2 DEF CancelPublic, At, tables
  <2>2. Go("can_public_floor") \/ Go("can_share")
    BY <1>2, Works DEF CancelPublic, SoundShares, DecrPublic, FloorPublic
  <2>3. /\ req'.at \in {"can_public_floor", "can_share"}
        /\ req'.user = u /\ req'.file = f
    BY <2>1, <2>2, Fields DEF SoundShares
  <2> QED
    BY <2>1, <2>3 DEF SoundShares, Agree, MarkedShares, AtShares, RankedShared, NamedRanked,
           AtRanking, Cancelling, Unshared, Leaving, Shared, Owns, Rows, Mine
<1>3. CASE CancelShare
  <2>1. req.at = "can_share" /\ UNCHANGED <<list, ranked, named>>
    BY <1>3 DEF CancelShare, At, redis
  <2>2. DeleteShares(u, f) /\ Go("can_rank")
    BY <1>3, Works DEF CancelShare, SoundShares
  <2>3. req'.at = "can_rank" /\ req'.user = u /\ req'.file = f
    BY <2>1, <2>2, Fields DEF SoundShares
  <2>4. \A s : s \in shares' <=> s \in shares /\ ~(s.user = u /\ s.file = f)
    BY <2>2 DEF DeleteShares
  <2> QED
    BY <2>1, <2>3, <2>4 DEF SoundShares, Agree, MarkedShares, AtShares, RankedShared, NamedRanked,
           AtRanking, Cancelling, Unshared, Leaving, Shared, Owns, Rows, Mine
<1>4. CASE CancelRank
  <2>1. req.at = "can_rank" /\ UNCHANGED <<list, shares, named>>
    BY <1>4 DEF CancelRank, At, tables
  <2>2. ranked' = ranked \ {f} /\ Go("can_name")
    BY <1>4, Works DEF CancelRank, SoundShares
  <2>3. req'.at = "can_name" /\ req'.user = u /\ req'.file = f
    BY <2>1, <2>2, Fields DEF SoundShares
  <2> QED
    BY <2>1, <2>2, <2>3 DEF SoundShares, Agree, MarkedShares, AtShares, RankedShared, NamedRanked,
           AtRanking, Cancelling, Unshared, Leaving, Shared, Owns, Rows, Mine
<1>5. CASE CancelName
  <2>1. req.at = "can_name" /\ UNCHANGED <<list, shares, ranked>> /\ req'.at = "idle"
    BY <1>5 DEF CancelName, At, tables, Answer, NoReq
  <2>2. named' = named \ {f}
    BY <1>5, Works DEF CancelName, SoundShares
  <2> QED
    BY <2>1, <2>2 DEF SoundShares, Agree, MarkedShares, AtShares, RankedShared, NamedRanked,
           AtRanking, Cancelling, Unshared, Leaving, Shared, Owns, Rows, Mine
<1> QED
  BY <1>1, <1>2, <1>3, <1>4, <1>5 DEF handleCancelShareFile

\* handleDeleteFile up to the row of the user
LEMMA Delete_Agree ==
  ASSUME SoundShares,
         \/ DeleteZset \/ DeleteStatus \/ DeleteShare \/ DeletePublic \/ DeleteRank
         \/ DeleteCount \/ DeleteList
  PROVE  Agree'
<1> USE DEF SoundCounts, OwnersInv
<1>0. PICK u, f : u = req.user /\ f = req.file
  OBVIOUS
<1> USE <1>0
<1>a. ASSUME NEW step, Go(step), req.at # "idle"
      PROVE  /\ req'.at = step /\ req'.user = u /\ req'.file = f
             /\ req'.both = req.both
  <2>1. req \in Request0
    BY <1>a, Busy DEF SoundShares
  <2> QED
    BY <1>a, <2>1 DEF Go, Request0
<1>1. CASE DeleteZset
  <2>1. /\ req.at = "del_zset" /\ UNCHANGED <<list, shares, ranked, named>>
        /\ req \in Request0
    BY <1>1, Busy DEF DeleteZset, At, tables, redis, SoundShares
  <2>2. IF f \in ranked THEN req' = [req EXCEPT !.at = "del_share", !.both = TRUE]
                        ELSE Go("del_status")
    <3>1. Do(IF req.file \in ranked
             THEN req' = [req EXCEPT !.at = "del_share", !.both = TRUE]
             ELSE Go("del_status"), Answer)
      BY <1>1 DEF DeleteZset
    <3>2. ~Fails
      BY Troubled DEF SoundShares
    <3> QED
      BY <3>1, <3>2 DEF Do
  <2>3. /\ \/ req'.at = "del_share" /\ req'.both = TRUE
           \/ req'.at = "del_status" /\ req'.both = req.both /\ f \notin ranked
        /\ req'.user = u /\ req'.file = f
    BY <2>1, <2>2, <1>a DEF Request0
  <2> QED
    BY <2>1, <2>3 DEF SoundShares, Agree, MarkedShares, AtShares, RankedShared, NamedRanked,
           AtRanking, Cancelling, Unshared, Leaving, Shared, Owns, Rows, Mine
<1>2. CASE DeleteStatus
  <2>1. req.at = "del_status" /\ UNCHANGED <<list, shares, ranked, named>>
    BY <1>2 DEF DeleteStatus, At, tables, redis
  <2>2. \/ \E r \in Rows(u, f) : IF r.shared THEN Go("del_share") ELSE Go("del_count")
        \/ Rows(u, f) = {} /\ Go("del_count")
    BY <1>2 DEF DeleteStatus
  <2>3. Rows(u, f) # {}
    BY <2>1 DEF SoundShares, Local, Deleting, Owns
  <2>4. PICK r \in Rows(u, f) : IF r.shared THEN Go("del_share") ELSE Go("del_count")
    BY <2>2, <2>3
  <2>5. CASE r.shared /\ Go("del_share")
    <3>1. /\ req'.at = "del_share" /\ req'.user = u /\ req'.file = f
          /\ req'.both = req.both
      BY <2>1, <2>5, <1>a
    <3> QED
      BY <2>1, <3>1 DEF SoundShares, Agree, MarkedShares, AtShares, RankedShared, NamedRanked,
           AtRanking, Cancelling, Unshared, Leaving, Shared, Owns, Rows, Mine
  <2>6. CASE ~r.shared /\ Go("del_count")
    <3>1. req'.at = "del_count" /\ req'.user = u /\ req'.file = f
      BY <2>1, <2>6, <1>a
    <3>2. \A s \in shares : ~(s.user = u /\ s.file = f)
      BY <2>1, <2>6 DEF SoundShares, Agree, MarkedShares, Cancelling
    <3> QED
      BY <2>1, <3>1, <3>2 DEF SoundShares, Agree, MarkedShares, AtShares, RankedShared, NamedRanked,
           AtRanking, Cancelling, Unshared, Leaving, Shared, Owns, Rows, Mine
  <2> QED
    BY <2>4, <2>5, <2>6
<1>3. CASE DeleteShare
  <2>1. req.at = "del_share" /\ UNCHANGED <<list, ranked, named>>
    BY <1>3 DEF DeleteShare, At, redis
  <2>2. DeleteShares(u, f) /\ Go("del_public")
    BY <1>3, Works DEF DeleteShare, SoundShares
  <2>3. /\ req'.at = "del_public" /\ req'.user = u /\ req'.file = f
        /\ req'.both = req.both
    BY <2>1, <2>2, <1>a
  <2>4. \A s : s \in shares' <=> s \in shares /\ ~(s.user = u /\ s.file = f)
    BY <2>2 DEF DeleteShares
  <2> QED
    BY <2>1, <2>3, <2>4 DEF SoundShares, Agree, MarkedShares, AtShares, RankedShared, NamedRanked,
           AtRanking, Cancelling, Unshared, Leaving, Shared, Owns, Rows, Mine
<1>4. CASE DeletePublic
  <2>1. /\ req.at \in {"del_public", "del_public_floor"}
        /\ UNCHANGED <<list, shares, ranked, named>>
    BY <1>4 DEF DeletePublic, At, tables
  <2>2. Go("del_public_floor") \/ Go(AfterDeletePublic)
    BY <1>4, Works DEF DeletePublic, SoundShares, DecrPublic, FloorPublic
  <2>3. /\ \/ req'.at = "del_public_floor"
           \/ req'.at = "del_rank"
           \/ req'.at = "del_count" /\ ~req.both
        /\ req'.user = u /\ req'.file = f /\ req'.both = req.both
    BY <2>1, <2>2, <1>a DEF AfterDeletePublic
  <2> QED
    BY <2>1, <2>3 DEF SoundShares, Agree, MarkedShares, AtShares, RankedShared, NamedRanked,
           AtRanking, Cancelling, Unshared, Leaving, Shared, Owns, Rows, Mine
<1>5. CASE DeleteRank
  <2>1. UNCHANGED <<list, shares>>
    BY <1>5 DEF DeleteRank, tables
  <2>2. CASE At("del_rank")
    <3>1. ranked' = ranked \ {f} /\ Go("del_name") /\ UNCHANGED named /\ req.at = "del_rank"
      BY <1>5, <2>2, Works DEF DeleteRank, SoundShares, At
    <3>2. req'.at = "del_name" /\ req'.user = u /\ req'.file = f
      BY <3>1, <1>a
    <3> QED
      BY <2>1, <3>1, <3>2 DEF SoundShares, Agree, MarkedShares, AtShares, RankedShared, NamedRanked,
           AtRanking, Cancelling, Unshared, Leaving, Shared, Owns, Rows, Mine
  <2>3. CASE At("del_name")
    <3>1. named' = named \ {f} /\ Go("del_count") /\ UNCHANGED ranked /\ req.at = "del_name"
      BY <1>5, <2>3, Works DEF DeleteRank, SoundShares, At
    <3>2. req'.at = "del_count" /\ req'.user = u /\ req'.file = f
      BY <3>1, <1>a
    <3> QED
      BY <2>1, <3>1, <3>2 DEF SoundShares, Agree, MarkedShares, AtShares, RankedShared, NamedRanked,
           AtRanking, Cancelling, Unshared, Leaving, Shared, Owns, Rows, Mine
  <2> QED
    BY <1>5, <2>2, <2>3 DEF DeleteRank
<1>6. CASE DeleteCount
  <2>1. /\ req.at \in {"del_count", "del_count_floor"}
        /\ UNCHANGED <<list, shares, ranked, named>>
    BY <1>6 DEF DeleteCount, At, tables
  <2>2. Go("del_count_floor") \/ Go("del_list")
    BY <1>6, Works DEF DeleteCount, SoundShares
  <2>3. /\ req'.at \in {"del_count_floor", "del_list"}
        /\ req'.user = u /\ req'.file = f
    BY <2>1, <2>2, <1>a
  <2> QED
    BY <2>1, <2>3 DEF SoundShares, Agree, MarkedShares, AtShares, RankedShared, NamedRanked,
           AtRanking, Cancelling, Unshared, Leaving, Shared, Owns, Rows, Mine
<1>7. CASE DeleteList
  <2>1. req.at = "del_list" /\ UNCHANGED <<shares, ranked, named>>
    BY <1>7 DEF DeleteList, At, redis
  <2>2. list' = list \ Rows(u, f) /\ Go("del_refs")
    BY <1>7, Works DEF DeleteList, SoundShares
  <2>3. req'.at = "del_refs" /\ req'.user = u /\ req'.file = f
    BY <2>1, <2>2, <1>a
  <2>4. \A s \in shares : ~(s.user = u /\ s.file = f)
    BY <2>1 DEF SoundShares, Agree, AtShares, Unshared, Mine
  <2>5. \A s \in shares : Rows(s.user, s.file)' = Rows(s.user, s.file)
    BY <2>2, <2>4 DEF Rows
  <2>6. Settled'
    BY <2>1, <2>5 DEF SoundShares, Agree, MarkedShares, RankedShared, NamedRanked, Cancelling,
       Leaving, Settled, AllMarked, Owns, Shared
  <2>7. req'.at \in Still
    BY <2>3 DEF Still, OwnSteps
  <2> QED
    BY <2>6, <2>7, StillAgreesNext
<1> QED
  BY <1>1, <1>2, <1>3, <1>4, <1>5, <1>6, <1>7

\* Downloads and the ranking
LEMMA Shown_Agree ==
  ASSUME SoundShares, handlePvFile \/ handleGetRankingFilelist \/ getUserFilesCount
  PROVE  Agree'
<1> USE DEF SoundCounts, OwnersInv
<1>0. PICK u, f : u = req.user /\ f = req.file
  OBVIOUS
<1> USE <1>0
<1>1. CASE PvRow
  <2>1. req.at = "pv_row" /\ UNCHANGED <<list, shares, ranked, named>>
    BY <1>1 DEF PvRow, At, tables, redis
  <2>2. IF SharesOf(f) # {} THEN Go("pv_zset") ELSE Answer
    BY <1>1, Works DEF PvRow, SoundShares
  <2>3. \/ req'.at = "idle"
        \/ req'.at = "pv_zset" /\ req'.file = f /\ f \in Shared
    BY <2>1, <2>2, Fields DEF Answer, NoReq, SoundShares, SharesOf, Shared
  <2> QED
    BY <2>1, <2>3 DEF SoundShares, Agree, MarkedShares, AtShares, RankedShared, NamedRanked,
           AtRanking, Cancelling, Unshared, Leaving, Shared, Owns, Rows, Mine
<1>2. CASE PvZset
  <2>1. req.at = "pv_zset" /\ UNCHANGED <<list, shares, ranked, named>>
    BY <1>2 DEF PvZset, At, tables, redis
  <2>2. Answer \/ Go("zset_in")
    BY <1>2, Works DEF PvZset, SoundShares
  <2>3. \/ req'.at = "idle"
        \/ req'.at = "zset_in" /\ req'.file = f
    BY <2>1, <2>2, Fields DEF Answer, NoReq, SoundShares
  <2> QED
    BY <2>1, <2>3 DEF SoundShares, Agree, MarkedShares, AtShares, RankedShared, NamedRanked,
           AtRanking, Cancelling, Unshared, Leaving, Shared, Owns, Rows, Mine
<1>3. CASE getShareFilesCount \/ getUserFilesCount \/ RankingCard \/ RankingRead
  <2>1. UNCHANGED <<list, shares, ranked, named>> /\ req \in Request0
    BY <1>3, Busy DEF getShareFilesCount, TotalGet, TotalLoad, TotalRead, getUserFilesCount,
       RankingCard, RankingRead, At, tables, redis, SoundShares
  <2>2. req.at \in {"total", "total_load", "card", "mine", "mine_load", "ranking"}
    BY <1>3 DEF getShareFilesCount, TotalGet, TotalLoad, TotalRead, getUserFilesCount,
       RankingCard, RankingRead, At
  <2>3. Answer \/ req'.at \in {"total_load", "card", "mine_load", "clear_zset", "ranking"}
    BY <1>3, <2>1 DEF getShareFilesCount, TotalGet, TotalLoad, TotalRead, getUserFilesCount,
       RankingCard, RankingRead, Do, Go, Request0
  <2> QED
    BY <2>1, <2>2, <2>3, StillStep DEF Still, SoundShares
<1>4. CASE RankingClear
  <2>1. UNCHANGED <<list, shares>>
    BY <1>4 DEF RankingClear, tables
  <2>2. CASE At("clear_zset")
    <3>1. ranked' = {} /\ Go("clear_hash") /\ UNCHANGED named /\ req.at = "clear_zset"
      BY <1>4, <2>2, Works DEF RankingClear, SoundShares, At
    <3>2. req'.at = "clear_hash"
      BY <3>1, Fields DEF SoundShares
    <3> QED
      BY <2>1, <3>1, <3>2 DEF SoundShares, Agree, MarkedShares, AtShares, RankedShared, NamedRanked,
           AtRanking, Cancelling, Unshared, Leaving, Shared, Owns, Rows, Mine
  <2>3. CASE At("clear_hash")
    <3>1. named' = {} /\ Go("fill") /\ UNCHANGED ranked /\ req.at = "clear_hash"
      BY <1>4, <2>3, Works DEF RankingClear, SoundShares, At
    <3>2. req'.at = "fill"
      BY <3>1, Fields DEF SoundShares
    <3> QED
      BY <2>1, <3>1, <3>2 DEF SoundShares, Agree, MarkedShares, AtShares, RankedShared, NamedRanked,
           AtRanking, Cancelling, Unshared, Leaving, Shared, Owns, Rows, Mine
  <2> QED
    BY <1>4, <2>2, <2>3 DEF RankingClear
<1>5. CASE RankingFill
  <2>1. UNCHANGED <<list, shares>> /\ req.at = "fill" /\ Go("ranking")
    BY <1>5 DEF RankingFill, tables, At
  <2>2. ranked' = ranked \union Shared /\ named' = named \union Shared
    BY <1>5, Works DEF RankingFill, SoundShares
  <2>3. req'.at = "ranking"
    BY <2>1, Fields DEF SoundShares
  <2>4. Shared' = Shared
    BY <2>1 DEF Shared
  <2> QED
    BY <2>1, <2>2, <2>3, <2>4 DEF SoundShares, Agree, MarkedShares, AtShares, RankedShared, NamedRanked,
           AtRanking, Cancelling, Unshared, Leaving, Shared, Owns, Rows, Mine
<1> QED
  BY <1>1, <1>2, <1>3, <1>4, <1>5 DEF handlePvFile, handleGetRankingFilelist

-----------------------------------------------------------------------------
LEMMA Step_Shares ==
  ASSUME UploadOnce, OwnOnly PROVE SharesInv /\ [Next]_vars => SharesInv'
<1> SUFFICES ASSUME SharesInv, [Next]_vars PROVE SharesInv'
  OBVIOUS
<1>1. ExactInv' /\ TypeInv
  BY Step_Exact DEF SharesInv, ExactInv, OwnersInv
<1>2. NoFailed' => OneShare'
  BY <1>1, FailedStays, Step_OneShare DEF SharesInv
<1>3. ASSUME NoTrouble' PROVE Agree'
  <2>1. NoTrouble /\ ~Crash
    BY <1>1, <1>3, Untroubled
  <2>2. SoundShares
    BY <1>3, <2>1 DEF SoundShares, SoundCounts, SharesInv, ExactInv, Agree, NoTrouble, NoFailed
  <2> QED
    BY <2>1, <2>2, Owned_Agree, Others_Agree, Share_Agree, Cancel_Agree, Delete_Agree,
       Shown_Agree DEF Next, handleDeleteFile
<1> QED
  BY <1>1, <1>2, <1>3 DEF SharesInv, Agree

LEMMA Init_Shares == Init => SharesInv
<1> SUFFICES ASSUME Init PROVE OneShare /\ Agree
  BY Init_Exact DEF SharesInv, Agree
<1>1. req.at = "idle" /\ shares = {} /\ ranked = {} /\ named = {}
  BY DEF Init, NoReq
<1> QED
  BY <1>1 DEF OneShare, Agree, MarkedShares, AtShares, RankedShared, NamedRanked,
           AtRanking, Cancelling, Unshared, Leaving, Shared, Owns, Rows, Mine

\* The lists of users, the table of shared files and the ranking agree: a file
\* is shared once at most, over crashes too, by a user who has it, and between
\* two requests the ranking and the names show only what is shared.
THEOREM SharesAreTrue == ASSUME UploadOnce, OwnOnly PROVE Spec => []SharesAgree
<1>1. SharesInv => SharesAgree
  <2> SUFFICES ASSUME SharesInv PROVE SharesAgree
    OBVIOUS
  <2>1. SharedOnce
    <3> SUFFICES ASSUME NoFailed, NEW f \in Files PROVE Cardinality(SharesOf(f)) <= 1
      BY DEF SharedOnce
    <3>1. CASE SharesOf(f) = {}
      BY <3>1, FS_EmptySet
    <3>2. CASE SharesOf(f) # {}
      <4>1. PICK s : s \in SharesOf(f)
        BY <3>2
      <4>2. SharesOf(f) = {s}
        BY <4>1 DEF SharesInv, OneShare, SharesOf
      <4> QED
        BY <4>2, FS_Singleton
    <3> QED
      BY <3>1, <3>2
  <2>2. SharerOwns
    BY DEF SharerOwns, SharesInv, MarkedShares
  <2>3. RankedAreShared
    <3> SUFFICES ASSUME Quiet, NoTrouble PROVE ranked \subseteq Shared /\ named = ranked
      BY DEF RankedAreShared
    <3>1. req.at = "idle"
      BY DEF Quiet, NoReq
    <3> QED
      BY <3>1 DEF SharesInv, RankedShared, NamedRanked, Leaving
  <2> QED
    BY <2>1, <2>2, <2>3 DEF SharesAgree
<1>2. SharesInv /\ [Next]_vars => SharesInv'
  BY Step_Shares
<1> QED
  BY <1>1, <1>2, Init_Shares, PTL DEF Spec

------------------------------------------------------------------------------
(* The counters *)

LEMMA SharesFinite ==
  ASSUME TypeInv PROVE IsFiniteSet(shares) /\ Cardinality(shares) \in Nat
  BY FS_CardinalityType DEF TypeInv

\* At most one share is of the user and the file.
LEMMA AtMostMine ==
  ASSUME TypeInv, OneShare, NEW u, NEW f
  PROVE  /\ Cardinality(SharesBut(u, f)) \in Nat
         /\ Cardinality(SharesBut(u, f)) <= Cardinality(shares)
         /\ Cardinality(shares) <= Cardinality(SharesBut(u, f)) + 1
<1>1. IsFiniteSet(shares) /\ Cardinality(shares) \in Nat
  BY SharesFinite
<1>2. CASE \A s \in shares : ~(s.user = u /\ s.file = f)
  <2>1. SharesBut(u, f) = shares
    BY <1>2 DEF SharesBut
  <2> QED
    BY <1>1, <2>1
<1>3. ASSUME NEW s \in shares, s.user = u, s.file = f
      PROVE  /\ Cardinality(SharesBut(u, f)) = Cardinality(shares) - 1
             /\ IsFiniteSet(SharesBut(u, f))
  <2>1. \A t \in shares : t.user = u /\ t.file = f => t = s
    BY <1>3 DEF OneShare
  <2>2. SharesBut(u, f) = shares \ {s}
    BY <1>3, <2>1 DEF SharesBut
  <2>3. /\ IsFiniteSet(shares \ {s})
        /\ Cardinality(shares \ {s}) = Cardinality(shares) - 1
    BY <1>1, FS_RemoveElement
  <2> QED
    BY <2>2, <2>3
<1>4. CASE \E s \in shares : s.user = u /\ s.file = f
  <2>1. /\ Cardinality(SharesBut(u, f)) = Cardinality(shares) - 1
        /\ IsFiniteSet(SharesBut(u, f))
    BY <1>3, <1>4
  <2>2. Cardinality(SharesBut(u, f)) \in Nat
    BY <2>1, FS_CardinalityType
  <2> QED
    BY <1>1, <2>1, <2>2
<1> QED
  BY <1>2, <1>4

SoundBound == TypeInv /\ NoFailed' /\ OneShare /\ Bounded

\* A step that changes neither, between steps at which the bound is plain.
LEMMA BoundedSame ==
  ASSUME Bounded, UNCHANGED <<shares, publicCount>>,
         req.at \notin {"share_count", "del_public", "can_share"},
         Answer \/ req'.at \notin {"share_count", "del_public", "can_share"}
  PROVE  Bounded'
  BY DEF Bounded, Answer, NoReq

LEMMA BoundedPlain ==
  ASSUME publicCount' <= Cardinality(shares'),
         Answer \/ req'.at \notin {"share_count", "del_public", "can_share"}
  PROVE  Bounded'
  BY DEF Bounded, Answer, NoReq

LEMMA Step_Bounded ==
  ASSUME SoundBound, [Next]_vars
  PROVE  Bounded'
<1> USE DEF SoundBound
<1>0. PICK u, f : u = req.user /\ f = req.file
  OBVIOUS
<1> USE <1>0
<1>a. publicCount \in Int /\ IsFiniteSet(shares) /\ Cardinality(shares) \in Nat
  BY SharesFinite DEF TypeInv, TypeOK
<1>1. CASE Unwatched
  BY <1>1, BoundedSame DEF Unwatched, Watched, Dry
<1>2. CASE UNCHANGED <<shares, publicCount, req>>
  BY <1>2 DEF Bounded, SharesBut
<1>3. CASE ShareRow \/ ShareMark
  <2>1. /\ req.at \in {"share_row", "share_mark"}
        /\ UNCHANGED <<shares, publicCount>>
    BY <1>3 DEF ShareRow, ShareMark, At, tables, redis
  <2>2. Answer \/ Go("zset_in") \/ Go("share_mark") \/ Go("share_insert")
    BY <1>3 DEF ShareRow, ShareMark, Do
  <2> QED
    BY <2>1, <2>2, Fields, BoundedSame
<1>4. CASE ShareInsert
  <2>1. req.at = "share_insert" /\ UNCHANGED publicCount
    BY <1>4 DEF ShareInsert, At, redis
  <2>2. /\ \E k \in Copies : shares' = shares \union {[user |-> u, file |-> f, copy |-> k]}
        /\ Go("share_count")
    BY <1>4, Successful DEF ShareInsert, Fresh
  <2>3. PICK s : s.file = f /\ shares' = shares \union {s}
    <3>1. PICK k \in Copies : shares' = shares \union {[user |-> u, file |-> f, copy |-> k]}
      BY <2>2
    <3>2. PICK s : s = [user |-> u, file |-> f, copy |-> k]
      OBVIOUS
    <3> QED
      BY <3>1, <3>2
  <2>4. s \notin shares
    BY <2>1, <2>3 DEF OneShare, Shared
  <2>5. Cardinality(shares') = Cardinality(shares) + 1
    BY <2>3, <2>4, <1>a, FS_AddElement
  <2>6. publicCount <= Cardinality(shares)
    BY <2>1 DEF Bounded
  <2>7. req'.at = "share_count"
    BY <2>1, <2>2, Fields
  <2> QED
    BY <2>1, <2>5, <2>6, <2>7, <1>a DEF Bounded
<1>5. CASE ShareCount
  <2>1. req.at = "share_count" /\ UNCHANGED shares
    BY <1>5 DEF ShareCount, At, tables
  <2>2. publicCount' = publicCount + 1 /\ Go("zset_in")
    BY <1>5, Successful DEF ShareCount
  <2>3. req'.at = "zset_in"
    BY <2>1, <2>2, Fields
  <2>4. publicCount' <= Cardinality(shares')
    BY <2>1, <2>2 DEF Bounded
  <2> QED
    BY <2>3, <2>4, BoundedPlain
<1>6. CASE DeleteShare
  <2>1. req.at = "del_share" /\ UNCHANGED publicCount
    BY <1>6 DEF DeleteShare, At, redis
  <2>2. shares' = SharesBut(u, f) /\ Go("del_public")
    BY <1>6, Successful DEF DeleteShare, DeleteShares, SharesBut
  <2>3. req'.at = "del_public"
    BY <2>1, <2>2, Fields
  <2>4. /\ Cardinality(SharesBut(u, f)) \in Nat
        /\ Cardinality(shares) <= Cardinality(SharesBut(u, f)) + 1
    BY AtMostMine
  <2>5. publicCount <= Cardinality(shares)
    BY <2>1 DEF Bounded
  <2>6. publicCount <= Cardinality(shares') + 1
    BY <2>2, <2>4, <2>5, <1>a
  <2> QED
    BY <2>1, <2>3, <2>6 DEF Bounded
<1>7. CASE DeletePublic
  <2>1. UNCHANGED shares
    BY <1>7 DEF DeletePublic, tables
  <2>2. CASE At("del_public")
    <3>1. /\ req.at = "del_public" /\ publicCount' = publicCount - 1
          /\ Go("del_public_floor") \/ Go(AfterDeletePublic)
      BY <1>7, <2>2, Successful DEF DeletePublic, DecrPublic, At
    <3>2. publicCount' <= Cardinality(shares')
      BY <2>1, <3>1, <1>a DEF Bounded
    <3>3. req'.at \in {"del_public_floor", "del_rank", "del_count"}
      BY <3>1, Fields DEF AfterDeletePublic
    <3> QED
      BY <3>2, <3>3, BoundedPlain
  <2>3. CASE At("del_public_floor")
    <3>1. /\ req.at = "del_public_floor" /\ publicCount' = 0 /\ Go(AfterDeletePublic)
      BY <1>7, <2>3, Successful DEF DeletePublic, FloorPublic, At
    <3>2. publicCount' <= Cardinality(shares')
      BY <2>1, <3>1, <1>a
    <3>3. req'.at \in {"del_rank", "del_count"}
      BY <3>1, Fields DEF AfterDeletePublic
    <3> QED
      BY <3>2, <3>3, BoundedPlain
  <2> QED
    BY <1>7, <2>2, <2>3 DEF DeletePublic
<1>8. CASE CancelMark
  <2>1. req.at = "can_mark" /\ UNCHANGED <<shares, publicCount>>
    BY <1>8 DEF CancelMark, At, redis
  <2>2. Go("can_public")
    BY <1>8, Successful DEF CancelMark
  <2> QED
    BY <2>1, <2>2, Fields, BoundedSame
<1>9. CASE CancelPublic
  <2>1. UNCHANGED shares
    BY <1>9 DEF CancelPublic, tables
  <2>2. /\ Cardinality(SharesBut(u, f)) \in Nat
        /\ Cardinality(shares) <= Cardinality(SharesBut(u, f)) + 1
    BY AtMostMine
  <2>3. ASSUME Go("can_share"), req.at # "idle", publicCount' <= Cardinality(SharesBut(u, f))
        PROVE  Bounded'
    <3>1. req'.at = "can_share" /\ req'.user = u /\ req'.file = f
      BY <2>3, Fields
    <3>2. SharesBut(req.user, req.file)' = SharesBut(u, f)
      BY <2>1, <3>1 DEF SharesBut
    <3> QED
      BY <2>3, <3>1, <3>2 DEF Bounded
  <2>4. CASE At("can_public")
    <3>1. /\ req.at = "can_public" /\ publicCount' = publicCount - 1
          /\ Go("can_public_floor") \/ Go("can_share")
      BY <1>9, <2>4, Successful DEF CancelPublic, DecrPublic, At
    <3>2. publicCount <= Cardinality(shares)
      BY <3>1 DEF Bounded
    <3>3. /\ publicCount' <= Cardinality(shares')
          /\ publicCount' <= Cardinality(SharesBut(u, f))
      BY <2>1, <2>2, <3>1, <3>2, <1>a
    <3> QED
      BY <2>3, <3>1, <3>3, Fields, BoundedPlain
  <2>5. CASE At("can_public_floor")
    <3>1. req.at = "can_public_floor" /\ publicCount' = 0 /\ Go("can_share")
      BY <1>9, <2>5, Successful DEF CancelPublic, FloorPublic, At
    <3> QED
      BY <2>2, <2>3, <3>1
  <2> QED
    BY <1>9, <2>4, <2>5 DEF CancelPublic
<1>10. CASE CancelShare
  <2>1. req.at = "can_share" /\ UNCHANGED publicCount
    BY <1>10 DEF CancelShare, At, redis
  <2>2. shares' = SharesBut(u, f) /\ Go("can_rank")
    BY <1>10, Successful DEF CancelShare, DeleteShares, SharesBut
  <2>3. publicCount' <= Cardinality(shares')
    BY <2>1, <2>2 DEF Bounded
  <2> QED
    BY <2>1, <2>2, <2>3, Fields, BoundedPlain
<1>11. CASE TotalLoad
  <2>1. req.at = "total_load" /\ UNCHANGED shares /\ req \in Request0
    BY <1>11, Busy DEF TotalLoad, At, tables
  <2>2. /\ publicCount' = Cardinality(shares)
        /\ req' = [req EXCEPT !.at = "card", !.n = Cardinality(shares)]
    BY <1>11, Successful DEF TotalLoad
  <2>3. req'.at = "card"
    BY <2>1, <2>2 DEF Request0
  <2> QED
    BY <2>1, <2>2, <2>3, <1>a, BoundedPlain
<1>12. CASE Crash
  <2>1. publicCount' = Cardinality(shares') /\ Answer
    BY <1>12 DEF Crash, Answer, tables
  <2>2. UNCHANGED shares
    BY <1>12 DEF Crash, tables
  <2> QED
    BY <2>1, <2>2, <1>a, BoundedPlain
<1> QED
  BY <1>1, <1>2, <1>3, <1>4, <1>5, <1>6, <1>7, <1>8, <1>9, <1>10, <1>11, <1>12, Kinds_Shares

-----------------------------------------------------------------------------
Floors == {"del_public_floor", "can_public_floor"}

LEMMA Step_PublicFloored ==
  ASSUME TypeInv, NoTrouble', PublicFloored, [Next]_vars
  PROVE  PublicFloored'
<1>a. publicCount \in Int /\ Cardinality(shares) \in Nat
  BY SharesFinite DEF TypeInv, TypeOK
<1>0. ASSUME UNCHANGED publicCount, req.at \notin Floors, Answer \/ req'.at \notin Floors
      PROVE  PublicFloored'
  BY <1>0 DEF PublicFloored, Floors
<1>1. CASE Unwatched
  BY <1>0, <1>1 DEF Unwatched, Watched, Dry, Floors
<1>2. CASE UNCHANGED <<shares, publicCount, req>>
  BY <1>2 DEF PublicFloored
<1>3. CASE ShareRow \/ ShareMark \/ ShareInsert \/ CancelMark \/ CancelShare \/ DeleteShare
  <2>1. UNCHANGED publicCount
    BY <1>3 DEF ShareRow, ShareMark, ShareInsert, CancelMark, CancelShare, DeleteShare, redis
  <2>2. req.at \in {"share_row", "share_mark", "share_insert", "can_mark", "can_share", "del_share"}
    BY <1>3 DEF ShareRow, ShareMark, ShareInsert, CancelMark, CancelShare, DeleteShare, At
  <2>3. \/ Answer \/ Go("zset_in") \/ Go("share_mark") \/ Go("share_insert")
        \/ Go("share_count") \/ Go("can_public") \/ Go("can_rank") \/ Go("del_public")
    BY <1>3 DEF ShareRow, ShareMark, ShareInsert, CancelMark, CancelShare, DeleteShare, Do
  <2>4. Answer \/ req'.at \notin Floors
    BY <2>2, <2>3, Fields DEF Floors
  <2> QED
    BY <1>0, <2>1, <2>2, <2>4 DEF Floors
<1>4. CASE ShareCount
  <2>1. req.at = "share_count" /\ publicCount' = publicCount + 1
    BY <1>4, Works DEF ShareCount, At
  <2> QED
    BY <2>1, <1>a DEF PublicFloored
<1>5. ASSUME NEW floor \in Floors, NEW next, req.at \notin Floors, req.at # "idle",
             DecrPublic(floor, next)
      PROVE  PublicFloored'
  <2>1. /\ publicCount' = publicCount - 1
        /\ IF publicCount <= 0 THEN Go(floor) ELSE Go(next)
    BY <1>5, Works DEF DecrPublic
  <2>2. publicCount <= 0 => req'.at \in Floors
    BY <1>5, <2>1, Fields
  <2> QED
    BY <2>1, <2>2, <1>a DEF PublicFloored, Floors
<1>6. ASSUME NEW next, FloorPublic(next) PROVE PublicFloored'
  <2>1. publicCount' = 0
    BY <1>6, Works DEF FloorPublic
  <2> QED
    BY <2>1 DEF PublicFloored
<1>7. CASE DeletePublic \/ CancelPublic
  BY <1>5, <1>6, <1>7 DEF DeletePublic, CancelPublic, At, Floors
<1>8. CASE TotalLoad
  <2>1. publicCount' = Cardinality(shares)
    BY <1>8, Works DEF TotalLoad
  <2> QED
    BY <2>1, <1>a DEF PublicFloored
<1>9. CASE Crash
  BY <1>9, Troubled
<1> QED
  BY <1>1, <1>2, <1>3, <1>4, <1>7, <1>8, <1>9, Kinds_Shares

\* A step that counts no user's files.
Uncounted ==
  /\ UNCHANGED <<userCount, logins>>
  /\ req.at # "del_count_floor"
  /\ Answer \/ req'.at # "del_count_floor"

LEMMA Files_Uncounted ==
  ASSUME TypeInv,
         \/ Md5Refs \/ Md5Own \/ Md5Update \/ Md5Insert \/ Md5Restore \/
            SaveOwn \/ SaveRefs \/ SaveUpdate \/ SaveInsert \/
            UploadStore \/ UploadInfo \/ UploadList \/ DeleteRefs \/
            DeleteUpdate \/ DeleteId \/ DeleteInfo \/ RemoveFileFromFastDfs
  PROVE  Uncounted
<1>0. ASSUME Owning PROVE /\ req.at # "del_count_floor"
                          /\ Answer \/ req'.at # "del_count_floor"
  BY <1>0 DEF Owning, OwnSteps
<1>1. CASE Md5Refs
  BY <1>0, <1>1, Owned_Moves DEF Md5Refs, Uncounted, redis, others,
     handleDealMd5, handleSaveFile, ApiUpload
<1>2. CASE Md5Own
  BY <1>0, <1>2, Owned_Moves DEF Md5Own, Uncounted, redis, others,
     handleDealMd5, handleSaveFile, ApiUpload
<1>3. CASE Md5Update
  BY <1>0, <1>3, Owned_Moves DEF Md5Update, Uncounted, redis, others,
     handleDealMd5, handleSaveFile, ApiUpload
<1>4. CASE Md5Insert
  BY <1>0, <1>4, Owned_Moves DEF Md5Insert, Uncounted, redis, others,
     handleDealMd5, handleSaveFile, ApiUpload
<1>5. CASE Md5Restore
  BY <1>0, <1>5, Owned_Moves DEF Md5Restore, Uncounted, redis, others,
     handleDealMd5, handleSaveFile, ApiUpload
<1>6. CASE SaveOwn
  BY <1>0, <1>6, Owned_Moves DEF SaveOwn, Uncounted, redis, others,
     handleDealMd5, handleSaveFile, ApiUpload
<1>7. CASE SaveRefs
  BY <1>0, <1>7, Owned_Moves DEF SaveRefs, Uncounted, redis, others,
     handleDealMd5, handleSaveFile, ApiUpload
<1>8. CASE SaveUpdate
  BY <1>0, <1>8, Owned_Moves DEF SaveUpdate, Uncounted, redis, others,
     handleDealMd5, handleSaveFile, ApiUpload
<1>9. CASE SaveInsert
  BY <1>0, <1>9, Owned_Moves DEF SaveInsert, Uncounted, redis, others,
     handleDealMd5, handleSaveFile, ApiUpload
<1>10. CASE UploadStore
  BY <1>0, <1>10, Owned_Moves DEF UploadStore, Uncounted, redis, others,
     handleDealMd5, handleSaveFile, ApiUpload
<1>11. CASE UploadInfo
  BY <1>0, <1>11, Owned_Moves DEF UploadInfo, Uncounted, redis, others,
     handleDealMd5, handleSaveFile, ApiUpload
<1>12. CASE UploadList
  BY <1>0, <1>12, Owned_Moves DEF UploadList, Uncounted, redis, others,
     handleDealMd5, handleSaveFile, ApiUpload
<1>13. CASE DeleteRefs
  BY <1>0, <1>13, Owned_Moves DEF DeleteRefs, Uncounted, redis, others,
     handleDealMd5, handleSaveFile, ApiUpload
<1>14. CASE DeleteUpdate
  BY <1>0, <1>14, Owned_Moves DEF DeleteUpdate, Uncounted, redis, others,
     handleDealMd5, handleSaveFile, ApiUpload
<1>15. CASE DeleteId
  BY <1>0, <1>15, Owned_Moves DEF DeleteId, Uncounted, redis, others,
     handleDealMd5, handleSaveFile, ApiUpload
<1>16. CASE DeleteInfo
  BY <1>0, <1>16, Owned_Moves DEF DeleteInfo, Uncounted, redis, others,
     handleDealMd5, handleSaveFile, ApiUpload
<1>17. CASE RemoveFileFromFastDfs
  BY <1>0, <1>17, Owned_Moves DEF RemoveFileFromFastDfs, Uncounted, redis, others,
     handleDealMd5, handleSaveFile, ApiUpload
<1> QED
  BY <1>1, <1>2, <1>3, <1>4, <1>5, <1>6, <1>7, <1>8, <1>9, <1>10, <1>11,
     <1>12, <1>13, <1>14, <1>15, <1>16, <1>17

LEMMA Shares_Uncounted ==
  ASSUME TypeInv,
         \/ ShareZset \/ ShareRow \/ ShareMark \/ ShareInsert \/
            ShareCount \/ ZsetAdd \/ Hset \/ DeleteZset \/ DeleteStatus \/
            DeleteShare \/ DeletePublic \/ DeleteRank \/ DeleteList \/
            CancelMark \/ CancelPublic \/ CancelShare \/ CancelRank \/
            CancelName
  PROVE  Uncounted
<1>0. ASSUME req.at # "idle", NEW step, step # "del_count_floor"
      PROVE  /\ Go(step) => req'.at # "del_count_floor"
             /\ \A n : req' = [req EXCEPT !.at = step, !.n = n] => req'.at # "del_count_floor"
             /\ \A b : req' = [req EXCEPT !.at = step, !.both = b] => req'.at # "del_count_floor"
  <2> req \in Request0
    BY <1>0, Busy
  <2> QED
    BY <1>0 DEF Go, Request0
<1> USE DEF At, Do, Uncounted, redis, others
<1>1. ASSUME ShareZset PROVE Uncounted
  BY <1>0, <1>1 DEF ShareZset
<1>2. ASSUME ShareRow PROVE Uncounted
  BY <1>0, <1>2 DEF ShareRow
<1>3. ASSUME ShareMark PROVE Uncounted
  BY <1>0, <1>3 DEF ShareMark
<1>4. ASSUME ShareInsert PROVE Uncounted
  BY <1>0, <1>4 DEF ShareInsert
<1>5. ASSUME ShareCount PROVE Uncounted
  BY <1>0, <1>5 DEF ShareCount
<1>6. ASSUME ZsetAdd PROVE Uncounted
  BY <1>0, <1>6 DEF ZsetAdd
<1>7. ASSUME Hset PROVE Uncounted
  BY <1>0, <1>7 DEF Hset
<1>8. ASSUME DeleteZset PROVE Uncounted
  BY <1>0, <1>8 DEF DeleteZset
<1>9. ASSUME DeleteStatus PROVE Uncounted
  BY <1>0, <1>9 DEF DeleteStatus
<1>10. ASSUME DeleteShare PROVE Uncounted
  BY <1>0, <1>10 DEF DeleteShare
<1>11. ASSUME DeletePublic PROVE Uncounted
  BY <1>0, <1>11 DEF DeletePublic, DecrPublic, FloorPublic, AfterDeletePublic
<1>12. ASSUME DeleteRank PROVE Uncounted
  BY <1>0, <1>12 DEF DeleteRank
<1>13. ASSUME DeleteList PROVE Uncounted
  BY <1>0, <1>13 DEF DeleteList
<1>14. ASSUME CancelMark PROVE Uncounted
  BY <1>0, <1>14 DEF CancelMark
<1>15. ASSUME CancelPublic PROVE Uncounted
  BY <1>0, <1>15 DEF CancelPublic, DecrPublic, FloorPublic
<1>16. ASSUME CancelShare PROVE Uncounted
  BY <1>0, <1>16 DEF CancelShare
<1>17. ASSUME CancelRank PROVE Uncounted
  BY <1>0, <1>17 DEF CancelRank
<1>18. ASSUME CancelName PROVE Uncounted
  BY <1>0, <1>18 DEF CancelName
<1> HIDE DEF At, Do, Uncounted, redis, others
<1> QED
  BY <1>1, <1>2, <1>3, <1>4, <1>5, <1>6, <1>7, <1>8, <1>9, <1>10, <1>11,
     <1>12, <1>13, <1>14, <1>15, <1>16, <1>17, <1>18

LEMMA Shown_Uncounted ==
  ASSUME TypeInv,
         \/ PvRow \/ PvZset \/ TotalGet \/ TotalLoad \/ TotalRead \/
            RankingCard \/ RankingClear \/ RankingFill \/ RankingRead
  PROVE  Uncounted
<1>0. ASSUME req.at # "idle", NEW step, step # "del_count_floor"
      PROVE  /\ Go(step) => req'.at # "del_count_floor"
             /\ \A n : req' = [req EXCEPT !.at = step, !.n = n] => req'.at # "del_count_floor"
             /\ \A b : req' = [req EXCEPT !.at = step, !.both = b] => req'.at # "del_count_floor"
  <2> req \in Request0
    BY <1>0, Busy
  <2> QED
    BY <1>0 DEF Go, Request0
<1> USE DEF At, Do, Uncounted, redis, others
<1>1. ASSUME PvRow PROVE Uncounted
  BY <1>0, <1>1 DEF PvRow
<1>2. ASSUME PvZset PROVE Uncounted
  BY <1>0, <1>2 DEF PvZset
<1>3. ASSUME TotalGet PROVE Uncounted
  BY <1>0, <1>3 DEF TotalGet
<1>4. ASSUME TotalLoad PROVE Uncounted
  BY <1>0, <1>4 DEF TotalLoad
<1>5. ASSUME TotalRead PROVE Uncounted
  BY <1>0, <1>5 DEF TotalRead
<1>6. ASSUME RankingCard PROVE Uncounted
  BY <1>0, <1>6 DEF RankingCard
<1>7. ASSUME RankingClear PROVE Uncounted
  BY <1>0, <1>7 DEF RankingClear
<1>8. ASSUME RankingFill PROVE Uncounted
  BY <1>0, <1>8 DEF RankingFill
<1>9. ASSUME RankingRead PROVE Uncounted
  BY <1>0, <1>9 DEF RankingRead
<1> HIDE DEF At, Do, Uncounted, redis, others
<1> QED
  BY <1>1, <1>2, <1>3, <1>4, <1>5, <1>6, <1>7, <1>8, <1>9

LEMMA CountsTyped ==
  ASSUME TypeInv
  PROVE  /\ userCount \in [Users -> Int] /\ logins \in [Users -> Int]
         /\ \A v : IsFiniteSet(FilesOf(v)) /\ Cardinality(FilesOf(v)) \in Nat
<1>1. userCount \in [Users -> Int] /\ logins \in [Users -> Int] /\ IsFiniteSet(list)
  BY DEF TypeInv, TypeOK
<1>2. \A v : FilesOf(v) \subseteq list
  BY DEF FilesOf
<1>3. \A v : IsFiniteSet(FilesOf(v))
  BY <1>1, <1>2, FS_Subset
<1> QED
  BY <1>1, <1>3, FS_CardinalityType

LEMMA Step_UsersFloored ==
  ASSUME TypeInv, NoTrouble', UsersFloored, [Next]_vars
  PROVE  UsersFloored'
<1>0. PICK u : u = req.user
  OBVIOUS
<1>a. userCount \in [Users -> Int] /\ logins \in [Users -> Int]
  BY CountsTyped
<1>b. req.at # "idle" => u \in Users
  BY <1>0, Busy DEF Request0
<1>1. CASE Uncounted
  BY <1>1 DEF UsersFloored, Uncounted
<1>2. CASE CountUp
  <2>1. req.at = "count_up" /\ UNCHANGED logins /\ userCount' = [userCount EXCEPT ![u] = @ + 1]
    BY <1>2, <1>0, Works DEF CountUp, others, At
  <2>2. \A v \in Users : userCount[v] >= 0
    BY <2>1 DEF UsersFloored
  <2>3. \A v \in Users : userCount'[v] >= 0
    BY <2>1, <2>2, <1>a
  <2> QED
    BY <2>1, <2>3 DEF UsersFloored
<1>3. CASE DeleteCount
  <2>1. UNCHANGED logins
    BY <1>3 DEF DeleteCount, others
  <2>2. CASE At("del_count")
    <3>1. /\ req.at = "del_count" /\ userCount' = [userCount EXCEPT ![u] = @ - 1]
          /\ IF userCount[u] <= 0 THEN Go("del_count_floor") ELSE Go("del_list")
      BY <1>3, <2>2, <1>0, Works DEF DeleteCount, At
    <3>2. \A v \in Users : userCount[v] >= 0
      BY <3>1 DEF UsersFloored
    <3>3. \A v \in Users : v # u => userCount'[v] >= 0
      BY <3>1, <3>2, <1>a
    <3>4. userCount[u] > 0 => userCount'[u] >= 0
      BY <3>1, <1>a, <1>b
    <3>5. ~(userCount[u] > 0) => req'.at = "del_count_floor" /\ req'.user = u
      BY <3>1, <1>a, <1>b, <1>0, Fields
    <3> QED
      BY <2>1, <3>3, <3>4, <3>5 DEF UsersFloored
  <2>3. CASE At("del_count_floor")
    <3>1. req.at = "del_count_floor" /\ userCount' = [userCount EXCEPT ![u] = 0]
      BY <1>3, <2>3, <1>0, Works DEF DeleteCount, At
    <3>2. \A v \in Users : userCount'[v] >= 0
      BY <3>1, <1>0, <1>a DEF UsersFloored
    <3> QED
      BY <2>1, <3>2 DEF UsersFloored
  <2> QED
    BY <1>3, <2>2, <2>3 DEF DeleteCount
<1>4. CASE getUserFilesCount
  <2>1. UNCHANGED logins
    BY <1>4 DEF getUserFilesCount, others
  <2>2. CASE At("mine")
    <3>1. UNCHANGED userCount /\ req.at = "mine" /\ (Answer \/ Go("mine_load"))
      BY <1>4, <2>2 DEF getUserFilesCount, At, Do
    <3> QED
      BY <2>1, <3>1 DEF UsersFloored
  <2>3. CASE At("mine_load")
    <3>1. /\ req.at = "mine_load"
          /\ userCount' = [userCount EXCEPT ![u] = Cardinality(FilesOf(u))]
      BY <1>4, <2>3, <1>0, Works DEF getUserFilesCount, At
    <3>2. PICK c : c = Cardinality(FilesOf(u)) /\ c \in Nat
      BY CountsTyped
    <3>3. \A v \in Users : userCount[v] >= 0
      BY <3>1 DEF UsersFloored
    <3>4. \A v \in Users : userCount'[v] >= 0
      BY <3>1, <3>2, <3>3, <1>a
    <3> QED
      BY <2>1, <3>4 DEF UsersFloored
  <2> QED
    BY <1>4, <2>2, <2>3 DEF getUserFilesCount
<1>5. ASSUME NEW v \in Users, LoginRead(v) PROVE UsersFloored'
  <2>1. PICK c : c = Cardinality(FilesOf(v)) /\ c \in Nat
    BY CountsTyped
  <2>2. UNCHANGED <<userCount, req>> /\ logins' = [logins EXCEPT ![v] = c]
    BY <1>5, <2>1 DEF LoginRead, redis
  <2>3. \A w \in Users : logins'[w] >= -1
    BY <2>1, <2>2, <1>a DEF UsersFloored
  <2> QED
    BY <2>2, <2>3 DEF UsersFloored
<1>6. ASSUME NEW v \in Users, LoginSet(v) PROVE UsersFloored'
  <2>1. /\ logins[v] # -1 /\ UNCHANGED req
        /\ userCount' = [userCount EXCEPT ![v] = logins[v]]
        /\ logins' = [logins EXCEPT ![v] = -1]
    BY <1>6, Works DEF LoginSet
  <2>2. logins[v] >= 0
    BY <2>1, <1>a DEF UsersFloored
  <2>3. \A w \in Users : logins'[w] >= -1
    BY <2>1, <1>a DEF UsersFloored
  <2>4. \A w \in Users : userCount'[w] >= 0 \/ (w # v /\ userCount'[w] = userCount[w])
    BY <2>1, <2>2, <1>a
  <2> QED
    BY <2>1, <2>3, <2>4 DEF UsersFloored
<1>7. CASE \E v \in Users, f \in Files : Accept(v, f)
  <2>1. UNCHANGED <<userCount, logins>> /\ req.at = "idle"
    BY <1>7 DEF Accept, Request, redis, At
  <2> QED
    BY <2>1 DEF UsersFloored
<1>8. CASE UNCHANGED vars
  BY <1>8 DEF UsersFloored, vars, redis, others
<1>9. CASE Crash
  BY <1>9, Troubled
<1> QED
  BY <1>1, <1>2, <1>3, <1>4, <1>5, <1>6, <1>7, <1>8, <1>9,
     Files_Uncounted, Shares_Uncounted, Shown_Uncounted
     DEF Next, ApiUserLogin, handleDealMd5, ApiUpload, handleShareFile, handleDeleteFile,
         handleCancelShareFile, handleSaveFile, handlePvFile, handleGetRankingFilelist,
         getShareFilesCount

-----------------------------------------------------------------------------
LEMMA Step_Counts ==
  ASSUME UploadOnce, OwnOnly PROVE CountsInv /\ [Next]_vars => CountsInv'
<1> SUFFICES ASSUME CountsInv, [Next]_vars PROVE CountsInv'
  OBVIOUS
<1>1. SharesInv' /\ TypeInv
  BY Step_Shares DEF CountsInv, SharesInv, ExactInv, OwnersInv
<1>2. ASSUME NoFailed' PROVE Bounded'
  <2>1. NoFailed
    BY <1>1, <1>2, FailedStays
  <2> QED
    BY <1>1, <1>2, <2>1, Step_Bounded DEF CountsInv, SharesInv, SoundBound
<1>3. ASSUME NoTrouble' PROVE PublicFloored' /\ UsersFloored'
  <2>1. NoTrouble
    BY <1>1, <1>3, Untroubled
  <2> QED
    BY <1>1, <1>3, <2>1, Step_PublicFloored, Step_UsersFloored DEF CountsInv
<1> QED
  BY <1>1, <1>2, <1>3 DEF CountsInv

LEMMA Init_Counts == Init => CountsInv
<1> SUFFICES ASSUME Init PROVE Bounded /\ PublicFloored /\ UsersFloored
  BY Init_Shares DEF CountsInv
<1>1. Cardinality(shares) = 0
  BY FS_EmptySet DEF Init
<1>2. req.at = "idle" /\ publicCount = 0
  BY DEF Init, NoReq
<1>3. UsersFloored
  BY DEF Init, UsersFloored
<1> QED
  BY <1>1, <1>2, <1>3 DEF Bounded, PublicFloored

\* The counters of redis stay between zero and what they count: the number of
\* shared files is not ahead of the table unless a call has failed, and no
\* counter is below zero between two requests while nothing has gone wrong.
THEOREM CountersStayBounded == ASSUME UploadOnce, OwnOnly PROVE Spec => []CountersBounded
<1>1. CountsInv => CountersBounded
  <2> SUFFICES ASSUME CountsInv PROVE CountersBounded
    OBVIOUS
  <2>1. Quiet => req.at = "idle"
    BY DEF Quiet, NoReq
  <2>2. PublicCountBound
    BY <2>1 DEF CountsInv, Bounded, PublicCountBound
  <2>3. CountersFloored
    BY <2>1 DEF CountsInv, PublicFloored, UsersFloored, CountersFloored
  <2> QED
    BY <2>2, <2>3 DEF CountersBounded
<1>2. CountsInv /\ [Next]_vars => CountsInv'
  BY Step_Counts
<1> QED
  BY <1>1, <1>2, Init_Counts, PTL DEF Spec

------------------------------------------------------------------------------
(***************************************************************************)
(* With shared pictures the count of file_info is of owners and pictures.   *)
(* A crash or a failed call may leave a picture without its reference (see  *)
(* PictureStore), so everything is said of runs without trouble only: the   *)
(* stores are then as the handlers of files need them, every picture has    *)
(* its row in file_info, and a cancel takes off the count what a share has  *)
(* added.                                                                   *)
(***************************************************************************)

ShareSteps  == {"pic_insert", "pic_refs", "pic_update", "pic_count", "pics", "pics_load"}
CancelSteps == {"pcan_own", "pcan_file", "pcan_refs", "pcan_update", "pcan_row", "pcan_info",
                "pcan_dfs", "pcan_count", "pcan_floor"}

\* A request about pictures.
PicRequest ==
  \/ req \in [at : ShareSteps, user : Users, file : Files \union {NoFile}, n : Int,
              id : Ids \union {0}, both : BOOLEAN]
  \/ req \in [at : CancelSteps, user : Users, file : Files \union {NoFile}, n : Int,
              id : Ids \union {0}, both : BOOLEAN, url : Int]

PicsTyped ==
  /\ pics \subseteq [user : Users, file : Files, url : Int, copy : Copies]
  /\ IsFiniteSet(pics)
  /\ picCount \in [Users -> Int] /\ picLogins \in [Users -> Int] /\ drawn \in Nat

\* A string is drawn once, so a url names one picture.
Urls ==
  /\ \A p \in pics : p.url <= drawn
  /\ \A p, q \in pics : p.url = q.url => p = q

PicKnown == \A p \in pics : InfoOf(p.file) # {}

\* A picture that is in its table and not counted: not yet, or not any more.
Unreferred(f) ==
  IF req.at \in {"pic_refs", "pic_update", "pcan_row"} /\ req.file = f THEN 1 ELSE 0

Pictured == [f \in Files |-> Cardinality(PicsOf(f)) - Unreferred(f)]

\* The picture that a cancel is about.
Target == \E p \in PicsAt(req.user, req.url) : p.file = req.file

Identified == \E i \in InfoOf(req.file) : i.id = req.id

AtPictures ==
  /\ req.at = "pic_insert" => Owns(req.user, req.file)
  /\ req.at \in {"pic_refs", "pic_update"} => PicsOf(req.file) # {}
  /\ req.at \in {"pic_update", "pcan_row"} => Counted(req.n) /\ req.n \in Nat
  /\ req.at = "pcan_file" => PicsAt(req.user, req.url) # {}
  /\ req.at \in {"pcan_refs", "pcan_update", "pcan_row"} => Target
  /\ req.at = "pcan_update" => Counted(req.n + 1) /\ req.n \in Nat
  /\ req.at \in {"pcan_update", "pcan_row", "pcan_info"} => Identified
  /\ req.at = "pcan_info" => RowsOf(req.file) = {} /\ PicsOf(req.file) = {}
  /\ req.at = "pcan_dfs" => \A i \in info : i.id # req.id

PicsFloored ==
  /\ \A u \in Users : picCount[u] >= 0 \/ (req.at = "pcan_floor" /\ req.user = u)
  /\ \A u \in Users : picLogins[u] >= -1

\* What the handlers of files need and keep.
FilesSound ==
  /\ StoresTyped /\ RestTyped /\ (ReqTyped \/ PicRequest)
  /\ forgotten = {} /\ Global /\ Local
  /\ Singles /\ Exact(Pictured) /\ Pinned(Pictured) /\ Reading

PicsSound == PicsTyped /\ Urls /\ PicKnown /\ AtPictures /\ PicsFloored

PicInv ==
  /\ faults \in Nat /\ crashes \in Nat
  /\ NoTrouble => FilesSound /\ PicsSound

------------------------------------------------------------------------------
\* Where a request about pictures is, or none.
Apart == ShareSteps \union CancelSteps \union {"idle"}

LEMMA ApartKinds ==
  /\ Apart \cap Steps = {} /\ ShareSteps \cap CancelSteps = {} /\ "idle" \notin ShareSteps
  /\ "idle" \notin CancelSteps
  BY DEF Apart, ShareSteps, CancelSteps, Steps

\* The handlers of files say nothing about it.
LEMMA ApartSays ==
  ASSUME req.at \in Apart
  PROVE  Local /\ Reading /\ (\A f : Extra(f) = 0) /\ req.at \notin {"del_id", "del_info"}
  BY DEF Apart, ShareSteps, CancelSteps, Local, Deleting, Reading, Without, Extra, Ahead

LEMMA ApartSaysNext ==
  ASSUME req'.at \in Apart
  PROVE  Local' /\ Reading' /\ (\A f : Extra(f)' = 0) /\ req'.at \notin {"del_id", "del_info"}
  BY DEF Apart, ShareSteps, CancelSteps, Local, Deleting, Reading, Without, Extra, Ahead

\* How a request about pictures goes on.
ShareRequests ==
  [at : ShareSteps, user : Users, file : Files \union {NoFile}, n : Int,
   id : Ids \union {0}, both : BOOLEAN]
CancelRequests ==
  [at : CancelSteps, user : Users, file : Files \union {NoFile}, n : Int,
   id : Ids \union {0}, both : BOOLEAN, url : Int]

LEMMA Sharing ==
  ASSUME ReqTyped \/ PicRequest, req.at \in ShareSteps
  PROVE  req \in ShareRequests
<1>1. ~ReqTyped
  BY ApartKinds DEF ReqTyped, Request0, NoReq, Apart
<1> QED
  BY <1>1, ApartKinds DEF PicRequest, ShareRequests

LEMMA Cancels ==
  ASSUME ReqTyped \/ PicRequest, req.at \in CancelSteps
  PROVE  req \in CancelRequests
<1>1. ~ReqTyped
  BY ApartKinds DEF ReqTyped, Request0, NoReq, Apart
<1> QED
  BY <1>1, ApartKinds DEF PicRequest, CancelRequests

LEMMA SharingMoved ==
  ASSUME req \in ShareRequests, NEW step \in ShareSteps, Go(step)
  PROVE  /\ PicRequest' /\ req'.at = step /\ req'.user = req.user /\ req'.file = req.file
         /\ req'.n = req.n
<1> HIDE DEF ShareSteps
<1> QED
  BY DEF ShareRequests, Go, PicRequest

LEMMA SharingRead ==
  ASSUME req \in ShareRequests, NEW step \in ShareSteps, NEW n \in Int,
         req' = [req EXCEPT !.at = step, !.n = n]
  PROVE  /\ PicRequest' /\ req'.at = step /\ req'.user = req.user /\ req'.file = req.file
         /\ req'.n = n
<1> QED
  BY DEF ShareRequests, PicRequest

LEMMA CancelsMoved ==
  ASSUME req \in CancelRequests, NEW step \in CancelSteps, Go(step)
  PROVE  /\ PicRequest' /\ req'.at = step /\ req'.user = req.user /\ req'.file = req.file
         /\ req'.n = req.n /\ req'.url = req.url /\ req'.id = req.id
  BY DEF CancelRequests, Go, PicRequest

LEMMA CancelsNamed ==
  ASSUME req \in CancelRequests, NEW step \in CancelSteps, NEW f \in Files,
         req' = [req EXCEPT !.at = step, !.file = f]
  PROVE  /\ PicRequest' /\ req'.at = step /\ req'.user = req.user /\ req'.file = f
         /\ req'.url = req.url
  BY DEF CancelRequests, PicRequest

LEMMA CancelsRead ==
  ASSUME req \in CancelRequests, NEW step \in CancelSteps, NEW n \in Int, NEW d \in Ids,
         req' = [req EXCEPT !.at = step, !.n = n, !.id = d]
  PROVE  /\ PicRequest' /\ req'.at = step /\ req'.user = req.user /\ req'.file = req.file
         /\ req'.url = req.url /\ req'.n = n /\ req'.id = d
  BY DEF CancelRequests, PicRequest

LEMMA AnsweredApart ==
  ASSUME Answer PROVE ReqTyped' /\ req'.at = "idle" /\ req'.at \in Apart
  BY Answered DEF Answer, NoReq, Apart

-----------------------------------------------------------------------------
\* Calls that fail and crashes are trouble.
LEMMA PicTroubled ==
  ASSUME faults \in Nat, crashes \in Nat, Fails \/ Crash
  PROVE  ~NoTrouble'
  BY DEF Fails, Crash, NoTrouble

LEMMA PicWorks ==
  ASSUME faults \in Nat, crashes \in Nat, NoTrouble', NEW ok, NEW bad, Do(ok, bad)
  PROVE  ok /\ UNCHANGED faults
  BY PicTroubled DEF Do

LEMMA Finite ==
  ASSUME PicsTyped, NEW f PROVE IsFiniteSet(PicsOf(f)) /\ Cardinality(PicsOf(f)) \in Nat
<1>1. PicsOf(f) \subseteq pics /\ IsFiniteSet(pics)
  BY DEF PicsOf, PicsTyped
<1>2. IsFiniteSet(PicsOf(f))
  BY <1>1, FS_Subset
<1> QED
  BY <1>2, FS_CardinalityType

LEMMA Some ==
  ASSUME PicsTyped, NEW f PROVE Cardinality(PicsOf(f)) = 0 <=> PicsOf(f) = {}
  BY Finite, FS_EmptySet

\* The references of pictures, as the handlers of files count them.
LEMMA Unheld ==
  ASSUME PicsTyped, AtPictures
  PROVE  /\ Pictured \in [Files -> Nat]
         /\ \A f \in Files : Pictured[f] # 0 => PicsOf(f) # {}
<1> SUFFICES ASSUME NEW f \in Files
             PROVE  /\ Cardinality(PicsOf(f)) - Unreferred(f) \in Nat
                    /\ Cardinality(PicsOf(f)) - Unreferred(f) # 0 => PicsOf(f) # {}
  BY DEF Pictured
<1>1. Cardinality(PicsOf(f)) \in Nat /\ (Cardinality(PicsOf(f)) = 0 <=> PicsOf(f) = {})
  BY Finite, Some
<1>2. Unreferred(f) = 0 \/ (Unreferred(f) = 1 /\ PicsOf(f) # {})
  BY DEF Unreferred, AtPictures, Target, PicsAt, PicsOf
<1> QED
  BY <1>1, <1>2

------------------------------------------------------------------------------
\* Where a request about files is, or none.
FileKinds == Steps \union {"idle"}

LEMMA FileKindsSay ==
  /\ ReqTyped => req.at \in FileKinds
  /\ ReqTyped' => req'.at \in FileKinds
  /\ FileKinds \cap (ShareSteps \union CancelSteps) = {}
<1>1. FileKinds \cap (ShareSteps \union CancelSteps) = {}
  BY DEF FileKinds, Steps, ShareSteps, CancelSteps
<1>2. ASSUME ReqTyped PROVE req.at \in FileKinds
  BY <1>2 DEF ReqTyped, Request0, NoReq, FileKinds
<1>3. ASSUME ReqTyped' PROVE req'.at \in FileKinds
  BY <1>3 DEF ReqTyped, Request0, NoReq, FileKinds
<1> QED
  BY <1>1, <1>2, <1>3

LEMMA FilesTyped ==
  ASSUME FilesSound, req.at \in FileKinds
  PROVE  TypeInv /\ OwnersInv
<1>1. ReqTyped
  BY FileKindsSay DEF FilesSound, PicRequest
<1> QED
  BY <1>1, Parts DEF FilesSound, OwnersInv

\* At a step of a file the references are the pictures.
LEMMA FilesPictures ==
  /\ req.at \in FileKinds => \A f : Unreferred(f) = 0
  /\ req'.at \in FileKinds => \A f : Unreferred(f)' = 0
  BY DEF FileKinds, Steps, Unreferred

LEMMA PicturedSame ==
  ASSUME UNCHANGED pics, \A f \in Files : Unreferred(f)' = Unreferred(f)
  PROVE  Pictured' = Pictured
  BY DEF Pictured, PicsOf

LEMMA AtPicturesFile ==
  ASSUME req'.at \in FileKinds PROVE AtPictures' /\ req'.at # "pcan_floor"
  BY DEF FileKinds, Steps, AtPictures

LEMMA FilesKept ==
  ASSUME FilesSound, PicsSound, req.at \in FileKinds, TypeInv', Global', Local',
         NEW refs, refs = Pictured, SoundNext(refs), UNCHANGED picVars, forgotten' = {}
  PROVE  FilesSound' /\ PicsSound'
<1>1. StoresTyped' /\ ReqTyped' /\ RestTyped'
  BY DEF TypeInv, TypeOK, StoresTyped, ReqTyped, RestTyped, Request0
<1>2. req'.at \in FileKinds
  BY <1>1, FileKindsSay
<1>3. Pictured' = refs
  BY <1>2, FilesPictures, PicturedSame DEF picVars
<1>4. Singles' /\ Exact(Pictured)' /\ Pinned(Pictured)' /\ Reading'
  BY <1>3 DEF SoundNext, Exact, Pinned
<1>5. FilesSound'
  BY <1>1, <1>4 DEF FilesSound
<1>6. PicsTyped' /\ Urls'
  BY DEF PicsSound, PicsTyped, Urls, picVars
<1>7. PicKnown'
  <2> SUFFICES ASSUME NEW p \in pics PROVE InfoOf(p.file)' # {}
    BY DEF PicKnown, picVars
  <2>1. p.file \in Files /\ p \in PicsOf(p.file)
    BY DEF PicsSound, PicsTyped, PicsOf
  <2>2. Cardinality(PicsOf(p.file)) # 0 /\ Cardinality(PicsOf(p.file)) \in Nat
    BY <2>1, Some, Finite DEF PicsSound
  <2>3. Pictured[p.file] = Cardinality(PicsOf(p.file)) - 0
    BY <2>1, FilesPictures DEF Pictured
  <2>4. refs[p.file] # 0
    BY <2>2, <2>3
  <2> QED
    BY <2>1, <2>4 DEF SoundNext, Pinned
<1>8. PicsFloored'
  BY FileKindsSay, <1>2 DEF PicsSound, PicsFloored, picVars, FileKinds, Steps
<1> QED
  BY <1>2, <1>5, <1>6, <1>7, <1>8, AtPicturesFile DEF PicsSound

-----------------------------------------------------------------------------
\* The handlers of files that change what a picture refers to.
LEMMA FileStepsKind ==
  ASSUME FileSteps PROVE req.at \in FileKinds
  BY DEF FileSteps, FileKinds, Steps, At,
     handleDealMd5, Md5Refs, Md5Own, Md5Update, Md5Insert, Md5Restore, CountUp,
     ApiUpload, UploadStore, UploadInfo, UploadList,
     handleDeleteFile, DeleteZset, DeleteStatus, DeleteShare, DeletePublic, DeleteRank,
     DeleteCount, DeleteList, DeleteRefs, DeleteUpdate, DeleteId, DeleteInfo,
     RemoveFileFromFastDfs, handleSaveFile, SaveOwn, SaveRefs, SaveUpdate, SaveInsert

LEMMA FileStepsTrouble ==
  ASSUME FileSteps
  PROVE  /\ (UNCHANGED faults \/ Fails) /\ UNCHANGED crashes
         /\ UNCHANGED forgotten \/ Fails
  BY DEF FileSteps, Do, DecrPublic, FloorPublic, others,
     handleDealMd5, Md5Refs, Md5Own, Md5Update, Md5Insert, Md5Restore, CountUp,
     ApiUpload, UploadStore, UploadInfo, UploadList,
     handleDeleteFile, DeleteZset, DeleteStatus, DeleteShare, DeletePublic, DeleteRank,
     DeleteCount, DeleteList, DeleteRefs, DeleteUpdate, DeleteId, DeleteInfo,
     RemoveFileFromFastDfs, handleSaveFile, SaveOwn, SaveRefs, SaveUpdate, SaveInsert

LEMMA FilesStep ==
  ASSUME NoTrouble, NoTrouble', FilesSound, PicsSound, FileSteps
  PROVE  FilesSound' /\ PicsSound'
<1>1. req.at \in FileKinds /\ TypeInv /\ OwnersInv
  BY FileStepsKind, FilesTyped
<1>2. TypeInv'
  BY <1>1, Handlers_Type DEF FileSteps
<1>3. Global' /\ Local'
  BY <1>1, Md5_Owners, Upload_Owners, Delete_Owners, Save_Owners DEF FileSteps
<1>4. PICK refs : refs = Pictured
  OBVIOUS
<1>5. SoundCounts(refs)
  BY <1>1, <1>4 DEF SoundCounts, FilesSound
<1>6. SoundNext(refs)
  BY <1>5, Md5Exact, SaveExact, UploadExact, DeleteExact DEF FileSteps
<1>7. forgotten' = {}
  <2>1. ~Fails
    BY <1>1, Troubled
  <2> QED
    BY <2>1, FileStepsTrouble DEF FilesSound
<1> QED
  BY <1>1, <1>2, <1>3, <1>4, <1>6, <1>7, FilesKept DEF FileSteps

\* A request about a file.
LEMMA FilesAccept ==
  ASSUME UploadOnce, OwnOnly, NoTrouble, NoTrouble', FilesSound, PicsSound,
         NEW u \in Users, NEW f \in Files, Accept(u, f), UNCHANGED picVars
  PROVE  FilesSound' /\ PicsSound'
<1>1. req.at \in FileKinds
  BY DEF Accept, Request, At, FileKinds
<1>2. TypeInv /\ OwnersInv
  BY <1>1, FilesTyped
<1>3. TypeInv'
  BY <1>2, Others_Type
<1>4. Global' /\ Local'
  BY <1>2, Others_Owners
<1>5. PICK refs : refs = Pictured
  OBVIOUS
<1>6. SoundCounts(refs)
  BY <1>2, <1>5 DEF SoundCounts, FilesSound
<1>7. SoundNext(refs)
  BY <1>6, OthersExact
<1>8. forgotten' = {}
  BY DEF Accept, FilesSound
<1> QED
  BY <1>1, <1>3, <1>4, <1>5, <1>7, <1>8, FilesKept

------------------------------------------------------------------------------
\* A step of a request about pictures that leaves the stores of files alone.
LEMMA ApartStep ==
  ASSUME FilesSound, req.at \in Apart, req'.at \in Apart, ReqTyped' \/ PicRequest',
         UNCHANGED <<tables, stored, redis, others, faults, pics>>,
         \A f \in Files : Unreferred(f)' = Unreferred(f)
  PROVE  FilesSound'
<1>1. PICK refs : refs = Pictured
  OBVIOUS
<1>2. Pictured' = refs
  BY <1>1, PicturedSame
<1>3. StoresTyped' /\ RestTyped' /\ Global' /\ forgotten' = {}
  BY StoresSame, RestSame, GlobalSame DEF FilesSound, tables, others
<1>4. Local' /\ Reading' /\ \A f : Extra(f)' = Extra(f)
  BY ApartSays, ApartSaysNext
<1>5. Exact(refs)' /\ Singles'
  BY <1>1, <1>4 DEF FilesSound, Exact, Singles, OwnersOf, RowsOf, tables
<1>6. Pinned(refs)'
  BY <1>1, PinnedSame, ApartSaysNext DEF FilesSound, InfoOf, tables
<1>7. Exact(Pictured)' /\ Pinned(Pictured)'
  BY <1>2, <1>5, <1>6 DEF Exact, Pinned
<1> QED
  BY <1>3, <1>4, <1>5, <1>7 DEF FilesSound

\* Steps that move neither a picture nor a reference.
Unmoving == {"pic_insert", "pic_count", "pics", "pics_load", "pcan_own", "pcan_file",
             "pcan_refs", "pcan_info", "pcan_dfs", "pcan_count", "pcan_floor", "pcan_update",
             "idle"}

LEMMA UnmovingRefers ==
  /\ req.at \in Unmoving => \A f : Unreferred(f) = 0
  /\ req'.at \in Unmoving => \A f : Unreferred(f)' = 0
  /\ Unmoving \subseteq Apart
  BY DEF Unmoving, Unreferred, Apart, ShareSteps, CancelSteps

LEMMA UnmovingStep ==
  ASSUME FilesSound, req.at \in Unmoving, req'.at \in Unmoving, ReqTyped' \/ PicRequest',
         UNCHANGED <<tables, stored, redis, others, faults, pics>>
  PROVE  FilesSound'
  BY ApartStep, UnmovingRefers

\* Pictures whose table nobody changes.
LEMMA PicsSame ==
  ASSUME PicsTyped, Urls, PicKnown, UNCHANGED <<info, pics, drawn>>,
         picCount' \in [Users -> Int], UNCHANGED picLogins
  PROVE  PicsTyped' /\ Urls' /\ PicKnown'
  BY DEF PicsTyped, Urls, PicKnown, InfoOf

LEMMA FlooredSame ==
  ASSUME PicsFloored, UNCHANGED <<picCount, picLogins>>, req.at # "pcan_floor"
  PROVE  PicsFloored'
  BY DEF PicsFloored

\* Where nothing is said of the pictures.
LEMMA AtPicturesFree ==
  ASSUME req'.at \in {"idle", "pic_count", "pics", "pics_load", "pcan_own", "pcan_count",
                      "pcan_floor"}
  PROVE  AtPictures'
  BY DEF AtPictures

-----------------------------------------------------------------------------
(* A share *)

LEMMA InsertPicture ==
  ASSUME NoTrouble, NoTrouble', FilesSound, PicsSound, PicInsert
  PROVE  FilesSound' /\ PicsSound'
<1>0. faults \in Nat /\ crashes \in Nat
  BY DEF FilesSound, RestTyped
<1>1. req.at = "pic_insert" /\ drawn' = drawn + 1 /\ req \in ShareRequests
  BY Sharing DEF PicInsert, At, ShareSteps, FilesSound
<1>2. /\ \E k \in Fresh(PicsAt(req.user, drawn + 1)) :
             pics' = pics \union
               {[user |-> req.user, file |-> req.file, url |-> drawn + 1, copy |-> k]}
      /\ Go("pic_refs") /\ UNCHANGED faults
  BY <1>0, PicWorks DEF PicInsert
<1>3. PICK u, f : u = req.user /\ f = req.file
  OBVIOUS
<1>4. Owns(u, f)
  BY <1>1, <1>3 DEF PicsSound, AtPictures
<1>5. u \in Users /\ f \in Files /\ InfoOf(f) # {}
  BY <1>4 DEF FilesSound, StoresTyped, Global, Known, Owns, Rows
<1>6. PICK k \in Copies :
        pics' = pics \union {[user |-> u, file |-> f, url |-> drawn + 1, copy |-> k]}
  BY <1>2, <1>3 DEF Fresh
<1>7. PICK p : p = [user |-> u, file |-> f, url |-> drawn + 1, copy |-> k]
  OBVIOUS
<1>8. /\ pics' = pics \union {p} /\ p.file = f /\ p.url = drawn + 1 /\ drawn \in Nat
      /\ p \in [user : Users, file : Files, url : Int, copy : Copies]
  BY <1>5, <1>6, <1>7 DEF PicsSound, PicsTyped
<1>9. /\ PicRequest' /\ req'.at = "pic_refs" /\ req'.file = f
  BY <1>1, <1>2, <1>3, SharingMoved DEF ShareSteps
<1>10. \A q \in pics : q.url \in Int /\ q.url <= drawn
  BY DEF PicsSound, Urls, PicsTyped
<1>11. p \notin pics
  BY <1>8, <1>10
<1>12. PicsTyped'
  BY <1>1, <1>8, FS_AddElement DEF PicsSound, PicsTyped, PicInsert
<1>13. Urls'
  BY <1>1, <1>8, <1>10 DEF PicsSound, Urls
<1>14. PicKnown'
  BY <1>5, <1>8 DEF PicsSound, PicKnown, InfoOf, PicInsert
<1>15. PicsOf(f)' = PicsOf(f) \union {p} /\ p \notin PicsOf(f)
  BY <1>8, <1>11 DEF PicsOf
<1>16. Cardinality(PicsOf(f)') = Cardinality(PicsOf(f)) + 1
  BY <1>15, Finite, FS_AddElement DEF PicsSound
<1>17. \A g \in Files : g # f => PicsOf(g)' = PicsOf(g)
  BY <1>8 DEF PicsOf
<1>18. AtPictures'
  BY <1>9, <1>15 DEF AtPictures
<1>19. PicsSound'
  BY <1>1, <1>12, <1>13, <1>14, <1>18, FlooredSame DEF PicsSound, PicInsert
<1>20. PICK refs : refs = Pictured
  OBVIOUS
<1>21. Pictured' = refs
  <2>1. /\ \A g : Unreferred(g) = 0 /\ (g # f => Unreferred(g)' = 0)
        /\ Unreferred(f)' = 1
    BY <1>1, <1>9 DEF Unreferred
  <2>2. Cardinality(PicsOf(f)) \in Nat
    BY Finite DEF PicsSound
  <2>3. ASSUME NEW g \in Files
        PROVE  (Cardinality(PicsOf(g)) - Unreferred(g))' = Cardinality(PicsOf(g)) - Unreferred(g)
    <3>1. CASE g = f
      BY <1>16, <2>1, <2>2, <3>1
    <3>2. CASE g # f
      BY <1>17, <2>1, <3>2
    <3> QED
      BY <3>1, <3>2
  <2> QED
    BY <1>20, <2>3 DEF Pictured
<1>22. FilesSound'
  <2>1. UNCHANGED <<list, info, shares, redis, logins, forgotten, crashes, stored, faults>>
    BY <1>2 DEF PicInsert, kept
  <2>2. StoresTyped' /\ RestTyped' /\ Global' /\ forgotten' = {}
    BY <2>1, StoresSame, RestSame, GlobalSame DEF FilesSound, tables, others
  <2>3. Local' /\ Reading' /\ \A g : Extra(g)' = Extra(g)
    BY <1>1, <1>9, ApartSays, ApartSaysNext DEF Apart, ShareSteps
  <2>4. Exact(refs)' /\ Singles'
    BY <1>20, <2>1, <2>3 DEF FilesSound, Exact, Singles, OwnersOf, RowsOf
  <2>5. Pinned(refs)'
    BY <1>9, <1>20, <2>1, PinnedSame DEF FilesSound, InfoOf
  <2>6. Exact(Pictured)' /\ Pinned(Pictured)'
    BY <1>21, <2>4, <2>5 DEF Exact, Pinned
  <2> QED
    BY <1>9, <2>2, <2>3, <2>4, <2>6 DEF FilesSound
<1> QED
  BY <1>19, <1>22

------------------------------------------------------------------------------
\* A count that is written to file_info is the number of the references that
\* the step leaves.
LEMMA CountWritten ==
  ASSUME FilesSound, PicsSound, req.at \in Apart, req'.at \in Apart, PicRequest',
         NEW f \in Files, NEW n \in Nat, SetCounts(f, n), InfoOf(f) # {},
         UNCHANGED <<list, shares, stored, redis, others, faults, pics>>,
         NEW refs, Pictured' = refs, refs \in [Files -> Nat], OwnersOf(f) + refs[f] = n,
         \A g \in Files : g # f => refs[g] = Pictured[g]
  PROVE  /\ FilesSound' /\ PicKnown'
         /\ \A j \in info' : j.file = f => j.count = n
         /\ InfoOf(f)' # {}
         /\ \A i \in info : \E j \in info' : j.file = i.file /\ j.id = i.id
<1> StoresTyped /\ Global
  BY DEF FilesSound
<1>1. OwnersOf(f) \in Nat /\ OwnersOf(f) <= n
  BY OwnersFinite
<1>2. /\ \A j \in info' : j.file = f => j.count = n
      /\ \A j \in info' : j.file # f => j \in info
      /\ \A g : InfoOf(g) # {} => InfoOf(g)' # {}
      /\ \A i \in info : \E j \in info' : j.file = i.file /\ j.id = i.id
  BY RecountedRows
<1>3. Global' /\ forgotten' = {}
  BY <1>1, RecountedStores DEF FilesSound, others
<1>4. StoresTyped'
  BY CountedTyped DEF StoresTyped, redis
<1>5. RestTyped'
  BY RestSame DEF FilesSound
<1>6. Local' /\ Reading' /\ \A g : Extra(g)' = 0 /\ Extra(g) = 0
  BY ApartSays, ApartSaysNext
<1>7. Singles' /\ \A g : OwnersOf(g)' = OwnersOf(g)
  BY DEF FilesSound, Singles, OwnersOf, RowsOf
<1>8. Exact(refs)'
  <2> SUFFICES ASSUME NEW j \in info' PROVE OwnersOf(j.file)' + 0 + refs[j.file] = j.count
    BY <1>6 DEF Exact
  <2>1. CASE j.file = f
    BY <1>1, <1>2, <1>7, <2>1
  <2>2. CASE j.file # f
    <3>1. j \in info /\ j.file \in Files
      BY <1>2, <2>2 DEF StoresTyped
    <3>2. OwnersOf(j.file) + Extra(j.file) + Pictured[j.file] = j.count
      BY <3>1 DEF FilesSound, Exact
    <3>3. refs[j.file] = Pictured[j.file] /\ Extra(j.file) = 0
      BY <1>6, <2>2, <3>1
    <3> QED
      BY <1>7, <3>2, <3>3
  <2> QED
    BY <2>1, <2>2
<1>9. \A g \in Files : InfoOf(g) # {} => InfoOf(g)' # {}
  BY <1>2
<1>10. \A g \in Files : refs[g] # 0 => InfoOf(g)' # {}
  <2> SUFFICES ASSUME NEW g \in Files, refs[g] # 0 PROVE InfoOf(g)' # {}
    OBVIOUS
  <2>1. CASE g = f
    BY <1>9, <2>1
  <2>2. CASE g # f
    BY <1>9, <2>2 DEF FilesSound, Pinned
  <2> QED
    BY <2>1, <2>2
<1>11. Pinned(refs)'
  BY <1>10, ApartSaysNext DEF Pinned
<1>12. Exact(Pictured)' /\ Pinned(Pictured)'
  BY <1>8, <1>11 DEF Exact, Pinned
<1>13. PicKnown'
  BY <1>2 DEF PicsSound, PicKnown
<1> QED
  BY <1>2, <1>3, <1>4, <1>5, <1>6, <1>7, <1>12, <1>13 DEF FilesSound

\* What the count of the file of a request is, at its steps of pictures.
LEMMA CountIs ==
  ASSUME FilesSound, PicsSound, req.at \in Apart, NEW i \in info
  PROVE  /\ i.file \in Files /\ i.count \in Nat /\ i.id \in Ids
         /\ OwnersOf(i.file) \in Nat /\ Pictured[i.file] \in Nat
         /\ OwnersOf(i.file) + Pictured[i.file] = i.count
<1>1. i.file \in Files /\ i.count \in Nat /\ i.id \in Ids
  BY DEF FilesSound, StoresTyped
<1>2. OwnersOf(i.file) \in Nat /\ Pictured[i.file] \in Nat
  BY <1>1, OwnersFinite DEF FilesSound, Pinned
<1>3. Extra(i.file) = 0
  BY ApartSays
<1>4. OwnersOf(i.file) + 0 + Pictured[i.file] = i.count
  BY <1>3 DEF FilesSound, Exact
<1> QED
  BY <1>1, <1>2, <1>4

LEMMA OneCount ==
  ASSUME FilesSound, NEW f, NEW i \in InfoOf(f) PROVE \A j \in InfoOf(f) : j = i
  BY DEF FilesSound, Global, OneInfo, InfoOf

-----------------------------------------------------------------------------
LEMMA CountPicture ==
  ASSUME NoTrouble, NoTrouble', FilesSound, PicsSound, PicRefs \/ PicUpdate
  PROVE  FilesSound' /\ PicsSound'
<1>0. faults \in Nat /\ crashes \in Nat
  BY DEF FilesSound, RestTyped
<1>1. PICK f : f = req.file
  OBVIOUS
<1>2. PicsOf(f) # {} /\ InfoOf(f) # {} /\ f \in Files /\ req \in ShareRequests
  <2>1. req.at \in {"pic_refs", "pic_update"}
    BY DEF PicRefs, PicUpdate, At
  <2>2. PicsOf(f) # {}
    BY <1>1, <2>1 DEF PicsSound, AtPictures
  <2>3. InfoOf(f) # {}
    BY <2>2 DEF PicsSound, PicKnown, PicsOf
  <2>4. f \in Files
    BY <2>2 DEF PicsSound, PicsTyped, PicsOf
  <2> QED
    BY <2>1, <2>2, <2>3, <2>4, Sharing DEF FilesSound, ShareSteps
<1>3. CASE PicRefs
  <2>1. req.at = "pic_refs" /\ UNCHANGED <<list, shares, redis, logins, forgotten, crashes, info, stored, picVars, faults>>
    BY <1>3 DEF PicRefs, At, kept
  <2>2. PICK i \in InfoOf(f) : req' = [req EXCEPT !.at = "pic_update", !.n = i.count]
    BY <1>1, <1>2, <1>3 DEF PicRefs
  <2>3. i.count \in Nat /\ i \in info /\ i.file = f
    BY <2>2 DEF FilesSound, StoresTyped, InfoOf
  <2>4. PicRequest' /\ req'.at = "pic_update" /\ req'.file = f /\ req'.n = i.count
    <3>1. PICK n \in Int : n = i.count
      BY <2>3
    <3>2. req' = [req EXCEPT !.at = "pic_update", !.n = n] /\ "pic_update" \in ShareSteps
      BY <2>2, <3>1 DEF ShareSteps
    <3>3. PicRequest' /\ req'.at = "pic_update" /\ req'.file = req.file /\ req'.n = n
      BY <1>2, <3>2, SharingRead
    <3> QED
      BY <1>1, <3>1, <3>3
  <2>5. Counted(req.n)'
    BY <2>1, <2>2, <2>3, <2>4, OneCount DEF Counted, InfoOf
  <2>6. AtPictures'
    BY <1>2, <2>1, <2>3, <2>4, <2>5 DEF AtPictures, PicsOf, picVars
  <2>7. \A g \in Files : Unreferred(g)' = Unreferred(g)
    BY <1>1, <2>1, <2>4 DEF Unreferred
  <2>8. FilesSound'
    BY <2>1, <2>4, <2>7, ApartStep DEF Apart, ShareSteps, tables, others, picVars
  <2> QED
    BY <2>1, <2>6, <2>8, PicsSame, FlooredSame DEF PicsSound, picVars, PicsTyped
<1>4. CASE PicUpdate
  <2>1. req.at = "pic_update" /\ UNCHANGED <<list, shares, redis, logins, forgotten, crashes, stored, picVars>>
    BY <1>4 DEF PicUpdate, At, kept
  <2>2. SetCounts(f, req.n + 1) /\ Go("pic_count") /\ UNCHANGED faults
    BY <1>0, <1>1, <1>4, PicWorks DEF PicUpdate
  <2>3. req.n \in Nat /\ Counted(req.n)
    BY <2>1 DEF PicsSound, AtPictures
  <2>4. PicRequest' /\ req'.at = "pic_count"
    BY <1>2, <2>2, SharingMoved DEF ShareSteps
  <2>5. PICK i \in info : i.file = f /\ i.count = req.n
    BY <1>1, <2>3 DEF Counted, InfoOf
  <2>6. OwnersOf(f) \in Nat /\ Pictured[f] \in Nat /\ OwnersOf(f) + Pictured[f] = req.n
    BY <2>1, <2>5, CountIs DEF Apart, ShareSteps
  <2>7. PICK refs : refs = Pictured'
    OBVIOUS
  <2>8. refs = [g \in Files |-> Cardinality(PicsOf(g)) - Unreferred(g)']
    BY <2>1, <2>7 DEF Pictured, PicsOf, picVars
  <2>9. /\ \A g : Unreferred(g)' = 0 /\ (g # f => Unreferred(g) = 0)
        /\ Unreferred(f) = 1
    BY <1>1, <2>1, <2>4 DEF Unreferred
  <2>10. \A g \in Files : Cardinality(PicsOf(g)) \in Nat
    BY Finite DEF PicsSound
  <2>11. refs \in [Files -> Nat] /\ \A g \in Files : g # f => refs[g] = Pictured[g]
    BY <2>8, <2>9, <2>10 DEF Pictured
  <2>12. OwnersOf(f) + refs[f] = req.n + 1
    <3>1. refs[f] = Cardinality(PicsOf(f)) - 0 /\ Pictured[f] = Cardinality(PicsOf(f)) - 1
      BY <1>2, <2>8, <2>9 DEF Pictured
    <3> QED
      BY <1>2, <2>3, <2>6, <2>10, <3>1
  <2>13. req.n + 1 \in Nat /\ req.at \in Apart /\ req'.at \in Apart
    BY <2>1, <2>3, <2>4 DEF Apart, ShareSteps
  <2>14. UNCHANGED <<list, shares, stored, redis, others, faults, pics>>
    BY <2>1, <2>2 DEF others, picVars
  <2>15. FilesSound' /\ PicKnown'
    BY <1>2, <2>2, <2>4, <2>7, <2>11, <2>12, <2>13, <2>14, CountWritten
  <2>16. PicsTyped' /\ Urls' /\ PicsFloored'
    BY <2>1, FlooredSame DEF PicsSound, PicsTyped, Urls, picVars
  <2> QED
    BY <2>4, <2>15, <2>16, AtPicturesFree DEF PicsSound
<1> QED
  BY <1>3, <1>4

------------------------------------------------------------------------------
(* A cancel: the picture is found *)

\* A url names one picture.
LEMMA TargetIs ==
  ASSUME PicsSound, Target
  PROVE  \E p \in PicsOf(req.file) : PicsAt(req.user, req.url) = {p}
<1>1. PICK p \in PicsAt(req.user, req.url) : p.file = req.file
  BY DEF Target
<1>2. p \in PicsOf(req.file) /\ p \in pics /\ p.url = req.url
  BY <1>1 DEF PicsAt, PicsOf
<1>3. \A q \in PicsAt(req.user, req.url) : q = p
  BY <1>2 DEF PicsAt, PicsSound, Urls
<1> QED
  BY <1>1, <1>2, <1>3

LEMMA TargetFile ==
  ASSUME FilesSound, PicsSound, Target
  PROVE  req.file \in Files /\ PicsOf(req.file) # {} /\ InfoOf(req.file) # {}
<1>1. PICK p \in pics : p.file = req.file
  BY DEF Target, PicsAt
<1> QED
  BY <1>1 DEF PicsOf, PicsSound, PicKnown, PicsTyped

LEMMA FindPicture ==
  ASSUME NoTrouble, NoTrouble', FilesSound, PicsSound, CancelOwn \/ CancelFile
  PROVE  FilesSound' /\ PicsSound'
<1>0. faults \in Nat /\ crashes \in Nat
  BY DEF FilesSound, RestTyped
<1>1. /\ req.at \in {"pcan_own", "pcan_file"} /\ req \in CancelRequests
      /\ UNCHANGED <<list, shares, redis, logins, forgotten, crashes, info, stored, picVars>>
  BY Cancels DEF CancelOwn, CancelFile, At, CancelSteps, FilesSound, kept
<1>2. /\ req'.at \in Unmoving /\ (ReqTyped' \/ PicRequest') /\ UNCHANGED faults
      /\ AtPictures'
  <2>1. CASE CancelOwn
    <3>1. /\ UNCHANGED faults
          /\ IF PicsAt(req.user, req.url) = {} THEN Answer ELSE Go("pcan_file")
      BY <1>0, <2>1, PicWorks DEF CancelOwn
    <3>2. CASE Answer
      BY <3>1, <3>2, AnsweredApart, AtPicturesFree DEF Unmoving
    <3>3. CASE PicsAt(req.user, req.url) # {} /\ Go("pcan_file")
      <4>1. /\ PicRequest' /\ req'.at = "pcan_file" /\ req'.user = req.user
            /\ req'.url = req.url
        BY <1>1, <3>3, CancelsMoved DEF CancelSteps
      <4>2. PicsAt(req.user, req.url)' # {}
        BY <1>1, <3>3, <4>1 DEF PicsAt, picVars
      <4> QED
        BY <3>1, <4>1, <4>2 DEF AtPictures, Unmoving
    <3> QED
      BY <3>1, <3>2, <3>3
  <2>2. CASE CancelFile
    <3>1. /\ req.at = "pcan_file" /\ UNCHANGED faults
          /\ \E p \in {q \in pics : q.url = req.url} :
               req' = [req EXCEPT !.at = "pcan_refs", !.file = p.file]
      BY <1>0, <2>2, PicWorks DEF CancelFile, At
    <3>2. PICK p \in pics : /\ p.url = req.url
                            /\ req' = [req EXCEPT !.at = "pcan_refs", !.file = p.file]
      BY <3>1
    <3>3. PICK f \in Files : f = p.file
      BY DEF PicsSound, PicsTyped
    <3>4. PICK q \in PicsAt(req.user, req.url) : TRUE
      BY <3>1 DEF PicsSound, AtPictures
    <3>5. q = p
      BY <3>2, <3>4 DEF PicsAt, PicsSound, Urls
    <3>6. req' = [req EXCEPT !.at = "pcan_refs", !.file = f] /\ "pcan_refs" \in CancelSteps
      BY <3>2, <3>3 DEF CancelSteps
    <3>7. /\ PicRequest' /\ req'.at = "pcan_refs" /\ req'.user = req.user /\ req'.file = f
          /\ req'.url = req.url
      BY <1>1, <3>6, CancelsNamed
    <3>8. Target'
      BY <1>1, <3>3, <3>4, <3>5, <3>7 DEF Target, PicsAt, picVars
    <3> QED
      BY <3>1, <3>7, <3>8 DEF AtPictures, Unmoving
  <2> QED
    BY <2>1, <2>2 DEF CancelOwn, CancelFile
<1>3. FilesSound'
  BY <1>1, <1>2, UnmovingStep DEF Unmoving, tables, others, picVars
<1>4. PicsTyped' /\ Urls' /\ PicKnown' /\ PicsFloored'
  BY <1>1, PicsSame, FlooredSame DEF PicsSound, picVars, PicsTyped
<1> QED
  BY <1>2, <1>3, <1>4 DEF PicsSound

-----------------------------------------------------------------------------
(* His reference is counted out *)

LEMMA CancelCounted ==
  ASSUME NoTrouble, NoTrouble', FilesSound, PicsSound, CancelRefs
  PROVE  FilesSound' /\ PicsSound'
<1>0. faults \in Nat /\ crashes \in Nat
  BY DEF FilesSound, RestTyped
<1>1. /\ req.at = "pcan_refs" /\ req \in CancelRequests /\ Target
      /\ UNCHANGED <<list, shares, redis, logins, forgotten, crashes, info, stored, picVars>>
  BY Cancels DEF CancelRefs, At, CancelSteps, FilesSound, kept, PicsSound, AtPictures
<1>2. PICK f : f = req.file
  OBVIOUS
<1>3. f \in Files /\ PicsOf(f) # {} /\ InfoOf(f) # {}
  BY <1>1, <1>2, TargetFile
<1>4. UNCHANGED faults /\ \E i \in InfoOf(f) :
        req' = [req EXCEPT !.at = IF i.count > 0 THEN "pcan_update" ELSE "pcan_row",
                           !.n = IF i.count > 0 THEN i.count - 1 ELSE i.count,
                           !.id = i.id]
  BY <1>0, <1>2, <1>3, PicWorks DEF CancelRefs
<1>5. PICK i \in InfoOf(f) :
        req' = [req EXCEPT !.at = IF i.count > 0 THEN "pcan_update" ELSE "pcan_row",
                           !.n = IF i.count > 0 THEN i.count - 1 ELSE i.count,
                           !.id = i.id]
  BY <1>4
<1>6. i \in info /\ i.file = f
  BY DEF InfoOf
<1>7. i.count \in Nat /\ i.id \in Ids /\ i.count > 0
  <2>1. /\ i.count \in Nat /\ i.id \in Ids /\ OwnersOf(f) \in Nat /\ Pictured[f] \in Nat
        /\ OwnersOf(f) + Pictured[f] = i.count
    BY <1>1, <1>6, CountIs DEF Apart, CancelSteps
  <2>2. Cardinality(PicsOf(f)) \in Nat /\ Cardinality(PicsOf(f)) # 0
    BY <1>3, Finite, Some DEF PicsSound
  <2>3. Unreferred(f) = 0
    BY <1>1 DEF Unreferred
  <2>4. Pictured[f] = Cardinality(PicsOf(f)) - 0
    BY <1>3, <2>3 DEF Pictured
  <2> QED
    BY <2>1, <2>2, <2>4
<1>8. PICK n \in Nat : n = i.count - 1
  BY <1>7
<1>9. PICK d \in Ids : d = i.id
  BY <1>7
<1>10. req' = [req EXCEPT !.at = "pcan_update", !.n = n, !.id = d]
  BY <1>5, <1>7, <1>8, <1>9
<1>11. n \in Int /\ "pcan_update" \in CancelSteps
  BY DEF CancelSteps
<1>12. /\ PicRequest' /\ req'.at = "pcan_update" /\ req'.user = req.user /\ req'.file = f
       /\ req'.url = req.url /\ req'.n = n /\ req'.id = d
  BY <1>1, <1>2, <1>10, <1>11, CancelsRead
<1>13. Counted(req.n + 1)'
  <2>1. n + 1 = i.count
    BY <1>7, <1>8
  <2> QED
    BY <1>1, <1>5, <1>12, <2>1, OneCount DEF Counted, InfoOf
<1>14. Target' /\ Identified'
  BY <1>1, <1>2, <1>5, <1>9, <1>12 DEF Target, Identified, PicsAt, InfoOf, picVars
<1>15. AtPictures'
  BY <1>12, <1>13, <1>14 DEF AtPictures
<1>16. FilesSound'
  BY <1>1, <1>4, <1>12, UnmovingStep DEF Unmoving, tables, others, picVars
<1>17. PicsTyped' /\ Urls' /\ PicKnown' /\ PicsFloored'
  BY <1>1, PicsSame, FlooredSame DEF PicsSound, picVars, PicsTyped
<1> QED
  BY <1>15, <1>16, <1>17 DEF PicsSound

LEMMA CancelWritten ==
  ASSUME NoTrouble, NoTrouble', FilesSound, PicsSound, CancelUpdate
  PROVE  FilesSound' /\ PicsSound'
<1>0. faults \in Nat /\ crashes \in Nat
  BY DEF FilesSound, RestTyped
<1>1. /\ req.at = "pcan_update" /\ req \in CancelRequests /\ Target /\ Identified
      /\ req.n \in Nat /\ Counted(req.n + 1)
      /\ UNCHANGED <<list, shares, redis, logins, forgotten, crashes, stored, picVars>>
  BY Cancels DEF CancelUpdate, At, CancelSteps, FilesSound, kept, PicsSound, AtPictures
<1>2. PICK f : f = req.file
  OBVIOUS
<1>3. f \in Files /\ PicsOf(f) # {} /\ InfoOf(f) # {}
  BY <1>1, <1>2, TargetFile
<1>4. SetCounts(f, req.n) /\ Go("pcan_row") /\ UNCHANGED faults
  BY <1>0, <1>2, PicWorks DEF CancelUpdate
<1>5. /\ PicRequest' /\ req'.at = "pcan_row" /\ req'.user = req.user /\ req'.file = f
      /\ req'.n = req.n /\ req'.url = req.url /\ req'.id = req.id
  BY <1>1, <1>2, <1>4, CancelsMoved DEF CancelSteps
<1>6. PICK i \in info : i.file = f /\ i.count = req.n + 1
  BY <1>1, <1>2 DEF Counted, InfoOf
<1>7. OwnersOf(f) \in Nat /\ Pictured[f] \in Nat /\ OwnersOf(f) + Pictured[f] = req.n + 1
  BY <1>1, <1>6, CountIs DEF Apart, CancelSteps
<1>8. PICK refs : refs = Pictured'
  OBVIOUS
<1>9. refs = [g \in Files |-> Cardinality(PicsOf(g)) - Unreferred(g)']
  BY <1>1, <1>8 DEF Pictured, PicsOf, picVars
<1>10. /\ \A g : Unreferred(g) = 0 /\ (g # f => Unreferred(g)' = 0)
       /\ Unreferred(f)' = 1
  BY <1>1, <1>5 DEF Unreferred
<1>11. \A g \in Files : Cardinality(PicsOf(g)) \in Nat
  BY Finite DEF PicsSound
<1>12. refs[f] = Cardinality(PicsOf(f)) - 1 /\ Pictured[f] = Cardinality(PicsOf(f)) - 0
  BY <1>3, <1>9, <1>10 DEF Pictured
<1>13. Cardinality(PicsOf(f)) # 0
  BY <1>3, Some DEF PicsSound
<1>14. refs[f] \in Nat /\ OwnersOf(f) + refs[f] = req.n
  BY <1>1, <1>3, <1>7, <1>11, <1>12, <1>13
<1>15. \A g \in Files : g # f => refs[g] = Pictured[g]
  BY <1>9, <1>10 DEF Pictured
<1>16. refs \in [Files -> Nat]
  <2>1. \A g \in Files : refs[g] \in Nat
    BY <1>14, <1>15 DEF FilesSound, Pinned
  <2> QED
    BY <1>9, <2>1
<1>17. req.at \in Apart /\ req'.at \in Apart
  BY <1>1, <1>5 DEF Apart, CancelSteps
<1>18. UNCHANGED <<list, shares, stored, redis, others, faults, pics>>
  BY <1>1, <1>4 DEF others, picVars
<1>19. /\ FilesSound' /\ PicKnown'
       /\ \A j \in info' : j.file = f => j.count = req.n
       /\ InfoOf(f)' # {}
       /\ \A k \in info : \E j \in info' : j.file = k.file /\ j.id = k.id
  BY <1>1, <1>3, <1>4, <1>5, <1>8, <1>14, <1>15, <1>16, <1>17, <1>18, CountWritten
<1>20. Counted(req.n)' /\ Identified'
  BY <1>1, <1>2, <1>5, <1>19 DEF Counted, Identified, InfoOf
<1>21. Target'
  BY <1>1, <1>2, <1>5 DEF Target, PicsAt, picVars
<1>22. AtPictures'
  BY <1>1, <1>5, <1>20, <1>21 DEF AtPictures
<1>23. PicsTyped' /\ Urls' /\ PicsFloored'
  BY <1>1, FlooredSame DEF PicsSound, PicsTyped, Urls, picVars
<1> QED
  BY <1>19, <1>22, <1>23 DEF PicsSound

------------------------------------------------------------------------------
(* The picture goes, and with the last reference the content *)

LEMMA CancelRemoved ==
  ASSUME NoTrouble, NoTrouble', FilesSound, PicsSound, CancelRow
  PROVE  FilesSound' /\ PicsSound'
<1>0. faults \in Nat /\ crashes \in Nat
  BY DEF FilesSound, RestTyped
<1>1. /\ req.at = "pcan_row" /\ req \in CancelRequests /\ Target /\ Identified
      /\ req.n \in Nat /\ Counted(req.n)
      /\ UNCHANGED <<list, shares, redis, logins, forgotten, crashes, info, stored, picCount,
                     picLogins, drawn>>
  BY Cancels DEF CancelRow, At, CancelSteps, FilesSound, kept, PicsSound, AtPictures
<1>2. PICK f : f = req.file
  OBVIOUS
<1>3. f \in Files /\ PicsOf(f) # {} /\ InfoOf(f) # {}
  BY <1>1, <1>2, TargetFile
<1>4. /\ pics' = pics \ PicsAt(req.user, req.url) /\ UNCHANGED faults
      /\ IF req.n = 0 THEN Go("pcan_info") ELSE Go("pcan_count")
  BY <1>0, PicWorks DEF CancelRow
<1>5. PICK step \in {"pcan_info", "pcan_count"} :
        Go(step) /\ (step = "pcan_info" => req.n = 0)
  BY <1>4
<1>6. /\ PicRequest' /\ req'.at = step /\ req'.file = f /\ req'.id = req.id
  <2>1. step \in CancelSteps
    BY DEF CancelSteps
  <2> QED
    BY <1>1, <1>2, <1>5, <2>1, CancelsMoved
<1>7. PICK p \in PicsOf(f) : PicsAt(req.user, req.url) = {p}
  BY <1>1, <1>2, TargetIs
<1>8. pics' = pics \ {p} /\ p \in pics /\ p.file = f
  BY <1>4, <1>7 DEF PicsOf
<1>9. PicsOf(f)' = PicsOf(f) \ {p} /\ \A g : g # f => PicsOf(g)' = PicsOf(g)
  BY <1>8 DEF PicsOf
<1>10. /\ Cardinality(PicsOf(f)') = Cardinality(PicsOf(f)) - 1
       /\ Cardinality(PicsOf(f)) \in Nat
       /\ IsFiniteSet(PicsOf(f)')
  BY <1>7, <1>9, Finite, FS_RemoveElement DEF PicsSound
<1>11. /\ \A g : Unreferred(g)' = 0 /\ (g # f => Unreferred(g) = 0)
       /\ Unreferred(f) = 1
  BY <1>1, <1>2, <1>6 DEF Unreferred
<1>12. PICK refs : refs = Pictured
  OBVIOUS
<1>13. Pictured' = refs
  <2>1. ASSUME NEW g \in Files
        PROVE  (Cardinality(PicsOf(g)) - Unreferred(g))' = Cardinality(PicsOf(g)) - Unreferred(g)
    <3>1. CASE g = f
      BY <1>10, <1>11, <3>1
    <3>2. CASE g # f
      BY <1>9, <1>11, <3>2
    <3> QED
      BY <3>1, <3>2
  <2> QED
    BY <1>12, <2>1 DEF Pictured
<1>14. FilesSound'
  <2>1. StoresTyped' /\ RestTyped' /\ Global' /\ forgotten' = {}
    BY <1>1, <1>4, StoresSame, RestSame, GlobalSame DEF FilesSound, tables, others
  <2>2. Local' /\ Reading' /\ \A g : Extra(g)' = Extra(g)
    BY <1>1, <1>6, ApartSays, ApartSaysNext DEF Apart, CancelSteps
  <2>3. Exact(refs)' /\ Singles'
    BY <1>1, <1>12, <2>2 DEF FilesSound, Exact, Singles, OwnersOf, RowsOf
  <2>4. Pinned(refs)'
    BY <1>1, <1>6, <1>12, PinnedSame DEF FilesSound, InfoOf
  <2>5. Exact(Pictured)' /\ Pinned(Pictured)'
    BY <1>13, <2>3, <2>4 DEF Exact, Pinned
  <2> QED
    BY <1>6, <2>1, <2>2, <2>3, <2>5 DEF FilesSound
<1>15. step = "pcan_info" => RowsOf(f) = {} /\ PicsOf(f)' = {}
  <2> SUFFICES ASSUME step = "pcan_info" PROVE RowsOf(f) = {} /\ PicsOf(f)' = {}
    OBVIOUS
  <2>1. PICK i \in info : i.file = f /\ i.count = 0
    BY <1>1, <1>2, <1>5 DEF Counted, InfoOf
  <2>2. OwnersOf(f) \in Nat /\ Pictured[f] \in Nat /\ OwnersOf(f) + Pictured[f] = 0
    BY <1>1, <2>1, CountIs DEF Apart, CancelSteps
  <2>3. Pictured[f] = Cardinality(PicsOf(f)) - 1
    BY <1>3, <1>11 DEF Pictured
  <2>4. OwnersOf(f) = 0 /\ Cardinality(PicsOf(f)') = 0
    BY <1>10, <2>2, <2>3
  <2>5. RowsOf(f) = {}
    BY <2>4, OwnersFinite, FS_EmptySet DEF OwnersOf, FilesSound
  <2>6. PicsOf(f)' = {}
    BY <1>10, <2>4, FS_EmptySet
  <2> QED
    BY <2>5, <2>6
<1>16. AtPictures'
  <2>1. CASE step = "pcan_count"
    BY <1>6, <2>1, AtPicturesFree
  <2>2. CASE step = "pcan_info"
    <3>1. Identified'
      BY <1>1, <1>2, <1>6 DEF Identified, InfoOf
    <3>2. RowsOf(req.file)' = {} /\ PicsOf(req.file)' = {}
      BY <1>1, <1>6, <1>15, <2>2 DEF RowsOf, PicsOf
    <3> QED
      BY <1>6, <2>2, <3>1, <3>2 DEF AtPictures
  <2> QED
    BY <2>1, <2>2
<1>17. PicsTyped' /\ Urls' /\ PicKnown' /\ PicsFloored'
  BY <1>1, <1>8, FS_RemoveElement, FlooredSame
  DEF PicsSound, PicsTyped, Urls, PicKnown, InfoOf
<1> QED
  BY <1>14, <1>16, <1>17 DEF PicsSound

LEMMA ContentRemoved ==
  ASSUME NoTrouble, NoTrouble', FilesSound, PicsSound, CancelContent
  PROVE  FilesSound' /\ PicsSound'
<1>0. faults \in Nat /\ crashes \in Nat
  BY DEF FilesSound, RestTyped
<1>1. PICK f, d : f = req.file /\ d = req.id
  OBVIOUS
<1>2. /\ req.at \in {"pcan_info", "pcan_dfs"} /\ req \in CancelRequests
      /\ UNCHANGED <<list, shares, redis, logins, forgotten, crashes, picVars>>
  BY Cancels DEF CancelContent, At, CancelSteps, FilesSound, kept
<1>3. PICK refs : refs = Pictured
  OBVIOUS
<1>4. CASE At("pcan_info")
  <2>1. /\ info' = info \ InfoOf(f) /\ Go("pcan_dfs") /\ UNCHANGED faults
        /\ UNCHANGED stored
    BY <1>0, <1>1, <1>4, PicWorks DEF CancelContent, At
  <2>2. PicRequest' /\ req'.at = "pcan_dfs" /\ req'.file = f /\ req'.id = d
    BY <1>1, <1>2, <2>1, CancelsMoved DEF CancelSteps
  <2>3. RowsOf(f) = {} /\ PicsOf(f) = {} /\ \E i \in InfoOf(f) : i.id = d
    BY <1>1, <1>4 DEF At, PicsSound, AtPictures, Identified
  <2>4. \A i \in info' : i.id # d
    BY <2>1, <2>3 DEF FilesSound, Global, OneInfo, InfoOf
  <2>5. Global'
    BY <1>2, <2>1, <2>3
    DEF FilesSound, Global, OneInfo, Kept, Known, Covered, OwnersOf, RowsOf, InfoOf
  <2>6. StoresTyped' /\ RestTyped' /\ forgotten' = {}
    BY <1>2, <2>1, RestSame DEF FilesSound, StoresTyped, redis, others
  <2>7. Local' /\ Reading' /\ (\A g : Extra(g)' = Extra(g))
        /\ req'.at \notin {"del_id", "del_info"}
    BY <1>2, <2>2, ApartSays, ApartSaysNext DEF Apart, CancelSteps
  <2>8. Pictured' = refs
    BY <1>2, <1>3, <2>2, PicturedSame, UnmovingRefers DEF Unmoving, picVars
  <2>9. Exact(refs)' /\ Singles'
    BY <1>2, <1>3, <2>1, <2>7 DEF FilesSound, Exact, Singles, OwnersOf, RowsOf
  <2>10. Pinned(refs)'
    <3>1. refs \in [Files -> Nat]
      BY <1>3 DEF FilesSound, Pinned
    <3>2. \A g \in Files : refs[g] # 0 => g # f /\ InfoOf(g) # {}
      BY <1>3, <2>3, Unheld DEF PicsSound, FilesSound, Pinned
    <3>3. \A g \in Files : refs[g] # 0 => InfoOf(g)' # {}
      BY <2>1, <3>2 DEF InfoOf
    <3> QED
      BY <2>7, <3>1, <3>3 DEF Pinned
  <2>11. FilesSound'
    BY <2>2, <2>5, <2>6, <2>7, <2>8, <2>9, <2>10 DEF FilesSound, Exact, Pinned
  <2>12. AtPictures'
    BY <2>2, <2>4 DEF AtPictures
  <2>13. PicKnown'
    BY <1>2, <2>1, <2>3 DEF PicsSound, PicKnown, InfoOf, PicsOf, picVars
  <2>14. PicsTyped' /\ Urls' /\ PicsFloored'
    BY <1>2, FlooredSame DEF PicsSound, PicsTyped, Urls, picVars
  <2> QED
    BY <2>11, <2>12, <2>13, <2>14 DEF PicsSound
<1>5. CASE At("pcan_dfs")
  <2>1. /\ stored' = stored \ {d} /\ Go("pcan_count") /\ UNCHANGED faults
        /\ UNCHANGED info
    BY <1>0, <1>1, <1>5, PicWorks DEF CancelContent, At
  <2>2. PicRequest' /\ req'.at = "pcan_count"
    BY <1>1, <1>2, <2>1, CancelsMoved DEF CancelSteps
  <2>3. \A i \in info : i.id # d
    BY <1>1, <1>5 DEF At, PicsSound, AtPictures
  <2>4. Global'
    BY <1>2, <2>1, <2>3
    DEF FilesSound, Global, OneInfo, Kept, Known, Covered, OwnersOf, RowsOf, InfoOf
  <2>5. StoresTyped' /\ RestTyped' /\ forgotten' = {}
    BY <1>2, <2>1, RestSame DEF FilesSound, StoresTyped, redis, others
  <2>6. Local' /\ Reading' /\ \A g : Extra(g)' = Extra(g)
    BY <1>2, <2>2, ApartSays, ApartSaysNext DEF Apart, CancelSteps
  <2>7. Pictured' = refs
    BY <1>2, <1>3, <2>2, PicturedSame, UnmovingRefers DEF Unmoving, picVars
  <2>8. Exact(refs)' /\ Singles'
    BY <1>2, <1>3, <2>1, <2>6 DEF FilesSound, Exact, Singles, OwnersOf, RowsOf
  <2>9. Pinned(refs)'
    BY <1>3, <2>1, <2>2, PinnedSame DEF FilesSound, InfoOf
  <2>10. FilesSound'
    BY <2>2, <2>4, <2>5, <2>6, <2>7, <2>8, <2>9 DEF FilesSound, Exact, Pinned
  <2>11. AtPictures'
    BY <2>2, AtPicturesFree
  <2>12. PicsTyped' /\ Urls' /\ PicKnown' /\ PicsFloored'
    BY <1>2, <1>5, <2>1, PicsSame, FlooredSame DEF At, PicsSound, picVars, PicsTyped
  <2> QED
    BY <2>10, <2>11, <2>12 DEF PicsSound
<1> QED
  BY <1>4, <1>5 DEF CancelContent

------------------------------------------------------------------------------
(* The counter of a user's pictures *)

LEMMA Requesting ==
  ASSUME FilesSound, req.at \in ShareSteps \union CancelSteps PROVE req.user \in Users
<1>1. req \in ShareRequests \/ req \in CancelRequests
  BY Sharing, Cancels DEF FilesSound
<1> QED
  BY <1>1 DEF ShareRequests, CancelRequests

LEMMA OneCounter ==
  ASSUME NEW g \in [Users -> Int], \A u \in Users : g[u] >= 0, NEW v \in Users, NEW n \in Nat,
         NEW h, h = [g EXCEPT ![v] = n]
  PROVE  h \in [Users -> Int] /\ \A u \in Users : h[u] >= 0
<1>1. h \in [Users -> Int]
  OBVIOUS
<1>2. ASSUME NEW u \in Users PROVE h[u] >= 0
  <2>1. CASE u = v
    BY <2>1
  <2>2. CASE u # v
    BY <2>2
  <2> QED
    BY <2>1, <2>2
<1> QED
  BY <1>1, <1>2

\* A step at which only the counters change.
LEMMA CounterStep ==
  ASSUME FilesSound, PicsSound, req.at \in Unmoving,
         req'.at \in {"idle", "pic_count", "pics", "pics_load", "pcan_own", "pcan_count",
                      "pcan_floor"},
         ReqTyped' \/ PicRequest',
         UNCHANGED <<tables, stored, redis, others, faults, pics, picLogins, drawn>>,
         picCount' \in [Users -> Int], PicsFloored'
  PROVE  FilesSound' /\ PicsSound'
<1>1. FilesSound'
  BY UnmovingStep DEF Unmoving
<1>2. AtPictures'
  BY AtPicturesFree
<1>3. PicsTyped' /\ Urls' /\ PicKnown'
  BY PicsSame DEF PicsSound, tables
<1> QED
  BY <1>1, <1>2, <1>3 DEF PicsSound

LEMMA PictureCounted ==
  ASSUME NoTrouble, NoTrouble', FilesSound, PicsSound, PicCount
  PROVE  FilesSound' /\ PicsSound'
<1>0. faults \in Nat /\ crashes \in Nat
  BY DEF FilesSound, RestTyped
<1>1. /\ req.at = "pic_count" /\ Answer
      /\ UNCHANGED <<list, shares, redis, logins, forgotten, crashes, info, stored, pics,
                     picLogins, drawn>>
  BY DEF PicCount, At, kept
<1>2. picCount' = [picCount EXCEPT ![req.user] = @ + 1] /\ UNCHANGED faults
  BY <1>0, PicWorks DEF PicCount
<1>3. picCount \in [Users -> Int] /\ \A u \in Users : picCount[u] >= 0
  BY <1>1 DEF PicsSound, PicsTyped, PicsFloored
<1>4. picCount' \in [Users -> Int] /\ \A u \in Users : picCount'[u] >= 0
  <2>1. PICK v \in Users : v = req.user
    BY <1>1, Requesting DEF ShareSteps
  <2>2. PICK n \in Nat : n = picCount[v] + 1
    BY <1>3
  <2>3. picCount' = [picCount EXCEPT ![v] = n]
    BY <1>2, <2>1, <2>2
  <2> QED
    BY <1>3, <2>3, OneCounter
<1>5. PicsFloored'
  BY <1>1, <1>4 DEF PicsSound, PicsFloored
<1> QED
  BY <1>1, <1>2, <1>4, <1>5, AnsweredApart, CounterStep DEF Unmoving, tables, others

LEMMA PictureUncounted ==
  ASSUME NoTrouble, NoTrouble', FilesSound, PicsSound, CancelCount
  PROVE  FilesSound' /\ PicsSound'
<1>0. faults \in Nat /\ crashes \in Nat
  BY DEF FilesSound, RestTyped
<1>1. /\ req.at \in {"pcan_count", "pcan_floor"} /\ req \in CancelRequests
      /\ UNCHANGED <<list, shares, redis, logins, forgotten, crashes, info, stored, pics,
                     picLogins, drawn>>
  BY Cancels DEF CancelCount, At, CancelSteps, FilesSound, kept
<1>2. PICK v : v = req.user
  OBVIOUS
<1>3. picCount \in [Users -> Int] /\ v \in Users
  BY <1>1, <1>2, Requesting DEF PicsSound, PicsTyped, CancelSteps
<1>4. CASE At("pcan_count")
  <2>1. /\ picCount' = [picCount EXCEPT ![v] = @ - 1] /\ UNCHANGED faults
        /\ IF picCount[v] <= 0 THEN Go("pcan_floor") ELSE Answer
    BY <1>0, <1>2, <1>4, PicWorks DEF CancelCount, At
  <2>2. \A u \in Users : picCount[u] >= 0
    BY <1>4 DEF At, PicsSound, PicsFloored
  <2>3. picCount' \in [Users -> Int]
    BY <1>3, <2>1
  <2>4. \A u \in Users : u # v => picCount'[u] >= 0
    BY <1>3, <2>1, <2>2
  <2>5. CASE picCount[v] <= 0
    <3>1. PicRequest' /\ req'.at = "pcan_floor" /\ req'.user = v
      BY <1>1, <1>2, <2>1, <2>5, CancelsMoved DEF CancelSteps
    <3>2. PicsFloored'
      BY <1>1, <2>4, <3>1 DEF PicsSound, PicsFloored
    <3> QED
      BY <1>1, <2>1, <2>3, <3>1, <3>2, CounterStep DEF Unmoving, tables, others
  <2>6. CASE ~(picCount[v] <= 0)
    <3>1. Answer
      BY <2>1, <2>6
    <3>2. picCount'[v] >= 0
      BY <1>3, <2>1, <2>6
    <3>3. PicsFloored'
      BY <1>1, <2>4, <3>2 DEF PicsSound, PicsFloored
    <3> QED
      BY <1>1, <2>1, <2>3, <3>1, <3>3, AnsweredApart, CounterStep DEF Unmoving, tables, others
  <2> QED
    BY <2>5, <2>6
<1>5. CASE At("pcan_floor")
  <2>1. picCount' = [picCount EXCEPT ![v] = 0] /\ UNCHANGED faults /\ Answer
    BY <1>0, <1>2, <1>5, PicWorks DEF CancelCount, At
  <2>2. picCount' \in [Users -> Int] /\ \A u \in Users : picCount'[u] >= 0
    BY <1>2, <1>3, <2>1 DEF PicsSound, PicsFloored
  <2>3. PicsFloored'
    BY <1>1, <2>2 DEF PicsSound, PicsFloored
  <2> QED
    BY <1>1, <2>1, <2>2, <2>3, AnsweredApart, CounterStep DEF Unmoving, tables, others
<1> QED
  BY <1>4, <1>5 DEF CancelCount

LEMMA ByFinite ==
  ASSUME PicsTyped, NEW u PROVE Cardinality(PicsBy(u)) \in Nat
<1>1. PicsBy(u) \subseteq pics /\ IsFiniteSet(pics)
  BY DEF PicsBy, PicsTyped
<1>2. IsFiniteSet(PicsBy(u))
  BY <1>1, FS_Subset
<1> QED
  BY <1>2, FS_CardinalityType

LEMMA PicturesListed ==
  ASSUME NoTrouble, NoTrouble', FilesSound, PicsSound, getSharePicturesCount
  PROVE  FilesSound' /\ PicsSound'
<1>0. faults \in Nat /\ crashes \in Nat
  BY DEF FilesSound, RestTyped
<1>1. /\ req.at \in {"pics", "pics_load"} /\ req \in ShareRequests
      /\ UNCHANGED <<list, shares, redis, logins, forgotten, crashes, info, stored, pics,
                     picLogins, drawn>>
  BY Sharing DEF getSharePicturesCount, At, ShareSteps, FilesSound, kept
<1>2. PICK v : v = req.user
  OBVIOUS
<1>3. picCount \in [Users -> Int] /\ \A u \in Users : picCount[u] >= 0
  BY <1>1 DEF PicsSound, PicsTyped, PicsFloored
<1>4. CASE At("pics")
  <2>1. (Answer \/ Go("pics_load")) /\ UNCHANGED <<faults, picCount>>
    BY <1>0, <1>4, PicWorks DEF getSharePicturesCount, At
  <2>2. /\ ReqTyped' \/ PicRequest'
        /\ req'.at \in {"idle", "pics_load"}
    BY <1>1, <2>1, AnsweredApart, SharingMoved DEF ShareSteps
  <2>3. PicsFloored'
    BY <1>1, <2>1, FlooredSame DEF PicsSound
  <2> QED
    BY <1>1, <1>3, <2>1, <2>2, <2>3, CounterStep DEF Unmoving, tables, others
<1>5. CASE At("pics_load")
  <2>1. /\ picCount' = [picCount EXCEPT ![v] = Cardinality(PicsBy(v))]
        /\ UNCHANGED faults /\ Answer
    BY <1>0, <1>2, <1>5, PicWorks DEF getSharePicturesCount, At
  <2>2. PICK n \in Nat : n = Cardinality(PicsBy(v))
    BY ByFinite DEF PicsSound
  <2>3. picCount' \in [Users -> Int] /\ \A u \in Users : picCount'[u] >= 0
    <3>1. v \in Users /\ picCount' = [picCount EXCEPT ![v] = n]
      BY <1>1, <1>2, <2>1, <2>2, Requesting DEF ShareSteps
    <3> QED
      BY <1>3, <3>1, OneCounter
  <2>4. PicsFloored'
    BY <1>1, <2>3 DEF PicsSound, PicsFloored
  <2> QED
    BY <1>1, <2>1, <2>3, <2>4, AnsweredApart, CounterStep DEF Unmoving, tables, others
<1> QED
  BY <1>4, <1>5 DEF getSharePicturesCount

-----------------------------------------------------------------------------
(* Logins, requests and the theorems *)

\* Nothing but the counters and the strings drawn.
LEMMA StillStores ==
  ASSUME FilesSound, PicsSound,
         UNCHANGED <<tables, stored, redis, others, faults, req, pics>>
  PROVE  FilesSound' /\ AtPictures' /\ PicKnown'
<1>1. PICK refs : refs = Pictured
  OBVIOUS
<1>2. Pictured' = refs
  BY <1>1, PicturedSame DEF Unreferred
<1>3. StoresTyped' /\ RestTyped' /\ Global' /\ forgotten' = {}
  BY StoresSame, RestSame, GlobalSame DEF FilesSound, tables, others
<1>4. ReqTyped' \/ PicRequest'
  BY DEF FilesSound, ReqTyped, PicRequest
<1>5. Local' /\ Reading' /\ Singles'
  BY LocalSame DEF FilesSound, Reading, Singles, Owns, Rows, Counted, InfoOf, tables, others
<1>6. Exact(refs)'
  BY <1>1 DEF FilesSound, Exact, Extra, OwnersOf, RowsOf, tables
<1>7. Pinned(refs)'
  BY <1>1 DEF FilesSound, Pinned, InfoOf, tables
<1>8. FilesSound'
  BY <1>2, <1>3, <1>4, <1>5, <1>6, <1>7 DEF FilesSound, Exact, Pinned
<1>9. AtPictures'
  BY DEF PicsSound, AtPictures, Owns, Rows, RowsOf, PicsOf, PicsAt, Counted, InfoOf, Target,
         Identified, tables
<1>10. PicKnown'
  BY DEF PicsSound, PicKnown, InfoOf, tables
<1> QED
  BY <1>8, <1>9, <1>10

LEMMA PicLogin ==
  ASSUME NoTrouble, NoTrouble', FilesSound, PicsSound,
         \/ TokenDraw \/ UNCHANGED allVars
         \/ \E u \in Users : PicLoginRead(u) \/ PicLoginSet(u)
  PROVE  FilesSound' /\ PicsSound'
<1>0. faults \in Nat /\ crashes \in Nat
  BY DEF FilesSound, RestTyped
<1>1. UNCHANGED <<tables, stored, redis, others, req, pics>>
  BY DEF TokenDraw, PicLoginRead, PicLoginSet, vars, kept, tables, others, allVars, picVars
<1>2. UNCHANGED faults
  BY <1>0, PicWorks DEF TokenDraw, PicLoginRead, PicLoginSet, vars, allVars
<1>3. FilesSound' /\ AtPictures' /\ PicKnown'
  BY <1>1, <1>2, StillStores
<1>4. PicsTyped /\ Urls /\ PicsFloored
  BY DEF PicsSound
<1>5. PicsTyped' /\ Urls' /\ PicsFloored'
  <2>1. CASE TokenDraw
    <3>1. drawn' = drawn + 1 /\ UNCHANGED <<pics, picCount, picLogins, req>>
      BY <2>1 DEF TokenDraw, vars
    <3>2. \A p \in pics : p.url \in Int
      BY <1>4 DEF PicsTyped
    <3> QED
      BY <1>4, <3>1, <3>2 DEF PicsTyped, Urls, PicsFloored
  <2>2. CASE UNCHANGED allVars
    BY <1>1, <1>4, <2>2 DEF allVars, picVars, PicsTyped, Urls, PicsFloored
  <2>3. ASSUME NEW u \in Users, PicLoginRead(u) PROVE PicsTyped' /\ Urls' /\ PicsFloored'
    <3>1. PICK n \in Nat : n = Cardinality(PicsBy(u))
      BY <1>4, ByFinite
    <3>2. picLogins' = [picLogins EXCEPT ![u] = n] /\ UNCHANGED <<pics, picCount, drawn, req>>
      BY <2>3, <3>1 DEF PicLoginRead, vars
    <3> QED
      BY <1>4, <3>2 DEF PicsTyped, Urls, PicsFloored
  <2>4. ASSUME NEW u \in Users, PicLoginSet(u) PROVE PicsTyped' /\ Urls' /\ PicsFloored'
    <3>1. /\ picCount' = [picCount EXCEPT ![u] = picLogins[u]]
          /\ picLogins' = [picLogins EXCEPT ![u] = -1] /\ picLogins[u] # -1
          /\ UNCHANGED <<pics, drawn, req>>
      BY <1>0, <2>4, PicWorks DEF PicLoginSet
    <3>2. picLogins[u] \in Int /\ picLogins[u] >= 0
      BY <1>4, <3>1 DEF PicsTyped, PicsFloored
    <3>3. picCount' \in [Users -> Int] /\ picLogins' \in [Users -> Int]
      BY <1>4, <3>1, <3>2 DEF PicsTyped
    <3>4. PicsFloored'
      BY <1>4, <3>1, <3>2 DEF PicsTyped, PicsFloored
    <3> QED
      BY <1>4, <3>1, <3>3, <3>4 DEF PicsTyped, Urls
  <2> QED
    BY <2>1, <2>2, <2>3, <2>4
<1> QED
  BY <1>3, <1>5 DEF PicsSound

LEMMA PicRequests ==
  ASSUME UploadOnce, OwnOnly, NoTrouble, NoTrouble', FilesSound, PicsSound,
         \/ \E u \in Users, f \in Files : PicAccept(u, f)
         \/ \E u \in Users : UrlAccept(u)
  PROVE  FilesSound' /\ PicsSound'
<1>1. ASSUME NEW u \in Users, NEW f \in Files, Accept(u, f), UNCHANGED picVars
      PROVE  FilesSound' /\ PicsSound'
  BY <1>1, FilesAccept
<1>2. ASSUME req.at = "idle", req'.at \in {"pic_insert", "pics", "pcan_own"}, PicRequest',
             AtPictures',
             UNCHANGED <<list, shares, redis, logins, forgotten, crashes, info, stored, faults,
                         picVars>>
      PROVE  FilesSound' /\ PicsSound'
  <2>1. FilesSound'
    BY <1>2, UnmovingStep DEF Unmoving, tables, others, picVars
  <2>2. PicsTyped' /\ Urls' /\ PicKnown' /\ PicsFloored'
    BY <1>2, PicsSame, FlooredSame DEF PicsSound, picVars, PicsTyped
  <2> QED
    BY <1>2, <2>1, <2>2 DEF PicsSound
<1>3. ASSUME NEW u \in Users, NEW f \in Files, PicAccept(u, f)
      PROVE  FilesSound' /\ PicsSound'
  <2>1. UNCHANGED <<list, shares, redis, logins, forgotten, crashes, info, stored, faults,
                    picVars>>
    BY <1>3 DEF PicAccept, kept
  <2>2. CASE Owns(u, f) /\ Request(u, f, "pic_insert")
    <3>1. req.at = "idle" /\ req'.at = "pic_insert" /\ req'.user = u /\ req'.file = f
      BY <2>2 DEF Request, At
    <3>2. PicRequest'
      BY <2>2 DEF Request, PicRequest, ShareSteps
    <3>3. AtPictures'
      BY <2>1, <2>2, <3>1 DEF AtPictures, Owns, Rows
    <3> QED
      BY <1>2, <2>1, <3>1, <3>2, <3>3
  <2>3. CASE \/ Request(u, f, "md5_refs")
             \/ InfoOf(f) = {} /\ Ids \ UsedIds # {} /\ Request(u, f, "up_store")
             \/ Owns(u, f) /\ Request(u, f, "del_zset")
             \/ Request(u, f, "save_own")
    <3>1. Accept(u, f)
      BY <2>1, <2>3 DEF Accept, tables
    <3> QED
      BY <1>1, <2>1, <3>1
  <2> QED
    BY <1>3, <2>2, <2>3 DEF PicAccept
<1>4. ASSUME NEW u \in Users, UrlAccept(u)
      PROVE  FilesSound' /\ PicsSound'
  <2>1. /\ req.at = "idle"
        /\ UNCHANGED <<list, shares, redis, logins, forgotten, crashes, info, stored, faults,
                       picVars>>
    BY <1>4 DEF UrlAccept, kept, At
  <2>2. req'.at \in {"pics", "pcan_own"} /\ PicRequest'
    <3>1. CASE Request(u, NoFile, "pics")
      BY <3>1 DEF Request, PicRequest, ShareSteps
    <3>2. ASSUME NEW p \in PicsBy(u),
                 req' = [at |-> "pcan_own", user |-> u, file |-> NoFile, n |-> 0, id |-> 0,
                         both |-> FALSE, url |-> p.url]
          PROVE  req'.at \in {"pics", "pcan_own"} /\ PicRequest'
      <4>1. p.url \in Int
        BY DEF PicsBy, PicsSound, PicsTyped
      <4> QED
        BY <3>2, <4>1 DEF PicRequest, CancelSteps
    <3> QED
      BY <1>4, <3>1, <3>2 DEF UrlAccept
  <2>3. AtPictures'
    BY <2>2, AtPicturesFree
  <2> QED
    BY <1>2, <2>1, <2>2, <2>3
<1> QED
  BY <1>3, <1>4

-----------------------------------------------------------------------------
\* The calls that fail and the crashes are counted.
LEMMA PicTrouble ==
  ASSUME [PicNext]_allVars
  PROVE  \/ (UNCHANGED faults \/ Fails) /\ UNCHANGED crashes
         \/ Crash
<1>1. CASE UNCHANGED allVars
  BY <1>1 DEF allVars, vars, others
<1>2. CASE FileSteps
  BY <1>2, FileStepsTrouble
<1>3. CASE PicNext /\ ~FileSteps
  BY <1>3 DEF PicNext, Do, kept, vars, others, picVars, PicAccept, UrlAccept, PicLoginRead,
     PicLoginSet, handleSharePicture, PicInsert, PicRefs, PicUpdate, PicCount,
     handleCancelSharePicture, CancelOwn, CancelFile, CancelRefs, CancelUpdate, CancelRow,
     CancelContent, CancelCount, getSharePicturesCount, TokenDraw, PicCrash
<1> QED
  BY <1>1, <1>2, <1>3

LEMMA Step_Pictures ==
  ASSUME UploadOnce, OwnOnly PROVE PicInv /\ [PicNext]_allVars => PicInv'
<1> SUFFICES ASSUME PicInv, [PicNext]_allVars PROVE PicInv'
  OBVIOUS
<1>1. faults \in Nat /\ crashes \in Nat
  BY DEF PicInv
<1>2. faults' \in Nat /\ crashes' \in Nat
  BY <1>1, PicTrouble DEF Fails, Crash
<1>3. ASSUME NoTrouble' PROVE FilesSound' /\ PicsSound'
  <2>1. NoTrouble /\ ~Crash
    BY <1>1, <1>3, PicTrouble, PicTroubled DEF NoTrouble
  <2>2. FilesSound /\ PicsSound
    BY <2>1 DEF PicInv
  <2>3. CASE handleSharePicture
    BY <1>3, <2>1, <2>2, <2>3, InsertPicture, CountPicture, PictureCounted
    DEF handleSharePicture
  <2>4. CASE handleCancelSharePicture
    BY <1>3, <2>1, <2>2, <2>4, FindPicture, CancelCounted, CancelWritten, CancelRemoved,
       ContentRemoved, PictureUncounted DEF handleCancelSharePicture
  <2>5. CASE FileSteps \/ getSharePicturesCount \/ TokenDraw \/ UNCHANGED allVars
    BY <1>3, <2>1, <2>2, <2>5, FilesStep, PicturesListed, PicLogin
  <2>6. CASE \E u \in Users, f \in Files : PicAccept(u, f)
    BY <1>3, <2>1, <2>2, <2>6, PicRequests
  <2>7. CASE \E u \in Users : UrlAccept(u) \/ PicLoginRead(u) \/ PicLoginSet(u)
    BY <1>3, <2>1, <2>2, <2>7, PicRequests, PicLogin
  <2> QED
    BY <2>1, <2>3, <2>4, <2>5, <2>6, <2>7 DEF PicNext, PicCrash
<1> QED
  BY <1>2, <1>3 DEF PicInv

LEMMA Init_Pictures == PicInit => PicInv
<1> SUFFICES ASSUME PicInit PROVE FilesSound /\ PicsSound /\ faults \in Nat /\ crashes \in Nat
  BY DEF PicInv
<1>1. TypeInv /\ OwnersInv
  BY Init_Type, Init_Owners DEF PicInit
<1>2. pics = {} /\ list = {} /\ info = {} /\ req.at = "idle" /\ forgotten = {}
  BY DEF PicInit, Init, NoReq
<1>3. IsFiniteSet(pics)
  BY <1>2, FS_EmptySet
<1>4. PicsTyped /\ Urls /\ PicKnown /\ AtPictures /\ PicsFloored
  BY <1>2, <1>3 DEF PicInit, PicsTyped, Urls, PicKnown, AtPictures, PicsFloored
<1>5. Pictured \in [Files -> Nat] /\ \A f \in Files : Pictured[f] = 0
  <2>1. \A f \in Files : PicsOf(f) = {} /\ Unreferred(f) = 0
    BY <1>2 DEF PicsOf, Unreferred
  <2>2. \A f \in Files : Cardinality(PicsOf(f)) - Unreferred(f) = 0
    BY <2>1, FS_EmptySet
  <2> QED
    BY <2>2 DEF Pictured
<1>6. Singles /\ Exact(Pictured) /\ Pinned(Pictured) /\ Reading
  BY <1>2, <1>5 DEF Singles, Exact, Pinned, Reading, Without
<1>7. FilesSound
  BY <1>1, <1>2, <1>6, Parts DEF FilesSound, OwnersInv
<1> QED
  BY <1>1, <1>4, <1>7, Parts DEF PicsSound, RestTyped

\* As long as no call has failed and the server has not crashed, a content
\* that is in somebody's list, or that somebody has published, is in FastDFS,
\* for every number of users, files, pictures and requests.
THEOREM PublishedIsKept == ASSUME UploadOnce, OwnOnly PROVE PicSpec => []ContentIsKept
<1>1. PicInv => ContentIsKept
  <2> SUFFICES ASSUME PicInv, NoTrouble,
                      NEW f \in {r.file : r \in list} \union {p.file : p \in pics}
               PROVE  \E i \in info : i.file = f /\ i.id \in stored
    BY DEF ContentIsKept
  <2>1. InfoOf(f) # {}
    BY DEF PicInv, FilesSound, Global, Known, PicsSound, PicKnown
  <2>2. PICK i \in info : i.file = f
    BY <2>1 DEF InfoOf
  <2> QED
    BY <2>2 DEF PicInv, FilesSound, Global, Kept
<1>2. PicInv /\ [PicNext]_allVars => PicInv'
  BY Step_Pictures
<1> QED
  BY <1>1, <1>2, Init_Pictures, PTL DEF PicSpec

\* And between two requests the count of file_info is the number of the owners
\* and pictures of the file, and no counter of pictures is below zero.
THEOREM CountsAreReferences == ASSUME UploadOnce, OwnOnly PROVE PicSpec => []RefsCounted
<1>1. PicInv => RefsCounted
  <2> SUFFICES ASSUME PicInv, Quiet, NoTrouble PROVE RefsCounted
    BY DEF RefsCounted
  <2>1. FilesSound /\ PicsSound /\ req.at = "idle"
    BY DEF PicInv, Quiet, NoReq
  <2>2. \A u \in Users : picCount[u] >= 0
    BY <2>1 DEF PicsSound, PicsFloored
  <2>3. ASSUME NEW i \in info
        PROVE  i.count = Cardinality(RowsOf(i.file)) + Cardinality(PicsOf(i.file))
    <3>1. /\ i.file \in Files /\ OwnersOf(i.file) + Pictured[i.file] = i.count
          /\ Pictured[i.file] \in Nat /\ OwnersOf(i.file) \in Nat
      BY <2>1, CountIs DEF Apart
    <3>2. Unreferred(i.file) = 0 /\ Cardinality(PicsOf(i.file)) \in Nat
      BY <2>1, Finite DEF Unreferred, PicsSound
    <3>3. Pictured[i.file] = Cardinality(PicsOf(i.file)) - 0
      BY <3>1, <3>2 DEF Pictured
    <3> QED
      BY <3>1, <3>2, <3>3 DEF OwnersOf
  <2> QED
    BY <2>2, <2>3 DEF RefsCounted
<1>2. PicInv /\ [PicNext]_allVars => PicInv'
  BY Step_Pictures
<1> QED
  BY <1>1, <1>2, Init_Pictures, PTL DEF PicSpec
==============================================================================
