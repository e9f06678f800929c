---------------------------- MODULE RequestBody -----------------------------
(***************************************************************************)
(* What the handlers of api/ make of the body of a request: the command in *)
(* the url chooses a decoder, and the decoder reads its fields one by one  *)
(* from the JSON of the body.                                              *)
(*                                                                         *)
(* A decoder gives the fields, or refuses, or does not return: a value of  *)
(* the wrong type makes jsoncpp throw.  An exception of a task (register,  *)
(* login) ends in the thread pool and no answer is sent; one of the others *)
(* leaves the event loop and ends the server.                              *)
(***************************************************************************)
EXTENDS JsonText

-----------------------------------------------------------------------------
(* QueryParseKeyValue: what follows the first occurrence of the key and    *)
(* one byte more, up to a "#" or "&".                                      *)

Occurs(text, key) ==
  {i \in 0 .. Len(text) - Len(key) : SubSeq(text, i + 1, i + Len(key)) = key}

First(set) == CHOOSE i \in set : \A j \in set : i <= j

QueryParseKeyValue(query, key) ==
  LET from == First(Occurs(query, key)) + Len(key) + 1
      to   == SkipAll(query, from, {query[i] : i \in DOMAIN query} \ {"#", "&"})
  IN SubSeq(query, from + 1, to)

(* Every command a handler knows, and one of none. *)
Commands == {"count", "share", "normal", "cancel", "browse", "other"}

(* The buffer of the command is not initialised: without a key in the url  *)
(* it may hold any; a key that ends the url is read beyond its end.        *)
CommandsOf(url) ==
  LET key == Chars("cmd") at == Occurs(url, key) IN
  IF at = {} \/ First(at) + Len(key) >= Len(url) THEN Commands
  ELSE LET cmd == QueryParseKeyValue(url, key)
       IN {IF \E c \in Commands : Chars(c) = cmd
           THEN CHOOSE c \in Commands : Chars(c) = cmd ELSE "other"}

-----------------------------------------------------------------------------
(* Json::Value: root[name], asString and asInt; a throw is no value.       *)

Member(root, name) ==
  CASE root.type = "null" -> {nullValue}
    [] root.type = "object" ->
         {IF Chars(name) \in DOMAIN root.members
          THEN root.members[Chars(name)] ELSE nullValue}
    [] OTHER -> {}

asString(v) ==
  CASE v.type = "null" -> {<<>>}
    [] v.type \in {"string", "boolean", "int", "real"} -> {v.is}
    [] OTHER -> {}

IntRange == [minus |-> Chars("2147483648"), plus |-> Chars("2147483647")]

(* A number of Int, by its digits; reals are left open. *)
asInt(v) ==
  CASE v.type = "int" ->
         IF \/ Head(v.is) = "-" /\ AtMost(Tail(v.is), IntRange.minus)
            \/ Head(v.is) # "-" /\ AtMost(v.is, IntRange.plus)
         THEN {v.is} ELSE {}
    [] v.type = "real" -> {v.is}
    [] v.type = "null" -> {<<"0">>}
    [] v.type = "boolean" -> {IF v = booleanValue(TRUE) THEN <<"1">> ELSE <<"0">>}
    [] OTHER -> {}

-----------------------------------------------------------------------------
(* The decoders: the fields in the order in which they are read.           *)

Str(name)     == [name |-> name, as |-> "string", optional |-> FALSE]
MayStr(name)  == [name |-> name, as |-> "string", optional |-> TRUE]
Num(name)     == [name |-> name, as |-> "int", optional |-> FALSE]

decodeRegisterJson ==
  <<Str("userName"), Str("nickName"), Str("firstPwd"), MayStr("phone"),
    MayStr("email")>>
decodeLoginJson == <<Str("user"), Str("pwd")>>
decodeMd5Json == <<Str("user"), Str("token"), Str("md5"), Str("filename")>>
decodeDealfileJson ==
  <<Str("user"), Str("token"), Str("md5"), Str("filename")>>
decodeDealsharefileJson == <<Str("user"), Str("md5"), Str("filename")>>
decodeCountJson == <<Str("user"), Str("token")>>
decodeFileslistJson ==
  <<Str("user"), Str("token"), Num("start"), Num("count")>>
decodeShareFileslistJson == <<Num("start"), Num("count")>>
decodeSharePictureJson ==
  <<Str("token"), Str("user"), Str("md5"), Str("filename")>>
decodePictureListJson ==
  <<Str("token"), Str("user"), Num("start"), Num("count")>>
decodeCancelPictureJson == <<Str("user"), Str("urlmd5")>>
decodeBrowsePictureJson == <<Str("urlmd5")>>

(* What becomes of a body. *)
Refused == [is |-> "refused"]
Thrown  == [is |-> "thrown"]
Unread  == [is |-> "unread"]
Read(fields) == [is |-> "read", fields |-> fields]

Values(f, v) == IF f.as = "int" THEN asInt(v) ELSE asString(v)

WithField(read, name, value) ==
  IF read.is # "read" THEN read
  ELSE Read([n \in DOMAIN read.fields \cup {name} |->
               IF n = name THEN value ELSE read.fields[n]])

(* The fields from the i-th on, the first that does not fit ending it all. *)
FieldsOf(decoder, root) ==
  LET from[i \in 1 .. Len(decoder) + 1] ==
        IF i > Len(decoder) THEN Read([n \in {} |-> <<>>])
        ELSE LET f == decoder[i]
                 values == UNION {Values(f, v) : v \in Member(root, f.name)}
             IN IF Member(root, f.name) = {nullValue}
                THEN IF f.optional THEN from[i + 1] ELSE Refused
                ELSE IF values = {} THEN Thrown
                ELSE WithField(from[i + 1], f.name, CHOOSE t \in values : TRUE)
  IN from[1]

Decode(decoder, body) ==
  LET r == CHOOSE r \in {parse(body)} : TRUE
  IN IF r.ok THEN FieldsOf(decoder, r.value) ELSE Refused

-----------------------------------------------------------------------------
(* The decoder a handler of api/ uses for a command, if it uses one.       *)

Decoders(api, cmd) ==
  CASE api = "reg"           -> {decodeRegisterJson}
    [] api = "login"         -> {decodeLoginJson}
    [] api = "md5"           -> {decodeMd5Json}
    [] api = "dealfile"      -> {decodeDealfileJson}
    [] api = "dealsharefile" -> {decodeDealsharefileJson}
    [] api = "myfiles"       ->
         {IF cmd = "count" THEN decodeCountJson ELSE decodeFileslistJson}
    [] api = "sharefiles"    ->
         IF cmd = "count" THEN {} ELSE {decodeShareFileslistJson}
    [] api = "upload"        -> {}
    [] api = "sharepic"      ->
         CASE cmd = "share"  -> {decodeSharePictureJson}
           [] cmd = "normal" -> {decodePictureListJson}
           [] cmd = "cancel" -> {decodeCancelPictureJson}
           [] cmd = "browse" -> {decodeBrowsePictureJson}
           [] OTHER -> {}

(* An empty body is refused by each of them, before or by the parser. *)
TakeBody(api, cmd, body) ==
  IF Decoders(api, cmd) = {} THEN Unread
  ELSE Decode(CHOOSE d \in Decoders(api, cmd) : TRUE, body)
=============================================================================
