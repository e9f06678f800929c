----------------------------- MODULE HttpParser -----------------------------
(***************************************************************************)
(* The HTTP parser, base/http_parser.cc, as it is built: HTTP_PARSER_STRICT *)
(* is 1.  Step is the body of the loop of http_parser_execute for one      *)
(* byte, a chain of operators for "goto reexecute_byte"; the callbacks it  *)
(* makes are recorded in order.  Variants named Operator_What are faults.   *)
(*                                                                         *)
(* At most one mark is set at a time; mark names it and text is what has   *)
(* been read since.  A state that only waits for given bytes is an entry   *)
(* of a table: the moves by class of byte and the error for any other.     *)
(***************************************************************************)
EXTENDS Integers, Sequences, Text

CONSTANTS
  ULLONG_MAX,            \* bound: 2^64 - 1 in the code
  HTTP_MAX_HEADER_SIZE   \* 80 * 1024 in the code

ASSUME ParserAssumption ==
  /\ ULLONG_MAX \in Nat /\ ULLONG_MAX > 255
  /\ HTTP_MAX_HEADER_SIZE \in Nat

Types == {"request", "response", "both"}

-----------------------------------------------------------------------------
(* Classes of bytes. *)

TokenChars == Alnums \cup SetOf("!#$%&'*+-.^_|~")

(* A character of a token, in lower case, or none. *)
TOKEN(c) == IF c \in TokenChars THEN Lower(c) ELSE ""

IS_URL_CHAR   == Alnums \cup (Signs \ {"#", "?"})
IS_MARK       == SetOf("-_.!~*'()")
IS_USERINFO_CHAR == Alnums \cup IS_MARK \cup SetOf("%;:&=+$,")
IS_HOST_CHAR  == Alnums \cup {".", "-"}

(* The first move of a table whose class has the byte, else "otherwise". *)
Move(moves, c, otherwise) ==
  IF \E m \in moves : c \in m[1]
  THEN (CHOOSE m \in moves : c \in m[1])[2]
  ELSE otherwise

-----------------------------------------------------------------------------
(* parse_url_char: the states of a url.                                    *)

ServerMoves ==
  {<<{"/"}, "req_path">>, <<{"?"}, "req_query_string_start">>,
   <<{"@"}, "req_server_with_at">>,
   <<IS_USERINFO_CHAR \cup {"[", "]"}, "req_server">>}

UrlMoves ==
  [req_spaces_before_url |->
     {<<{"/", "*"}, "req_path">>, <<Alphas, "req_schema">>},
   req_schema |-> {<<Alphas, "req_schema">>, <<{":"}, "req_schema_slash">>},
   req_schema_slash |-> {<<{"/"}, "req_schema_slash_slash">>},
   req_schema_slash_slash |-> {<<{"/"}, "req_server_start">>},
   req_server_with_at |-> {m \in ServerMoves : "@" \notin m[1]},
   req_server_start |-> ServerMoves,
   req_server |-> ServerMoves,
   req_path |->
     {<<IS_URL_CHAR, "req_path">>, <<{"?"}, "req_query_string_start">>,
      <<{"#"}, "req_fragment_start">>},
   req_query_string_start |->
     {<<IS_URL_CHAR \cup {"?"}, "req_query_string">>,
      <<{"#"}, "req_fragment_start">>},
   req_query_string |->
     {<<IS_URL_CHAR \cup {"?"}, "req_query_string">>,
      <<{"#"}, "req_fragment_start">>},
   req_fragment_start |->
     {<<IS_URL_CHAR \cup {"?"}, "req_fragment">>,
      <<{"#"}, "req_fragment_start">>},
   req_fragment |-> {<<IS_URL_CHAR \cup {"?", "#"}, "req_fragment">>}]

parse_url_char(s, c) == Move(UrlMoves[s], c, "dead")

(* The states in which a blank ends the url rather than breaking it. *)
UrlMayEnd == {"req_server", "req_server_with_at", "req_path",
              "req_query_string_start", "req_query_string",
              "req_fragment_start", "req_fragment"}

UrlStates == UrlMayEnd \cup {"req_schema", "req_schema_slash",
                             "req_schema_slash_slash", "req_server_start"}

-----------------------------------------------------------------------------
(* The states that wait for given bytes.                                   *)

Given ==
  [res_H    |-> <<{<<{"T"}, "res_HT">>}, "STRICT">>,
   res_HT   |-> <<{<<{"T"}, "res_HTT">>}, "STRICT">>,
   res_HTT  |-> <<{<<{"P"}, "res_HTTP">>}, "STRICT">>,
   res_HTTP |-> <<{<<{"/"}, "res_first_http_major">>}, "STRICT">>,
   req_http_start |->
     <<{<<{"H"}, "req_http_H">>, <<{SP}, "req_http_start">>}, "INVALID_CONSTANT">>,
   req_http_H    |-> <<{<<{"T"}, "req_http_HT">>}, "STRICT">>,
   req_http_HT   |-> <<{<<{"T"}, "req_http_HTT">>}, "STRICT">>,
   req_http_HTT  |-> <<{<<{"P"}, "req_http_HTTP">>}, "STRICT">>,
   req_http_HTTP |-> <<{<<{"/"}, "req_first_http_major">>}, "STRICT">>,
   req_line_almost_done |-> <<{<<{LF}, "header_field_start">>}, "LF_EXPECTED">>]

(* The methods, as HTTP_METHOD_MAP spells them: the name is turned into a  *)
(* string by the preprocessor, from "M - SEARCH" in the case of MSEARCH.   *)
Methods == {"DELETE", "GET", "HEAD", "POST", "PUT", "CONNECT", "OPTIONS",
            "TRACE", "COPY", "LOCK", "MKCOL", "MOVE", "PROPFIND", "PROPPATCH",
            "SEARCH", "UNLOCK", "REPORT", "MKACTIVITY", "CHECKOUT", "MERGE",
            "MSEARCH", "NOTIFY", "SUBSCRIBE", "UNSUBSCRIBE", "PATCH", "PURGE"}

method_strings ==
  [m \in Methods |-> Chars(IF m = "MSEARCH" THEN "M - SEARCH" ELSE m)]

(* The method guessed from the first letter. *)
FirstGuess ==
  [C |-> "CONNECT", D |-> "DELETE", G |-> "GET", H |-> "HEAD", L |-> "LOCK",
   M |-> "MKCOL", N |-> "NOTIFY", O |-> "OPTIONS", P |-> "POST",
   R |-> "REPORT", S |-> "SUBSCRIBE", T |-> "TRACE", U |-> "UNLOCK"]

(* The guess is changed at a letter: guess, index, letter, new guess. *)
OtherGuess ==
  {<<"CONNECT", 1, "H", "CHECKOUT">>, <<"CONNECT", 2, "P", "COPY">>,
   <<"MKCOL", 1, "O", "MOVE">>, <<"MKCOL", 1, "E", "MERGE">>,
   <<"MKCOL", 1, "-", "MSEARCH">>, <<"MKCOL", 2, "A", "MKACTIVITY">>,
   <<"SUBSCRIBE", 1, "E", "SEARCH">>, <<"POST", 1, "R", "PROPFIND">>,
   <<"POST", 1, "U", "PUT">>, <<"POST", 1, "A", "PATCH">>,
   <<"PUT", 2, "R", "PURGE">>, <<"UNLOCK", 2, "S", "UNSUBSCRIBE">>,
   <<"PROPFIND", 4, "P", "PROPPATCH">>}

-----------------------------------------------------------------------------
(* The words looked for in names and values of headers: a word is being    *)
(* matched up to index (from 0), or has been matched.                      *)

Matched ==
  [matching_connection        |-> "connection_header",
   matching_proxy_connection  |-> "connection_header",
   matching_content_length    |-> "content_length",
   matching_transfer_encoding |-> "transfer_encoding",
   matching_upgrade           |-> "upgrade",
   matching_chunked           |-> "chunked",
   matching_keep_alive        |-> "keep_alive",
   matching_close             |-> "close"]

WordOf ==
  [matching_connection        |-> Chars("connection"),
   matching_proxy_connection  |-> Chars("proxy-connection"),
   matching_content_length    |-> Chars("content-length"),
   matching_transfer_encoding |-> Chars("transfer-encoding"),
   matching_upgrade           |-> Chars("upgrade"),
   matching_chunked           |-> Chars("chunked"),
   matching_keep_alive        |-> Chars("keep-alive"),
   matching_close             |-> Chars("close")]

(* The header_state after one more letter c of the word, at index i. *)
MatchWord(h, i, c) ==
  IF c # WordOf[h][i + 1] THEN "general"
  ELSE IF i = Len(WordOf[h]) - 1 THEN Matched[h]
  ELSE h

(* After the first letter of a name, and after each further one. *)
FirstOfName ==
  [c |-> "C", p |-> "matching_proxy_connection",
   t |-> "matching_transfer_encoding", u |-> "matching_upgrade"]

NextOfName(h, i, c) ==
  CASE h = "C"   -> IF c = "o" THEN "CO" ELSE "general"
    [] h = "CO"  -> IF c = "n" THEN "CON" ELSE "general"
    [] h = "CON" -> Move({<<{"n"}, "matching_connection">>,
                          <<{"t"}, "matching_content_length">>}, c, "general")
    [] h \in DOMAIN WordOf -> MatchWord(h, i, c)
    [] OTHER -> "general"

(* After the first letter of a value, for the headers that matter. *)
FirstOfValue(h, c) ==
  CASE h = "transfer_encoding" -> IF c = "c" THEN "matching_chunked" ELSE "general"
    [] h = "connection_header" -> Move({<<{"k"}, "matching_keep_alive">>,
                                        <<{"c"}, "matching_close">>}, c, "general")
    [] h = "content_length"    -> h
    [] OTHER -> "general"

NextOfValue(h, i, c) ==
  CASE h \in DOMAIN WordOf -> MatchWord(h, i, c)
    [] h \in {"chunked", "keep_alive", "close"} -> IF c = SP THEN h ELSE "general"
    [] h = "content_length" -> h
    [] OTHER -> "general"

(* The flag a matched value sets at the end of its line. *)
FlagOf(h) == {f \in {"chunked", "keep_alive", "close"} : f = h}

-----------------------------------------------------------------------------
(* The parser.                                                             *)

StartState(type) ==
  [request |-> "start_req", response |-> "start_res",
   both |-> "start_req_or_res"][type]

http_parser_init(type) ==
  [type |-> type, state |-> StartState(type), http_errno |-> "OK",
   returned |-> FALSE, header_state |-> "general", index |-> 0, flags |-> {},
   content_length |-> 0, nread |-> 0, http_major |-> 0, http_minor |-> 0,
   status_code |-> 0, method |-> "DELETE", upgrade |-> FALSE,
   mark |-> "none", text |-> <<>>, callbacks |-> <<>>]

SET_ERRNO(p, e) == [p EXCEPT !.http_errno = e]
Goto(p, s)      == [p EXCEPT !.state = s]
MARK(p, what, c) ==
  [p EXCEPT !.mark = what, !.text = IF p.mark = what THEN Append(@, c) ELSE <<c>>]

(* A callback is given some text and can read the parser. *)
Callback(p, what, text) ==
  [on |-> what, text |-> text, nread |-> p.nread, content_length |-> p.content_length]

CALLBACK_NOTIFY(p, what) ==
  [p EXCEPT !.callbacks = Append(@, Callback(p, what, <<>>))]

CALLBACK_DATA(p, what) ==
  IF p.mark # what \/ what = "none" THEN p
  ELSE [p EXCEPT !.callbacks = Append(@, Callback(p, what, p.text)),
                 !.mark = "none", !.text = <<>>]

http_message_needs_eof(p) ==
  /\ p.type # "request"
  /\ p.status_code \div 100 # 1
  /\ p.status_code \notin {204, 304}
  /\ "chunked" \notin p.flags
  /\ p.content_length = ULLONG_MAX

http_should_keep_alive(p) ==
  /\ IF p.http_major > 0 /\ p.http_minor > 0
     THEN "close" \notin p.flags
     ELSE "keep_alive" \in p.flags
  /\ ~ http_message_needs_eof(p)

NEW_MESSAGE(p) ==
  IF http_should_keep_alive(p) THEN StartState(p.type) ELSE "dead"

MessageComplete(p) ==
  CALLBACK_NOTIFY(Goto(p, NEW_MESSAGE(p)), "message_complete")

(* Another digit of a number in base b; its second part is an overflow. *)
MoreDigits(n, d, b) ==
  LET t == (n * b + d) % (ULLONG_MAX + 1)
  IN <<t, t < n \/ t = ULLONG_MAX>>

LengthDigit(p, d, b) ==
  LET t == MoreDigits(p.content_length, d, b)
  IN IF t[2] THEN SET_ERRNO(p, "INVALID_CONTENT_LENGTH")
     ELSE [p EXCEPT !.content_length = t[1]]

-----------------------------------------------------------------------------
(* The first byte of a message, the method and the url.                    *)

NewStart(p) == [p EXCEPT !.flags = {}, !.content_length = ULLONG_MAX]

StartReq(p, c) ==
  IF c \in {CR, LF} THEN p
  ELSE IF c \notin DOMAIN FirstGuess THEN SET_ERRNO(NewStart(p), "INVALID_METHOD")
  ELSE CALLBACK_NOTIFY([NewStart(p) EXCEPT !.method = FirstGuess[c], !.index = 1,
                                           !.state = "req_method"], "message_begin")

StartRes(p, c) ==
  CASE c = "H" -> CALLBACK_NOTIFY(Goto(NewStart(p), "res_H"), "message_begin")
    [] c \in {CR, LF} -> CALLBACK_NOTIFY(NewStart(p), "message_begin")
    [] OTHER -> SET_ERRNO(NewStart(p), "INVALID_CONSTANT")

StartReqOrRes(p, c) ==
  IF c \in {CR, LF} THEN p
  ELSE IF c = "H" THEN CALLBACK_NOTIFY(Goto(NewStart(p), "res_or_resp_H"), "message_begin")
  ELSE StartReq([NewStart(p) EXCEPT !.type = "request", !.state = "start_req"], c)

ResOrRespH(p, c) ==
  CASE c = "T" -> [p EXCEPT !.type = "response", !.state = "res_HT"]
    [] c = "E" -> [p EXCEPT !.type = "request", !.method = "HEAD", !.index = 2,
                            !.state = "req_method"]
    [] OTHER -> SET_ERRNO(p, "INVALID_CONSTANT")

ReqMethod(p, c) ==
  LET name   == method_strings[p.method]
      others == {g \in OtherGuess : g[1] = p.method /\ g[2] = p.index /\ g[3] = c}
      next   == [p EXCEPT !.index = @ + 1]
  IN CASE p.index = Len(name) /\ c = SP -> Goto(next, "req_spaces_before_url")
       [] p.index < Len(name) /\ c = name[p.index + 1] -> next
       [] p.index < Len(name) /\ c # name[p.index + 1] /\ others # {} ->
            [next EXCEPT !.method = (CHOOSE g \in others : TRUE)[4]]
       [] OTHER -> SET_ERRNO(p, "INVALID_METHOD")

UrlByte(p, s, c) ==
  LET t == parse_url_char(s, c)
  IN IF t = "dead" THEN SET_ERRNO(MARK(p, "url", c), "INVALID_URL")
     ELSE Goto(MARK(p, "url", c), t)

SpacesBeforeUrl(p, c) ==
  IF c = SP THEN p
  ELSE UrlByte(p, IF p.method = "CONNECT" THEN "req_server_start" ELSE p.state, c)

(* A url that a line end follows is a request of HTTP/0.9. *)
Url(p, c) ==
  IF p.state \notin UrlMayEnd \/ c \notin {SP, CR, LF} THEN UrlByte(p, p.state, c)
  ELSE IF c = SP THEN CALLBACK_DATA(Goto(p, "req_http_start"), "url")
  ELSE CALLBACK_DATA([p EXCEPT !.http_major = 0, !.http_minor = 9,
                               !.state = IF c = CR THEN "req_line_almost_done"
                                         ELSE "header_field_start"], "url")

-----------------------------------------------------------------------------
(* The version and the status.                                             *)

FirstDigit(p, c, field, next, digits, error) ==
  IF c \in digits THEN [p EXCEPT ![field] = DigitTable[c], !.state = next]
  ELSE SET_ERRNO(p, error)

NextDigit(p, c, field, ends, error) ==
  IF \E m \in ends : c \in m[1] THEN Goto(p, Move(ends, c, p.state))
  ELSE IF c \in Digits /\ p[field] * 10 + DigitTable[c] <= 999
       THEN [p EXCEPT ![field] = @ * 10 + DigitTable[c]]
       ELSE SET_ERRNO(p, error)

Version(p, c) ==
  LET e == "INVALID_VERSION" IN
  CASE p.state = "req_first_http_major" ->
         FirstDigit(p, c, "http_major", "req_http_major", Digits \ {"0"}, e)
    [] p.state = "req_http_major" ->
         NextDigit(p, c, "http_major", {<<{"."}, "req_first_http_minor">>}, e)
    [] p.state = "req_first_http_minor" ->
         FirstDigit(p, c, "http_minor", "req_http_minor", Digits, e)
    [] p.state = "req_http_minor" ->
         NextDigit(p, c, "http_minor", {<<{CR}, "req_line_almost_done">>,
                                        <<{LF}, "header_field_start">>}, e)
    [] p.state = "res_first_http_major" ->
         FirstDigit(p, c, "http_major", "res_http_major", Digits, e)
    [] p.state = "res_http_major" ->
         NextDigit(p, c, "http_major", {<<{"."}, "res_first_http_minor">>}, e)
    [] p.state = "res_first_http_minor" ->
         FirstDigit(p, c, "http_minor", "res_http_minor", Digits, e)
    [] p.state = "res_http_minor" ->
         NextDigit(p, c, "http_minor", {<<{SP}, "res_first_status_code">>}, e)

VersionStates ==
  {"req_first_http_major", "req_http_major", "req_first_http_minor", "req_http_minor",
   "res_first_http_major", "res_http_major", "res_first_http_minor", "res_http_minor"}

Status(p, c) ==
  CASE p.state = "res_first_status_code" ->
         IF c = SP THEN p
         ELSE FirstDigit(p, c, "status_code", "res_status_code", Digits, "INVALID_STATUS")
    [] p.state = "res_status_code" ->
         NextDigit(p, c, "status_code",
                   {<<{SP}, "res_status">>, <<{CR}, "res_line_almost_done">>,
                    <<{LF}, "header_field_start">>}, "INVALID_STATUS")
    [] p.state = "res_status" ->
         Goto(p, Move({<<{CR}, "res_line_almost_done">>,
                       <<{LF}, "header_field_start">>}, c, "res_status"))
    [] p.state = "res_line_almost_done" ->
         IF c # LF THEN SET_ERRNO(p, "STRICT")
         ELSE CALLBACK_NOTIFY(Goto(p, "header_field_start"), "status_complete")

StatusStates == {"res_first_status_code", "res_status_code", "res_status",
                 "res_line_almost_done"}

-----------------------------------------------------------------------------
(* The end of the headers.  on_headers_complete always returns 0.          *)

HeadersDone_ChunkedIgnored(p, c) ==
  IF p.content_length \in {0, ULLONG_MAX} THEN MessageComplete([p EXCEPT !.nread = 0])
  ELSE Goto([p EXCEPT !.nread = 0], "body_identity")

HeadersDone(p, c) ==
  LET q == [p EXCEPT !.nread = 0] IN
  CASE c # LF -> SET_ERRNO(p, "STRICT")
    [] c = LF /\ p.upgrade -> [MessageComplete(q) EXCEPT !.returned = TRUE]
    [] c = LF /\ ~ p.upgrade ->
         IF "chunked" \in p.flags THEN Goto(q, "chunk_size_start")
         ELSE IF p.content_length \notin {0, ULLONG_MAX} THEN Goto(q, "body_identity")
         ELSE IF p.content_length = 0 \/ p.type = "request" \/ ~ http_message_needs_eof(p)
         THEN MessageComplete(q)
         ELSE Goto(q, "body_identity_eof")

(* Trailing headers end a chunked message. *)
HeadersAlmostDone(p, c) ==
  IF c # LF THEN SET_ERRNO(p, "STRICT")
  ELSE IF "trailing" \in p.flags THEN MessageComplete(p)
  ELSE HeadersDone(CALLBACK_NOTIFY(
         [p EXCEPT !.state = "headers_done",
                   !.upgrade = "upgrade" \in p.flags \/ p.method = "CONNECT"],
         "headers_complete"), c)

-----------------------------------------------------------------------------
(* A header.                                                               *)

HeaderFieldStart(p, c) ==
  CASE c = CR -> Goto(p, "headers_almost_done")
    [] c = LF -> HeadersAlmostDone(Goto(p, "headers_almost_done"), c)
    [] c \notin {CR, LF} ->
         IF TOKEN(c) = "" THEN SET_ERRNO(p, "INVALID_HEADER_TOKEN")
         ELSE [MARK(p, "header_field", c) EXCEPT
                 !.index = 0, !.state = "header_field",
                 !.header_state = IF TOKEN(c) \in DOMAIN FirstOfName
                                  THEN FirstOfName[TOKEN(c)] ELSE "general"]

HeaderField(p, c) ==
  IF TOKEN(c) # ""
  THEN [MARK(p, "header_field", c) EXCEPT
          !.index = @ + 1,
          !.header_state = NextOfName(@, p.index + 1, TOKEN(c))]
  ELSE IF c \in {":", CR, LF}
  THEN CALLBACK_DATA(Goto(p, Move({<<{":"}, "header_value_start">>,
                                   <<{CR}, "header_almost_done">>,
                                   <<{LF}, "header_field_start">>}, c, p.state)),
                     "header_field")
  ELSE SET_ERRNO(p, "INVALID_HEADER_TOKEN")

NoText(p) == [p EXCEPT !.mark = "header_value", !.text = <<>>]

HeaderValueStart(p, c) ==
  CASE c \in {SP, HT} -> p
    [] c = CR -> CALLBACK_DATA([NoText(p) EXCEPT !.header_state = "general",
                                 !.state = "header_almost_done"], "header_value")
    [] c = LF -> CALLBACK_DATA(Goto(NoText(p), "header_field_start"), "header_value")
    [] OTHER ->
         LET q == [MARK(p, "header_value", c) EXCEPT
                     !.index = 0, !.state = "header_value",
                     !.header_state = FirstOfValue(@, Lower(c)),
                     !.flags = IF p.header_state = "upgrade" THEN @ \cup {"upgrade"} ELSE @]
         IN IF p.header_state # "content_length" THEN q
            ELSE IF c \in Digits THEN [q EXCEPT !.content_length = DigitTable[c]]
            ELSE SET_ERRNO(q, "INVALID_CONTENT_LENGTH")

HeaderAlmostDone(p, c) ==
  IF c # LF THEN SET_ERRNO(p, "STRICT")
  ELSE [p EXCEPT !.flags = @ \cup FlagOf(p.header_state),
                 !.state = "header_value_lws"]

HeaderValue(p, c) ==
  LET q == [MARK(p, "header_value", c) EXCEPT
              !.index = @ + 1,
              !.header_state = NextOfValue(@, p.index + 1, Lower(c))]
  IN CASE c = CR -> CALLBACK_DATA(Goto(p, "header_almost_done"), "header_value")
       [] c = LF -> HeaderAlmostDone(
                      CALLBACK_DATA(Goto(p, "header_almost_done"), "header_value"), c)
       [] c \notin {CR, LF} ->
            IF p.header_state # "content_length" \/ c = SP THEN q
            ELSE IF c \in Digits THEN LengthDigit(q, DigitTable[c], 10)
            ELSE SET_ERRNO(q, "INVALID_CONTENT_LENGTH")

(* A line that begins with a blank continues the value. *)
HeaderValueLws(p, c) ==
  IF c \in {SP, HT} THEN Goto(p, "header_value_start")
  ELSE HeaderFieldStart(Goto(p, "header_field_start"), c)

-----------------------------------------------------------------------------
(* The body, one byte of which is taken at a time.  A failed assertion of  *)
(* the code is the error "assert".                                         *)

Taken(p, c) == [MARK(p, "body", c) EXCEPT !.content_length = @ - 1]

BodyIdentity_LastByteLost(p, c) ==
  IF p.content_length = 1 THEN MessageComplete(CALLBACK_DATA(p, "body"))
  ELSE Taken(p, c)

BodyIdentity(p, c) ==
  CASE p.content_length \in {0, ULLONG_MAX} -> SET_ERRNO(p, "assert")
    [] p.content_length = 1 -> MessageComplete(CALLBACK_DATA(Taken(p, c), "body"))
    [] OTHER -> Taken(p, c)

ChunkSizeStart(p, c) ==
  IF p.nread # 1 \/ "chunked" \notin p.flags THEN SET_ERRNO(p, "assert")
  ELSE IF Unhex(c) = -1 THEN SET_ERRNO(p, "INVALID_CHUNK_SIZE")
  ELSE [p EXCEPT !.content_length = Unhex(c), !.state = "chunk_size"]

ChunkSize(p, c) ==
  IF c = CR THEN Goto(p, "chunk_size_almost_done")
  ELSE IF Unhex(c) # -1 THEN LengthDigit(p, Unhex(c), 16)
  ELSE IF c \in {";", SP} THEN Goto(p, "chunk_parameters")
  ELSE SET_ERRNO(p, "INVALID_CHUNK_SIZE")

ChunkParameters(p, c) ==
  IF c = CR THEN Goto(p, "chunk_size_almost_done") ELSE p

ChunkSizeAlmostDone(p, c) ==
  CASE c # LF -> SET_ERRNO(p, "STRICT")
    [] c = LF /\ p.content_length = 0 ->
         [p EXCEPT !.nread = 0, !.flags = @ \cup {"trailing"},
                   !.state = "header_field_start"]
    [] c = LF /\ p.content_length # 0 -> [p EXCEPT !.nread = 0, !.state = "chunk_data"]

ChunkData(p, c) ==
  CASE p.content_length \in {0, ULLONG_MAX} -> SET_ERRNO(p, "assert")
    [] p.content_length = 1 -> Goto(Taken(p, c), "chunk_data_almost_done")
    [] OTHER -> Taken(p, c)

ChunkDataAlmostDone(p, c) ==
  CASE p.content_length # 0 -> SET_ERRNO(p, "assert")
    [] c # CR -> SET_ERRNO(p, "STRICT")
    [] OTHER  -> CALLBACK_DATA(Goto(p, "chunk_data_done"), "body")

ChunkDataDone(p, c) ==
  IF c # LF THEN SET_ERRNO(p, "STRICT")
  ELSE [p EXCEPT !.nread = 0, !.state = "chunk_size_start"]

Dead(p, c) == IF c \in {CR, LF} THEN p ELSE SET_ERRNO(p, "CLOSED_CONNECTION")

-----------------------------------------------------------------------------
(* http_parser_execute.                                                    *)

(* The switch over the states. *)
Switch(p, c) ==
  LET s == p.state IN
  CASE s = "dead"                   -> Dead(p, c)
    [] s = "start_req_or_res"       -> StartReqOrRes(p, c)
    [] s = "res_or_resp_H"          -> ResOrRespH(p, c)
    [] s = "start_res"              -> StartRes(p, c)
    [] s = "start_req"              -> StartReq(p, c)
    [] s = "req_method"             -> ReqMethod(p, c)
    [] s = "req_spaces_before_url"  -> SpacesBeforeUrl(p, c)
    [] s \in UrlStates              -> Url(p, c)
    [] s \in VersionStates          -> Version(p, c)
    [] s \in StatusStates           -> Status(p, c)
    [] s \in DOMAIN Given ->
         IF Move(Given[s][1], c, "none") = "none" THEN SET_ERRNO(p, Given[s][2])
         ELSE Goto(p, Move(Given[s][1], c, "none"))
    [] s = "header_field_start"     -> HeaderFieldStart(p, c)
    [] s = "header_field"           -> HeaderField(p, c)
    [] s = "header_value_start"     -> HeaderValueStart(p, c)
    [] s = "header_value"           -> HeaderValue(p, c)
    [] s = "header_almost_done"     -> HeaderAlmostDone(p, c)
    [] s = "header_value_lws"       -> HeaderValueLws(p, c)
    [] s = "headers_almost_done"    -> HeadersAlmostDone(p, c)
    [] s = "body_identity"          -> BodyIdentity(p, c)
    [] s = "body_identity_eof"      -> MARK(p, "body", c)
    [] s = "chunk_size_start"       -> ChunkSizeStart(p, c)
    [] s = "chunk_size"             -> ChunkSize(p, c)
    [] s = "chunk_parameters"       -> ChunkParameters(p, c)
    [] s = "chunk_size_almost_done" -> ChunkSizeAlmostDone(p, c)
    [] s = "chunk_data"             -> ChunkData(p, c)
    [] s = "chunk_data_almost_done" -> ChunkDataAlmostDone(p, c)
    [] s = "chunk_data_done"        -> ChunkDataDone(p, c)

BodyStates == {"chunk_data", "chunk_data_almost_done", "chunk_data_done",
               "body_identity", "body_identity_eof"}

PARSING_HEADER(p) == p.state \notin BodyStates

Step(p, c) ==
  LET q == IF PARSING_HEADER(p) THEN [p EXCEPT !.nread = @ + 1] ELSE p
  IN IF PARSING_HEADER(p) /\ q.nread > HTTP_MAX_HEADER_SIZE
     THEN SET_ERRNO(q, "HEADER_OVERFLOW")
     ELSE Switch(q, c)

(* A name, a value or a url that the last call left open goes on. *)
Resume(p) ==
  LET open == CASE p.state = "header_field" -> "header_field"
                [] p.state = "header_value" -> "header_value"
                [] p.state \in UrlStates    -> "url"
                [] OTHER -> "none"
  IN [p EXCEPT !.mark = open, !.text = <<>>, !.returned = FALSE]

AtEof(p) ==
  CASE p.state = "body_identity_eof" -> CALLBACK_NOTIFY(p, "message_complete")
    [] p.state \in {"dead", "start_req_or_res", "start_res", "start_req"} -> p
    [] OTHER -> SET_ERRNO(p, "INVALID_EOF_STATE")

Stopped(p) == p.http_errno # "OK" \/ p.returned

(* The bytes one after the other; by halves, to nest less deeply. *)
RECURSIVE Run(_, _)
Run(p, data) ==
  LET half == Len(data) \div 2
      left == Run(p, SubSeq(data, 1, half)) IN
  IF data = <<>> \/ Stopped(p) THEN p
  ELSE IF half = 0 THEN Step(p, data[1])
  ELSE IF Stopped(left) THEN left
  ELSE Run(left, SubSeq(data, half + 1, Len(data)))

(* The text that is left is given to its callback at the end of the data. *)
http_parser_execute(p, data) ==
  LET last == Run(Resume(p), data)
  IN IF p.http_errno # "OK" THEN p
     ELSE IF data = <<>> THEN AtEof(p)
     ELSE IF Stopped(last) THEN last
     ELSE CALLBACK_DATA(last, last.mark)
=============================================================================
