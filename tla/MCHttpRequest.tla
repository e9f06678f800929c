---------------------------- MODULE MCHttpRequest ---------------------------
(* Requests of every form the parser takes, and of some it refuses.        *)
EXTENDS HttpRequest, HttpUrl, TLC

T(word) == Chars(word)

(* Texts one after the other. *)
Join(texts) ==
  LET after[i \in 0 .. Len(texts)] ==
        IF i = 0 THEN <<>> ELSE after[i - 1] \o texts[i]
  IN after[Len(texts)]

(* A header is the text of its lines, and what it is for Names. *)
Plain(name, sep, value) ==
  [lines |-> T(name) \o T(sep) \o T(value),
   is |-> IF \E n \in Names : Chars(n) = LowerText(T(name))
          THEN {<<CHOOSE n \in Names : Chars(n) = LowerText(T(name)), T(value)>>}
          ELSE {}]

(* The headers, and whether they ask for the connection to be closed or kept. *)
HeaderSets(eol) ==
  { [h |-> <<>>, asks |-> "nothing"],
    [h |-> <<Plain("HoST", ":", "a:1"), Plain("Connection", ": ", "close")>>,
     asks |-> "close"],
    [h |-> <<Plain("X", ":", ""), Plain("connection", ": ", "Keep-Alive "),
             Plain("Referer", ": ", "u")>>, asks |-> "keep"],
    [h |-> <<Plain("Contents", ":", "7"), Plain("Proxy-X", ": ", "1" \o eol \o "\t2"),
             Plain("User-Agent", ": ", "Mo (z)")>>, asks |-> "nothing"] }

(* How the body is sent: more headers, the bytes after the headers, and    *)
(* the body; "never" when there is no end to it within InMax.              *)
Bodies(eol) ==
  { [h |-> <<>>, bytes |-> T(""), body |-> T(""), never |-> FALSE],
    [h |-> <<Plain("Content-Length", ": ", "0")>>, bytes |-> T(""),
     body |-> T(""), never |-> FALSE],
    [h |-> <<Plain("content-length", ":", "2")>>, bytes |-> T("{}"),
     body |-> T("{}"), never |-> FALSE],
    [h |-> <<Plain("Content-Length", ": ", "10")>>, bytes |-> T("{\"a\":1\r\n\r\n"),
     body |-> T("{\"a\":1\r\n\r\n"), never |-> FALSE],
    [h |-> <<Plain("Content-Length", ": ", "10000" \o "00")>>, bytes |-> T("{}"),
     body |-> T(""), never |-> TRUE],
    [h |-> <<Plain("Transfer-Encoding", ": ", "chunked")>>,
     bytes |-> T("1;x" \o "\r\n" \o "{" \o "\r\n" \o "1\r\n}\r\n" \o "0\r\n\r\n"),
     body |-> T("{}"), never |-> FALSE],
    [h |-> <<Plain("Content-Length", ":", "1"),
             Plain("Transfer-Encoding", ": ", "Chunked")>>,
     bytes |-> T("b\r\n{\"k\":\"abc\"}\r\n00\r\nHosts: z\r\n\r\n"),
     body |-> T("{\"k\":\"abc\"}"), never |-> FALSE] }

Versions == {"HTTP/1.1", "HTTP/1.0"}

LinesOf(hs, eol) == Join([i \in DOMAIN hs |-> hs[i].lines \o T(eol)])

HeadersOf(hs) ==
  LET all == UNION {hs[i].is : i \in DOMAIN hs}
  IN [n \in {p[1] : p \in all} |-> (CHOOSE p \in all : p[1] = n)[2]]

(* A request by its parts, and what follows it. *)
Request(url, version, eol, hset, b, next) ==
  LET hs == hset.h \o b.h
      first == T("POST ") \o T(url) \o T(" ") \o T(version) \o T(eol)
                 \o LinesOf(hs, eol) \o T(eol) \o b.bytes
      bytes == first \o T(next)
  IN [bytes |-> bytes,
      whole |-> Len(bytes) - Len(T(next)) + (IF b.never THEN InMax ELSE 0),
      url |-> T(url), body |-> b.body, headers |-> HeadersOf(hs), sent |-> {Refused},
      keep |-> IF version = "HTTP/1.1" THEN hset.asks # "close" ELSE hset.asks = "keep"]

Wellformed ==
  UNION { { Request("/api/md5", v, eol, hs, b, next) :
              v \in Versions, hs \in HeaderSets(eol), b \in Bodies(eol),
              next \in {"", "\r\nPOST /api/upload HTTP/1.1\r\nContent-Length: 1\r\n\r\nx"} }
          : eol \in {"\r\n", "\n"} }

(* Bytes that are not a request, and never one however many follow. *)
NoRequest(bytes, url) ==
  [bytes |-> T(bytes), whole |-> Len(T(bytes)) + 1, url |-> T(url), body |-> <<>>,
   headers |-> [n \in {} |-> <<>>], sent |-> {}, keep |-> FALSE]

Malformed ==
  { NoRequest("POSE /api/reg HTTP/1.1\r\n\r\n", "/api/reg"),
    NoRequest("GET api/reg HTTP/1.1\r\n\r\n", "/api/reg"),
    NoRequest("GET /api/reg HTTQ/1.1\r\n\r\n", "/api/reg"),
    NoRequest("GET /api/reg HTTP/1.x\r\n\r\n", "/api/reg"),
    NoRequest("GET /api/reg HTTP/1.1\r\nContent-Length: 1x\r\n\r\nab", "/api/reg"),
    NoRequest("GET /api/reg HTTP/1.1\r\nA B: 1\r\n\r\n", "/api/reg"),
    NoRequest("GET /api/reg HTTP/1.1\r\nTransfer-Encoding: chunked\r\n\r\nx\r\n", "/api/reg"),
    NoRequest("GET /api/reg HTTP/1.1\r\nTransfer-Encoding: chunked\r\n\r\n1\r\nab\r\n", "/api/reg"),
    NoRequest("GET /api/reg HTTP/1.1\r\nTransfer-Encoding: chunked\r\n\r\n10000\r\nab", "/api/reg") }

(* Requests of other methods, with other urls, and of HTTP/0.9. *)
Other(method, url, sent) ==
  LET bytes == T(method) \o T(" ") \o T(url) \o T(" HTTP/1.1\r\n\r\n")
  IN [bytes |-> bytes, whole |-> Len(bytes), url |-> T(url), body |-> <<>>,
      headers |-> [n \in {} |-> <<>>], sent |-> sent, keep |-> TRUE]

Old(url) ==
  [Other("GET", url, {Refused}) EXCEPT !.bytes = T("\r\nGET ") \o T(url) \o T("\r\n\r\n"),
                            !.whole = Len(T(url)) + 10, !.keep = FALSE]

(* The command that /api/sharepictures lacks may be one or none. *)
Others ==
  { Other("GET", "/api/register?a=b#c", {Refused}), Other("PUT", "/x", {}),
    Old("/api/login"), Other("PROPPATCH", "/api/md5", {Refused}),
    Other("GET", "http://u:p@h:1/api/md5", {}), Other("OPTIONS", "*", {}),
    Other("UNSUBSCRIBE", "/api/sharepictures", {Unread, Refused}),
    Other("GET", "/api/sharefiles?cmd=count", {Unread}) }

(* The fields of each request, by the url it is sent to. *)
Protocol ==
  { <<"/api/reg", <<"userName", "nickName", "firstPwd", "phone", "email">> >>,
    <<"/api/login", <<"user", "pwd">> >>,
    <<"/api/md5", <<"user", "token", "md5", "filename">> >>,
    <<"/api/dealfile?cmd=pv", <<"user", "token", "md5", "filename">> >>,
    <<"/api/dealsharefile?cmd=save", <<"user", "md5", "filename">> >>,
    <<"/api/myfiles?cmd=count", <<"user", "token">> >>,
    <<"/api/myfiles?cmd=pvasc", <<"user", "token", "start", "count">> >>,
    <<"/api/sharefiles?cmd=normal", <<"start", "count">> >>,
    <<"/api/sharepic?cmd=share", <<"token", "user", "md5", "filename">> >>,
    <<"/api/sharepic?cmd=normal", <<"token", "user", "start", "count">> >>,
    <<"/api/sharepic?cmd=cancel", <<"user", "urlmd5">> >>,
    <<"/api/sharepic?cmd=browse", <<"urlmd5">> >> }

Numbers == {"start", "count"}

(* How a value is written, and what it is. *)
Literal(i, n) ==
  IF n \in Numbers
  THEN <<[w |-> "10", is |-> T("10")], [w |-> "-2147483648", is |-> T("-2147483648")],
         [w |-> "007", is |-> T("7")], [w |-> "0", is |-> T("0")]>>[i]
  ELSE <<[w |-> "\"ann\"", is |-> T("ann")],
         [w |-> "\"\\\\\\\"\\/}\"", is |-> T("\\\"/}")],
         [w |-> "\"\\u0041\\u00e9\"", is |-> T("A") \o <<"xC3", "xA9">>],
         [w |-> "7", is |-> T("7")]>>[i]

(* How an object is written: backwards; what surrounds a name; what comes  *)
(* before each further member, and before and after all of them.           *)
Styles ==
  { [back |-> FALSE, colon |-> ":", comma |-> ",", open |-> "{", close |-> "}"],
    [back |-> TRUE, colon |-> " : ", comma |-> " ,\n", open |-> " {\t", close |-> " }\r\n"],
    [back |-> FALSE, colon |-> ":/*:*/", comma |-> ",//\n", open |-> "{\"x\":[{\"user\":[]}],",
     close |-> "}}"] }

MemberText(style, name, w) == T("\"") \o T(name) \o T("\"") \o T(style.colon) \o T(w)

ObjectText(style, names, Written(_)) ==
  LET n == Len(names)
      Nth(k) == IF style.back THEN names[n + 1 - k] ELSE names[k]
  IN T(style.open)
       \o Join([k \in 1 .. n |-> (IF k = 1 THEN <<>> ELSE T(style.comma))
                                    \o MemberText(style, Nth(k), Written(Nth(k)))])
       \o T(style.close)

Post(url, body, sent) ==
  LET first == T("POST ") \o T(url) \o T(" HTTP/1.1\r\nContent-Length: ")
                 \o T(ToString(Len(body))) \o T("\r\n\r\n")
  IN [bytes |-> first \o body, whole |-> Len(first) + Len(body), url |-> T(url), body |-> body,
      headers |-> [n \in {"content-length"} |-> T(ToString(Len(body)))], sent |-> {sent},
      keep |-> TRUE]

Complete ==
  { LET Written(n) == Literal(i, n).w
    IN Post(p[1], ObjectText(style, p[2], Written),
            Read([n \in {p[2][k] : k \in DOMAIN p[2]} |-> Literal(i, n).is])) :
      p \in Protocol, style \in Styles, i \in 1 .. 4 }

(* One value is missing in one way or another, or of another type. *)
Wrong ==
  { LET Written(n) == IF n = p[2][k] THEN w[1] ELSE Literal(1, n).w
    IN Post(p[1], ObjectText(style, p[2], Written),
            IF w[2] = "null" /\ p[2][k] \in {"phone", "email"}
            THEN Read([n \in {p[2][l] : l \in DOMAIN p[2]} \ {p[2][k]} |-> T("ann")])
            ELSE IF w[2] = "null" THEN Refused
            ELSE IF w[2] = "text" /\ p[2][k] \notin Numbers
            THEN Read([[n \in {p[2][l] : l \in DOMAIN p[2]} |-> Literal(1, n).is]
                         EXCEPT ![p[2][k]] = T(w[3])])
            ELSE Thrown) :
      <<p, k>> \in {<<q, l>> \in Protocol \X (1 .. 5) : l \in DOMAIN q[2]},
      style \in {s \in Styles : s.colon = ":"},
      w \in {<<"null", "null", "">>, <<"[]", "list", "">>,
             <<"2147483648", "text", "2147483648">>} }

(* Bodies that are not an object with the fields of a login. *)
NoLogin ==
  { Post("/api/login", T(b), Refused) :
      b \in {"{\"user\":\"a\",\"pwd\":\"b\"", "{\"user\":\"a\" \"pwd\":\"b\"}",
             "{\"user\":\"a\",\"pwd\":\"b\",}", "{\"user\"/**/:\"a\",\"pwd\":\"b\"}",
             "{'user':\"a\"}", "{\"user\":\"\\x\",\"pwd\":\"b\"}", "null", "{}", "",
             "{\"user\":\"\\u12\",\"pwd\":\"b\"}", "nul", "{\"a\":[1,]}", "{1:2}", "/*"} }
  \cup { Post("/api/login", T(b), Thrown) : b \in {"[]", "\"user\"", "1", "-1.5e3", "true"} }

MCStreams ==
  Wellformed \cup Malformed \cup Others \cup Complete \cup Wrong \cup NoLogin

(* The names of the methods are recognised letter by letter, and nothing   *)
(* else is; one of them is not recognised by its own name (MSEARCH, whose  *)
(* spelling in HTTP_METHOD_MAP has blanks).                                *)
Recognised(name) ==
  LET p == http_parser_execute(http_parser_init("request"), name \o T(" /"))
  IN IF p.http_errno = "OK" THEN {p.method} ELSE {}

ASSUME MethodsRecognised ==
  /\ \A m \in Methods \ {"MSEARCH"} : Recognised(T(m)) = {m}
  /\ Recognised(T("M-SEARCH")) = {}
  /\ \A m \in Methods : \A i \in 2 .. Len(T(m)) : \A c \in Uppers \cup {"-"} :
       LET name == [T(m) EXCEPT ![i] = c] IN
       Recognised(name) = {n \in Methods \ {"MSEARCH"} : T(n) = name}

(* A url that is put together from fields is split in the same fields,     *)
(* unless its port is too large, or a fragment follows the host at once.   *)
Opt(before, word, after) == IF word = "" THEN "" ELSE before \o word \o after

ASSUME UrlsAreSplit ==
  \A s \in {"", "http"}, us \in {"", "u:p;"}, h \in {"a.b", "[1::a]"},
     port \in {"", "8", "65535", "65536"}, path \in {"", "/", "/*/a:b"},
     q \in {"", "k=v&?"}, f \in {"", "x?#"} :
    s # "" \/ path # "" =>
      LET server == s \o "://" \o Opt("", us, "@") \o h \o Opt(":", port, "")
          url    == (IF s = "" THEN "" ELSE server) \o path \o Opt("?", q, "") \o Opt("#", f, "")
          parts  == [schema |-> s, userinfo |-> IF s = "" THEN "" ELSE us,
                     host |-> IF s = "" THEN "" ELSE IF h = "a.b" THEN h ELSE "1::a",
                     port |-> IF s = "" THEN "" ELSE port, path |-> path,
                     query |-> q, fragment |-> f]
          u == http_parser_parse_url(T(url), FALSE)
      IN /\ u.failed <=> \/ s # "" /\ port = "65536"
                         \/ path = "" /\ q = "" /\ f # ""
         /\ ~ u.failed => \A k \in Fields : /\ k \in u.set <=> parts[k] # ""
                                            /\ u.text[k] = T(parts[k])

(* What FastWriter writes is read back as it was, and none of it but all   *)
(* of it is read as an object or a list.                                   *)
Plainest == {nullValue, booleanValue(TRUE), booleanValue(FALSE), intValue(T("0")),
             intValue(T("-12"))}
            \cup {stringValue(t) : t \in {<<>>, T("a/"), <<"\"", "\\", "x08", "\f">>,
                                         <<LF, CR, HT, "x01", "x1F", "x7F", "xC3", "xA9">>}}

Nested ==
  {arrayValue(s) : s \in UNION {[1 .. n -> Plainest] : n \in 0 .. 2}}
    \cup UNION {{objectValue(m) : m \in [ns -> Plainest]} :
                 ns \in SUBSET {T("a"), T("ab"), T("B\"")} \ {{T("a"), T("ab"), T("B\"")}}}

ASSUME WrittenIsReadBack ==
  /\ \A v \in Plainest \cup Nested \cup {arrayValue(<<v>>) : v \in Nested} :
       LET r == parse(write(v)) IN r.ok /\ r.value = v
  /\ \A v \in Nested : \A k \in 0 .. Len(writeValue(v)) - 1 :
       ~ parse(SubSeq(writeValue(v), 1, k)).ok
=============================================================================
