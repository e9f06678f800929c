----------------------------- MODULE HttpRequest ----------------------------
(***************************************************************************)
(* A request on its way to its handler: base/http_parser_wrapper.cc, which *)
(* collects what the parser finds, and CHttpConn::OnRead (http_conn.cc),   *)
(* which parses all the bytes of the connection anew at every read and     *)
(* chooses the handler by the url.                                         *)
(*                                                                         *)
(* A client sends a stream: a request, known by its structure as well as   *)
(* by its bytes, and whatever it sends after it.  The stream arrives in    *)
(* pieces.  That the answer closes the connection is HttpConn's business;  *)
(* here it may happen at any time after the request has been executed.     *)
(* What the handler then reads from the body is a function of the call     *)
(* (RequestBody).                                                          *)
(***************************************************************************)
EXTENDS HttpParser, RequestBody

CONSTANTS
  Streams,   \* bound: what the client may send, see StreamShape
  InMax,     \* the bytes OnRead accepts (2048 in the code)
  UINT_MAX   \* bound: 2^32 - 1 in the code

(* The headers the wrapper looks for. *)
Names == {"referer", "x-forwarded-for", "user-agent", "content-type",
          "content-length", "host"}

(***************************************************************************)
(* A stream: its bytes; the length of the request they begin with (more    *)
(* than the bytes there are, if there is no request); the request's url,   *)
(* body and headers; what the client means the handler to read from the    *)
(* body; and whether it asks for the connection to be kept.                *)
(***************************************************************************)
StreamShape(s) ==
  /\ DOMAIN s = {"bytes", "whole", "url", "body", "headers", "sent",
                 "keep"}
  /\ s.bytes \in Seq(STRING)
  /\ s.whole \in Nat \ {0}
  /\ s.url \in Seq(STRING) /\ s.body \in Seq(STRING)
  /\ DOMAIN s.headers \subseteq Names
  /\ s.sent \subseteq {Refused, Thrown, Unread}
       \cup {Read(o.fields) : o \in {t \in s.sent : t.is = "read"}}
  /\ s.keep \in BOOLEAN

(* No number that overflows looks like a length that can be read. *)
ASSUME RequestAssumption ==
  /\ \A s \in Streams : StreamShape(s)
  /\ InMax \in Nat
  /\ UINT_MAX \in Nat
  /\ 16 * InMax < ULLONG_MAX

VARIABLES
  stream,    \* what the client sends
  got,       \* how much of it is in in_buf_
  executed,  \* what the handlers were called with, in order
  open       \* the connection is open

vars == <<stream, got, executed, open>>

-----------------------------------------------------------------------------
(* CHttpParserWrapper.                                                     *)

Cleared ==
  [read_all |-> FALSE, url |-> <<>>, body |-> <<>>, total_length |-> 0,
   reading |-> {}, value |-> [n \in Names |-> <<>>]]

(* The digits atoi reads; a length of 0 counts as not read. *)
Atoi(v) == SubSeq(v, 1, CHOOSE k \in 0 .. Len(v) :
             /\ \A i \in 1 .. k : v[i] \in Digits
             /\ k = Len(v) \/ v[k + 1] \notin Digits)

HasRead(w, n) ==
  IF n = "content-length"
  THEN \E i \in DOMAIN w.value[n] : w.value[n][i] # "0"
  ELSE w.value[n] # <<>>

(* The names are compared up to the length of the one looked for. *)
OnHeaderField(w, name) ==
  [w EXCEPT !.reading = @ \cup {n \in Names : ~ HasRead(w, n)
                                 /\ StartsWith(LowerText(name), Chars(n))}]

MAX_REFERER_LEN == 32

OnHeaderValue(w, v) ==
  [w EXCEPT
     !.reading = {},
     !.value = [n \in Names |->
       IF n \notin w.reading THEN @[n]
       ELSE IF n = "content-length" THEN Atoi(v)
       ELSE IF n = "referer" /\ Len(v) > MAX_REFERER_LEN
       THEN @[n] \o SubSeq(v, 1, MAX_REFERER_LEN)
       ELSE @[n] \o v]]

(* total_length_ has 32 bits: without a length it is one less than nread. *)
OnHeadersComplete(w, nread, length) ==
  [w EXCEPT !.total_length =
     (nread + (length % (UINT_MAX + 1))) % (UINT_MAX + 1)]

OnUrl(w, text)  == [w EXCEPT !.url = @ \o text]
OnBody(w, text) == [w EXCEPT !.body = @ \o text]

OnMessageComplete(w) == [w EXCEPT !.read_all = TRUE]

(* The callbacks the wrapper has set. *)
OnCallback(w, cb) ==
  CASE cb.on = "url"              -> OnUrl(w, cb.text)
    [] cb.on = "header_field"     -> OnHeaderField(w, cb.text)
    [] cb.on = "header_value"     -> OnHeaderValue(w, cb.text)
    [] cb.on = "headers_complete" -> OnHeadersComplete(w, cb.nread, cb.content_length)
    [] cb.on = "body"             -> OnBody(w, cb.text)
    [] cb.on = "message_complete" -> OnMessageComplete(w)
    [] OTHER -> w

ParseHttpContent(buf) ==
  LET cbs == http_parser_execute(http_parser_init("request"), buf).callbacks
      after[i \in 0 .. Len(cbs)] ==
        IF i = 0 THEN Cleared ELSE OnCallback(after[i - 1], cbs[i])
  IN after[Len(cbs)]

-----------------------------------------------------------------------------
(* CHttpConn::OnRead.                                                      *)

(* The urls are compared up to these lengths, in this order. *)
Routes ==
  <<Chars("/api/reg"), Chars("/api/login"), Chars("/api/myfil"),
    Chars("/api/sharefiles"), Chars("/api/dealfile"), Chars("/api/dealsharefile"),
    Chars("/api/sharepic"), Chars("/api/md5"), Chars("/api/upload")>>

(* The functions of api/ behind them. *)
Apis == <<"reg", "login", "myfiles", "sharefiles", "dealfile", "dealsharefile",
          "sharepic", "md5", "upload">>

Known(url) == \E i \in DOMAIN Routes : StartsWith(url, Routes[i])

Handler(url) ==
  CHOOSE i \in DOMAIN Routes :
    /\ StartsWith(url, Routes[i])
    /\ \A j \in 1 .. i - 1 : ~ StartsWith(url, Routes[j])

Call(w, len) ==
  [handler |-> Handler(w.url), url |-> w.url, body |-> w.body,
   headers |-> w.value, upto |-> len]

Init ==
  /\ stream \in Streams
  /\ got = 0
  /\ executed = <<>>
  /\ open = TRUE

TooMuch(len) == len > InMax

(* n more bytes have arrived when OnRead reads all there is. *)
OnRead(n) ==
  /\ open
  /\ n > 0
  /\ got + n <= Len(stream.bytes)
  /\ got' = got + n
  /\ \/ TooMuch(got') /\ open' = FALSE /\ UNCHANGED executed
     \/ /\ ~ TooMuch(got')
        /\ \E w \in {ParseHttpContent(SubSeq(stream.bytes, 1, got'))} :
             \/ ~ w.read_all /\ UNCHANGED <<executed, open>>
             \/ /\ w.read_all /\ Known(w.url)
                /\ executed' = Append(executed, Call(w, got'))
                /\ UNCHANGED open
             \/ /\ w.read_all /\ ~ Known(w.url)
                /\ open' = FALSE
                /\ UNCHANGED executed
  /\ UNCHANGED stream

(* The answer is sent and the connection closed. *)
Answer ==
  /\ open
  /\ executed # <<>>
  /\ open' = FALSE
  /\ UNCHANGED <<stream, got, executed>>

(* Bytes arrive one by one, or all that are left. *)
Next == OnRead(1) \/ OnRead(Len(stream.bytes) - got) \/ Answer

Spec == Init /\ [][Next]_vars

-----------------------------------------------------------------------------
(* Properties.                                                             *)

(* Whatever its bytes and however they are cut, a request is executed at   *)
(* every read after its last byte and at none before (OnRead with the      *)
(* whole of http_parser_execute).                                          *)
Arrival == INSTANCE RequestArrival
             WITH whole <- stream.whole, known <- Known(stream.url),
                  executed <- Len(executed)

ArrivesWhole == Arrival!Spec

(* After the request, the client had sent nothing but line ends, or the    *)
(* request ends what the parser takes from the connection.                 *)
Alone(call) ==
  \/ ~ stream.keep
  \/ \A i \in stream.whole + 1 .. call.upto : stream.bytes[i] \in {CR, LF}

(* A handler gets the url and the body of the request on the connection,   *)
(* with the headers the wrapper looks for; requests sent in a row are      *)
(* executed as the first, with the later urls and bodies appended to its   *)
(* own (OnUrl, OnBody: the answer to them is the answer to the first).     *)
HandlerGetsRequest ==
  \A i \in DOMAIN executed :
    LET call == executed[i] IN
    /\ call.handler = Handler(stream.url)
    /\ StartsWith(call.url, stream.url) /\ StartsWith(call.body, stream.body)
    /\ Alone(call) =>
         /\ call.url = stream.url /\ call.body = stream.body
         /\ \A n \in DOMAIN stream.headers : call.headers[n] = stream.headers[n]

(* However the request was cut, and however the client writes its JSON,    *)
(* the handler reads from the body what the client has put in it: its      *)
(* fields, or that one is missing, or that one is of a type that makes     *)
(* jsoncpp throw (Reader::parse and the decoders, for every handler and    *)
(* command; a url that does not name its command may be read as any).      *)
HandlerReadsFields ==
  \A i \in DOMAIN executed :
    Alone(executed[i]) =>
      {TakeBody(Apis[executed[i].handler], cmd, executed[i].body) :
         cmd \in CommandsOf(executed[i].url)} = stream.sent
=============================================================================
