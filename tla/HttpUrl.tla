------------------------------- MODULE HttpUrl ------------------------------
(***************************************************************************)
(* http_parser_parse_url of base/http_parser.cc, which splits a url in its *)
(* fields with the states the parser validates it with.  The server calls  *)
(* it nowhere; it is part of the parser's interface.                       *)
(*                                                                         *)
(* A field is the text it covers, in the order of the url; a field that is *)
(* not in the result is not set.                                           *)
(***************************************************************************)
EXTENDS HttpParser

Fields == {"schema", "host", "port", "path", "query", "fragment", "userinfo"}

(* The field a character belongs to, by the state it leads to. *)
FieldOf ==
  [req_schema |-> "schema", req_server_with_at |-> "host", req_server |-> "host",
   req_path |-> "path", req_query_string |-> "query", req_fragment |-> "fragment"]

(* The states whose last character only divides fields. *)
Delimiters == {"req_schema_slash", "req_schema_slash_slash", "req_server_start",
               "req_query_string_start", "req_fragment_start"}

(* Another character of a field: a field that is met again starts again. *)
Extend(u, f, c) ==
  [u EXCEPT !.set = @ \cup {f}, !.at = f,
            !.text = [@ EXCEPT ![f] = IF u.at = f THEN Append(@, c) ELSE <<c>>]]

NoUrl == [failed |-> FALSE, set |-> {}, at |-> "none", found_at |-> FALSE,
          text |-> [f \in Fields |-> <<>>]]

Failed == [NoUrl EXCEPT !.failed = TRUE]

(* One character of the url, after which the state is s. *)
UrlField(u, s, c) ==
  IF s \in Delimiters THEN u
  ELSE Extend([u EXCEPT !.found_at = @ \/ s = "req_server_with_at"], FieldOf[s], c)

-----------------------------------------------------------------------------
(* http_parse_host: the field "host" is split further.                     *)

IS_HEX == Digits \cup SetOf("abcdefABCDEF")

HostMoves ==
  LET inUserinfo == {<<{"@"}, "host_start">>, <<IS_USERINFO_CHAR, "userinfo">>}
      afterHost  == {<<{":"}, "port_start">>}
      inV6       == {<<IS_HEX \cup {":", "."}, "host_v6">>}
      inPort     == {<<Digits, "port">>}
  IN [userinfo_start |-> inUserinfo, userinfo |-> inUserinfo,
      host_start |-> {<<{"["}, "host_v6_start">>, <<IS_HOST_CHAR, "host">>},
      host |-> {<<IS_HOST_CHAR, "host">>} \cup afterHost,
      host_v6_end |-> afterHost,
      host_v6 |-> {<<{"]"}, "host_v6_end">>} \cup inV6,
      host_v6_start |-> inV6,
      port_start |-> inPort, port |-> inPort,
      dead |-> {}]

http_parse_host_char(s, c) == Move(HostMoves[s], c, "dead")

(* The fields of the parts of a host; other states only divide. *)
HostField == [host |-> "host", host_v6 |-> "host", port |-> "port",
              userinfo |-> "userinfo"]

HostStep(h, c) ==
  LET s == http_parse_host_char(h.state, c)
      f == HostField[s]
  IN IF s \notin DOMAIN HostField THEN [h EXCEPT !.state = s]
     ELSE [state |-> s,
           u |-> [h.u EXCEPT !.set = @ \cup {f},
                    !.text = [@ EXCEPT ![f] = IF h.state = s THEN Append(@, c) ELSE <<c>>]]]

http_parse_host(u) ==
  LET buf == u.text["host"]
      after[i \in 0 .. Len(buf)] ==
        IF i = 0
        THEN [state |-> IF u.found_at THEN "userinfo_start" ELSE "host_start",
              u |-> [u EXCEPT !.text = [@ EXCEPT !["host"] = <<>>]]]
        ELSE HostStep(after[i - 1], buf[i])
      last == after[Len(buf)]
  IN IF last.state \in {"dead", "host_start", "host_v6_start", "host_v6", "port_start",
                        "userinfo", "userinfo_start"}
     THEN Failed ELSE last.u

-----------------------------------------------------------------------------

strtoul(text) ==
  LET after[i \in 0 .. Len(text)] ==
        IF i = 0 THEN 0 ELSE after[i - 1] * 10 + DigitTable[text[i]]
  IN after[Len(text)]

PortFits(u) == "port" \in u.set => strtoul(u.text["port"]) <= 65535

UrlStep(x, c) ==
  LET s == IF x.state = "dead" THEN "dead" ELSE parse_url_char(x.state, c)
  IN [state |-> s, u |-> IF s = "dead" THEN Failed ELSE UrlField(x.u, s, c)]

http_parser_parse_url(buf, is_connect) ==
  LET after[i \in 0 .. Len(buf)] ==
        IF i = 0
        THEN [state |-> IF is_connect THEN "req_server_start" ELSE "req_spaces_before_url",
              u |-> NoUrl]
        ELSE UrlStep(after[i - 1], buf[i])
      u == after[Len(buf)].u
      v == IF u.set \cap {"schema", "host"} # {} THEN http_parse_host(u) ELSE u
  IN IF u.failed \/ v.failed \/ ~ PortFits(v)
          \/ (is_connect /\ v.set # {"host", "port"})
     THEN Failed ELSE v
=============================================================================
