------------------------------- MODULE Routing -------------------------------
(***************************************************************************)
(* How the handler answers a request (v3/sockjs: NewHandler, ServeHTTP and *)
(* fillMappingsWithAllowedMethods of handler.go, mapping.go, web.go and    *)
(* the /info endpoint of options.go).                                      *)
(*                                                                         *)
(* A path, once the prefix is stripped, is the sequence of its segments:   *)
(* "" is <<>>, "/" is <<"">>, "/info" is <<"info">>.  A pattern is the     *)
(* predicate on paths that its regular expression is.  The handlers of a   *)
(* chain run one after the other on one response; as in net/http, headers  *)
(* set after the response was committed have no effect.                    *)
(*                                                                         *)
(* The v2 package (sockjs/handler.go; mapping.go and web.go are the same)  *)
(* puts the prefix into its patterns instead of stripping it: they match   *)
(* wherever in the path the prefix occurs.  `prefix' is that prefix, <<>>  *)
(* in v3, where ServeHTTP has stripped it; `v2' says which package it is.  *)
(***************************************************************************)
EXTENDS Integers, SequencesExt, FiniteSetsExt

CONSTANTS
    OptionSets,     \* the Options that NewHandler may be given
    PathPrefixes,   \* the prefixes that v2's newHandler may be given
    Requests        \* the requests: method, path and the headers Origin,
                    \* Access-Control-Request-Headers and If-None-Match ("" when not set)

Methods    == {"GET", "POST", "OPTIONS", "PUT"}
Transports == {"xhr", "xhr_streaming", "eventsource", "htmlfile", "jsonp", "websocket", "raw"}

\* Options: a transport is in "enabled" unless Disable<Transport> is set;
\* websocket and raw are switched on by Websocket and RawWebsocket.
\* CheckOrigin is nil unless "checked"; then it accepts the origins "accepts".
OptionType(o) ==
    /\ o.enabled \subseteq Transports
    /\ o.checked \in BOOLEAN
    /\ o.jsessionID \in BOOLEAN
    /\ o.origin \in STRING
    /\ \A a \in o.accepts : a \in STRING

RequestType == [method : Methods, path : Seq(STRING), origin : STRING, headers : STRING,
                etag : STRING]

ASSUME RoutingAssumption ==
    /\ \A o \in OptionSets : OptionType(o)
    /\ Requests \subseteq RequestType
    /\ PathPrefixes \subseteq Seq(STRING \ {""})

VARIABLES
    v2,             \* the handler is the one of the v2 package
    prefix,         \* what the patterns begin with
    options,        \* Handler.options, <<>> before NewHandler
    mappings,       \* Handler.mappings
    exchange        \* the request at work and its response

vars == <<v2, prefix, options, mappings, exchange>>

NoExchange == [request |-> <<>>]

Init ==
    /\ v2 \in BOOLEAN
    /\ prefix = <<>>
    /\ options = <<>>
    /\ mappings = <<>>
    /\ exchange = NoExchange

-----------------------------------------------------------------------------
(* Patterns.                                                                *)

Plain(s) == s \notin {"", "a.b", "iframe.html"}     \* [^/.]+ : not empty and no dot

sessionPrefix(p) == Len(p) >= 2 /\ Plain(p[1]) /\ Plain(p[2])

\* sessionPrefix, "/", a name and "$".
Wrong_SessionPath(name, p) == Len(p) = 3 /\ p[1] # "" /\ p[2] # "" /\ p[3] = name   \* dots pass
SessionPath(name, p)       == Len(p) = 3 /\ sessionPrefix(p) /\ p[3] = name

\* Whether the regular expression of a mapping matches; those of a session's
\* paths are called after their last segment.
MatchString(re, p) ==
    CASE re = "root"      -> p \in {<<>>, <<"">>}       \* ^[/]?$
      [] re = "info"      -> p = <<"info">>
      [] re = "iframe"    -> p = <<"iframe.html">>      \* ^/iframe[0-9-.a-z_]*.html$
      [] re = "raw"       -> p = <<"websocket">>        \* ^/websocket$
      [] OTHER            -> SessionPath(re, p)

\* Where p goes on after an occurrence of the prefix; a pattern without a prefix
\* is anchored with "^".
After(p, i) == SubSeq(p, i + Len(prefix) + 1, Len(p))

Occurrences(p) == {i \in 0 .. Len(p) - Len(prefix) :
                     SubSeq(p, i + 1, i + Len(prefix)) = prefix}

\* Whether a pattern matches a path as the handler sees it: in v3, the pattern
\* itself; in v2, anywhere after an occurrence of the prefix.
MatchPath(re, p) == \E i \in Occurrences(p) : /\ prefix = <<>> => i = 0
                                             /\ MatchString(re, After(p, i))

\* The id of the session, or "" with an error.
parseSessionID(p) == IF sessionPrefix(p) THEN p[2] ELSE ""

\* The pattern is not anchored, without a prefix either: the first match counts,
\* whatever follows it.
v2_Candidates(p) ==
    {i \in Occurrences(p) : Len(After(p, i)) >= 3 /\ sessionPrefix(After(p, i))}

v2_parseSessionID(p) ==
    IF v2_Candidates(p) = {} THEN "" ELSE After(p, Min(v2_Candidates(p)))[2]

newMapping(method, re, chain) == [method |-> method, path |-> re, chain |-> chain]

\* The chains of the session's paths.
Served(hf) == <<"cookie", "xhrCors", "noCache", hf>>

Preflighted == <<"cookie", "xhrCors", "cacheFor", "xhrOptions">>

iframeMapping == newMapping("GET", "iframe", <<"cacheFor", "iframe">>)
eventSourceMapping == newMapping("GET", "eventsource", Served("eventSource"))
htmlFileMapping == newMapping("GET", "htmlfile", Served("htmlFile"))

defaultMappings ==
    <<newMapping("GET", "root", <<"welcomeHandler">>),
      newMapping("OPTIONS", "info", <<"cookie", "xhrCors", "cacheFor", "info">>),
      newMapping("GET", "info", <<"cookie", "xhrCors", "noCache", "info">>),
      iframeMapping>>

xhrMappings ==
    <<newMapping("POST", "xhr", Served("xhrPoll")),
      newMapping("OPTIONS", "xhr", Preflighted)>>

xhrStreamingMappings ==
    <<newMapping("POST", "xhr_streaming", Served("xhrStreaming")),
      newMapping("OPTIONS", "xhr_streaming", Preflighted)>>

jsonpMappings ==
    <<newMapping("GET", "jsonp", Served("jsonp")),
      newMapping("OPTIONS", "jsonp", Preflighted),
      newMapping("POST", "jsonp_send", Served("jsonpSend"))>>

xhrSendMappings ==
    <<newMapping("POST", "xhr_send", Served("xhrSend")),
      newMapping("OPTIONS", "xhr_send", Preflighted)>>

NeedsXhrSend(o) == o.enabled \cap {"xhr", "xhr_streaming"} # {}

If(condition, maps) == IF condition THEN maps ELSE <<>>

fillMappingsWithAllowedMethods(o) ==
    defaultMappings
      \o If("xhr" \in o.enabled, xhrMappings)
      \o If("xhr_streaming" \in o.enabled, xhrStreamingMappings)
      \o If("eventsource" \in o.enabled, <<eventSourceMapping>>)
      \o If("htmlfile" \in o.enabled, <<htmlFileMapping>>)
      \o If("jsonp" \in o.enabled, jsonpMappings)
      \o If(NeedsXhrSend(o), xhrSendMappings)

Wrong_websocketMappings(o) ==                           \* one option for both endpoints
    If("websocket" \in o.enabled, <<newMapping("GET", "websocket", <<"sockjsWebsocket">>),
                                    newMapping("GET", "raw", <<"rawWebsocket">>)>>)

websocketMappings(o) ==
    If("websocket" \in o.enabled, <<newMapping("GET", "websocket", <<"sockjsWebsocket">>)>>)
      \o If("raw" \in o.enabled, <<newMapping("GET", "raw", <<"rawWebsocket">>)>>)

NewHandler(o) ==
    /\ ~v2
    /\ options = <<>>
    /\ options' = o
    /\ mappings' = fillMappingsWithAllowedMethods(o) \o websocketMappings(o)
    /\ UNCHANGED <<v2, prefix, exchange>>

\* v2 cannot disable the HTTP transports, and sets no cookie with /info.
v2_Transports == Transports \ {"websocket", "raw"}

v2_mappings ==
    <<newMapping("GET", "root", <<"welcomeHandler">>),
      newMapping("OPTIONS", "info", <<"cookie", "xhrCors", "cacheFor", "info">>),
      newMapping("GET", "info", <<"xhrCors", "noCache", "info">>)>>
      \o xhrSendMappings \o xhrMappings \o xhrStreamingMappings
      \o <<eventSourceMapping, htmlFileMapping>> \o jsonpMappings \o <<iframeMapping>>

v2_newHandler(o, p) ==
    /\ v2
    /\ options = <<>>
    /\ v2_Transports \subseteq o.enabled
    /\ options' = o
    /\ prefix' = p
    /\ mappings' = v2_mappings \o websocketMappings(o)
    /\ UNCHANGED <<v2, exchange>>

-----------------------------------------------------------------------------
(* One response.                                                            *)

NoResponse == [status |-> 0, handler |-> "", allow |-> <<>>, allowOrigin |-> "",
               allowHeaders |-> "", allowMethods |-> {}, cache |-> "", cookie |-> FALSE,
               websocket |-> FALSE, etag |-> ""]

Set(resp, field, value) == IF resp.status # 0 THEN resp ELSE [resp EXCEPT ![field] = value]
Write(resp, status, hf) == IF resp.status # 0 THEN resp
                           ELSE [resp EXCEPT !.status = status, !.handler = hf]

OrAny(origin) == IF origin = "" THEN "*" ELSE origin

corsEnabled(o, req) == ~o.checked \/ req.origin \in o.accepts

corsOrigin(o, req) ==
    IF o.checked THEN OrAny(req.origin)
    ELSE LET chosen == IF o.origin = "" THEN req.origin ELSE o.origin
         IN  IF chosen = "null" THEN "*" ELSE OrAny(chosen)

xhrCors(o, resp, req) ==
    IF ~corsEnabled(o, req) THEN resp
    ELSE LET allowed == Set(resp, "allowOrigin", corsOrigin(o, req))
         IN  IF req.headers \in {"", "null"} THEN allowed
             ELSE Set(allowed, "allowHeaders", req.headers)

Wrong_xhrOptions(resp) == Write(Set(resp, "allowMethods", {"OPTIONS", "GET"}), 204, "xhrOptions")
xhrOptions(resp)       == Write(Set(resp, "allowMethods", {"OPTIONS", "POST"}), 204, "xhrOptions")

websocketInfo(o) == "websocket" \in o.enabled

info(o, resp, req) ==
    CASE req.method = "GET" -> Write(Set(resp, "websocket", websocketInfo(o)), 200, "info")
      [] req.method = "OPTIONS" -> Write(Set(resp, "allowMethods", {"OPTIONS", "GET"}), 204, "info")
      [] OTHER -> Write(resp, 404, "NotFound")

\* The iframe page and its hash never change.
Hash == "hash"

iframe(resp, req) == IF req.etag = Hash THEN Write(resp, 304, "iframe")
                     ELSE Write(Set(resp, "etag", Hash), 200, "iframe")

\* The effect of one handler of a chain, made from the options o, on the
\* response.  The endpoints that other modules are about commit it with their
\* first write; 200 stands for whatever status they choose.
Apply(o, hf, resp, req) ==
    CASE hf = "cookie"     -> Set(resp, "cookie", o.jsessionID)
      [] hf = "xhrCors"    -> xhrCors(o, resp, req)
      [] hf = "cacheFor"   -> Set(resp, "cache", "year")
      [] hf = "noCache"    -> Set(resp, "cache", "no-store")
      [] hf = "xhrOptions" -> xhrOptions(resp)
      [] hf = "info"       -> info(o, resp, req)
      [] hf = "iframe"     -> iframe(resp, req)
      [] OTHER             -> Write(resp, 200, hf)

Run(o, chain, req) ==
    LET after[i \in 0 .. Len(chain)] ==
          IF i = 0 THEN NoResponse ELSE Apply(o, chain[i], after[i - 1], req)
    IN  after[Len(chain)]

Wrong_matches(m, req) ==                                \* the request's method is listed
    [match |-> IF ~MatchPath(m.path, req.path) THEN "noMatch"
               ELSE IF m.method # req.method THEN "pathMatch" ELSE "fullMatch",
     method |-> req.method]

matches(m, req) ==
    IF ~MatchPath(m.path, req.path) THEN [match |-> "noMatch", method |-> ""]
    ELSE IF m.method # req.method THEN [match |-> "pathMatch", method |-> m.method]
    ELSE [match |-> "fullMatch", method |-> m.method]

\* The places in the list of the mappings that match a request so.
Matching(match, req) == {i \in DOMAIN mappings : matches(mappings[i], req).match = match}

\* The answer of ServeHTTP: the first full match, else 405 with the methods of
\* the path's mappings, in the order of their places, else 404.
Answer(req) ==
    LET full    == Matching("fullMatch", req)
        allowed == Matching("pathMatch", req)
    IN  IF full # {} THEN Run(options, mappings[Min(full)].chain, req)
        ELSE IF allowed # {}
        THEN Write(Set(NoResponse, "allow", [i \in allowed |-> matches(mappings[i], req).method]),
                   405, "MethodNotAllowed")
        ELSE Write(NoResponse, 404, "NotFound")

Serve(req) ==
    /\ options # <<>>
    /\ exchange = NoExchange
    /\ exchange' = [request |-> req, response |-> Answer(req)]
    /\ UNCHANGED <<v2, prefix, options, mappings>>

\* ServeHTTP for a path below the prefix; net/http answers 404 to the others.
ServeHTTP(req) == ~v2 /\ Serve(req)

v2_ServeHTTP(req) == v2 /\ Serve(req)

\* net/http: the response is out.  Exchanges do not depend on each other, one is
\* looked at at a time.
finishRequest ==
    /\ exchange # NoExchange
    /\ exchange' = NoExchange
    /\ UNCHANGED <<v2, prefix, options, mappings>>

Next ==
    \/ \E o \in OptionSets : NewHandler(o) \/ \E p \in PathPrefixes : v2_newHandler(o, p)
    \/ \E r \in Requests : ServeHTTP(r) \/ v2_ServeHTTP(r)
    \/ finishRequest

Spec == Init /\ [][Next]_vars

-----------------------------------------------------------------------------
(* Properties.                                                              *)

Answered == exchange # NoExchange
req      == exchange.request
resp     == exchange.response

Success == {200, 204, 304}

SessionHandlers == {"xhrPoll", "xhrStreaming", "xhrSend", "eventSource", "htmlFile", "jsonp",
                    "jsonpSend"}

\* v2 finds the prefix anywhere in a path.  A path in which it occurs twice may
\* match patterns of two endpoints, one after each occurrence (with the prefix
\* "/echo", POST /echo/srv/echo/websocket matches both websocket paths).
PrefixRepeats(p) == prefix # <<>> /\ \E i, j \in Occurrences(p) : i # j

\* The Allow header of a 405 (ServeHTTP) tells the truth: it lists exactly the
\* methods that the same path would not be refused for, each of them once; in
\* v2, unless the prefix occurs again in the path.
AllowIsExact ==
    Answered /\ resp.status = 405 =>
      /\ PrefixRepeats(req.path) \/ IsInjective(resp.allow)
      /\ Range(resp.allow) = {m \in Methods : Answer([req EXCEPT !.method = m]).status \in Success}

\* What the handler was given is what it serves: the path of each of the seven
\* transports is served if and only if that transport is enabled, and xhr_send
\* if and only if one of the XHR transports is (fillMappingsWithAllowedMethods,
\* NewHandler); in v2, unless the prefix occurs again in the path.  The path of
\* raw websockets is the one that is not a session's.
PathOf(name) == prefix \o IF name = "raw" THEN <<"websocket">> ELSE <<"srv", "sid", name>>

Serves(name) ==
    \E m \in Methods :
      LET r == [method |-> m, path |-> PathOf(name), origin |-> "", headers |-> "", etag |-> ""]
      IN  Answer(r).status \in Success

ServesOnlyIf(name, enabled) == PrefixRepeats(PathOf(name)) \/ (Serves(name) <=> enabled)

OnlyEnabled ==
    options # <<>> =>
      /\ \A t \in Transports : ServesOnlyIf(t, t \in options.enabled)
      /\ ServesOnlyIf("xhr_send", options.enabled \cap {"xhr", "xhr_streaming"} # {})
      /\ ServesOnlyIf("jsonp_send", "jsonp" \in options.enabled)

\* jsonpSend and sockjsWebsocket ignore the error of parseSessionID, which reads
\* the path a second time, with another pattern than the mapping's: the two agree.
\* Every path that reaches a session's endpoint has an id to find, and it is the
\* segment before the endpoint's name; in v2, unless the prefix occurs again in
\* the path, and in any case the same for all the endpoints of a session.
SessionID(p) == IF v2 THEN v2_parseSessionID(p) ELSE parseSessionID(p)

Sibling(p, name) == [p EXCEPT ![Len(p)] = name]

SessionIDParses ==
    Answered /\ resp.handler \in SessionHandlers \cup {"sockjsWebsocket"} =>
      LET id == SessionID(req.path)
      IN  /\ id # ""
          /\ PrefixRepeats(req.path) \/ id = req.path[Len(req.path) - 1]
          /\ \A m \in Range(mappings) : SessionID(Sibling(req.path, m.path)) = id

\* A browser that asks first is not misled: the methods that xhrOptions or info
\* named for a path are not refused afterwards, and the answer carries the same
\* CORS headers for the same origin; in v2, unless the prefix occurs again in the
\* path (with the prefix "/info", GET /info/info is the welcome page).  /jsonp is
\* left out: xhrOptions promises POST there, and the path serves GET.
PreflightHonoured ==
    Answered /\ resp.status = 204 =>
      \/ MatchPath("jsonp", req.path)
      \/ PrefixRepeats(req.path)
      \/ \A m \in resp.allowMethods :
           LET after == Answer([req EXCEPT !.method = m])
           IN  after.status \in Success /\ after.allowOrigin = resp.allowOrigin

=============================================================================
