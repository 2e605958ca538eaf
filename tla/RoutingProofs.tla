---------------------------- MODULE RoutingProofs ----------------------------
(***************************************************************************)
(* The routing's properties hold for any options, prefixes, requests and   *)
(* methods: every handler has the mappings of its options, each method of  *)
(* each pattern once (HandlerList); every mapping's chain ends its         *)
(* response as its kind of endpoint does (EntryAnswers), whatever the      *)
(* request's headers; and no path matches two patterns, unless the prefix  *)
(* occurs in it again (UniquePattern).  The recursive function that runs a *)
(* chain and the least element of Min exist by minimal counterexamples.    *)
(***************************************************************************)
EXTENDS Routing, WellFoundedInduction, TLAPS

-----------------------------------------------------------------------------
(* Places in a list.                                                        *)

\* A set of natural numbers that is not empty has a least element, and Min
\* finds it: the first full match of ServeHTTP exists when there is one.
LEMMA MinIsLeast ==
  ASSUME NEW S \in SUBSET Nat, S # {}
  PROVE  Min(S) \in S /\ \A y \in S : Min(S) <= y
<1> DEFINE R == {ss \in Nat \X Nat : ss[1] < ss[2]}
<1>1. R = OpToRel(<, Nat)
  BY Zenon DEF OpToRel
<1>2. IsWellFoundedOn(R, Nat)
  BY <1>1, NatLessThanWellFounded, Zenon
<1>3. PICK x \in S : \A y \in S : ~ (<<y, x>> \in R)
  <2> HIDE DEF R
  <2> QED BY <1>2, WFMin
<1>4. ASSUME NEW y \in S PROVE x <= y
  <2>1. CASE y < x
    <3>1. <<y, x>> \in R
      BY <2>1
    <3> QED BY <3>1, <1>3
  <2> QED BY <2>1
<1> QED
  BY <1>4 DEF Min

\* No two mappings of a list are for the same method of the same pattern.
KeysDiffer(s) ==
  \A i, j \in DOMAIN s : s[i].method = s[j].method /\ s[i].path = s[j].path => i = j

\* s is a list of exactly the mappings E, whose patterns are in P.
ListOf(s, P, E) ==
  /\ s \in Seq(E)
  /\ \A m \in E : \E i \in DOMAIN s : s[i] = m
  /\ \A m \in E : m.path \in P
  /\ KeysDiffer(s)

\* Two lists for different patterns, one after the other.
LEMMA ConcatList ==
  ASSUME NEW s, NEW t, NEW P, NEW Q, NEW E, NEW F,
         ListOf(s, P, E), ListOf(t, Q, F), P \cap Q = {}
  PROVE  ListOf(s \o t, P \cup Q, E \cup F)
<1> DEFINE u == s \o t
<1>0. s \in Seq(E) /\ t \in Seq(F) /\ s \in Seq(E \cup F) /\ t \in Seq(E \cup F)
  <2>1. s \in Seq(E) /\ t \in Seq(F)
    BY DEF ListOf
  <2> QED BY <2>1
<1>1. u \in Seq(E \cup F) /\ Len(u) = Len(s) + Len(t)
  BY <1>0
<1>2. \A i \in 1 .. Len(s) : u[i] = s[i]
  BY <1>0
<1>3. \A i \in 1 .. Len(t) : u[Len(s) + i] = t[i]
  BY <1>0
<1>4. \A i \in 1 .. Len(u) : i \notin 1 .. Len(s) => i - Len(s) \in 1 .. Len(t) /\ u[i] = t[i - Len(s)]
  BY <1>0, <1>1
<1>4a. Len(s) \in Nat /\ Len(t) \in Nat /\ DOMAIN s = 1 .. Len(s) /\ DOMAIN t = 1 .. Len(t)
       /\ DOMAIN u = 1 .. Len(u)
  BY <1>0, <1>1
<1> HIDE DEF u
<1>5. ASSUME NEW m \in E \cup F PROVE \E i \in DOMAIN u : u[i] = m
  <2>1. CASE m \in E
    <3>1. PICK i \in DOMAIN s : s[i] = m
      BY <2>1 DEF ListOf
    <3>2. i \in DOMAIN u /\ u[i] = m
      BY <3>1, <1>1, <1>2, <1>4a
    <3> QED BY <3>2
  <2>2. CASE m \in F
    <3>1. PICK i \in DOMAIN t : t[i] = m
      BY <2>2 DEF ListOf
    <3>2. Len(s) + i \in DOMAIN u /\ u[Len(s) + i] = m
      BY <3>1, <1>1, <1>3, <1>4a
    <3> QED BY <3>2
  <2> QED BY <2>1, <2>2
<1>6. \A m \in E \cup F : m.path \in P \cup Q
  BY DEF ListOf
<1>7. ASSUME NEW i \in DOMAIN u, NEW j \in DOMAIN u,
             u[i].method = u[j].method, u[i].path = u[j].path
      PROVE  i = j
  <2>1. \A k \in 1 .. Len(s) : s[k].path \in P
    BY <1>0 DEF ListOf
  <2>2. \A k \in 1 .. Len(t) : t[k].path \in Q
    BY <1>0 DEF ListOf
  <2>3. CASE i \in 1 .. Len(s) /\ j \in 1 .. Len(s)
    BY <2>3, <1>7, <1>2, <1>4a DEF ListOf, KeysDiffer
  <2>4. CASE i \notin 1 .. Len(s) /\ j \notin 1 .. Len(s)
    <3>1. i - Len(s) \in DOMAIN t /\ j - Len(s) \in DOMAIN t
      BY <2>4, <1>4, <1>4a
    <3>2. t[i - Len(s)].method = t[j - Len(s)].method /\ t[i - Len(s)].path = t[j - Len(s)].path
      BY <2>4, <1>4, <1>4a, <1>7
    <3>3. i - Len(s) = j - Len(s)
      BY <3>1, <3>2 DEF ListOf, KeysDiffer
    <3> QED BY <3>3, <1>4a
  <2>5. CASE i \in 1 .. Len(s) /\ j \notin 1 .. Len(s)
    BY <2>5, <1>2, <1>4, <1>4a, <1>7, <2>1, <2>2
  <2>6. CASE i \notin 1 .. Len(s) /\ j \in 1 .. Len(s)
    BY <2>6, <1>2, <1>4, <1>4a, <1>7, <2>1, <2>2
  <2> QED BY <2>3, <2>4, <2>5, <2>6
<1> QED
  BY <1>1, <1>5, <1>6, <1>7 DEF ListOf, KeysDiffer, u

\* The lists of one mapping,
LEMMA OneList ==
  ASSUME NEW m
  PROVE  ListOf(<<m>>, {m.path}, {m})
  BY DEF ListOf, KeysDiffer

\* and of two, for different methods.
LEMMA TwoList ==
  ASSUME NEW m, NEW n, m.method # n.method
  PROVE  ListOf(<<m, n>>, {m.path, n.path}, {m, n})
<1> DEFINE s == <<m, n>>
<1>1. s \in Seq({m, n}) /\ DOMAIN s = {1, 2} /\ s[1] = m /\ s[2] = n
  OBVIOUS
<1> HIDE DEF s
<1> QED BY <1>1 DEF ListOf, KeysDiffer, s

-----------------------------------------------------------------------------
(* The mappings of a handler.                                               *)

EventSource == {eventSourceMapping}
HtmlFile    == {htmlFileMapping}
Iframe      == {iframeMapping}
Xhr          == {newMapping("POST", "xhr", Served("xhrPoll")), newMapping("OPTIONS", "xhr", Preflighted)}
XhrStreaming == {newMapping("POST", "xhr_streaming", Served("xhrStreaming")),
                 newMapping("OPTIONS", "xhr_streaming", Preflighted)}
XhrSend      == {newMapping("POST", "xhr_send", Served("xhrSend")),
                 newMapping("OPTIONS", "xhr_send", Preflighted)}
Jsonp        == {newMapping("GET", "jsonp", Served("jsonp")),
                 newMapping("OPTIONS", "jsonp", Preflighted)}
JsonpSend    == {newMapping("POST", "jsonp_send", Served("jsonpSend"))}
Root         == {newMapping("GET", "root", <<"welcomeHandler">>)}
Info         == {newMapping("OPTIONS", "info", <<"cookie", "xhrCors", "cacheFor", "info">>),
                 newMapping("GET", "info", <<"cookie", "xhrCors", "noCache", "info">>)}
v2_Info      == {newMapping("OPTIONS", "info", <<"cookie", "xhrCors", "cacheFor", "info">>),
                 newMapping("GET", "info", <<"xhrCors", "noCache", "info">>)}
Websocket    == {newMapping("GET", "websocket", <<"sockjsWebsocket">>)}
RawWebsocket == {newMapping("GET", "raw", <<"rawWebsocket">>)}

When(condition, maps) == IF condition THEN maps ELSE {}

\* The mappings of a handler with the options o, whichever their order.
Entries(o) ==
  UNION {Root, Info, Iframe, When("xhr" \in o.enabled, Xhr),
         When("xhr_streaming" \in o.enabled, XhrStreaming),
         When("eventsource" \in o.enabled, EventSource),
         When("htmlfile" \in o.enabled, HtmlFile),
         When("jsonp" \in o.enabled, Jsonp), When("jsonp" \in o.enabled, JsonpSend),
         When(NeedsXhrSend(o), XhrSend),
         When("websocket" \in o.enabled, Websocket), When("raw" \in o.enabled, RawWebsocket)}

v2_Entries(o) ==
  UNION {Root, v2_Info, Iframe, Xhr, XhrStreaming, EventSource, HtmlFile, Jsonp, JsonpSend,
         XhrSend,
         When("websocket" \in o.enabled, Websocket), When("raw" \in o.enabled, RawWebsocket)}

\* The lists that fillMappingsWithAllowedMethods and newHandler are made of.
LEMMA Lists ==
  /\ ListOf(<<eventSourceMapping>>, {"eventsource"}, EventSource)
  /\ ListOf(<<htmlFileMapping>>, {"htmlfile"}, HtmlFile)
  /\ ListOf(<<iframeMapping>>, {"iframe"}, Iframe)
  /\ ListOf(xhrMappings, {"xhr"}, Xhr)
  /\ ListOf(xhrStreamingMappings, {"xhr_streaming"}, XhrStreaming)
  /\ ListOf(xhrSendMappings, {"xhr_send"}, XhrSend)
  /\ ListOf(jsonpMappings, {"jsonp", "jsonp_send"}, Jsonp \cup JsonpSend)
  /\ ListOf(defaultMappings, {"root", "info", "iframe"}, Root \cup Info \cup Iframe)
<1>1. ListOf(<<eventSourceMapping>>, {"eventsource"}, EventSource)
  BY OneList DEF eventSourceMapping, EventSource, newMapping
<1>2. ListOf(<<htmlFileMapping>>, {"htmlfile"}, HtmlFile)
  BY OneList DEF htmlFileMapping, HtmlFile, newMapping
<1>3. ListOf(<<iframeMapping>>, {"iframe"}, Iframe)
  BY OneList DEF iframeMapping, Iframe, newMapping
<1>4. ListOf(xhrMappings, {"xhr"}, Xhr)
  BY TwoList DEF xhrMappings, Xhr, newMapping
<1>5. ListOf(xhrStreamingMappings, {"xhr_streaming"}, XhrStreaming)
  BY TwoList DEF xhrStreamingMappings, XhrStreaming, newMapping
<1>6. ListOf(xhrSendMappings, {"xhr_send"}, XhrSend)
  BY TwoList DEF xhrSendMappings, XhrSend, newMapping
<1>7. ListOf(jsonpMappings, {"jsonp", "jsonp_send"}, Jsonp \cup JsonpSend)
  BY DEF ListOf, KeysDiffer, jsonpMappings, Jsonp, JsonpSend, newMapping
<1>8. ListOf(defaultMappings, {"root", "info", "iframe"}, Root \cup Info \cup Iframe)
  BY DEF ListOf, KeysDiffer, defaultMappings, Root, Info, Iframe, iframeMapping, newMapping
<1> QED BY <1>1, <1>2, <1>3, <1>4, <1>5, <1>6, <1>7, <1>8

\* What is added on a condition.
LEMMA WhenList ==
  ASSUME NEW s, NEW P, NEW E, ListOf(s, P, E), NEW condition \in BOOLEAN
  PROVE  ListOf(If(condition, s), P, When(condition, E))
<1>1. CASE condition
  BY <1>1 DEF If, When
<1>2. CASE ~condition
  BY <1>2 DEF If, When, ListOf, KeysDiffer
<1> QED BY <1>1, <1>2

\* What is added when a transport is enabled.
LEMMA EnabledList ==
  ASSUME NEW s, NEW P, NEW E, ListOf(s, P, E), NEW t, NEW enabled
  PROVE  ListOf(If(t \in enabled, s), P, When(t \in enabled, E))
<1>1. CASE t \in enabled
  BY <1>1 DEF If, When
<1>2. CASE t \notin enabled
  BY <1>2 DEF If, When, ListOf, KeysDiffer
<1> QED BY <1>1, <1>2

Patterns == {"root", "info", "iframe", "xhr", "xhr_streaming", "eventsource", "htmlfile", "jsonp",
             "jsonp_send", "xhr_send", "websocket", "raw"}

\* websocketMappings appends the websocket endpoints that are switched on.
LEMMA WebsocketList ==
  ASSUME NEW o
  PROVE  ListOf(websocketMappings(o), {"websocket", "raw"},
                When("websocket" \in o.enabled, Websocket) \cup When("raw" \in o.enabled, RawWebsocket))
<1> DEFINE w == <<newMapping("GET", "websocket", <<"sockjsWebsocket">>)>>
           r == <<newMapping("GET", "raw", <<"rawWebsocket">>)>>
<1>1. ListOf(w, {"websocket"}, Websocket) /\ ListOf(r, {"raw"}, RawWebsocket)
  BY OneList DEF Websocket, RawWebsocket, newMapping
<1>2. websocketMappings(o) = If("websocket" \in o.enabled, w) \o If("raw" \in o.enabled, r)
  BY DEF websocketMappings
<1> HIDE DEF w, r
<1>3. /\ ListOf(If("websocket" \in o.enabled, w), {"websocket"},
                When("websocket" \in o.enabled, Websocket))
      /\ ListOf(If("raw" \in o.enabled, r), {"raw"}, When("raw" \in o.enabled, RawWebsocket))
  BY <1>1, EnabledList
<1>4. ListOf(websocketMappings(o), {"websocket"} \cup {"raw"},
             When("websocket" \in o.enabled, Websocket) \cup When("raw" \in o.enabled, RawWebsocket))
  BY <1>2, <1>3, ConcatList
<1>5. {"websocket"} \cup {"raw"} = {"websocket", "raw"}
  OBVIOUS
<1> QED BY <1>4, <1>5

\* fillMappingsWithAllowedMethods and NewHandler add the mappings of what is
\* enabled, each once, and no others.
LEMMA HandlerList ==
  ASSUME NEW o
  PROVE  ListOf(fillMappingsWithAllowedMethods(o) \o websocketMappings(o), Patterns, Entries(o))
<1> DEFINE W(t, E) == When(t \in o.enabled, E)
           F(t, l) == If(t \in o.enabled, l)
           E1 == Root \cup Info \cup Iframe    s1 == defaultMappings
           E2 == E1 \cup W("xhr", Xhr)         s2 == s1 \o F("xhr", xhrMappings)
           E3 == E2 \cup W("xhr_streaming", XhrStreaming)
           s3 == s2 \o F("xhr_streaming", xhrStreamingMappings)
           E4 == E3 \cup W("eventsource", EventSource)
           s4 == s3 \o F("eventsource", <<eventSourceMapping>>)
           E5 == E4 \cup W("htmlfile", HtmlFile)
           s5 == s4 \o F("htmlfile", <<htmlFileMapping>>)
           E6 == E5 \cup W("jsonp", Jsonp \cup JsonpSend)
           s6 == s5 \o F("jsonp", jsonpMappings)
           E7 == E6 \cup When(NeedsXhrSend(o), XhrSend)
           s7 == s6 \o If(NeedsXhrSend(o), xhrSendMappings)
           E8 == E7 \cup (W("websocket", Websocket) \cup W("raw", RawWebsocket))
           s8 == s7 \o websocketMappings(o)
           P1 == {"root", "info", "iframe"}
           P2 == P1 \cup {"xhr"}
           P3 == P2 \cup {"xhr_streaming"}
           P4 == P3 \cup {"eventsource"}
           P5 == P4 \cup {"htmlfile"}
           P6 == P5 \cup {"jsonp", "jsonp_send"}
           P7 == P6 \cup {"xhr_send"}
           P8 == P7 \cup {"websocket", "raw"}
<1>1. ListOf(s1, P1, E1)
  BY Lists
<1>2. ListOf(s2, P2, E2)
  <2>1. ListOf(F("xhr", xhrMappings), {"xhr"}, W("xhr", Xhr))
    BY Lists, EnabledList
  <2>2. P1 \cap {"xhr"} = {}
    OBVIOUS
  <2> HIDE DEF s1, E1, P1
  <2> QED BY <1>1, <2>1, <2>2, ConcatList
<1>3. ListOf(s3, P3, E3)
  <2>1. ListOf(F("xhr_streaming", xhrStreamingMappings), {"xhr_streaming"},
               W("xhr_streaming", XhrStreaming))
    BY Lists, EnabledList
  <2>2. P2 \cap {"xhr_streaming"} = {}
    OBVIOUS
  <2> HIDE DEF s2, E2, P2
  <2> QED BY <1>2, <2>1, <2>2, ConcatList
<1>4. ListOf(s4, P4, E4)
  <2>1. ListOf(F("eventsource", <<eventSourceMapping>>), {"eventsource"},
               W("eventsource", EventSource))
    BY Lists, EnabledList
  <2>2. P3 \cap {"eventsource"} = {}
    OBVIOUS
  <2> HIDE DEF s3, E3, P3
  <2> QED BY <1>3, <2>1, <2>2, ConcatList
<1>5. ListOf(s5, P5, E5)
  <2>1. ListOf(F("htmlfile", <<htmlFileMapping>>), {"htmlfile"}, W("htmlfile", HtmlFile))
    BY Lists, EnabledList
  <2>2. P4 \cap {"htmlfile"} = {}
    OBVIOUS
  <2> HIDE DEF s4, E4, P4
  <2> QED BY <1>4, <2>1, <2>2, ConcatList
<1>6. ListOf(s6, P6, E6)
  <2>1. ListOf(F("jsonp", jsonpMappings), {"jsonp", "jsonp_send"}, W("jsonp", Jsonp \cup JsonpSend))
    BY Lists, EnabledList
  <2>2. P5 \cap {"jsonp", "jsonp_send"} = {}
    OBVIOUS
  <2> HIDE DEF s5, E5, P5
  <2> QED BY <1>5, <2>1, <2>2, ConcatList
<1>7. ListOf(s7, P7, E7)
  <2>1. NeedsXhrSend(o) \in BOOLEAN
    BY DEF NeedsXhrSend
  <2>2. ListOf(If(NeedsXhrSend(o), xhrSendMappings), {"xhr_send"}, When(NeedsXhrSend(o), XhrSend))
    BY <2>1, Lists, WhenList
  <2>3. P6 \cap {"xhr_send"} = {}
    OBVIOUS
  <2> HIDE DEF s6, E6, P6
  <2> QED BY <1>6, <2>2, <2>3, ConcatList
<1>8. ListOf(s8, P8, E8)
  <2>1. P7 \cap {"websocket", "raw"} = {}
    OBVIOUS
  <2> HIDE DEF s7, E7, P7
  <2> QED BY <1>7, <2>1, WebsocketList, ConcatList
<1>9. s8 = fillMappingsWithAllowedMethods(o) \o websocketMappings(o)
  BY DEF fillMappingsWithAllowedMethods
<1>10. P8 = Patterns
  BY DEF Patterns
<1>11. E8 = Entries(o)
  BY DEF Entries, When
<1> QED BY <1>8, <1>9, <1>10, <1>11

\* v2's newHandler adds all the HTTP endpoints, each once.
LEMMA v2_HandlerList ==
  ASSUME NEW o
  PROVE  ListOf(v2_mappings \o websocketMappings(o), Patterns, v2_Entries(o))
<1> DEFINE E1 == Root \cup v2_Info
           s1 == <<newMapping("GET", "root", <<"welcomeHandler">>),
                   newMapping("OPTIONS", "info", <<"cookie", "xhrCors", "cacheFor", "info">>),
                   newMapping("GET", "info", <<"xhrCors", "noCache", "info">>)>>
           E2 == E1 \cup XhrSend               s2 == s1 \o xhrSendMappings
           E3 == E2 \cup Xhr                   s3 == s2 \o xhrMappings
           E4 == E3 \cup XhrStreaming          s4 == s3 \o xhrStreamingMappings
           E5 == E4 \cup (EventSource \cup HtmlFile)
           s5 == s4 \o <<eventSourceMapping, htmlFileMapping>>
           E6 == E5 \cup (Jsonp \cup JsonpSend) s6 == s5 \o jsonpMappings
           E7 == E6 \cup Iframe                s7 == s6 \o <<iframeMapping>>
           E8 == E7 \cup (When("websocket" \in o.enabled, Websocket)
                            \cup When("raw" \in o.enabled, RawWebsocket))
           s8 == s7 \o websocketMappings(o)
           P1 == {"root", "info"}
           P2 == P1 \cup {"xhr_send"}
           P3 == P2 \cup {"xhr"}
           P4 == P3 \cup {"xhr_streaming"}
           P5 == P4 \cup {"eventsource", "htmlfile"}
           P6 == P5 \cup {"jsonp", "jsonp_send"}
           P7 == P6 \cup {"iframe"}
           P8 == P7 \cup {"websocket", "raw"}
<1>1. ListOf(s1, P1, E1)
  BY DEF ListOf, KeysDiffer, Root, v2_Info, newMapping
<1>2. ListOf(s2, P2, E2)
  <2>1. P1 \cap {"xhr_send"} = {}
    OBVIOUS
  <2> HIDE DEF s1, E1, P1
  <2> QED BY <1>1, <2>1, Lists, ConcatList
<1>3. ListOf(s3, P3, E3)
  <2>1. P2 \cap {"xhr"} = {}
    OBVIOUS
  <2> HIDE DEF s2, E2, P2
  <2> QED BY <1>2, <2>1, Lists, ConcatList
<1>4. ListOf(s4, P4, E4)
  <2>1. P3 \cap {"xhr_streaming"} = {}
    OBVIOUS
  <2> HIDE DEF s3, E3, P3
  <2> QED BY <1>3, <2>1, Lists, ConcatList
<1>5. ListOf(s5, P5, E5)
  <2>1. P4 \cap {"eventsource", "htmlfile"} = {}
    OBVIOUS
  <2>2. ListOf(<<eventSourceMapping, htmlFileMapping>>, {"eventsource", "htmlfile"},
               EventSource \cup HtmlFile)
    BY DEF ListOf, KeysDiffer, eventSourceMapping, htmlFileMapping, EventSource, HtmlFile, newMapping
  <2> HIDE DEF s4, E4, P4
  <2> QED BY <1>4, <2>1, <2>2, ConcatList
<1>6. ListOf(s6, P6, E6)
  <2>1. P5 \cap {"jsonp", "jsonp_send"} = {}
    OBVIOUS
  <2> HIDE DEF s5, E5, P5
  <2> QED BY <1>5, <2>1, Lists, ConcatList
<1>7. ListOf(s7, P7, E7)
  <2>1. P6 \cap {"iframe"} = {}
    OBVIOUS
  <2> HIDE DEF s6, E6, P6
  <2> QED BY <1>6, <2>1, Lists, ConcatList
<1>8. ListOf(s8, P8, E8)
  <2>1. P7 \cap {"websocket", "raw"} = {}
    OBVIOUS
  <2> HIDE DEF s7, E7, P7
  <2> QED BY <1>7, <2>1, WebsocketList, ConcatList
<1>9. s8 = v2_mappings \o websocketMappings(o)
  BY DEF v2_mappings
<1>10. P8 = Patterns
  BY DEF Patterns
<1>11. E8 = v2_Entries(o)
  BY DEF v2_Entries
<1> QED BY <1>8, <1>9, <1>10, <1>11

-----------------------------------------------------------------------------
(* Chains.                                                                  *)

\* f is the responses after each handler of a chain.
Steps(f, o, chain, r) ==
  /\ f[0] = NoResponse
  /\ \A i \in 1 .. Len(chain) : f[i] = Apply(o, chain[i], f[i - 1], r)
  /\ Run(o, chain, r) = f[Len(chain)]

\* The response passes through the handlers of a chain in their order: the
\* recursive function of Run exists, for a chain of any length.  (Otherwise
\* there would be a shortest part of the chain that has none.)
LEMMA RunSteps ==
  ASSUME NEW o, NEW chain, Len(chain) \in Nat, NEW r
  PROVE  \E f : Steps(f, o, chain, r)
<1> DEFINE n == Len(chain)
           Rec(f, i) == IF i = 0 THEN NoResponse ELSE Apply(o, chain[i], f[i - 1], r)
           Has(k) == \E f : f = [i \in 0 .. k |-> Rec(f, i)]
           S == {k \in Nat : ~Has(k)}
           F == CHOOSE f : f = [i \in 0 .. n |-> IF i = 0 THEN NoResponse
                                                 ELSE Apply(o, chain[i], f[i - 1], r)]
<1>1. S = {}
  <2>1. SUFFICES ASSUME S # {} PROVE FALSE
    OBVIOUS
  <2>2. PICK k \in S : \A j \in S : k <= j
    <3> HIDE DEF S
    <3>1. S \in SUBSET Nat
      BY DEF S
    <3> QED BY <2>1, <3>1, MinIsLeast
  <2>3. k # 0
    <3>1. [i \in 0 .. 0 |-> NoResponse] = [i \in 0 .. 0 |-> Rec([j \in 0 .. 0 |-> NoResponse], i)]
      OBVIOUS
    <3>2. Has(0)
      BY <3>1
    <3> QED BY <3>2
  <2>4. k \in Nat /\ k - 1 \in Nat /\ Has(k - 1)
    <3>1. k \in Nat /\ k - 1 \in Nat
      BY <2>3
    <3>2. k - 1 \notin S
      <4> HIDE DEF S
      <4> QED BY <2>2, <3>1
    <3> QED BY <3>1, <3>2
  <2>5. PICK f : f = [i \in 0 .. k - 1 |-> Rec(f, i)]
    BY <2>4
  <2> DEFINE g == [i \in 0 .. k |-> IF i = k THEN Apply(o, chain[k], f[k - 1], r) ELSE f[i]]
  <2>6. ASSUME NEW i \in 0 .. k PROVE g[i] = Rec(g, i)
    <3>1. CASE i = k
      BY <3>1, <2>3, <2>4
    <3>2. CASE i # k
      <4>1. i \in 0 .. k - 1 /\ f[i] = Rec(f, i) /\ g[i] = f[i]
        BY <3>2, <2>4, <2>5
      <4>2. i # 0 => g[i - 1] = f[i - 1]
        BY <3>2, <2>4
      <4> QED BY <4>1, <4>2
    <3> QED BY <3>1, <3>2
  <2>7. g = [i \in 0 .. k |-> Rec(g, i)]
    BY <2>6
  <2>8. Has(k)
    BY <2>7
  <2> QED BY <2>8, <2>2
<1>2. Has(n)
  BY <1>1
<1>3. F = [i \in 0 .. n |-> IF i = 0 THEN NoResponse ELSE Apply(o, chain[i], F[i - 1], r)]
  BY <1>2
<1>4. Run(o, chain, r) = F[n]
  BY DEF Run
<1>5. F[0] = NoResponse /\ \A i \in 1 .. n : F[i] = Apply(o, chain[i], F[i - 1], r)
  <2> HIDE DEF F
  <2> QED BY <1>3
<1> QED BY <1>4, <1>5 DEF Steps

\* The chains of up to four handlers, composed.
LEMMA RunOne ==
  ASSUME NEW o, NEW a, NEW r
  PROVE  Run(o, <<a>>, r) = Apply(o, a, NoResponse, r)
<1> DEFINE chain == <<a>>
<1>1. Len(chain) = 1 /\ chain[1] = a /\ Len(chain) \in Nat
  OBVIOUS
<1>2. PICK f : Steps(f, o, chain, r)
  <2> HIDE DEF chain
  <2> QED BY <1>1, RunSteps
<1>3. Run(o, chain, r) = Apply(o, a, NoResponse, r)
  <2> HIDE DEF chain
  <2> QED BY <1>1, <1>2 DEF Steps
<1> QED BY <1>3

\* Two handlers,
LEMMA RunTwo ==
  ASSUME NEW o, NEW a, NEW b, NEW r
  PROVE  Run(o, <<a, b>>, r) = Apply(o, b, Apply(o, a, NoResponse, r), r)
<1> DEFINE chain == <<a, b>>
<1>1. Len(chain) = 2 /\ chain[1] = a /\ chain[2] = b /\ Len(chain) \in Nat
  OBVIOUS
<1>2. PICK f : Steps(f, o, chain, r)
  <2> HIDE DEF chain
  <2> QED BY <1>1, RunSteps
<1>3. Run(o, chain, r) = Apply(o, b, Apply(o, a, NoResponse, r), r)
  <2> HIDE DEF chain
  <2>1. f[1] = Apply(o, a, NoResponse, r)
    BY <1>1, <1>2 DEF Steps
  <2>2. f[2] = Apply(o, b, f[1], r) /\ Run(o, chain, r) = f[2]
    BY <1>1, <1>2 DEF Steps
  <2> QED BY <2>1, <2>2
<1> QED BY <1>3

\* three,
LEMMA RunThree ==
  ASSUME NEW o, NEW a, NEW b, NEW c, NEW r
  PROVE  Run(o, <<a, b, c>>, r) = Apply(o, c, Apply(o, b, Apply(o, a, NoResponse, r), r), r)
<1> DEFINE chain == <<a, b, c>>
<1>1. Len(chain) = 3 /\ chain[1] = a /\ chain[2] = b /\ chain[3] = c /\ Len(chain) \in Nat
  OBVIOUS
<1>2. PICK f : Steps(f, o, chain, r)
  <2> HIDE DEF chain
  <2> QED BY <1>1, RunSteps
<1>3. Run(o, chain, r) = Apply(o, c, Apply(o, b, Apply(o, a, NoResponse, r), r), r)
  <2> HIDE DEF chain
  <2>1. f[1] = Apply(o, a, NoResponse, r) /\ f[2] = Apply(o, b, f[1], r)
    BY <1>1, <1>2 DEF Steps
  <2>2. f[3] = Apply(o, c, f[2], r) /\ Run(o, chain, r) = f[3]
    BY <1>1, <1>2 DEF Steps
  <2> QED BY <2>1, <2>2
<1> QED BY <1>3

\* and four.
LEMMA RunFour ==
  ASSUME NEW o, NEW a, NEW b, NEW c, NEW d, NEW r
  PROVE  Run(o, <<a, b, c, d>>, r) =
           Apply(o, d, Apply(o, c, Apply(o, b, Apply(o, a, NoResponse, r), r), r), r)
<1> DEFINE chain == <<a, b, c, d>>
<1>1. Len(chain) = 4 /\ chain[1] = a /\ chain[2] = b /\ chain[3] = c /\ chain[4] = d
      /\ Len(chain) \in Nat
  OBVIOUS
<1>2. PICK f : Steps(f, o, chain, r)
  <2> HIDE DEF chain
  <2> QED BY <1>1, RunSteps
<1>3. Run(o, chain, r) = Apply(o, d, Apply(o, c, Apply(o, b, Apply(o, a, NoResponse, r), r), r), r)
  <2> HIDE DEF chain
  <2>1. f[1] = Apply(o, a, NoResponse, r) /\ f[2] = Apply(o, b, f[1], r)
    BY <1>1, <1>2 DEF Steps
  <2>2. f[3] = Apply(o, c, f[2], r) /\ f[4] = Apply(o, d, f[3], r) /\ Run(o, chain, r) = f[4]
    BY <1>1, <1>2 DEF Steps
  <2> QED BY <2>1, <2>2
<1> QED BY <1>3

-----------------------------------------------------------------------------
(* What the chains answer.                                                  *)

Field == {"status", "handler", "allow", "allowOrigin", "allowHeaders", "allowMethods", "cache",
          "cookie", "websocket", "etag"}

\* A response whose headers can still be set.
Open(a) == DOMAIN a = Field /\ a["status"] = 0

\* An open response that allows an origin ("" when none), and a finished one.
Ready(a, origin) == Open(a) /\ a["allowOrigin"] = origin

Done(a, status, hf, origin) ==
  a["status"] = status /\ a["handler"] = hf /\ a["allowOrigin"] = origin

\* A response starts open, without a CORS header.
LEMMA ReadyAtFirst == Ready(NoResponse, "")
  BY DEF Ready, Open, NoResponse, Field

\* A header set on an open response, and no other field, changes,
LEMMA SetField ==
  ASSUME NEW a, Open(a), NEW f \in Field \ {"status"}, NEW value
  PROVE  /\ Open(Set(a, f, value))
         /\ Set(a, f, value)[f] = value
         /\ \A g \in Field \ {f} : Set(a, f, value)[g] = a[g]
  BY DEF Open, Set, Field

\* and writing sets the status and the handler only.
LEMMA WriteField ==
  ASSUME NEW a, Open(a), NEW status, NEW hf
  PROVE  /\ Write(a, status, hf)["status"] = status
         /\ Write(a, status, hf)["handler"] = hf
         /\ \A g \in Field \ {"status", "handler"} : Write(a, status, hf)[g] = a[g]
  BY DEF Open, Write, Field

\* The origin that xhrCors allows.
Cors(o, r) == IF corsEnabled(o, r) THEN corsOrigin(o, r) ELSE ""

\* cookie, cacheFor and noCache leave the response open and its CORS header alone.
LEMMA HeaderHandlers ==
  ASSUME NEW o, NEW hf \in {"cookie", "cacheFor", "noCache"}, NEW origin, NEW a, Ready(a, origin),
         NEW r
  PROVE  Ready(Apply(o, hf, a, r), origin)
<1>1. CASE hf = "cookie"
  <2>1. Apply(o, hf, a, r) = Set(a, "cookie", o.jsessionID)
    BY <1>1 DEF Apply
  <2> QED BY <2>1, SetField DEF Field, Ready
<1>2. CASE hf = "cacheFor"
  <2>1. Apply(o, hf, a, r) = Set(a, "cache", "year")
    BY <1>2 DEF Apply
  <2> QED BY <2>1, SetField DEF Field, Ready
<1>3. CASE hf = "noCache"
  <2>1. Apply(o, hf, a, r) = Set(a, "cache", "no-store")
    BY <1>3 DEF Apply
  <2> QED BY <2>1, SetField DEF Field, Ready
<1> QED BY <1>1, <1>2, <1>3

\* The two headers that xhrCors sets.
LEMMA SetOrigin ==
  ASSUME NEW a, Open(a), NEW origin
  PROVE  Ready(Set(a, "allowOrigin", origin), origin)
  BY SetField DEF Field, Ready

\* The second leaves the first alone.
LEMMA SetHeaders ==
  ASSUME NEW a, NEW origin, Ready(a, origin), NEW h
  PROVE  Ready(Set(a, "allowHeaders", h), origin)
  BY SetField DEF Field, Ready

\* xhrCors leaves the response open, with the origin allowed.
LEMMA CorsHandler ==
  ASSUME NEW o, NEW a, Ready(a, ""), NEW r
  PROVE  Ready(Apply(o, "xhrCors", a, r), Cors(o, r))
<1> DEFINE allowed == Set(a, "allowOrigin", corsOrigin(o, r))
<1>1. Apply(o, "xhrCors", a, r) = xhrCors(o, a, r)
  BY DEF Apply
<1>2. Ready(allowed, corsOrigin(o, r))
  BY SetOrigin DEF Ready
<1>3. CASE ~corsEnabled(o, r)
  BY <1>1, <1>3 DEF xhrCors, Cors
<1>4. CASE corsEnabled(o, r)
  <2>1. Apply(o, "xhrCors", a, r) \in {allowed, Set(allowed, "allowHeaders", r.headers)}
    BY <1>1, <1>4 DEF xhrCors
  <2>2. Cors(o, r) = corsOrigin(o, r)
    BY <1>4 DEF Cors
  <2> HIDE DEF allowed
  <2> QED BY <1>2, <2>1, <2>2, SetHeaders
<1> QED BY <1>3, <1>4

\* The endpoints that other modules are about, and the plain ones.
Endpoints == {"welcomeHandler", "xhrPoll", "xhrStreaming", "xhrSend", "eventSource", "htmlFile",
              "jsonp", "jsonpSend", "sockjsWebsocket", "rawWebsocket"}

\* An endpoint ends the response with 200.
LEMMA EndpointHandlers ==
  ASSUME NEW o, NEW hf \in Endpoints, NEW origin, NEW a, Ready(a, origin), NEW r
  PROVE  Done(Apply(o, hf, a, r), 200, hf, origin)
<1>1. Apply(o, hf, a, r) = Write(a, 200, hf)
  BY DEF Apply, Endpoints
<1> QED BY <1>1, WriteField DEF Field, Ready, Done

Allows(a, methods) == a["allowMethods"] = methods

\* A header for the methods, and the end of the response.
LEMMA AllowMethods ==
  ASSUME NEW methods, NEW hf, NEW origin, NEW a, Ready(a, origin), NEW status
  PROVE  LET b == Write(Set(a, "allowMethods", methods), status, hf)
         IN  Done(b, status, hf, origin) /\ Allows(b, methods)
  BY WriteField, SetField DEF Field, Ready, Done, Allows

\* xhrOptions ends it with 204 and the methods.
LEMMA OptionsHandler ==
  ASSUME NEW o, NEW origin, NEW a, Ready(a, origin), NEW r
  PROVE  LET b == Apply(o, "xhrOptions", a, r)
         IN  Done(b, 204, "xhrOptions", origin) /\ Allows(b, {"OPTIONS", "POST"})
<1>1. Apply(o, "xhrOptions", a, r) =
        Write(Set(a, "allowMethods", {"OPTIONS", "POST"}), 204, "xhrOptions")
  BY DEF Apply, xhrOptions
<1> QED BY <1>1, AllowMethods

\* What /info answers to its two methods.
InfoDone(b, method, origin) ==
  \/ method = "GET" /\ Done(b, 200, "info", origin)
  \/ method = "OPTIONS" /\ Done(b, 204, "info", origin) /\ Allows(b, {"OPTIONS", "GET"})

\* info ends it as its method says.
LEMMA InfoHandler ==
  ASSUME NEW o, NEW origin, NEW a, Ready(a, origin), NEW r, r.method \in {"GET", "OPTIONS"}
  PROVE  InfoDone(Apply(o, "info", a, r), r.method, origin)
<1>1. CASE r.method = "GET"
  <2>1. Apply(o, "info", a, r) = Write(Set(a, "websocket", websocketInfo(o)), 200, "info")
    BY <1>1 DEF Apply, info
  <2>2. \A w : Ready(Set(a, "websocket", w), origin)
    BY SetField DEF Field, Ready
  <2>3. \A b : Ready(b, origin) => Done(Write(b, 200, "info"), 200, "info", origin)
    BY WriteField DEF Field, Ready, Done
  <2> QED BY <1>1, <2>1, <2>2, <2>3 DEF InfoDone
<1>2. CASE r.method = "OPTIONS"
  <2>1. Apply(o, "info", a, r) = Write(Set(a, "allowMethods", {"OPTIONS", "GET"}), 204, "info")
    BY <1>2 DEF Apply, info
  <2> QED BY <1>2, <2>1, AllowMethods DEF InfoDone
<1> QED BY <1>1, <1>2

IframeDone(b) == b["status"] \in {200, 304} /\ b["handler"] = "iframe"

\* iframe ends it with the page, or with 304.
LEMMA IframeHandler ==
  ASSUME NEW o, NEW origin, NEW a, Ready(a, origin), NEW r
  PROVE  IframeDone(Apply(o, "iframe", a, r))
<1>1. Apply(o, "iframe", a, r) = IF r.etag = Hash THEN Write(a, 304, "iframe")
                                 ELSE Write(Set(a, "etag", Hash), 200, "iframe")
  BY DEF Apply, iframe
<1> QED BY <1>1, WriteField, SetField DEF Field, Ready, IframeDone

\* The chains of the session's paths answer with their endpoint.
LEMMA ServedRuns ==
  ASSUME NEW o, NEW hf \in Endpoints, NEW r
  PROVE  Done(Run(o, Served(hf), r), 200, hf, Cors(o, r))
<1> DEFINE a == Apply(o, "cookie", NoResponse, r)
           b == Apply(o, "xhrCors", a, r)
           c == Apply(o, "noCache", b, r)
<1>1. Run(o, Served(hf), r) = Apply(o, hf, c, r)
  BY RunFour DEF Served
<1>2. Ready(a, "")
  BY ReadyAtFirst, HeaderHandlers
<1>3. Ready(b, Cors(o, r))
  <2> HIDE DEF a
  <2> QED BY <1>2, CorsHandler
<1>4. Ready(c, Cors(o, r))
  <2> HIDE DEF b
  <2> QED BY <1>3, HeaderHandlers
<1> HIDE DEF c
<1> QED BY <1>1, <1>4, EndpointHandlers

\* Those of their preflights answer with 204 and POST,
LEMMA PreflightedRuns ==
  ASSUME NEW o, NEW r
  PROVE  /\ Done(Run(o, Preflighted, r), 204, "xhrOptions", Cors(o, r))
         /\ Allows(Run(o, Preflighted, r), {"OPTIONS", "POST"})
<1> DEFINE a == Apply(o, "cookie", NoResponse, r)
           b == Apply(o, "xhrCors", a, r)
           c == Apply(o, "cacheFor", b, r)
<1>1. Run(o, Preflighted, r) = Apply(o, "xhrOptions", c, r)
  BY RunFour DEF Preflighted
<1>2. Ready(a, "")
  BY ReadyAtFirst, HeaderHandlers
<1>3. Ready(b, Cors(o, r))
  <2> HIDE DEF a
  <2> QED BY <1>2, CorsHandler
<1>4. Ready(c, Cors(o, r))
  <2> HIDE DEF b
  <2> QED BY <1>3, HeaderHandlers
<1> HIDE DEF c
<1> QED BY <1>1, <1>4, OptionsHandler

\* /info, with the cookie or, in v2's GET, without.
LEMMA InfoRuns ==
  ASSUME NEW o, NEW r, r.method \in {"GET", "OPTIONS"}, NEW hf \in {"cacheFor", "noCache"},
         NEW chain \in {<<"cookie", "xhrCors", hf, "info">>, <<"xhrCors", hf, "info">>}
  PROVE  InfoDone(Run(o, chain, r), r.method, Cors(o, r))
<1> DEFINE a == Apply(o, "cookie", NoResponse, r)
           First(d) == Apply(o, hf, Apply(o, "xhrCors", d, r), r)
<1>1. PICK d \in {a, NoResponse} : Run(o, chain, r) = Apply(o, "info", First(d), r)
  <2>1. CASE chain = <<"cookie", "xhrCors", hf, "info">>
    BY <2>1, RunFour
  <2>2. CASE chain = <<"xhrCors", hf, "info">>
    BY <2>2, RunThree
  <2> QED BY <2>1, <2>2
<1>2. Ready(d, "")
  BY ReadyAtFirst, HeaderHandlers
<1>3. Ready(First(d), Cors(o, r))
  BY <1>2, CorsHandler, HeaderHandlers
<1> HIDE DEF First
<1> QED BY <1>1, <1>3, InfoHandler

\* A single endpoint, without CORS.
LEMMA SingleRuns ==
  ASSUME NEW o, NEW r, NEW hf \in Endpoints
  PROVE  Done(Run(o, <<hf>>, r), 200, hf, "")
<1>1. Run(o, <<hf>>, r) = Apply(o, hf, NoResponse, r)
  BY RunOne
<1>2. Done(Apply(o, hf, NoResponse, r), 200, hf, "")
  BY ReadyAtFirst, EndpointHandlers
<1> QED BY <1>1, <1>2

\* The iframe page.
LEMMA IframeRuns ==
  ASSUME NEW o, NEW r
  PROVE  IframeDone(Run(o, <<"cacheFor", "iframe">>, r))
<1> DEFINE a == Apply(o, "cacheFor", NoResponse, r)
<1>1. Run(o, <<"cacheFor", "iframe">>, r) = Apply(o, "iframe", a, r)
  BY RunTwo
<1>2. Ready(a, "")
  BY ReadyAtFirst, HeaderHandlers
<1> HIDE DEF a
<1> QED BY <1>1, <1>2, IframeHandler

SessionNames == {"xhr", "xhr_streaming", "eventsource", "htmlfile", "jsonp", "jsonp_send",
                 "xhr_send", "websocket"}

\* The paths that answer preflights with the methods they serve.
CorsPatterns == {"info", "xhr", "xhr_streaming", "xhr_send"}

\* What the mapping m of a handler answers: its chain ends the response, the
\* endpoints of sessions are behind their paths only, and preflights name the
\* methods with the origin that the path's other answers allow.
IsAnswer(a, m, origin) ==
  /\ a["status"] \in Success
  /\ a["handler"] \in SessionHandlers \cup {"sockjsWebsocket"} => m.path \in SessionNames
  /\ a["status"] = 204 =>
       /\ m.method = "OPTIONS"
       /\ m.path \in CorsPatterns \cup {"jsonp"}
       /\ a["allowMethods"] = {"OPTIONS", IF m.path = "info" THEN "GET" ELSE "POST"}
  /\ m.path \in CorsPatterns => a["allowOrigin"] = origin

\* So does every mapping of a handler, of v3 and of v2.
LEMMA EntryAnswers ==
  ASSUME NEW o, NEW m \in Entries(o) \cup v2_Entries(o), NEW r, r.method = m.method
  PROVE  IsAnswer(Run(o, m.chain, r), m, Cors(o, r))
<1> DEFINE a == Run(o, m.chain, r)
<1>1. \/ m \in UNION {Xhr, XhrStreaming, XhrSend, Jsonp, JsonpSend, EventSource, HtmlFile}
      \/ m \in Info \cup v2_Info
      \/ m \in UNION {Root, Websocket, RawWebsocket}
      \/ m \in Iframe
  BY DEF Entries, v2_Entries, When
<1>2. CASE m \in UNION {Xhr, XhrStreaming, XhrSend, Jsonp, JsonpSend, EventSource, HtmlFile}
  <2>1. m.path \in SessionNames /\ m.path # "info"
    BY <1>2 DEF Xhr, XhrStreaming, XhrSend, Jsonp, JsonpSend, EventSource, HtmlFile, newMapping,
                eventSourceMapping, htmlFileMapping, SessionNames
  <2>2. \/ \E hf \in Endpoints : m.chain = Served(hf)
        \/ /\ m.chain = Preflighted
           /\ m.method = "OPTIONS"
           /\ m.path \in CorsPatterns \cup {"jsonp"}
    BY <1>2 DEF Xhr, XhrStreaming, XhrSend, Jsonp, JsonpSend, EventSource, HtmlFile, newMapping,
                eventSourceMapping, htmlFileMapping, Endpoints, CorsPatterns
  <2>3. CASE \E hf \in Endpoints : m.chain = Served(hf)
    <3>1. \E hf \in Endpoints : Done(a, 200, hf, Cors(o, r))
      BY <2>3, ServedRuns
    <3> HIDE DEF a
    <3> QED BY <2>1, <3>1 DEF Done, Success, IsAnswer, a
  <2>4. CASE /\ m.chain = Preflighted
             /\ m.method = "OPTIONS"
             /\ m.path \in CorsPatterns \cup {"jsonp"}
    <3>1. Done(a, 204, "xhrOptions", Cors(o, r)) /\ Allows(a, {"OPTIONS", "POST"})
      BY <2>4, PreflightedRuns
    <3> HIDE DEF a
    <3> QED BY <2>1, <2>4, <3>1 DEF Done, Allows, Success, SessionHandlers, IsAnswer, a
  <2> QED BY <2>2, <2>3, <2>4
<1>3. CASE m \in Info \cup v2_Info
  <2>1. m.path = "info" /\ m.method \in {"GET", "OPTIONS"}
    BY <1>3 DEF Info, v2_Info, newMapping
  <2>2. \E hf \in {"cacheFor", "noCache"} :
          m.chain \in {<<"cookie", "xhrCors", hf, "info">>, <<"xhrCors", hf, "info">>}
    BY <1>3 DEF Info, v2_Info, newMapping
  <2>3. InfoDone(a, r.method, Cors(o, r))
    BY <2>1, <2>2, InfoRuns
  <2> HIDE DEF a
  <2> QED BY <2>1, <2>3 DEF InfoDone, Done, Allows, Success, SessionHandlers, CorsPatterns, IsAnswer, a
<1>4. CASE m \in UNION {Root, Websocket, RawWebsocket}
  <2>1. PICK hf \in {"welcomeHandler", "sockjsWebsocket", "rawWebsocket"} :
          m.chain = <<hf>> /\ (hf = "sockjsWebsocket" => m.path = "websocket")
    BY <1>4 DEF Root, Websocket, RawWebsocket, newMapping
  <2>2. m.path \notin CorsPatterns
    BY <1>4 DEF Root, Websocket, RawWebsocket, newMapping, CorsPatterns
  <2>3. Done(a, 200, hf, "")
    BY <2>1, SingleRuns DEF Endpoints
  <2> HIDE DEF a
  <2>4. a["status"] = 200 /\ a["handler"] = hf
    BY <2>3 DEF Done
  <2>5. hf \in SessionHandlers \cup {"sockjsWebsocket"} => m.path \in SessionNames
    BY <2>1 DEF SessionHandlers, SessionNames
  <2>6. IsAnswer(a, m, Cors(o, r))
    BY <2>2, <2>4, <2>5 DEF IsAnswer, Success
  <2> QED BY <2>6 DEF a
<1>5. CASE m \in Iframe
  <2>1. m.chain = <<"cacheFor", "iframe">> /\ m.path \notin CorsPatterns
    BY <1>5 DEF Iframe, iframeMapping, newMapping, CorsPatterns
  <2>2. IframeDone(a)
    BY <2>1, IframeRuns
  <2> HIDE DEF a
  <2>3. a["status"] \in Success /\ a["status"] # 204
    BY <2>2 DEF IframeDone, Success
  <2>4. a["handler"] \notin SessionHandlers \cup {"sockjsWebsocket"}
    BY <2>2 DEF IframeDone, SessionHandlers
  <2>5. IsAnswer(a, m, Cors(o, r))
    BY <2>1, <2>3, <2>4 DEF IsAnswer
  <2> QED BY <2>5 DEF a
<1> QED BY <1>1, <1>2, <1>3, <1>4, <1>5

\* The fields of a mapping.
LEMMA MappingFields ==
  ASSUME NEW method, NEW re, NEW chain
  PROVE  /\ newMapping(method, re, chain).method = method
         /\ newMapping(method, re, chain).path = re
         /\ newMapping(method, re, chain).chain = chain
  BY DEF newMapping

\* The mappings that the properties speak of are there.
LEMMA EntryKeys ==
  ASSUME NEW o
  PROVE  /\ \A m \in Entries(o) \cup v2_Entries(o) : m.method \in Methods /\ m.path \in Patterns
         /\ \A E \in {Entries(o), v2_Entries(o)} : \A m \in E :
              m.path \in CorsPatterns /\ m.method = "OPTIONS" =>
                \A x \in {"OPTIONS", IF m.path = "info" THEN "GET" ELSE "POST"} :
                  \E n \in E : n.path = m.path /\ n.method = x
<1>1. \A m \in Entries(o) \cup v2_Entries(o) : m.method \in Methods /\ m.path \in Patterns
  BY DEF Entries, v2_Entries, When, Root, Info, v2_Info, Iframe, Xhr, XhrStreaming, XhrSend, Jsonp,
         JsonpSend, EventSource, HtmlFile, Websocket, RawWebsocket, newMapping, iframeMapping,
         eventSourceMapping, htmlFileMapping, Methods, Patterns
<1>2. ASSUME NEW E \in {Entries(o), v2_Entries(o)}, NEW m \in E,
             m.path \in CorsPatterns, m.method = "OPTIONS",
             NEW x \in {"OPTIONS", IF m.path = "info" THEN "GET" ELSE "POST"}
      PROVE  \E n \in E : n.path = m.path /\ n.method = x
  <2>1. \E F \in {Xhr, XhrStreaming, XhrSend, Info, v2_Info} : m \in F /\ F \subseteq E
    BY <1>2 DEF Entries, v2_Entries, When, Root, Info, v2_Info, Iframe, Xhr, XhrStreaming, XhrSend,
         Jsonp, JsonpSend, EventSource, HtmlFile, Websocket, RawWebsocket, newMapping, iframeMapping,
         eventSourceMapping, htmlFileMapping, CorsPatterns
  <2>2. ASSUME NEW F \in {Xhr, XhrStreaming, XhrSend}, m \in F
        PROVE  \E n \in F : n.path = m.path /\ n.method = x
    <3>1. x \in {"OPTIONS", "POST"}
      BY <1>2, <2>2 DEF Xhr, XhrStreaming, XhrSend, newMapping
    <3>2. /\ \E hf \in Endpoints : newMapping("POST", m.path, Served(hf)) \in F
          /\ newMapping("OPTIONS", m.path, Preflighted) \in F
      <4>1. CASE F = Xhr
        BY <2>2, <4>1, MappingFields DEF Xhr, Endpoints
      <4>2. CASE F = XhrStreaming
        BY <2>2, <4>2, MappingFields DEF XhrStreaming, Endpoints
      <4>3. CASE F = XhrSend
        BY <2>2, <4>3, MappingFields DEF XhrSend, Endpoints
      <4> QED BY <2>2, <4>1, <4>2, <4>3
    <3> QED BY <3>1, <3>2, MappingFields
  <2>3. ASSUME NEW F \in {Info, v2_Info}, m \in F
        PROVE  \E n \in F : n.path = m.path /\ n.method = x
    <3>1. x \in {"OPTIONS", "GET"}
      BY <1>2, <2>3 DEF Info, v2_Info, newMapping
    <3>2. m.path = "info"
      BY <2>3, MappingFields DEF Info, v2_Info
    <3>3. \E c, d : newMapping("OPTIONS", "info", c) \in F /\ newMapping("GET", "info", d) \in F
      <4>1. CASE F = Info
        BY <4>1 DEF Info
      <4>2. CASE F = v2_Info
        BY <4>2 DEF v2_Info
      <4> QED BY <2>3, <4>1, <4>2
    <3> QED BY <3>1, <3>2, <3>3, MappingFields
  <2> QED BY <2>1, <2>2, <2>3
<1> QED BY <1>1, <1>2

-----------------------------------------------------------------------------
(* Paths.                                                                   *)

\* No path matches two patterns.
LEMMA PatternsDisjoint ==
  ASSUME NEW p, NEW a \in Patterns, NEW b \in Patterns, MatchString(a, p), MatchString(b, p)
  PROVE  a = b
<1> DEFINE Plains == {"root", "info", "iframe", "raw"}
<1>1. ASSUME NEW q, NEW c, c \in Patterns \ Plains, MatchString(c, q)
      PROVE  Len(q) = 3 /\ q[3] = c
  BY <1>1 DEF MatchString, SessionPath
<1>2. ASSUME NEW q, NEW c, c \in Plains, MatchString(c, q)
      PROVE  \/ c = "root" /\ q \in {<<>>, <<"">>}
             \/ c = "info" /\ q = <<"info">>
             \/ c = "iframe" /\ q = <<"iframe.html">>
             \/ c = "raw" /\ q = <<"websocket">>
  BY <1>2 DEF MatchString
<1> HIDE DEF Plains
<1>0. /\ Len(<<>>) = 0
      /\ \A x : Len(<<x>>) = 1 /\ <<x>>[1] = x
  OBVIOUS
<1>3. ASSUME NEW c, c \in Plains, MatchString(c, p)
      PROVE  /\ Len(p) \in {0, 1}
             /\ Len(p) = 1 => \/ c = "root" /\ p[1] = ""
                              \/ c = "info" /\ p[1] = "info"
                              \/ c = "iframe" /\ p[1] = "iframe.html"
                              \/ c = "raw" /\ p[1] = "websocket"
             /\ Len(p) = 0 => c = "root"
  <2>1. CASE c = "root" /\ p = <<>>
    BY <2>1, <1>0
  <2>2. CASE c = "root" /\ p = <<"">>
    BY <2>2, <1>0
  <2>3. CASE c = "info" /\ p = <<"info">>
    BY <2>3, <1>0
  <2>4. CASE c = "iframe" /\ p = <<"iframe.html">>
    BY <2>4, <1>0
  <2>5. CASE c = "raw" /\ p = <<"websocket">>
    BY <2>5, <1>0
  <2> QED BY <1>2, <1>3, <2>1, <2>2, <2>3, <2>4, <2>5
<1>4. CASE a \in Plains /\ b \in Plains
  <2>1. CASE Len(p) = 0
    BY <1>3, <1>4, <2>1
  <2>2. CASE Len(p) = 1
    <3>1. ASSUME NEW c, c \in Plains, MatchString(c, p)
          PROVE  c = IF p[1] = "" THEN "root" ELSE IF p[1] = "info" THEN "info"
                     ELSE IF p[1] = "iframe.html" THEN "iframe" ELSE "raw"
      BY <1>3, <2>2, <3>1
    <3> HIDE DEF Plains
    <3> QED BY <1>4, <3>1
  <2> QED BY <1>3, <1>4, <2>1, <2>2
<1>5. CASE a \notin Plains /\ b \notin Plains
  <2>1. p[3] = a /\ p[3] = b
    <3> HIDE DEF Plains
    <3> QED BY <1>1, <1>5
  <2> QED BY <2>1
<1>6. CASE (a \in Plains /\ b \notin Plains) \/ (a \notin Plains /\ b \in Plains)
  <2>1. Len(p) = 3 /\ Len(p) \in {0, 1}
    <3> HIDE DEF Plains
    <3> QED BY <1>1, <1>3, <1>6
  <2> QED BY <2>1
<1> QED BY <1>4, <1>5, <1>6

\* Nor does one through the prefix, unless the prefix occurs again.
LEMMA UniquePattern ==
  ASSUME NEW p, ~PrefixRepeats(p), NEW a \in Patterns, NEW b \in Patterns,
         MatchPath(a, p), MatchPath(b, p)
  PROVE  a = b
<1>1. PICK i \in Occurrences(p) : (prefix = <<>> => i = 0) /\ MatchString(a, After(p, i))
  BY DEF MatchPath
<1>2. PICK j \in Occurrences(p) : (prefix = <<>> => j = 0) /\ MatchString(b, After(p, j))
  BY DEF MatchPath
<1>3. i = j
  BY <1>1, <1>2 DEF PrefixRepeats
<1> QED BY <1>1, <1>2, <1>3, PatternsDisjoint

-----------------------------------------------------------------------------
(* Answers.                                                                 *)

\* The handler's mappings are those of its options, E.
Handles(E) ==
  /\ ListOf(mappings, Patterns, E)
  /\ \/ ~v2 /\ E = Entries(options)
     \/ v2 /\ E = v2_Entries(options) /\ v2_Transports \subseteq options.enabled

\* The list of the mappings and the set of them.
LEMMA HandledEntries ==
  ASSUME NEW E, Handles(E)
  PROVE  /\ E \in {Entries(options), v2_Entries(options)}
         /\ DOMAIN mappings \subseteq Nat
         /\ \A i \in DOMAIN mappings : mappings[i] \in E
         /\ \A m \in E : \E i \in DOMAIN mappings : mappings[i] = m
         /\ \A m \in E : m.path \in Patterns /\ m.method \in Methods
         /\ KeysDiffer(mappings)
         /\ Range(mappings) = E
<1>1. ListOf(mappings, Patterns, E) /\ E \in {Entries(options), v2_Entries(options)}
  BY DEF Handles
<1>2. mappings \in Seq(E)
  BY <1>1 DEF ListOf
<1>3. DOMAIN mappings \subseteq Nat /\ \A i \in DOMAIN mappings : mappings[i] \in E
  BY <1>2
<1>4. \A m \in E : \E i \in DOMAIN mappings : mappings[i] = m
  BY <1>1 DEF ListOf
<1>5. \A m \in E : m.path \in Patterns /\ m.method \in Methods
  BY <1>1, EntryKeys
<1>6. Range(mappings) = E
  BY <1>3, <1>4 DEF Range
<1> QED BY <1>1, <1>3, <1>4, <1>5, <1>6 DEF ListOf

Serving(m, r) == m.method = r.method /\ MatchPath(m.path, r.path)

\* Which mappings match a request in full, and which its path only.
LEMMA Matchings ==
  ASSUME NEW r
  PROVE  /\ Matching("fullMatch", r) = {i \in DOMAIN mappings : Serving(mappings[i], r)}
         /\ Matching("pathMatch", r) =
              {i \in DOMAIN mappings : /\ MatchPath(mappings[i].path, r.path)
                                       /\ mappings[i].method # r.method}
         /\ \A i \in Matching("pathMatch", r) : matches(mappings[i], r).method = mappings[i].method
  BY DEF Matching, matches, Serving

\* Served by a mapping of that method of that path, if there is one.
LEMMA AnswerServed ==
  ASSUME NEW E, Handles(E), NEW r, \E m \in E : Serving(m, r)
  PROVE  \E m \in E : /\ Serving(m, r)
                      /\ Answer(r) = Run(options, m.chain, r)
                      /\ IsAnswer(Answer(r), m, Cors(options, r))
<1> DEFINE full == Matching("fullMatch", r)
<1>1. full = {i \in DOMAIN mappings : Serving(mappings[i], r)}
  BY Matchings
<1>2. full # {} /\ full \subseteq Nat
  BY <1>1, HandledEntries
<1>3. Answer(r) = Run(options, mappings[Min(full)].chain, r)
  BY <1>2 DEF Answer
<1> HIDE DEF full
<1>4. Min(full) \in full
  BY <1>2, MinIsLeast
<1>5. mappings[Min(full)] \in E /\ Serving(mappings[Min(full)], r)
  BY <1>1, <1>4, HandledEntries
<1>6. ASSUME NEW m \in E, Serving(m, r)
      PROVE  IsAnswer(Run(options, m.chain, r), m, Cors(options, r))
  BY <1>6, HandledEntries, EntryAnswers DEF Serving
<1> QED BY <1>3, <1>5, <1>6

\* The methods of the mappings of the path.
OtherMethods(r) == [i \in Matching("pathMatch", r) |-> mappings[i].method]

\* Refused, when there is none: with the methods of the path's mappings,
LEMMA AnswerNotAllowed ==
  ASSUME NEW E, Handles(E), NEW r, ~ \E m \in E : Serving(m, r), Matching("pathMatch", r) # {}
  PROVE  /\ Answer(r).status = 405
         /\ Answer(r).handler = "MethodNotAllowed"
         /\ Answer(r).allow = OtherMethods(r)
<1> DEFINE list == [i \in Matching("pathMatch", r) |-> matches(mappings[i], r).method]
<1>1. Matching("fullMatch", r) = {}
  BY Matchings, HandledEntries
<1>2. list = OtherMethods(r)
  BY Matchings DEF OtherMethods
<1>3. Answer(r) = Write(Set(NoResponse, "allow", list), 405, "MethodNotAllowed")
  BY <1>1 DEF Answer
<1> HIDE DEF list
<1>4. Answer(r).status = 405 /\ Answer(r).handler = "MethodNotAllowed" /\ Answer(r).allow = list
  BY <1>3 DEF Write, Set, NoResponse
<1> QED BY <1>2, <1>4

\* or as not found.
LEMMA AnswerNotFound ==
  ASSUME NEW E, Handles(E), NEW r, ~ \E m \in E : Serving(m, r), Matching("pathMatch", r) = {}
  PROVE  Answer(r).status = 404 /\ Answer(r).handler = "NotFound"
<1>1. Matching("fullMatch", r) = {}
  BY Matchings, HandledEntries
<1>2. Answer(r) = Write(NoResponse, 404, "NotFound")
  BY <1>1 DEF Answer
<1> QED BY <1>2 DEF Write, NoResponse

\* Refused with either status.
LEMMA AnswerRefused ==
  ASSUME NEW E, Handles(E), NEW r, ~ \E m \in E : Serving(m, r)
  PROVE  /\ Answer(r).status = IF Matching("pathMatch", r) = {} THEN 404 ELSE 405
         /\ Answer(r).handler \in {"NotFound", "MethodNotAllowed"}
<1>1. CASE Matching("pathMatch", r) = {}
  BY <1>1, AnswerNotFound
<1>2. CASE Matching("pathMatch", r) # {}
  <2>1. Answer(r).status = 405 /\ Answer(r).handler = "MethodNotAllowed"
    BY <1>2, AnswerNotAllowed
  <2> QED BY <1>2, <2>1
<1> QED BY <1>1, <1>2

\* A request succeeds exactly when a mapping serves it.
LEMMA Succeeds ==
  ASSUME NEW E, Handles(E), NEW r
  PROVE  /\ Answer(r).status \in Success <=> \E m \in E : Serving(m, r)
         /\ Answer(r).status = 405 \/ Answer(r).status = 404 \/ Answer(r).status \in Success
         /\ ~ (405 \in Success) /\ ~ (404 \in Success)
<1>1. ~ (405 \in Success) /\ ~ (404 \in Success)
  BY DEF Success
<1>2. CASE \E m \in E : Serving(m, r)
  <2>1. Answer(r).status \in Success
    BY <1>2, AnswerServed DEF IsAnswer
  <2> QED BY <1>1, <1>2, <2>1
<1>3. CASE ~ \E m \in E : Serving(m, r)
  <2>1. Answer(r).status \in {404, 405}
    BY <1>3, AnswerRefused
  <2> QED BY <1>1, <1>3, <2>1
<1>4. Answer(r).status \in Success => \E m \in E : Serving(m, r)
  BY <1>1, <1>3
<1>5. (\E m \in E : Serving(m, r)) => Answer(r).status \in Success
  BY <1>2
<1>6. Answer(r).status = 405 \/ Answer(r).status = 404 \/ Answer(r).status \in Success
  BY <1>2, <1>3
<1> QED BY <1>1, <1>4, <1>5, <1>6

\* A request with another method.
LEMMA OtherMethod ==
  ASSUME NEW r \in RequestType, NEW method
  PROVE  LET s == [r EXCEPT !.method = method]
         IN  /\ s.method = method
             /\ s.path = r.path
             /\ \A o : Cors(o, s) = Cors(o, r)
<1> DEFINE s == [r EXCEPT !.method = method]
<1>1. s.method = method /\ s.path = r.path /\ s.origin = r.origin
  BY DEF RequestType
<1> HIDE DEF s
<1>2. \A o : Cors(o, s) = Cors(o, r)
  BY <1>1 DEF Cors, corsEnabled, corsOrigin
<1> QED BY <1>1, <1>2 DEF s

-----------------------------------------------------------------------------
(* The invariant.                                                           *)

\* What NewHandler left behind, and that the exchange was answered by it.
RInv ==
  /\ prefix \in Seq(STRING \ {""}) /\ (~v2 => prefix = <<>>)
  /\ options = <<>> => ~Answered
  /\ options # <<>> => \E E \in {Entries(options), v2_Entries(options)} : Handles(E)
  /\ Answered => \E r \in Requests : exchange = [request |-> r, response |-> Answer(r)]

\* A handler does not change: an answer given stays the one that would be given.
LEMMA AnswerSame ==
  ASSUME UNCHANGED <<v2, prefix, options, mappings>>
  PROVE  /\ \A r : Answer(r)' = Answer(r)
         /\ \A E : Handles(E)' <=> Handles(E)
<1>1. \A p, i : After(p, i)' = After(p, i)
  BY DEF After
<1>2. \A p : Occurrences(p)' = Occurrences(p)
  BY DEF Occurrences
<1>3. \A re, p : MatchPath(re, p)' <=> MatchPath(re, p)
  BY <1>1, <1>2 DEF MatchPath
<1>4. \A m, r : matches(m, r)' = matches(m, r)
  BY <1>3 DEF matches
<1>5. \A match, r : Matching(match, r)' = Matching(match, r)
  BY <1>4 DEF Matching
<1>6. \A r : Answer(r)' = Answer(r)
  BY <1>4, <1>5 DEF Answer
<1>7. \A E : Handles(E)' <=> Handles(E)
  BY DEF Handles
<1> QED BY <1>6, <1>7

\* The invariant holds: NewHandler and newHandler leave the lists of HandlerList
\* and v2_HandlerList, ServeHTTP answers by them, and no step changes them after.
THEOREM RInvariance == Spec => []RInv
<1>1. Init => RInv
  BY DEF Init, RInv, Answered
<1>2. RInv /\ [Next]_vars => RInv'
  <2> SUFFICES ASSUME RInv, [Next]_vars PROVE RInv'
    OBVIOUS
  <2>1. ASSUME NEW o \in OptionSets, NewHandler(o) PROVE RInv'
    <3>1. ListOf(mappings', Patterns, Entries(o))
      BY <2>1, HandlerList DEF NewHandler
    <3>2. Handles(Entries(o))'
      BY <2>1, <3>1 DEF NewHandler, Handles
    <3>3. ~Answered' /\ options' = o
      BY <2>1 DEF NewHandler, RInv, Answered
    <3>4. (prefix \in Seq(STRING \ {""}) /\ (~v2 => prefix = <<>>))'
      BY <2>1 DEF NewHandler, RInv
    <3> QED BY <3>2, <3>3, <3>4 DEF RInv
  <2>2. ASSUME NEW o \in OptionSets, NEW p \in PathPrefixes, v2_newHandler(o, p) PROVE RInv'
    <3>1. ListOf(mappings', Patterns, v2_Entries(o))
      BY <2>2, v2_HandlerList DEF v2_newHandler
    <3>2. Handles(v2_Entries(o))'
      BY <2>2, <3>1 DEF v2_newHandler, Handles
    <3>3. ~Answered' /\ options' = o
      BY <2>2 DEF v2_newHandler, RInv, Answered
    <3>4. (prefix \in Seq(STRING \ {""}) /\ (~v2 => prefix = <<>>))'
      BY <2>2, RoutingAssumption DEF v2_newHandler
    <3> QED BY <3>2, <3>3, <3>4 DEF RInv
  <2>3. CASE UNCHANGED <<v2, prefix, options, mappings>> /\ exchange' = NoExchange
    <3>1. ~Answered'
      BY <2>3 DEF Answered
    <3> QED BY <2>3, <3>1, AnswerSame DEF RInv
  <2>4. ASSUME NEW r \in Requests, Serve(r) PROVE RInv'
    <3>1. /\ UNCHANGED <<v2, prefix, options, mappings>>
          /\ options # <<>>
          /\ exchange' = [request |-> r, response |-> Answer(r)]
      BY <2>4 DEF Serve
    <3>2. exchange' = [request |-> r, response |-> Answer(r)']
      BY <3>1, AnswerSame
    <3> QED BY <3>1, <3>2, AnswerSame DEF RInv
  <2>5. CASE UNCHANGED vars
    <3>1. UNCHANGED <<v2, prefix, options, mappings>> /\ exchange' = exchange
      BY <2>5 DEF vars
    <3>2. Answered' <=> Answered
      BY <3>1 DEF Answered
    <3> QED BY <3>1, <3>2, AnswerSame DEF RInv
  <2> QED BY <2>1, <2>2, <2>3, <2>4, <2>5
          DEF Next, ServeHTTP, v2_ServeHTTP, finishRequest
<1> QED BY <1>1, <1>2, PTL DEF Spec

\* What the properties start from.
LEMMA AnsweredRequest ==
  ASSUME RInv, Answered
  PROVE  /\ \E E : Handles(E)
         /\ req \in Requests /\ req \in RequestType
         /\ resp = Answer(req)
<1>1. PICK r \in Requests : exchange = [request |-> r, response |-> Answer(r)]
  BY DEF RInv
<1>2. req = r /\ resp = Answer(r)
  BY <1>1 DEF req, resp
<1>3. \E E : Handles(E)
  BY DEF RInv
<1> QED BY <1>2, <1>3, RoutingAssumption

-----------------------------------------------------------------------------
\* The Allow header of a 405 lists exactly the methods of the path (ServeHTTP),
\* each once, for every list of options and every request; in v2, once unless
\* the prefix occurs again in the path.
THEOREM AllowIsExactTheorem == Spec => []AllowIsExact
<1>1. RInv => AllowIsExact
  <2> SUFFICES ASSUME RInv, Answered, resp.status = 405
               PROVE  /\ PrefixRepeats(req.path) \/ IsInjective(resp.allow)
                      /\ Range(resp.allow) =
                           {m \in Methods : Answer([req EXCEPT !.method = m]).status \in Success}
    BY DEF AllowIsExact
  <2>1. PICK E : Handles(E)
    BY AnsweredRequest
  <2>2. req \in RequestType /\ Answer(req).status = 405
    BY AnsweredRequest
  <2> DEFINE others == Matching("pathMatch", req)
  <2>3. ~ \E m \in E : Serving(m, req)
    BY <2>1, <2>2, Succeeds
  <2>4. others # {}
    BY <2>1, <2>2, <2>3, AnswerNotFound
  <2>5. resp.allow = OtherMethods(req)
    BY <2>1, <2>3, <2>4, AnswerNotAllowed, AnsweredRequest
  <2>6. DOMAIN OtherMethods(req) = others /\ \A i \in others : OtherMethods(req)[i] = mappings[i].method
    BY DEF OtherMethods
  <2>7. others = {i \in DOMAIN mappings : /\ MatchPath(mappings[i].path, req.path)
                                          /\ mappings[i].method # req.method}
    BY Matchings
  <2> HIDE DEF others
  <2>8. ASSUME ~PrefixRepeats(req.path) PROVE IsInjective(OtherMethods(req))
    <3>1. ASSUME NEW i \in others, NEW j \in others, mappings[i].method = mappings[j].method
          PROVE  i = j
      <4>1. mappings[i] \in E /\ mappings[j] \in E
        BY <2>1, <2>7, HandledEntries
      <4>2. mappings[i].path = mappings[j].path
        BY <2>1, <2>7, <2>8, <4>1, HandledEntries, UniquePattern
      <4> QED BY <2>1, <2>7, <3>1, <4>2, HandledEntries DEF KeysDiffer
    <3> QED BY <2>6, <3>1 DEF IsInjective
  <2> DEFINE Asked(m) == [req EXCEPT !.method = m]
  <2>9. ASSUME NEW m
        PROVE  Answer(Asked(m)).status \in Success <=> \E i \in others : mappings[i].method = m
    <3>1. Asked(m).method = m /\ Asked(m).path = req.path
      BY <2>2, OtherMethod
    <3> HIDE DEF Asked
    <3>2. Answer(Asked(m)).status \in Success <=> \E n \in E : Serving(n, Asked(m))
      BY <2>1, Succeeds
    <3>3. ASSUME NEW n \in E, Serving(n, Asked(m)) PROVE \E i \in others : mappings[i].method = m
      <4>1. n.method = m /\ MatchPath(n.path, req.path)
        BY <3>1, <3>3 DEF Serving
      <4>2. n.method # req.method
        BY <2>3, <4>1 DEF Serving
      <4>3. PICK i \in DOMAIN mappings : mappings[i] = n
        BY <2>1, HandledEntries
      <4> QED BY <2>7, <4>1, <4>2, <4>3
    <3>4. ASSUME NEW i \in others, mappings[i].method = m PROVE Serving(mappings[i], Asked(m))
      BY <2>7, <3>1, <3>4 DEF Serving
    <3>5. \A i \in others : mappings[i] \in E
      BY <2>1, <2>7, HandledEntries
    <3> QED BY <3>2, <3>3, <3>4, <3>5
  <2> HIDE DEF Asked
  <2>10. \A i \in others : mappings[i].method \in Methods
    BY <2>1, <2>7, HandledEntries
  <2>11. Range(OtherMethods(req)) = {m \in Methods : Answer(Asked(m)).status \in Success}
    BY <2>6, <2>9, <2>10 DEF Range
  <2> QED BY <2>5, <2>8, <2>11 DEF Asked
<1> QED BY <1>1, RInvariance, PTL

-----------------------------------------------------------------------------
(* The paths of the endpoints.                                              *)

\* The places of a concatenation.
LEMMA Concatenated ==
  ASSUME NEW T, NEW s \in Seq(T), NEW t \in Seq(T)
  PROVE  /\ s \o t \in Seq(T)
         /\ Len(s \o t) = Len(s) + Len(t)
         /\ \A i \in 1 .. Len(s) : (s \o t)[i] = s[i]
         /\ \A i \in 1 .. Len(t) : (s \o t)[Len(s) + i] = t[i]
  OBVIOUS

\* A path below the prefix goes on after the prefix with what was appended.
LEMMA AfterPrefix ==
  ASSUME NEW S, prefix \in Seq(S), NEW q \in Seq(S)
  PROVE  0 \in Occurrences(prefix \o q) /\ After(prefix \o q, 0) = q
<1> DEFINE n == Len(prefix)
           p == prefix \o q
<1>1. n \in Nat /\ Len(q) \in Nat
  OBVIOUS
<1>2. /\ p \in Seq(S) /\ Len(p) = n + Len(q)
      /\ \A i \in 1 .. n : p[i] = prefix[i]
      /\ \A i \in 1 .. Len(q) : p[n + i] = q[i]
  BY Concatenated
<1> HIDE DEF n, p
<1>3. SubSeq(p, 0 + 1, 0 + n) = prefix
  <2>1. SubSeq(p, 1, n) = prefix
    BY <1>1, <1>2 DEF n
  <2> QED BY <1>1, <2>1
<1>4. 0 \in Occurrences(p)
  BY <1>1, <1>2, <1>3 DEF Occurrences, n
<1>5. After(p, 0) = q
  <2>1. SubSeq(p, n + 1, n + Len(q)) = q
    BY <1>1, <1>2
  <2>2. 0 + n + 1 = n + 1
    BY <1>1
  <2> QED BY <1>2, <2>1, <2>2 DEF After, n
<1> QED BY <1>4, <1>5 DEF p

\* The endpoints that can be switched off, and where: those of sessions, and the one
\* of raw websockets.
SwitchedNames == SessionNames \cup {"raw"}

\* The pattern of an endpoint matches its path below the prefix.
LEMMA PathMatches ==
  ASSUME NEW S, prefix \in Seq(S), NEW name \in SwitchedNames
  PROVE  MatchPath(name, PathOf(name))
<1> DEFINE T == S \cup {"srv", "sid", "websocket", name}
           q == IF name = "raw" THEN <<"websocket">> ELSE <<"srv", "sid", name>>
<1>1. prefix \in Seq(T)
  OBVIOUS
<1>2. q \in Seq(T) /\ PathOf(name) = prefix \o q
  <2>1. <<"websocket">> \in Seq(T) /\ <<"srv", "sid", name>> \in Seq(T)
    OBVIOUS
  <2>2. q \in Seq(T)
    BY <2>1, Zenon
  <2>3. PathOf(name) = prefix \o q
    BY Zenon DEF PathOf
  <2> QED BY <2>2, <2>3
<1>3. MatchString(name, q)
  <2>1. CASE name = "raw"
    BY <2>1 DEF MatchString
  <2>2. CASE name \in SessionNames
    <3>1. name \notin {"root", "info", "iframe", "raw"}
      BY <2>2 DEF SessionNames
    <3>2. q[1] = "srv" /\ q[2] = "sid" /\ q[3] = name /\ Len(q) = 3
      BY <3>1
    <3>3. SessionPath(name, q)
      BY <3>2 DEF SessionPath, sessionPrefix, Plain
    <3> QED BY <3>1, <3>3 DEF MatchString
  <2> QED BY <2>1, <2>2 DEF SwitchedNames
<1> HIDE DEF q, T
<1>4. 0 \in Occurrences(PathOf(name)) /\ After(PathOf(name), 0) = q
  BY <1>1, <1>2, AfterPrefix
<1> QED BY <1>3, <1>4 DEF MatchPath

\* The endpoints that are switched on.
Enabled(name, o) ==
  CASE name = "xhr_send"   -> NeedsXhrSend(o)
    [] name = "jsonp_send" -> "jsonp" \in o.enabled
    [] OTHER               -> name \in o.enabled

\* Such an endpoint has a mapping exactly when it is enabled.
LEMMA EntryEnabled ==
  ASSUME NEW E, Handles(E), NEW name \in SwitchedNames
  PROVE  (\E m \in E : m.path = name) <=> Enabled(name, options)
<1> DEFINE Named(F) == \E m \in F : m.path = name
<1>1. /\ Named(Xhr) <=> name = "xhr"
      /\ Named(XhrStreaming) <=> name = "xhr_streaming"
      /\ Named(XhrSend) <=> name = "xhr_send"
      /\ Named(Jsonp) <=> name = "jsonp"
      /\ Named(JsonpSend) <=> name = "jsonp_send"
      /\ Named(EventSource) <=> name = "eventsource"
      /\ Named(HtmlFile) <=> name = "htmlfile"
      /\ Named(Websocket) <=> name = "websocket"
      /\ Named(RawWebsocket) <=> name = "raw"
  <2>1. \A method, re, chain : newMapping(method, re, chain).path = re
    BY DEF newMapping
  <2> QED BY <2>1 DEF Xhr, XhrStreaming, XhrSend, Jsonp, JsonpSend, EventSource, HtmlFile, Websocket,
                      RawWebsocket, eventSourceMapping, htmlFileMapping
<1>2. ~Named(Root) /\ ~Named(Info) /\ ~Named(v2_Info) /\ ~Named(Iframe)
  BY DEF Root, Info, v2_Info, Iframe, iframeMapping, newMapping, SwitchedNames, SessionNames
<1>4. CASE E = Entries(options)
  BY <1>1, <1>2, <1>4 DEF Entries, Enabled, SwitchedNames, SessionNames, When
<1>5. CASE E = v2_Entries(options) /\ v2_Transports \subseteq options.enabled
  BY <1>1, <1>2, <1>5 DEF v2_Entries, Enabled, SwitchedNames, SessionNames, When, v2_Transports,
                          Transports, NeedsXhrSend
<1> QED BY <1>4, <1>5 DEF Handles

\* A path is served exactly when some mapping is for it.
LEMMA ServesEnabled ==
  ASSUME RInv, options # <<>>, NEW name \in SwitchedNames
  PROVE  ServesOnlyIf(name, Enabled(name, options))
<1>1. PICK E : Handles(E)
  BY DEF RInv
<1> DEFINE R(m) == [method |-> m, path |-> PathOf(name), origin |-> "", headers |-> "", etag |-> ""]
<1>2. \A m : R(m).method = m /\ R(m).path = PathOf(name)
  OBVIOUS
<1>3. Serves(name) <=> \E m \in Methods : Answer(R(m)).status \in Success
  BY DEF Serves
<1> HIDE DEF R
<1>4. Serves(name) <=> \E m \in Methods : \E n \in E : Serving(n, R(m))
  BY <1>1, <1>3, Succeeds
<1>5. Serves(name) <=> \E n \in E : MatchPath(n.path, PathOf(name))
  <2>1. ASSUME NEW n \in E, MatchPath(n.path, PathOf(name)) PROVE Serving(n, R(n.method))
    BY <2>1, <1>2 DEF Serving
  <2>2. \A n \in E : n.method \in Methods
    BY <1>1, HandledEntries
  <2>3. ASSUME NEW n \in E, NEW m, Serving(n, R(m)) PROVE MatchPath(n.path, PathOf(name))
    BY <2>3, <1>2 DEF Serving
  <2> QED BY <1>4, <2>1, <2>2, <2>3
<1>6. name \in Patterns /\ MatchPath(name, PathOf(name))
  BY PathMatches DEF SwitchedNames, SessionNames, Patterns, RInv
<1>7. ASSUME ~PrefixRepeats(PathOf(name)), NEW n \in E
      PROVE  MatchPath(n.path, PathOf(name)) <=> n.path = name
  BY <1>1, <1>6, <1>7, HandledEntries, UniquePattern
<1>8. (\E n \in E : n.path = name) <=> Enabled(name, options)
  BY <1>1, EntryEnabled
<1> QED BY <1>5, <1>7, <1>8 DEF ServesOnlyIf

\* The path of each transport, raw websockets included, is served if and only if the
\* transport is enabled, and xhr_send if and only if one of the XHR transports is; in
\* v2, unless the prefix is such that it occurs again in the path.
THEOREM OnlyEnabledTheorem == Spec => []OnlyEnabled
<1>1. RInv => OnlyEnabled
  <2> SUFFICES ASSUME RInv, options # <<>> PROVE OnlyEnabled
    BY DEF OnlyEnabled
  <2>1. ASSUME NEW t \in Transports PROVE ServesOnlyIf(t, t \in options.enabled)
    <3>1. t \in SwitchedNames /\ Enabled(t, options) = (t \in options.enabled)
      BY DEF Transports, SwitchedNames, SessionNames, Enabled
    <3> QED BY <3>1, ServesEnabled
  <2>2. ServesOnlyIf("xhr_send", options.enabled \cap {"xhr", "xhr_streaming"} # {})
    <3>1. "xhr_send" \in SwitchedNames
      BY DEF SwitchedNames, SessionNames
    <3>2. Enabled("xhr_send", options) = (options.enabled \cap {"xhr", "xhr_streaming"} # {})
      BY DEF Enabled, NeedsXhrSend
    <3> QED BY <3>1, <3>2, ServesEnabled
  <2>3. ServesOnlyIf("jsonp_send", "jsonp" \in options.enabled)
    <3>1. "jsonp_send" \in SwitchedNames /\ Enabled("jsonp_send", options) = ("jsonp" \in options.enabled)
      BY DEF SwitchedNames, SessionNames, Enabled
    <3> QED BY <3>1, ServesEnabled
  <2> QED BY <2>1, <2>2, <2>3 DEF OnlyEnabled
<1> QED BY <1>1, RInvariance, PTL

-----------------------------------------------------------------------------
(* The ids of sessions.                                                     *)

\* A part of a path, by its places.
LEMMA SubSeqPlaces ==
  ASSUME NEW T, NEW p \in Seq(T), NEW k \in Nat, NEW n \in Nat, k + n <= Len(p)
  PROVE  /\ SubSeq(p, k + 1, k + n) \in Seq(T)
         /\ Len(SubSeq(p, k + 1, k + n)) = n
         /\ \A x \in 1 .. n : SubSeq(p, k + 1, k + n)[x] = p[k + x]
  OBVIOUS

\* Two paths that agree on these places have the same part there.
LEMMA SubSeqSame ==
  ASSUME NEW T, NEW p \in Seq(T), NEW q \in Seq(T), Len(p) = Len(q),
         NEW k \in Nat, NEW n \in Nat, k + n <= Len(p),
         \A x \in 1 .. n : p[k + x] = q[k + x]
  PROVE  SubSeq(p, k + 1, k + n) = SubSeq(q, k + 1, k + n)
<1> DEFINE a == SubSeq(p, k + 1, k + n)
           b == SubSeq(q, k + 1, k + n)
<1>1. a \in Seq(T) /\ b \in Seq(T) /\ Len(a) = n /\ Len(b) = n
      /\ \A x \in 1 .. n : a[x] = p[k + x] /\ b[x] = q[k + x]
  BY SubSeqPlaces
<1> HIDE DEF a, b
<1>2. a = [x \in 1 .. n |-> a[x]] /\ b = [x \in 1 .. n |-> b[x]]
  BY <1>1
<1>3. \A x \in 1 .. n : a[x] = b[x]
  BY <1>1
<1>4. [x \in 1 .. n |-> a[x]] = [x \in 1 .. n |-> b[x]]
  BY <1>3
<1>5. a = b
  BY <1>2, <1>4
<1> QED BY <1>5 DEF a, b

\* Where the prefix of v2_Candidates may stand, and what is read there.
LEMMA Candidates ==
  ASSUME NEW T, NEW p \in Seq(T), NEW U, prefix \in Seq(U)
  PROVE  /\ v2_Candidates(p) = {i \in Nat : /\ i + Len(prefix) + 3 <= Len(p)
                                            /\ SubSeq(p, i + 1, i + Len(prefix)) = prefix
                                            /\ Plain(p[i + Len(prefix) + 1])
                                            /\ Plain(p[i + Len(prefix) + 2])}
         /\ \A i \in v2_Candidates(p) : After(p, i)[2] = p[i + Len(prefix) + 2]
<1> DEFINE n == Len(prefix)
<1>0. n \in Nat /\ Len(p) \in Nat
  OBVIOUS
<1>1. ASSUME NEW i \in Nat, i + n + 3 <= Len(p)
      PROVE  /\ Len(After(p, i)) >= 3
             /\ After(p, i)[1] = p[i + n + 1] /\ After(p, i)[2] = p[i + n + 2]
  BY <1>1 DEF After
<1>2. ASSUME NEW i \in Occurrences(p), Len(After(p, i)) >= 3
      PROVE  i \in Nat /\ i + n + 3 <= Len(p)
  <2>1. i \in Nat /\ i + n <= Len(p)
    BY <1>0 DEF Occurrences
  <2>2. Len(After(p, i)) = Len(p) - (i + n)
    BY <2>1 DEF After
  <2> QED BY <1>0, <1>2, <2>1, <2>2
<1>3. ASSUME NEW i \in Nat, i + n + 3 <= Len(p), SubSeq(p, i + 1, i + n) = prefix
      PROVE  i \in Occurrences(p)
  BY <1>0, <1>3 DEF Occurrences
<1>4. \A i \in Occurrences(p) : SubSeq(p, i + 1, i + n) = prefix
  BY DEF Occurrences
<1> HIDE DEF n
<1>5. \A i : i \in v2_Candidates(p) =>
               /\ i \in Nat /\ i + n + 3 <= Len(p) /\ SubSeq(p, i + 1, i + n) = prefix
               /\ Plain(p[i + n + 1]) /\ Plain(p[i + n + 2])
               /\ After(p, i)[2] = p[i + n + 2]
  BY <1>1, <1>2, <1>4 DEF v2_Candidates, sessionPrefix
<1>6. \A i \in Nat : /\ i + n + 3 <= Len(p) /\ SubSeq(p, i + 1, i + n) = prefix
                     /\ Plain(p[i + n + 1]) /\ Plain(p[i + n + 2])
                     => i \in v2_Candidates(p)
  <2> SUFFICES ASSUME NEW i \in Nat, i + n + 3 <= Len(p), SubSeq(p, i + 1, i + n) = prefix,
                      Plain(p[i + n + 1]), Plain(p[i + n + 2])
               PROVE  i \in v2_Candidates(p)
    OBVIOUS
  <2>1. i \in Occurrences(p) /\ Len(After(p, i)) >= 3
    BY <1>1, <1>3
  <2>2. sessionPrefix(After(p, i))
    <3>1. Len(After(p, i)) >= 2
      BY <2>1, <1>0 DEF After
    <3> QED BY <1>1, <3>1 DEF sessionPrefix
  <2> QED BY <2>1, <2>2 DEF v2_Candidates
<1> QED BY <1>5, <1>6 DEF n

\* Another last segment leaves the others.
LEMMA ReplaceLast ==
  ASSUME NEW T, NEW p \in Seq(T), NEW name \in T
  PROVE  /\ [p EXCEPT ![Len(p)] = name] \in Seq(T)
         /\ Len([p EXCEPT ![Len(p)] = name]) = Len(p)
         /\ \A x \in 1 .. Len(p) : x # Len(p) => [p EXCEPT ![Len(p)] = name][x] = p[x]
<1> DEFINE n == Len(p)
           q == [p EXCEPT ![n] = name]
<1>1. n \in Nat /\ DOMAIN p = 1 .. n /\ \A x \in 1 .. n : p[x] \in T
  OBVIOUS
<1> HIDE DEF n
<1>2. q = [x \in 1 .. n |-> IF x = n THEN name ELSE p[x]]
  BY <1>1
<1> HIDE DEF q
<1>3. q \in [1 .. n -> T]
  BY <1>1, <1>2
<1>4. q \in Seq(T) /\ Len(q) = n
  BY <1>1, <1>3
<1>5. \A x \in 1 .. n : x # n => q[x] = p[x]
  BY <1>2
<1> QED BY <1>4, <1>5 DEF q, n

\* What is read as the id after an occurrence of the prefix.
IDAfter(p, i) == After(p, i)[2]

\* Reads the same id on the path of every endpoint of the session.
LEMMA SiblingCandidates ==
  ASSUME NEW T, NEW p \in Seq(T), Len(p) >= 3, NEW name \in T, NEW U, prefix \in Seq(U)
  PROVE  /\ v2_Candidates(Sibling(p, name)) = v2_Candidates(p)
         /\ \A i \in v2_Candidates(p) : IDAfter(Sibling(p, name), i) = IDAfter(p, i)
         /\ v2_Candidates(p) \subseteq Nat
<1> DEFINE q == Sibling(p, name)
           n == Len(prefix)
<1>0. n \in Nat /\ Len(p) \in Nat
  OBVIOUS
<1>1. q \in Seq(T) /\ Len(q) = Len(p) /\ \A x \in 1 .. Len(p) : x # Len(p) => q[x] = p[x]
  BY ReplaceLast DEF Sibling
<1> HIDE DEF q
<1>2. ASSUME NEW i \in Nat, i + n + 3 <= Len(p)
      PROVE  /\ q[i + n + 1] = p[i + n + 1] /\ q[i + n + 2] = p[i + n + 2]
             /\ SubSeq(q, i + 1, i + n) = SubSeq(p, i + 1, i + n)
  <2>1. q[i + n + 1] = p[i + n + 1] /\ q[i + n + 2] = p[i + n + 2]
    BY <1>0, <1>1, <1>2
  <2>2. \A x \in 1 .. n : q[i + x] = p[i + x]
    BY <1>0, <1>1, <1>2
  <2> HIDE DEF n
  <2>3. SubSeq(q, i + 1, i + n) = SubSeq(p, i + 1, i + n)
    <3>1. i + n <= Len(q)
      BY <1>0, <1>1, <1>2
    <3> QED BY <1>0, <1>1, <2>2, <3>1, SubSeqSame
  <2> QED BY <2>1, <2>3
<1> DEFINE Cand(s) == {i \in Nat : /\ i + n + 3 <= Len(s)
                                   /\ SubSeq(s, i + 1, i + n) = prefix
                                   /\ Plain(s[i + n + 1]) /\ Plain(s[i + n + 2])}
<1>3. v2_Candidates(p) = Cand(p) /\ v2_Candidates(q) = Cand(q)
      /\ (\A i \in v2_Candidates(p) : After(p, i)[2] = p[i + n + 2])
      /\ (\A i \in v2_Candidates(q) : After(q, i)[2] = q[i + n + 2])
  BY <1>1, Candidates
<1> HIDE DEF n
<1>4. Cand(p) = Cand(q)
  BY <1>1, <1>2
<1>5. Cand(p) \subseteq Nat /\ \A i \in Cand(p) : q[i + n + 2] = p[i + n + 2]
  BY <1>2
<1>6. v2_Candidates(q) = v2_Candidates(p) /\ v2_Candidates(p) \subseteq Nat
  BY <1>3, <1>4, <1>5
<1>7. \A i \in v2_Candidates(p) : IDAfter(q, i) = IDAfter(p, i)
  <2> SUFFICES ASSUME NEW i \in v2_Candidates(p) PROVE IDAfter(q, i) = IDAfter(p, i)
    OBVIOUS
  <2>1. i \in Cand(p) /\ i \in v2_Candidates(q)
    BY <1>3, <1>6
  <2>2. After(p, i)[2] = p[i + n + 2] /\ After(q, i)[2] = q[i + n + 2]
    BY <1>3, <2>1
  <2>3. q[i + n + 2] = p[i + n + 2]
    BY <1>5, <2>1
  <2> QED BY <2>2, <2>3 DEF IDAfter
<1> QED BY <1>6, <1>7 DEF q

\* The prefix is a list of segments, none in v3.
LEMMA PrefixSegments ==
  ASSUME RInv
  PROVE  prefix \in Seq(STRING \ {""}) /\ Len(prefix) \in Nat /\ (~v2 => prefix = <<>>)
<1>1. prefix \in Seq(STRING \ {""})
  BY DEF RInv
<1>2. \A T, p : p \in Seq(T) => Len(p) \in Nat
  OBVIOUS
<1>3. ~v2 => prefix = <<>>
  BY DEF RInv
<1> QED BY <1>1, <1>2, <1>3, Zenon

\* A session's path, below an occurrence i of the prefix.
BelowPrefix(p, i) ==
  /\ i \in Occurrences(p) /\ (prefix = <<>> => i = 0)
  /\ Len(After(p, i)) = 3 /\ sessionPrefix(After(p, i))

\* It is one of the places that v2 looks at, the last one it can, and in v3 the path itself.
LEMMA BelowPrefixPlaces ==
  ASSUME RInv, NEW T, NEW p \in Seq(T), NEW i, BelowPrefix(p, i)
  PROVE  /\ i \in Nat /\ Len(p) = i + Len(prefix) + 3
         /\ i \in v2_Candidates(p)
         /\ ~v2 => prefix = <<>> /\ Len(p) = 3 /\ sessionPrefix(p)
<1>1. Len(prefix) \in Nat
  BY PrefixSegments
<1>2. Len(p) \in Nat
  OBVIOUS
<1>3. i \in Nat /\ i + Len(prefix) <= Len(p)
  BY <1>1, <1>2 DEF BelowPrefix, Occurrences
<1>4. Len(After(p, i)) = Len(p) - (i + Len(prefix))
  BY <1>1, <1>2, <1>3 DEF After
<1>5. Len(p) = i + Len(prefix) + 3
  <2>1. Len(p) - (i + Len(prefix)) = 3
    BY <1>4 DEF BelowPrefix
  <2> QED BY <1>1, <1>2, <1>3, <2>1
<1>6. i \in v2_Candidates(p)
  <2>1. Len(After(p, i)) >= 3
    BY DEF BelowPrefix
  <2> QED BY <2>1 DEF BelowPrefix, v2_Candidates
<1>7. ASSUME ~v2 PROVE prefix = <<>> /\ Len(p) = 3 /\ sessionPrefix(p)
  <2>1. prefix = <<>> /\ i = 0 /\ Len(prefix) = 0
    BY <1>7 DEF RInv, BelowPrefix
  <2>2. After(p, i)[1] = p[1] /\ After(p, i)[2] = p[2] /\ Len(p) = 3
    BY <1>5, <2>1 DEF After
  <2> QED BY <2>1, <2>2 DEF BelowPrefix, sessionPrefix
<1> QED BY <1>3, <1>5, <1>6, <1>7

\* v3 reads the id of a path, and the same on the paths of the session's other endpoints.
LEMMA v3_IDs ==
  ASSUME NEW T, NEW p \in Seq(T), Len(p) = 3, sessionPrefix(p)
  PROVE  /\ parseSessionID(p) = p[2] /\ p[2] # ""
         /\ \A name \in T : parseSessionID(Sibling(p, name)) = p[2]
<1>1. parseSessionID(p) = p[2] /\ p[2] # "" /\ Plain(p[1]) /\ Plain(p[2])
  BY DEF parseSessionID, sessionPrefix, Plain
<1>2. ASSUME NEW name \in T PROVE parseSessionID(Sibling(p, name)) = p[2]
  <2>1. Len(Sibling(p, name)) = 3 /\ Sibling(p, name)[1] = p[1] /\ Sibling(p, name)[2] = p[2]
    BY ReplaceLast DEF Sibling
  <2> QED BY <1>1, <2>1 DEF parseSessionID, sessionPrefix
<1> QED BY <1>1, <1>2

\* v2 reads it after the first occurrence of the prefix that one follows.
LEMMA v2_IDs ==
  ASSUME RInv, NEW T, NEW p \in Seq(T), NEW i, BelowPrefix(p, i)
  PROVE  /\ v2_parseSessionID(p) # ""
         /\ PrefixRepeats(p) \/ v2_parseSessionID(p) = p[Len(p) - 1]
         /\ \A name \in T : v2_parseSessionID(Sibling(p, name)) = v2_parseSessionID(p)
<1> DEFINE C == v2_Candidates(p)
           k == Min(C)
<1>1. prefix \in Seq(STRING \ {""}) /\ Len(prefix) \in Nat
  BY PrefixSegments
<1>2. Len(p) \in Nat
  OBVIOUS
<1>3. i \in Nat /\ Len(p) = i + Len(prefix) + 3
  BY BelowPrefixPlaces
<1>4. i \in C
  BY BelowPrefixPlaces
<1>5. Len(p) - 1 = i + Len(prefix) + 2 /\ Len(p) >= 3
  <2>1. \A l, n \in Nat : l = i + n + 3 => l - 1 = i + n + 2 /\ l >= 3
    BY <1>3
  <2>2. Len(prefix) \in Nat /\ Len(p) \in Nat /\ Len(p) = i + Len(prefix) + 3
    BY <1>1, <1>2, <1>3
  <2> QED BY <2>1, <2>2
<1>6. /\ C \subseteq Occurrences(p) /\ C \subseteq Nat
      /\ \A j \in C : /\ After(p, j)[2] = p[j + Len(prefix) + 2]
                      /\ Plain(p[j + Len(prefix) + 2])
  <2>1. C \subseteq Occurrences(p)
    BY DEF v2_Candidates
  <2> QED BY <1>1, <2>1, Candidates
<1>7. v2_parseSessionID(p) = After(p, k)[2]
  BY <1>4 DEF v2_parseSessionID
<1> HIDE DEF C
<1>8. k \in C /\ \A j \in C : k <= j
  BY <1>4, <1>6, MinIsLeast
<1> HIDE DEF k
<1>9. After(p, k)[2] # ""
  BY <1>6, <1>8 DEF Plain
<1>10. ASSUME ~PrefixRepeats(p) PROVE After(p, k)[2] = p[Len(p) - 1]
  <2>1. k = i
    <3>1. CASE prefix = <<>>
      <4>1. i = 0 /\ k <= i /\ k \in Nat
        BY <3>1, <1>4, <1>6, <1>8 DEF BelowPrefix
      <4> QED BY <4>1
    <3>2. CASE prefix # <<>>
      BY <3>2, <1>4, <1>6, <1>8, <1>10 DEF PrefixRepeats
    <3> QED BY <3>1, <3>2
  <2> QED BY <1>4, <1>5, <1>6, <2>1
<1>11. ASSUME NEW name \in T PROVE v2_parseSessionID(Sibling(p, name)) = After(p, k)[2]
  <2>1. Len(p) >= 3
    BY <1>5
  <2>2. /\ v2_Candidates(Sibling(p, name)) = C
        /\ \A j \in C : IDAfter(Sibling(p, name), j) = IDAfter(p, j)
    BY <1>1, <1>11, <2>1, SiblingCandidates DEF C
  <2>3. v2_parseSessionID(Sibling(p, name)) = IDAfter(Sibling(p, name), k)
    BY <1>4, <2>2 DEF v2_parseSessionID, IDAfter, k
  <2> QED BY <1>8, <2>2, <2>3 DEF IDAfter
<1> QED BY <1>7, <1>9, <1>10, <1>11

\* The endpoints of sessions are only reached on paths of theirs.
LEMMA SessionPaths ==
  ASSUME RInv, Answered, resp.handler \in SessionHandlers \cup {"sockjsWebsocket"}
  PROVE  req.path \in Seq(STRING) /\ \E i : BelowPrefix(req.path, i)
<1>1. PICK E : Handles(E)
  BY AnsweredRequest
<1>2. req \in RequestType /\ resp = Answer(req)
  BY AnsweredRequest
<1>3. req.path \in Seq(STRING)
  BY <1>2 DEF RequestType
<1>4. \E m \in E : Serving(m, req)
  <2>1. resp.handler \notin {"NotFound", "MethodNotAllowed"}
    BY DEF SessionHandlers
  <2> QED BY <1>1, <1>2, <2>1, AnswerRefused
<1>5. PICK m \in E : Serving(m, req) /\ IsAnswer(Answer(req), m, Cors(options, req))
  BY <1>1, <1>4, AnswerServed
<1>6. m.path \in SessionNames
  BY <1>2, <1>5 DEF IsAnswer
<1>7. PICK i \in Occurrences(req.path) : /\ prefix = <<>> => i = 0
                                         /\ MatchString(m.path, After(req.path, i))
  BY <1>5 DEF Serving, MatchPath
<1>8. SessionPath(m.path, After(req.path, i))
  BY <1>6, <1>7 DEF MatchString, SessionNames
<1> QED BY <1>3, <1>7, <1>8 DEF SessionPath, BelowPrefix

\* Whoever reaches a session's endpoint has an id, which jsonpSend and
\* sockjsWebsocket rely on, the same on all the paths of the session's endpoints.
THEOREM SessionIDParsesTheorem == Spec => []SessionIDParses
<1>1. RInv => SessionIDParses
  <2> SUFFICES ASSUME RInv, Answered, resp.handler \in SessionHandlers \cup {"sockjsWebsocket"}
               PROVE  /\ SessionID(req.path) # ""
                      /\ \/ PrefixRepeats(req.path)
                         \/ SessionID(req.path) = req.path[Len(req.path) - 1]
                      /\ \A m \in Range(mappings) :
                           SessionID(Sibling(req.path, m.path)) = SessionID(req.path)
    BY DEF SessionIDParses
  <2>1. PICK i : BelowPrefix(req.path, i)
    BY SessionPaths
  <2> DEFINE Segment == STRING \cup Patterns
  <2>2. req.path \in Seq(Segment)
    <3>1. req.path \in Seq(STRING)
      BY SessionPaths
    <3> QED BY <3>1
  <2>3. \A m \in Range(mappings) : m.path \in Segment
    <3>1. PICK E : Handles(E)
      BY AnsweredRequest
    <3> QED BY <3>1, HandledEntries
  <2> HIDE DEF Segment
  <2>4. CASE v2
    BY <2>1, <2>2, <2>3, <2>4, v2_IDs DEF SessionID
  <2>5. CASE ~v2
    <3>1. Len(req.path) = 3 /\ sessionPrefix(req.path)
      BY <2>1, <2>2, <2>5, BelowPrefixPlaces
    <3>2. Len(req.path) - 1 = 2
      BY <3>1
    <3> QED BY <2>2, <2>3, <2>5, <3>1, <3>2, v3_IDs DEF SessionID
  <2> QED BY <2>4, <2>5
<1> QED BY <1>1, RInvariance, PTL

-----------------------------------------------------------------------------
\* The methods that a preflight was told are served, with the same CORS headers,
\* /jsonp and, in v2, the paths in which the prefix occurs again apart.
THEOREM PreflightHonouredTheorem == Spec => []PreflightHonoured
<1>1. RInv => PreflightHonoured
  <2> DEFINE Asked(x) == [req EXCEPT !.method = x]
  <2> SUFFICES ASSUME RInv, Answered, resp.status = 204, ~MatchPath("jsonp", req.path),
                      ~PrefixRepeats(req.path), NEW x \in resp.allowMethods
               PROVE  /\ Answer(Asked(x)).status \in Success
                      /\ Answer(Asked(x)).allowOrigin = resp.allowOrigin
    BY DEF PreflightHonoured
  <2>1. PICK E : Handles(E)
    BY AnsweredRequest
  <2>2. req \in RequestType /\ resp = Answer(req)
    BY AnsweredRequest
  <2>3. \E m \in E : Serving(m, req)
    <3>1. 204 \in Success
      BY DEF Success
    <3> QED BY <2>1, <2>2, <3>1, Succeeds
  <2>4. PICK m \in E : Serving(m, req) /\ IsAnswer(resp, m, Cors(options, req))
    BY <2>1, <2>2, <2>3, AnswerServed
  <2>5. MatchPath(m.path, req.path)
    BY <2>4 DEF Serving
  <2>6. /\ m.method = "OPTIONS" /\ m.path \in CorsPatterns
        /\ resp["allowMethods"] = {"OPTIONS", IF m.path = "info" THEN "GET" ELSE "POST"}
        /\ resp["allowOrigin"] = Cors(options, req)
    <3>1. m.path # "jsonp"
      BY <2>5
    <3> QED BY <2>4, <3>1 DEF IsAnswer
  <2>7. PICK n \in E : n.path = m.path /\ n.method = x
    BY <2>1, <2>6, HandledEntries, EntryKeys
  <2>8. Asked(x).method = x /\ Asked(x).path = req.path /\ Cors(options, Asked(x)) = Cors(options, req)
    BY <2>2, OtherMethod
  <2> HIDE DEF Asked
  <2>9. Serving(n, Asked(x))
    BY <2>5, <2>7, <2>8 DEF Serving
  <2>10. PICK l \in E : /\ Serving(l, Asked(x))
                        /\ IsAnswer(Answer(Asked(x)), l, Cors(options, Asked(x)))
    BY <2>1, <2>9, AnswerServed
  <2>11. l.path = m.path
    <3>1. MatchPath(l.path, req.path)
      BY <2>8, <2>10 DEF Serving
    <3> QED BY <2>1, <2>5, <3>1, HandledEntries, UniquePattern
  <2>12. Answer(Asked(x))["status"] \in Success /\ Answer(Asked(x))["allowOrigin"] = Cors(options, req)
    BY <2>6, <2>8, <2>10, <2>11 DEF IsAnswer
  <2> QED BY <2>6, <2>12
<1> QED BY <1>1, RInvariance, PTL

=============================================================================
