------------------------------ MODULE MCRouting ------------------------------
EXTENDS Routing

Opt(enabled, origin, checked, accepts, jsessionID) ==
    [enabled |-> enabled, origin |-> origin, checked |-> checked, accepts |-> accepts,
     jsessionID |-> jsessionID]

\* Every set of transports, with the default CORS settings.
AnyTransports == {Opt(e, "", FALSE, {}, FALSE) : e \in SUBSET Transports}

\* Every CORS setting, with the default transports.
DefaultTransports == Transports \ {"raw"}
AnyCors ==
    {Opt(DefaultTransports, o, FALSE, {}, TRUE) : o \in {"", "null", "site"}}
      \cup {Opt(DefaultTransports, "site", TRUE, a, TRUE) : a \in SUBSET {"", "null", "peer"}}

\* v2: no prefix, one that is met again in a path, one of two segments, and two
\* that are the names of endpoints.
SomePrefixes == {<<>>, <<"echo">>, <<"app", "echo">>, <<"info">>, <<"websocket">>}

AllOptions == AnyTransports \cup AnyCors

SessionNames == {"websocket", "xhr", "xhr_send", "xhr_streaming", "eventsource", "htmlfile",
                 "jsonp", "jsonp_send"}
SessionPaths == {<<"srv", "sid", n>> : n \in SessionNames}

\* Every path that is served, and some that look like one.
AllPaths ==
    {<<>>, <<"">>, <<"info">>, <<"iframe.html">>, <<"websocket">>} \cup SessionPaths
      \cup {<<"info", "">>, <<"sid", "xhr">>, <<"srv", "a.b", "jsonp_send">>,
            <<"a.b", "sid", "websocket">>, <<"srv", "", "xhr">>, <<"srv", "sid", "xhr", "">>}

\* The same below a prefix, in the middle of other segments, and with a prefix
\* that occurs twice.
PrefixedPaths ==
    {<<"info", "info">>, <<"echo", "srv", "echo", "websocket">>} \cup
    {before \o <<"echo">> \o p : before \in {<<>>, <<"app">>, <<"echo">>}, p \in AllPaths}

CorsPaths == {<<"info">>, <<"srv", "sid", "xhr">>, <<"srv", "sid", "xhr_send">>,
              <<"srv", "sid", "eventsource">>, <<"srv", "sid", "jsonp">>}

\* Requests of every method for every path, and with CORS headers for some.
RequestsFor(paths, origins, headers) ==
    [method : Methods, path : paths, origin : origins, headers : headers, etag : {""}]

AllRequests == RequestsFor(AllPaths \cup PrefixedPaths, {""}, {""})
                 \cup [method : Methods, path : {<<"iframe.html">>, <<"echo", "iframe.html">>},
                       origin : {""}, headers : {""}, etag : {"hash", "old"}]
                 \cup RequestsFor(CorsPaths, {"null", "peer"}, {""})
                 \cup RequestsFor(CorsPaths, {"peer"}, {"null", "x-custom"})
=============================================================================
