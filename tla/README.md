# sockjs-go: a TLA+ model of the SockJS server

This directory models `v3/sockjs`, the server side of the SockJS protocol in Go:
a session that outlives the HTTP requests it is carried over, and the goroutines
that work on it. Its predecessor, the v2 package `src/sockjs`, which the
repository still ships, is modelled beside it. TLC checks the modules on small instances; TLAPS proves the
safety properties of every component, and the refinements, for every number of
requests, sessions, goroutines and messages, and for all options, prefixes and
paths.

Line numbers refer to `src/v3/sockjs/` unless a path is given. `PROJECT.json`
maps every definition to the lines it models.

## 1. Inventory

| Part | State | Operations | What must be true |
|---|---|---|---|
| session (`session.go`) | state, receiver, send buffer, close frame, timer, `closeCh`, context | `attachReceiver`, `detachReceiver`, `sendMessage`, `heartbeat`, `Close`, `closing`, `close` | messages are not lost or reordered; one open frame, one close code; `closeCh` closed once; a session nobody is attached to expires |
| receiver (`receiver.go`) | - | `sendBulk`, `sendFrame`, `close`, `doneNotify`, `interruptedNotify`, `canSend` | a receiver that ended writes nothing; it ends in one way, once |
| HTTP receiver (`httpreceiver.go`) | state, byte counter, two channels | the same, and a goroutine that waits for the request's context | ends at its limit; neither channel is closed twice; the goroutine exits |
| streaming and polling transports (`xhr.go`, `eventsource.go`, `htmlfile.go`, `jsonp.go`) | the life of a request handler | make a receiver, attach it, start the application once, wait | every request returns; a second receiver is refused |
| sending endpoints, message buffer (`xhr.go`, `jsonp.go`, `buffer.go`) | an unbuffered channel, a close channel | `xhrSend`, `jsonpSend`, `push`, `pop`, `close`, `Recv`, `RecvCtx` | a batch is received in order without gaps; the response says what happened; closing wakes everybody |
| session table (`handler.go`) | map of sessions, its mutex | `sessionByRequest`, one goroutine per session that removes it, lookups | a goroutine removes its own session only; live sessions can be found; closed ones leave |
| websockets (`websocket.go`, `rawwebsocket.go`) | one connection, one session, a reader goroutine | upgrade, read loop, `wsReceiver` methods | channels closed once; order kept on partial writes; no goroutine outlives the connection (one case does, section 5) |
| routing and CORS (`handler.go`, `mapping.go`, `web.go`, `options.go`) | options, mappings | `NewHandler`, `ServeHTTP` | only enabled transports are served; 405 and preflights tell the truth |
| static responses (`iframe.go`, `frame.go`, `utils.go`) | none | the iframe page and its ETag, formatting | the ETag is part of routing; formatting is not modelled |
| v2 package (`src/sockjs`) | as v3 | as v3 | as v3, except where section 2 says what it does not promise |

**Interaction.** A request handler looks its session up in the table, makes an
HTTP receiver, attaches it and waits until it is done or interrupted. Attaching
starts a *watcher* goroutine, which detaches the receiver when it ends and, if it
was interrupted, closes the session. The application, started after the first
successful attach, calls `Send` and `Close` from any goroutine. Timers call
`close` (nobody attached for `DisconnectDelay`) or `heartbeat`. Sending requests
push into the session's message buffer, from which the application reads.

**What is hard.** A receiver has a lock of its own, so it may be interrupted
between any two calls of a critical section of the session. `timer.Stop` does
not wait for a callback that already runs. A request may keep a session it
looked up while that session is closed and removed. `closing` and `close` are
called by the application, watchers and timers at once. `Close`, the watcher and
`sessionByRequest` are made of several critical sections. `select` picks any
case that is ready. `PROJECT.json` lists each of these under "hazards" with
the properties that are about it.

## 2. Modules

| Module | Models | Variables and actions |
|---|---|---|
| `Session` | `session.go`, HTTP transports | see below |
| `SessionInvariant` | - | the inductive invariant `IInv` |
| `SessionProofs` | - | theorems: types, safety properties of the session |
| `SessionRefinement` | - | theorems: the session implements `Outbox`, its receivers keep their contract |
| `LegacySessionProofs`, `HttpReceiverProofs`, `InboundProofs`, `HandlerProofs`, `WebsocketProofs`, `RoutingProofs` | - | theorems about the module each is named after |
| `Outbox` | `Send`, `sendBuffer` | abstract specification: messages accepted, pending, delivered, session doomed; `Accept`, `Deliver`, `Doom` |
| `LegacySession` | v2: `session.go`, HTTP transports | extends `Session`; definitions named `v2_` |
| `Receiver` | `receiver.go` | abstract contract: `Send`, `Finish`, `Interrupt` |
| `HttpReceiver` | `httpreceiver.go` | the channels, the counter modulo `Modulus`, the goroutine of `newHTTPReceiver` |
| `Inbound` | `buffer.go`, `xhrSend`, `jsonpSend`, `Recv` | senders and readers; a `select` is a look at the ready cases or parking |
| `Handler` | `sessionByRequest`, the table | sessions numbered by creation, the lock order `sessionsMux` before `session.mux` |
| `Websocket` | `websocket.go`, `rawwebsocket.go` | one connection with its session, framed or raw |
| `Routing` | `NewHandler`, `ServeHTTP`, mappings, CORS, `/info`, the iframe page | options, mappings, prefix, the request at work and its response |
| `MC*` | - | values and symmetry for TLC |

**Session.** `state`, `recv`, `sendBuffer`, `closeFrame`, `closeCh`, `timer` are
the fields of the struct. `mux` is the program counter of the goroutine that
holds `s.mux`, `holder` its name: a critical section that does not call the
receiver is one action; one that does is split at each call
(`attachReceiver` -> `attachCloseFrame` | `attachOpen` -> `attachBulk` ...), and
an interruption of the receiver may happen at every seam. `rstate`, `wire`,
`size`, `broken`, `limit` are the receivers; `handler`, `watcher`, `app`,
`callbacks` say where each goroutine is. `timer` is what `s.timer` points to,
`orphans` are timers that still run but are no longer pointed to, `callbacks`
are goroutines of expired timers that may be arbitrarily late. `nSent` and
`delivered` are history variables.

A message is a number (the k-th call of `Send`), a frame its kind, a close frame
its code, and the size of a frame the number of messages in it. Bytes are
modelled only in `HttpReceiver`, where the counter's width matters.

**Composition.** `Session` contains receivers with the operations of
`HttpReceiver`; `ReceiversKeepContract` instantiates `Receiver` for each of them
and `HttpReceiver` is shown to implement `Receiver` (`ImplementsReceiver`).
`Handler` and `Inbound` keep of a session only what they need: its lock, its
end, its buffer. `Websocket` repeats the session's methods for a session with
one receiver in its life, because there the missing lock of `wsReceiver`
matters and requests do not.

`Outbox` says what the application may rely on: messages given to `Send` reach
the client in order and once, or wait; they may be lost only when the session is
closing or certain to be closed. `Session` implements it with requests that come
and go, `Websocket` with one connection whose writes may fail half way.

**The v2 package.** It has the same parts and mostly the same lines. `Inbound`,
`Handler`, `HttpReceiver`, `Websocket` and `Routing` have a variable `v2`, fixed
in the initial state, so that every run covers both packages; a definition named
`v2_X` is what `X` is there. The session differs in more places and has a module
of its own, `LegacySession`, which takes from `Session` what is the same line for
line. The differences, and what they cost:

| v2 | Where | Consequence |
|---|---|---|
| the application starts with the session, before any receiver | `sockjs/handler.go:130` | early messages may be lost (`legacy_loss`); later ones are not (`LossHasCause`) |
| receivers return no errors; write errors are ignored | `sockjs/httpreceiver.go:80`, `sockjs/session.go:93` | messages are lost over a broken connection, HTTP or websocket |
| `http.CloseNotifier` instead of the context | `sockjs/httpreceiver.go:42` | without one, nobody notices that a client has gone |
| `xhrSend`, `jsonpSend` push with `sessionsMux` held and ignore the result | `sockjs/xhr.go:42`, `sockjs/jsonp.go:68` | an application that does not read stalls every session; success is reported for messages a closed session did not take |
| `sessionByRequest` does not touch the session's lock | `sockjs/handler.go:118` | a slow client cannot stall the table; the request a session reports is its first |
| the websocket handler ignores the errors of `attachReceiver` and `accept` | `sockjs/websocket.go:39,52` | the reader ends with the connection only |
| the prefix is part of every pattern, not anchored | `sockjs/handler.go:41,106` | a path in which the prefix occurs twice is served, perhaps by two endpoints, and its session id is not the segment the mapping matched |
| HTTP transports cannot be disabled | `sockjs/handler.go:46` | - |

A definition `Wrong_X` is a plausible bug in `X`. Nothing uses it; it shows that
some property would notice that bug.

## 3. Runs

| Run | Bounds | Shows |
|---|---|---|
| `session_delivery` | 2 requests, 1 application goroutine, 2 messages, 1 code, limit 2 | implements `Outbox`; no silent loss, order, nothing waits while a receiver can take it, one open frame, receivers keep their contract; `IInv`, which includes the types, that polls carry one frame, that a watcher waits for the attached receiver and that a closing session is released |
| `session_closing` | 2 requests, 2 closers, 2 codes, heartbeats | `closeCh` once, one close code, no live receiver is detached, expiry and heartbeat always pending |
| `session_liveness` | 2 requests, 1 message, 1 code, limit 1 | closing completes, abandoned sessions expire, requests return, interruptions close |
| `legacy_session` | v2: 2 requests, 1 application goroutine, 1 message, 1 code, limit 2, heartbeats, 1 broken connection, 2 late callbacks | a message that is lost was sent early or over a broken connection; one close code, close frames last, expiry always pending |
| `http_receiver` | modulus 8, limits 0, 1, 3, 5, 7, frames of at most 3 | ends once and at its limit, implements `Receiver`, its goroutine notices the client's end and exits |
| `inbound` | 2 senders, 2 readers, batches of 3 | batches in order, true answers, close releases everybody, an application that does not read stalls only its own requests |
| `handler` | 2 requests, 2 ids, 2 sessions | live sessions are found (no reaper removes a successor), closed ones leave, lookups return |
| `websocket` | 3 messages, heartbeats on and off, framed and raw | channels closed once, implements `Outbox`, the session of a vanished peer or a failed attach ends if there are heartbeats, clean end, the reader ends with the connection, and so does the watcher with heartbeats or if the session had not expired before `attachReceiver` |
| `routing` | all 128 sets of transports, 11 CORS settings, 78 paths, 4 methods, 5 header combinations; v2: 5 prefixes | each of the seven transports is served if and only if it is enabled; Allow and preflights are true; the id found is the one matched; in v2, paths in which the prefix occurs again apart |

Three runs show a disagreement between the code and its documentation, or a
defect:

| Run | What happens |
|---|---|
| `session_closed_quiet` | a request attaches to a session that was closed after the request looked it up, and frames are written ("no activity at all", `session.go:21`) |
| `session_heartbeats` | a late heartbeat callback starts a second heartbeat timer (`session.go:52`) |
| `legacy_loss` | v2 drops a message sent before the first poll: the poll ends with the open frame, the flush after it writes nothing, the buffer is emptied (`sockjs/session.go:129-130`; "messages to be sent to client", `sockjs/session.go:38`) |

**Why the bounds are enough.** The races of the session are between one receiver
and its successor: two requests have a receiver that ends, its late watcher, and
the next receiver. Two messages distinguish order; one may be buffered and one
written. A limit of 2 ends a streaming response with its second frame, so that
limit, interruption and write errors happen at every seam; limit 1 is a poll.
Two application goroutines with two codes race in `Close`. The proofs remove the
bounds for the safety properties, and show that none was too small for them; for
liveness they remain. In `Inbound` a batch of 3 can
be cut off before, within and at its end. In `Handler` 2 sessions on 2 ids
give an id that is used again while the reaper of its first session is late. In
`HttpReceiver` modulus 8 with frames of up to 3 makes the counter wrap. In
`Routing` every set of transports meets the default CORS settings and every CORS
setting the default transports (the code never combines the two), and the paths
are all those that are served and the near misses of their patterns, each also
below a prefix, in the middle of a path and with the prefix twice; two of the
prefixes are the names of endpoints. Requests do
not depend on each other there, so one is at work at a time. One message is
enough in `legacy_session`: what `LossHasCause` is about happens to one message
between `Send`, attach and detach. There one connection may break (`MaxBroken`)
and two callbacks of expired timers may be due at a time (`MaxLate`): one late
callback of each kind, or two that race. With one application goroutine and one
code, `OneCloseFrame` compares that code with none there; several codes race in
`session_closing` and in the proof about v2, which uses none of these bounds.
`session_liveness` has heartbeats off; what a late heartbeat may do to an expiry is
`ExpiryPending` in `session_closing`. `Websocket` has heartbeats on and off.

`TypeOK` of `HttpReceiver`, `Inbound`, `Handler` and `Websocket`, and
`ReaperOwnsEntry` of `Handler`, are not checked by a run: they are conjuncts of
inductive invariants that are proved, as is `RInv` of `RoutingProofs`.

`CHECK_DEADLOCK FALSE` is set where everything may be over: all requests
returned, all messages sent, the session removed.

**Fairness.** Weak fairness of every goroutine that is not waiting for the
outside: Go's scheduler runs runnable goroutines, and its mutexes hand over to a
waiter that starves. `timerFires` is weakly fair because a timer that is set
expires. `interrupt` is, because the goroutine of `newHTTPReceiver` waits for
the context only. `Handler` uses strong fairness for those who wait for
`sessionsMux` or a session's lock, which others take again and again: Go mutexes
in starvation mode are FIFO. There it also assumes that a goroutine gives the
session's lock back, so that writes to a client end; without a deadline on the
connection the code does not force that. Of v2's pushes under `sessionsMux` only
those to a closed session are assumed to end; `ClosedIsRemoved` and
`LookupsReturn` carry what else is needed as a premise. `unregister` in `Inbound`
is weakly fair: the session's reaper runs. Clients, the application and new
requests are never assumed to act.

## 4. Proofs

Every theorem rests on the named assumption of its module (for instance
`SessionAssumption`: names of goroutines are distinct, codes are positive, limits
are natural numbers) and on nothing else. `tlapm X.tla` checks module `X`;
`SessionProofs` and `RoutingProofs` take one to two minutes, the others less.

| Module | Theorems | Inductive invariant |
|---|---|---|
| `SessionProofs` | `Invariance`, `TypeCorrect`, `NoLoss`, `Ordered`, `OwnReceiver`, `LiveStays`, `AlwaysExpires`, `AlwaysBeats`, `CloseOnce`, `SameCloseFrame`, `Released`, `OpenOnce`, `FramesInOrder`, `PollsAreShort` | `IInv` of `SessionInvariant` |
| `SessionRefinement` | `Refinement` (`ImplementsOutbox`), `NothingWaits` (`FlushedWhileAttached`), `ContractKept` (`ReceiversKeepContract`) | the same |
| `LegacySessionProofs` | `v2_Invariance`, `v2_Loss` (`LossHasCause`), `v2_Ordered`, `v2_AlwaysExpires`, `v2_AlwaysBeats`, `v2_LiveStays`, `v2_SameCloseFrame`, `v2_FramesInOrder`, `v2_CloseOnce`, `v2_ContractKept` (`ReceiversKeepContract`) | `v2_IInv` |
| `HttpReceiverProofs` | `Invariance`, `ClosedOnce` (`EndsOnce`), `EndsInTime` (`EndsAtLimit`), `Refinement` (`ImplementsReceiver`) | `IInv`: types, `EndsOnce`, `CounterInv` |
| `InboundProofs` | `Invariance`, `InSequence` (`BatchPrefix`), `TrueAnswers` (`AnswerIsTrue`), `NobodyMissed`, `TableLock` | `IInv`: types, `SendInv`, `PushHoldsTable`, `NoMissedPartner`, `BatchPrefix` |
| `HandlerProofs` | `Invariance`, `OwnEntry` (`ReaperOwnsEntry`), `LiveFound` (`LiveIsFound`), `FoundStays` | `IInv`: types, `SessionInv`, `TableInv`, `HolderInv`, `FoundStaysInTable`, `ReaperOwnsEntry` |
| `WebsocketProofs` | `Invariance`, `ClosedOnce` (`ChannelsClosedOnce`), `Refinement` (`ImplementsOutbox`) | `IInv`: types, `CloserInv`, `ChannelInv`, `BufferInv` |
| `RoutingProofs` | `RInvariance`, `AllowIsExactTheorem`, `OnlyEnabledTheorem`, `SessionIDParsesTheorem`, `PreflightHonouredTheorem` | `RInv` |

**Session.** None of the properties is inductive alone. `IInv` adds:

- `LockInv`: what a goroutine in the middle of a critical section has
  established (the receiver it writes to is attached, the state is still the
  one it saw);
- `RequestInv`: where a request is before its receiver is attached, and that a
  receiver left installed after a failed write never writes again. Without it
  `ExpiryPending` and `WatcherOwnsReceiver` do not survive `AttachFails`;
- `CloseInv`: `closeCh` is closed exactly when the state says so, and whoever is
  between `closing` and the rest of `close` has made the state at least closing;
- `StartInv`: nothing is sent before the open frame;
- `BulkInv`: a receiver about to take the buffer has not ended normally. This is
  why `NoSilentLoss` holds although the buffer is emptied whatever `sendBulk`
  did: only an interruption swallows a frame, and it closes the session;
- `SentInv`: buffered and delivered messages were sent, so a new one is last;
- `FrameInv`: an active polling response is empty, and a close frame on an
  active response means the goroutine that wrote it still holds the lock.

The proof has one lemma per conjunct, each with one step per action.
The conjunct `TypeOK` comes first in `SessionProofs`. What several conjuncts need is
said once: `WriteStepStep` (how a step changes what was written: at most one
frame on one response), `DyingStaysStep` and `StateGrows` (what is ending stays so),
`QueueStepStep` (how a step changes delivered and buffered messages),
`ReceiverStepStep` (what a step is to one receiver).

**Session implements Outbox.** The mapping sends `nSent`, `sendBuffer` and
`delivered` to the abstract queue, and `state >= SessionClosing \/ Dying` to
`doomed`. By `QueueStepStep` a step queues a message (`Accept`), writes the buffer
(`Deliver`), drops it with an interrupted receiver (allowed, the queue is doomed),
or leaves the queue alone; only then may the session become doomed, and by
`DoomedStays` it does not recover. `NothingWaits` needs no further invariant: a
message stays in the buffer only if the receiver could not be written to, and a
receiver that cannot write never can again.

**The v2 session.** `OwnOrShared` shows that a step of `LegacySession` is a step of
`Session` or one of ten steps v2 has of its own: a write that fails unnoticed, an
arrival that does not wait for the lock, an attach after which the handler waits
at once, the start of the application. For the first kind the lemmas of
`SessionProofs` are used again, which is why they assume only conjuncts true of
both versions (`OpenBeforeSend` in place of `StartInv`). `v2_IInv` adds to the
shared conjuncts `RefusedInv` (a refused receiver is not installed), `OpenInv` (a
session with a receiver has been opened), `EarlyInv` and `IntactInv`: as long as no
connection broke, the receiver about to take the buffer can write, unless it ended
with the open frame, and then every message is early. From this, `LossHasCause`.
`v2_ContractKept` needs no more than the shared conjuncts: to a client, a failed
write of v2 is no frame, or the end of its receiver (`OwnReceiverStep`).

**HTTP receiver.** `EndsAtLimit` needs `CounterInv`: while a response is open and
its limit leaves room for one frame, the counter modulo 2^32 equals the number of
bytes, because each frame that would reach the limit ends the response. The proof
is for every modulus, limit and frame length. `EndsOnce` is inductive with the
types; `Refinement` maps the two channels to the status of `Receiver`.

**Inbound.** `AnswerIsTrue` relates the response to what was received, so
`SendInv` follows a request from its lookup to its answer. `NoMissedPartner`: a
`select` that parks has looked for a partner and for the close first, and cannot
have missed either.

**Handler.** `LiveIsFound` follows from `ReaperOwnsEntry`: a new session gets an
id only when the id stands for nothing, so a late reaper finds its own session or
has removed it already. `FoundStaysInTable` needs `HolderInv`, who holds the lock.

**Websocket.** `CloserInv`: at most one goroutine is between the look at
`wsReceiver.closeCh` and its close. This is what the missing lock leaves open; it
holds because every call comes from inside the session's lock. `BufferInv`: messages wait only once the receiver has ended,
so that a raw write that fails in the middle is followed by no other write and the
prefix written is the one delivered.

**Routing.** `RInv` says little: the list of mappings is the one of the options,
and the exchange at work was answered by it. The work is in what the operators
compute, for all options, prefixes, paths and requests:

- `HandlerList`, `v2_HandlerList`: whichever transports are enabled, the list that
  `fillMappingsWithAllowedMethods` and `newHandler` concatenate has exactly the
  mappings `Entries(o)`, and each method of each pattern once (`ConcatList`);
- `RunSteps`: the handlers of a chain run in order on one response. `Run` is a
  recursive function; that it has a solution for a chain of any length is shown
  with a minimal counterexample, by the library's theorem on well-founded
  relations, and so is that `Min` finds the first full match (`MinIsLeast`);
- `EntryAnswers`: every mapping's chain ends its response as its kind of endpoint
  does, whatever headers the request has, and what a preflight names is `OPTIONS`
  and the method of the path's other mapping;
- `UniquePattern`: a path matches one pattern at most, unless the prefix of v2
  occurs in it again. This is what makes the list's order irrelevant, and makes
  the methods of a 405 distinct;
- `v2_IDs`: `v2_parseSessionID` takes the first occurrence of the prefix that an id
  follows, and never looks at the last segment, so that the endpoints of a session
  agree.

`UniquePattern` fails without its premise, and that showed that three of the
properties had been stated for too many paths: in v2 with the prefix `/echo`,
`POST /echo/srv/echo/websocket` matches both websocket paths and is answered
with `Allow: GET, GET`; with the prefix `/info`, `/info/info` is the welcome page
for `GET` and the info endpoint for `OPTIONS`. `PrefixRepeats` names these paths, and
the run has prefixes and paths that meet them.

**Only model-checked:** everything about liveness. TLAPS does not handle fairness
here.

## 5. Not modelled

- Text: JSON quoting, frame formats, preludes, the iframe page (its ETag is
  modelled).
- The websocket upgrade and the network below `gorilla/websocket`; of these
  only failing reads and writes are seen.
- v2's cache of compiled expressions (`sockjs/handler.go:102-109`), a map under
  its own lock; prefixes that are themselves regular expressions.
- Examples and the test server.
- Panics of the application and the process dying: nothing is persisted.

Observations that no property is about:

- A session that expires or whose watcher closes it has no close frame: the
  receiver attached at that moment is sent an empty one.
- Messages in the send buffer when `Close` is called are never written.
- When `attachReceiver` fails on a websocket, the connection is not closed.
- `Request` is documented as "the first http request" (`session.go:234`);
  `sessionByRequest` replaces it with every request that brings a receiver.
- With an empty `Origin` option a request with `Origin: null` is answered with
  `*` (`web.go:29`); `options.go:61-62` says that the header is echoed if it is set.
- The byte counter of a response is a `uint32`: with a `ResponseLimit` within one
  frame of 2^32 it can wrap past the limit and the response goes on
  (`httpreceiver.go:84`). `EndsAtLimit` excludes such limits.
- `buffer.go:8` calls the message buffer unbounded; it holds nothing, and `push`
  waits for a reader, message by message.
- A websocket session whose expiry timer fires before `attachReceiver` is
  attached to all the same, and its connection stays open. With heartbeats off
  (`session.go:140`) it also leaves a goroutine behind: when the reader fails,
  `close()` does nothing to a session that is closed already, so nobody closes
  `wsReceiver.closeCh`, which the watcher of `attachReceiver` waits for. With
  heartbeats on, the next one fails on the closed connection and closes it.
  `GoroutinesEnd` names the case as its premise; without the premise TLC finds
  this behaviour.
- The preflight of `/jsonp` promises `POST`; the path serves `GET`.

## 6. Plan

Done: all modules above, the runs, the proofs of the safety properties and
refinements of all components. What is left out is listed in section 5.
