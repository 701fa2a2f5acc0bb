# TLA+ models of shuLhan/share

This directory holds TLA+ models of the stateful and concurrent parts of the
Go library under `src/`. Each model is checked with TLC. `PROJECT.json` lists
the following:

- every component, with its status;
- every TLC run and what it shows;
- the mutants that show each checked property can fail;
- the source lines behind each definition;
- the findings;
- the hazards the code is exposed to.

## The system

The repository is a grab-bag library. Its parts do not call one another. The
exception is the DNS core that `spec.md` describes: a DNS server decodes a
request, answers it from the zone store, or forwards it upstream through the
UDP client pool. Of that core, `src/` holds only these files:

| part | source | state | concurrency |
|---|---|---|---|
| zone store | `lib/dns/zone_records.go` | map owner name -> ordered record list | called under the server's lock (spec 5) |
| UDP client pool | `lib/dns/udp_client_pool.go` | `sync.Pool` of clients, round-robin cursor `seq` under a mutex | many forwarding goroutines |
| request context | `lib/dns/request.go` | reusable request with a 1-slot reply channel | one goroutine per request |
| SRV RDATA | `lib/dns/rdata_srv.go` | none (conversions) | none |

The server itself is not in `src/`. Neither are the message codec and the zone
parser (spec 4.1-4.3, 4.7).

The other parts are independent:

| part | source | state / concurrency |
|---|---|---|
| multi logger | `lib/mlog/multi_logger.go` | two writer maps, two buffered queues, two queue goroutines, the flush handshake on three channels |
| HTTP server | `lib/http/server.go`, `endpoint.go`, `endpoint_response.go` | route tables per method; dispatch of each request |
| TOTP | `lib/totp/totp.go`, `cmd/totp` | none between calls; a time-step window |
| websocket I/O | `lib/websocket/funcs.go` | read and write loops over a non-blocking socket |
| ssh client / config | `lib/ssh/client.go`, `lib/ssh/config/config.go` | auth sequence; section state machine of the config parser |
| text, hexo, mimeunquote | `lib/text/string.go`, `cmd/*` | pure conversions and I/O |

## Modules

### ZoneRecords (`ZoneRecords.tla`, `MCZoneRecords.tla`)

This module models `zoneRecords`.

- `zr` is the Go map, a function from name to a sequence of records.
- A record is abstracted to `[Name, Type, Class, Value]`. Value equality
  stands for `reflect.IsEqual`.
- The constant `Owner` maps each spelling of a name to its owner. Two
  spellings that differ only in case map to the same owner.
- `add(rr)` is `zoneRecords.add`. A SOA replaces the first SOA listed under
  the name; anything else is appended.
- `remove(rr)` is `zoneRecords.remove`. It runs the three `continue` tests
  (`Matches`), then deletes the first match the way the code does:
  `copy(listRR[x:], listRR[x+1:])` is `shiftDown`, `listRR[len-1] = nil` is
  `clearLast`, and `listRR[:len-1]` is `reslice`.
- `last` records the call and its return value, which the action property
  needs.

Properties:

- `SingleSOA`: at most one SOA per owner, in every reachable state.
- `RemoveSemantics`, an action property: `remove` returns true exactly when a
  matching record existed. It then deletes exactly the first match and keeps
  the order of the rest (the reference `RemoveAt`, against which the
  copy/clear/reslice is compared). Otherwise it changes nothing.

### UDPClientPool (`UDPClientPool.tla`, `MCUDPClientPool.tla`)

This module composes the pool with forwarding units and a network.

- **Clients.** Each client is a number `h`. `bound[h]` is the name server it
  was dialled to.
- **Init.** `Init` is the constructor. It dials clients `1..N`, one per server,
  and puts them in the pool with `seq = 0`.
- **newClient.** `newClient` wraps `seq` modulo `len(ns)`, binds the new client
  to `ns[seq]` and increments `seq`. The mutex makes this one atomic step.
- **Get.** `sync.Pool.Get` may return any pooled client (`GetPooled`). It may
  also call `New` at any time, even with a non-empty pool (`GetNew`).
- **Evict.** The garbage collector may drop pooled clients (`Evict`).
- **Forwarders.** The forwarding units are not in `src/`; following spec
  4.7 they are the environment that Gets, uses and Puts clients. The steps
  are:
  1. Get.
  2. `Send` appends the question to the client's upstream queue.
  3. `Recv` takes the first datagram in the client's socket and Puts the
     client back. Relaying the answer is left out: no property is about it.
  4. Alternatively, with a read deadline, `Timeout` Puts the client back with
     nothing received.
- **Network.** `Answer`, `Lose` and `Duplicate` model the network. With
  `Faulty`, a server may answer pending queries in any order, and queries may
  be lost or duplicated.

Properties:

- `NoLeakedClient`: every created client is pooled, held or evicted, through
  any interleaving of Get, New, Put, timeouts and garbage collection.
- `RoundRobin`: lazily created client `N+i` is bound to
  `ns[(i-1) mod N + 1]`. This is the order in which spec 8 says clients cycle
  through the servers; it depends on `newClient`'s wrap happening before the
  dial and the increment after it.

### TOTP (`TOTP.tla`, `MCTOTP.tla`)

This module models `totp.Protocol`. The clock `now` is the state, and `Tick`
advances it one second. The HMAC and its truncation are abstracted to an
injective function of the time step: the token of time `t` is
`t \div timeStep`. Two different steps then never collide, which is the case
the window logic is about.

- `Init` is `New`: `timeStep` is each argument in `TimeStepArgs`, with
  `NewTimeStep` replacing a non-positive one by 30.
- `Generate` is the password of `now`, recorded as a `GenerateN(1)` result.
- `GenerateN(n)` is the loop over `t = now - x*timeStep`, `x < n`.
- `Verify(sb)` clamps `stepsBack` (`ClampStepsBack`), then runs
  `verifyWithTimestamp`, a RECURSIVE operator with the same loop. The token is
  any step from `DefStepsBack + 1` steps back to one step ahead.

Properties:

- `VerifyAcceptsDocumentedWindow`: the range the comment on `Verify`
  documents, `now - stepsBack*timeStep .. now`, is accepted. This one is
  violated: the loop checks `stepsBack` steps ending at the current one, so
  a token exactly `stepsBack` steps old is refused. TLC's trace has
  `stepsBack` 0, clamped to the default 20, and a token 20 steps old.
- `GeneratedAreVerified`: every password `Generate` or `GenerateN(n)` returns
  verifies with `stepsBack = n` at the same instant.

### WebSocketIO (`WebSocketIO.tla`, `MCWebSocketIO.tla`)

This module models `websocket.Send` and `websocket.Recv` on the two ends of
one TCP connection with non-blocking sockets. A byte is `<<m, i>>`, byte `i`
of the `m`-th packet.

- **Sender.** `SendCall`, then `SendWrite` once per successful write. A write
  takes up to `MaxBuffer` bytes, limited by the room left in the `SockCap`-byte
  socket buffer. EAGAIN changes nothing, so it is not an action. `SendFail` is
  a write error on a reset connection. `SendDone` is the loop's exit, and
  `Close` closes the connection between sends.
- **Network.** `Transmit` moves any non-empty prefix of the send buffer that
  fits into the `RcvCap`-byte receive buffer, which is TCP segmentation under
  the peer's window. `Reset` drops the
  connection.
- **Receiver.** `RecvCall`, then `RecvRead` reads up to `MaxBuffer` bytes and
  ends the call on a short read. `RecvEnd` is a read that returns 0 at end of
  stream or an error after a reset.

Properties:

- `StreamIntact`: what `write` accepted, followed by the rest of the packet
  being sent, is exactly the packets in order. Send puts no gap, repeat or
  reordering on the stream.
- `StreamSpec`: the refinement. `ByteStream.tla` is the abstract promise of
  a stream socket: the writer adds bytes at the end and the reader takes the
  next bytes from the front. `WebSocketIO` implements it under the mapping
  `written <- written` (the bytes `write` accepted) and
  `taken <- Received \o packet` (the bytes Recv has returned, followed by
  what the current call has read so far). A `SendWrite` is an `Add`, a
  `RecvRead` is a `Take`, and every other step is a stutter. So Recv never
  returns a byte that was not sent, never returns one twice and never skips
  one, however the bytes are split into writes, segments and reads.
- `SendCompletes`: every `Send` returns while the peer keeps reading. The
  property admits one other end: the reader has made its last `Recv` call.
  Then both buffers fill and `Send` spins on EAGAIN for ever (funcs.go:79),
  which the run reaches.

### HTTPServer (`HTTPServer.tla`, `MCHTTPServer.tla`)

This module models `http.Server`'s registration and dispatch. Paths are model
values, and `route.parse` (in `route.go`, which is not in this tree) is the
constant relation `Match`. An evaluator is abstracted to the set of paths it
rejects. An endpoint's `Eval` and `Call` errors fold into one flag,
`rejects`, and its `ErrorHandler`, which is the caller's code, into the
status `estatus` it writes, drawn from `ErrorStatuses`. The patterns that
`newRoute` refuses are the constant set `BadPatterns`. A response is abstracted to its status,
Content-Type, whether `Access-Control-Allow-Origin` is set, the `Allow`
methods, the route whose `Call` produced it, and the Memfs node served.

The Memfs (`srv.Memfs`, whose package is not in this tree) is a table
`memfs` from paths to what `Memfs.Get` finds there. It can be ErrNotExist,
another error, a directory, a file held in memory, or a file on disk whose
`ReadFile` succeeds or fails. `Init` picks one table from `MemfsStates`, and
no step changes it. `IndexOf` is `path.Join(p, "index.html")`.

- `RegisterEndpoint(ep)` is the whole switch and `register*`. It covers:
  - the empty-`Call`, CONNECT and TRACE errors;
  - HEAD and OPTIONS (`NoEffect`) returning nil;
  - the ambiguity check over the method's list (`RouteListChecked`);
  - `newRoute`'s error for a pattern in `BadPatterns`;
  - the append, with `Method` set to GET by default (`Registered`).
- `RegisterEvaluator(e)` appends to `evals`. `call` runs every registered
  evaluator before the endpoint.
- `ServeHTTP(req)` is `ServeHTTPRes`, the switch on the method. Each handler
  is one operator: `handleRoute`, `handleHead`, `handleOptions`, `HandleFS`,
  `handleCORS` and `call`.
- `getFSNode(p)` is the lookup (server.go:329-365):
  - an error other than ErrNotExist gives nil;
  - ErrNotExist retries `p/index.html`;
  - a directory found either way is replaced by its `index.html`, which is
    not checked again.

  `HandleFS` answers 404 without a node and 500 when the node has no content
  in memory and `ReadFile` fails. A directory's `SysPath` fails the same way.
  Otherwise it answers 200. `OptionsHasFS` is the same lookup inside
  `handleOptions`.
- `lastReg`, or `lastReq` and `lastRes`, record the last call, so properties
  can speak of its result.

Properties:

- `FSServesIndex`: a GET or HEAD that no route takes is answered 200 only with
  a readable file found at the path, at its `index.html`, or at that path's
  own `index.html`. A directory whose `index.html` is a readable file is
  always answered 200 with that file.
- `HeadMirrorsGet`: HEAD gives GET's status and Content-Type. This one is
  violated.

### SSHClient (`SSHClient.tla`, `MCSSHClient.tla`)

This module models `ssh.NewClientInteractive` and `Client.Close` in
`lib/ssh/client.go`. Everything the code asks of the outside world is one
record, `env`, which `Init` chooses from `Envs`. It holds:

- the keys the server accepts;
- whether the server's host key is in the known_hosts files;
- the `UserKnownHostsFile` entries, each `file`, `missing`, `corrupt`,
  `badpath` or `none`;
- the `IdentityFile` list, where each file holds the key `FileKey` gives it;
- whether `IdentityAgent` is set, and the agent's keys;
- the keys `ssh.NewSignerFromKey` refuses.

A dial may fail on the network, and loading a key may fail (an unreadable
file, or three wrong passphrases). These are choices made at the step. The
variable `history` records these failures for the properties.

- `NewNilSection` is a nil section. `SetHostKeyCallback` is
  `setConfigHostKeyCallback`; `HostKeyCallback` gives its outcome for a list
  of entries.
- `AgentSigners` dials the agent's socket and lists its signers. Either may
  fail, and the call then returns the error.
- `DialSigner` is one iteration of `dialWithSigners`. `SignersDone` returns
  on a host-key error, or on an empty `IdentityFile`. Otherwise it goes on to
  the identity files. `NoIdentityFile` is the same check without an agent.
- `DialFile` is one iteration of `dialWithPrivateKeys`. A key that fails to
  load is skipped. A key `NewSignerFromKey` refuses ends the call. A dial that
  connects records the file and breaks. `FilesDone` is the code after the
  loop, including adding the key to the agent, whose failure is only logged.
- `Close` closes the connection.

Properties:

- `ConnectedWithAcceptedKey`: a returned client is connected with a key the
  server accepts, to a host the callback accepts. `cl.identityFile` names the
  file holding that key, or is empty when the agent's key connected.
- `NoLeakedConnection`: at most one SSH connection is open. It is
  `cl.Client`, and an error return leaves none open.
- `ErrorMeansNoUsableKey`: with the host key accepted, the network up, the
  agent answering and every key usable for signing, the call fails only when
  no agent key and no loadable identity-file key is accepted.

### SSHConfig (`SSHConfig.tla`, `MCSSHConfig.tla`)

This module models `config.Load` in `lib/ssh/config/config.go`: the loop over
the lines of an ssh_config(5) file, with `parseKeyValue` as a recursive
operator. A line is a sequence of one-character strings. The keywords are
one letter: `h` stands for `host`, `m` for `match`, any other letter for an
option, and `H`, `M`, `O` are upper-case spellings that `strings.ToLower`
folds. `Section` and its `Set`, `newSectionHost` and `newSectionMatch` are
not in this tree. A section is therefore its kind, its argument and the
`(key, value)` pairs `Load` passed to `Set`. `Set` and `newSectionMatch`
may fail, and so may `newConfig`, `newParser` and `p.load`, which reads the
file and its Includes.

- `LoadNoFile` is `Load("")`. `LoadSetupFail` is a failure before the loop.
  `LoadStart(f)` is a setup that succeeds, with `p.load` returning the lines
  `f`.
- `SkipComment` is a `#` line.
- `ParseLine` is one non-comment line: `parseKeyValue`, then its error
  return or the switch on the key. A Host or Match line appends the section
  being filled and starts a new one. An option line before any section is
  dropped; after one, it goes to `Set`.
- `Finish` is the append after the loop, and the return of `cfg`.

Properties:

- `ParsedAsDocumented`: `parseKeyValue` splits every line written as
  ssh_config(5) describes, as that page says. Such a line is a keyword, then
  spaces with at most one `=`, then an argument, optionally in double
  quotes. The keyword is lower-cased and the quotes are removed; two `=` are
  refused. Lines outside that form are not constrained.
- `SectionsFollowFile`: a returned config has one section per Host or Match
  line, in file order. Each section holds exactly the options of the lines up
  to the next Host or Match. This reference is read off the whole file with
  sets and sorting, not by replaying the loop.

## Runs

| run | cfg | expect | shows |
|---|---|---|---|
| pool | UDPClientPool_pool.cfg | pass | Through loss, duplication, reordering, deadlines and eviction, no created client is leaked and lazily created clients cycle through the servers in order. The bounds are 2 servers, 1 forwarder, 1 question, up to 5 clients and 2 pending queries. |
| zone_store | ZoneRecords_store.cfg | pass | One SOA per owner, and exact remove semantics. The bounds are 2 names, each with 2 SOAs and 2 A records in 2 classes, and up to 3 records per name. |
| mlog_live | MultiLogger_live.cfg | pass | With one flusher, Flush returns after both queues answered it, and every message is written. The bounds are 1 producer with 2 messages, 2 flushes, and a queue capacity of 2. |
| mlog_flush_half | MultiLogger_flush_half.cfg | violation | Flush returns with messages logged before it still queued. |
| mlog_flush_tokens | MultiLogger_flush_tokens.cfg | violation | Two concurrent Flush calls take each other's tokens. |
| totp_window | TOTP_window.cfg | pass | Every password Generate or GenerateN returns verifies with `stepsBack = n` at the same instant. The time steps are 30 (from 0) and 2; `stepsBack` is 0, 1, 2, 20 or 21; `n` is 1, 3 or 20; the clock runs 4 seconds. |
| totp_comment | TOTP_comment.cfg | violation | Verify refuses a token exactly `stepsBack` steps old, which its comment's range includes. |
| ws_stream | WebSocketIO_stream.cfg | pass | Through short writes, EAGAIN, segmentation, close and reset, Send keeps the stream intact, Send and Recv refine `ByteStream`, and every Send returns while the peer reads. The packets have lengths 3, 2 and 1, with `maxBuffer` 2, 2-byte socket and receive buffers and 2 Recv calls. |
| http_routes | HTTPServer_routes.cfg | pass | After any sequence of registrations and requests, the Memfs serves only readable files, and serves a directory through its `index.html`. There are 11 endpoints over every method but TRACE (which shares CONNECT's branch), two overlapping patterns, one pattern `newRoute` refuses, ErrorHandlers writing 400 or 404, up to 2 routes per method and one evaluator that rejects `/a/b`. |
| ssh_connect | SSHClient_connect.cfg | pass | A returned client is connected with an accepted key and names its identity file. No connection is leaked. The call fails only when no agent key and no loadable file key could connect, given a working network, agent and host key. The environments are every combination of the `MCEnvs` fields listed under Bounds, with network and key-load failures at each step. |
| http_head | HTTPServer_head.cfg | violation | HEAD answers 200 where an evaluator rejects the GET, and omits the XML Content-Type. |
| ssh_load | SSHConfig_load.cfg | pass | `parseKeyValue` splits documented lines as ssh_config(5) says, and a loaded config's sections follow the file. The inputs are every line of up to 4 characters over `H`, `o`, space, `=` and `"` as a one-line file, and every file of 2 or 3 lines drawn from a Host, a Match, a quoted option, a comment and a double-`=` line. |

The bounds are chosen so that the interesting cases occur.

- **UDP client pool.** Five clients with two servers make `seq` wrap twice.
  One forwarder with up to two pending queries lets a deadline, a late
  answer and a duplicate meet; a second forwarder adds no case the two
  properties distinguish and multiplies the states.
- **Zone store.** Three records per name lets two SOAs and an A record coexist
  under a name, which is what the replacement and the order-keeping delete need.
- **Multi logger.** A queue of two with two messages fills the queue. It also
  lets a flush start with two queued messages, which is where the halving loop
  first loses one.
- **TOTP.** A 2-second step with 4 seconds of clock crosses two step
  boundaries. `stepsBack` values 0, 20 and 21 reach every branch of the
  clamp, and 1 and 2 reach the small windows. The clock starts at 900, so
  every `t` the loops compute is positive.
- **WebSocket I/O.** `maxBuffer` 2 against packets of 3, 2 and 1 bytes gives
  a full chunk, a short final chunk, an exact multiple and a one-byte packet.
  A 2-byte socket buffer forces short writes and EAGAIN. With 2-byte
  receive buffers and 2 Recv calls, the reader can stop while 4 bytes are
  still unread, so both buffers fill and Send's busy loop is reached.
- **HTTP server.** The pattern `aid` matches `ab`, `ac` and itself, so
  registering in either order tests the one-way ambiguity check. Two routes
  per method are enough to shadow one route with another. The seven Memfs
  tables are the consistent trees under `/`:
  - an empty (or nil) Memfs;
  - `/` with no index;
  - an `index.html` held in memory;
  - an `index.html` on disk;
  - an `index.html` on disk that cannot be read;
  - an `index.html` whose `Get` fails;
  - a directory named `index.html` that holds a file.

  The path `//` is not found by `Get`, so it exercises the ErrNotExist
  retry.
- **SSH client.** The client is checked over every environment `MCEnvs`
  lists:
  - every set of three keys the server may accept;
  - an agent holding no key or `k1`;
  - no identity file, `f1`, or `f1` then `f2`;
  - `k2` refused by `NewSignerFromKey` or not;
  - a known or mismatched host key;
  - known_hosts lists reaching each outcome of the callback.

  Two files let a failed key be followed by a working one, which is where the
  loop's `break` and `err` matter.
- **SSH config.** Lines of up to 4 characters hold every documented separator
  form: one space, two spaces, `=`, ` =`, `= ` and `==`. They also hold a
  quoted argument, an upper-case keyword and a line with no separator. Three
  lines put an option under a Host, a Match after a Host, an option before
  any section, and a comment between them.

## Fairness

**UDP client pool**

- The pool run checks safety only: no forwarder need ever be scheduled, and
  the network need not answer.

**Multi logger**

- The queue goroutines loop for ever, so their steps are weakly fair.
- A goroutine blocked on a channel operation is strongly fair. This covers a
  producer's send, `Flush`'s sends and receives, and `Signal`. The Go runtime
  queues blocked senders and receivers in FIFO order and serves them whenever
  the channel is ready, even if it is ready only intermittently.
- Logging, flushing and registration are not fair, since nobody has to call
  them.
- `mlog_live` says `CHECK_DEADLOCK FALSE`. Once every bounded producer and
  flusher is done, the logger is idle, with its goroutines blocked in `select`.
  That is a legitimate stopping point.

**WebSocket I/O**

- Both loops spin while a read or write can succeed, and the kernel delivers
  what the receiver has room for. So `SendWrite`, `SendFail`, `SendDone`,
  `Transmit`, `RecvRead` and `RecvEnd` are weakly fair.
- `RecvCall` is weakly fair: the reader keeps calling `Recv` until it has
  made `MaxRecv` calls. This is the assumption `SendCompletes` is
  conditioned on, and the property names the case where it ends.
- Calling `Send` or `Close`, and a reset, are not fair.
- The WebSocketIO cfgs say `CHECK_DEADLOCK FALSE`. Once every packet has been
  sent and every bounded `Recv` has returned, both ends are idle. That is a
  legitimate stopping point.

TOTP, HTTPServer, SSHConfig and SSHClient are checked for safety only. The
`ssh_load` and `ssh_connect` cfgs say `CHECK_DEADLOCK FALSE`, because `Load`
and `NewClientInteractive` are single calls that return. Their calls need not
happen.

## Observations no run checks

TLC runs are limited to one question each, and the project keeps twelve. The
following disagreements between the code and its documentation were found
while modelling. Each is a hazard in `PROJECT.json`, with the lines it
concerns:

- **Zone store.** `zoneRecords` is keyed by the name as spelled, so two
  spellings of one owner can each hold a SOA. Spec 3 says names compare
  case-insensitively.
- **Multi logger.** `Register*Writer` and `Unregister*Writer` write the map
  without a lock while a queue goroutine ranges over it.
- **TOTP.** `GenerateN`'s comment repeats `Verify`'s range
  `now - stepsBack*timeStep .. now`; the run `totp_comment` shows `Verify`
  accepts one step less.
- **WebSocket I/O, Recv hang.** `Recv` ends only on a short read. Take a
  packet of exactly `maxBuffer` bytes while the sender keeps the connection
  open. The next read returns EAGAIN, and the loop spins until more data or
  a close arrives. More data is then glued to this packet. On `WebSocketIO`,
  `rpc = "reading" ~> rpc = "idle"` fails with one 2-byte packet and
  `maxBuffer` 2 (funcs.go:51).
- **WebSocket I/O.** After a read error, `Recv` returns the bytes already
  read. Its comment says it returns a nil buffer.
- **HTTP server, CORS.** DELETE, PATCH and PUT never call `handleCORS`,
  though a preflight grants them.
- **HTTP server, OPTIONS.** The `Allow` header omits HEAD for a path served
  by a GET route.
- **HTTP server, Memfs.** Take a directory `/` that holds a directory
  `/index.html`. `getFSNode("/")` returns that inner directory without
  checking it again, and `HandleFS` answers 500. Meanwhile `/index.html`
  itself is served through its own `index.html`. Also, a `Memfs.Get` error
  other than ErrNotExist is answered 404, although the comment on
  `HandleFS` promises 404 only when the path does not exist.

- **UDP client pool, late replies.** `Put` accepts a client whose `Recv`
  ended at its read deadline. The late reply stays in the socket, and the next
  user of the client reads it as the answer to a different question. Spec 5
  calls this an accepted risk. The model leaves relaying out, so no run
  states it.
- **SSH config, whitespace.** `parseKeyValue` treats only space and `=` as
  separators. `HostName<TAB>example` therefore parses to the empty key and is
  passed to `Set("", "")`. So does a line with no argument, such as a bare
  `Host`, which lands in the previous section. Its own comment quotes
  ssh_config(5), which says "whitespace".
- **SSH config, line numbers.** A parse error reports the 0-based line index
  (config.go:100), while `Set` and `newSectionMatch` errors report the 1-based
  index (117, 126).
- **SSH config, environment.** `loadEnvironments` stores nothing. Its
  condition `len(kv) == 0` is never true after `SplitN`, and `cfg.envs` is
  never made, so the store would panic if the condition ever held.
- **SSH config, patterns.** `patternToRegex` turns `?` into `.?`, which
  matches zero or one character. ssh_config(5) says exactly one.

- **SSH client, agent failure.** If `IdentityAgent` is set but its socket
  cannot be dialed, as with a stale `SSH_AUTH_SOCK`, the call returns an
  error. The same happens if `Signers()` fails. In neither case are the
  identity files tried (client.go:96-106). The comment at 48-50 says the
  call falls back to `IdentityFile`. With the agent exclusion removed from
  `ErrorMeansNoUsableKey`, TLC finds this.
- **SSH client, unsupported key.** A key `NewSignerFromKey` refuses ends
  `dialWithPrivateKeys` (239), while a key that fails to load is skipped.
- **HTTP server, ErrorHandler.** A rejected request is answered with whatever
  status the endpoint's `ErrorHandler` writes; `ServeHTTP` never checks it,
  so a handler writing 404 makes a route look absent.
- **SSH client, leftovers.** The agent socket is never closed. A client
  connected through the agent passes `-i ""` to scp. After `Close`, any
  other call dereferences nil.

## Not modelled

- **The message codec, zone parser and DNS server.** Spec 4.1-4.3 and 4.7
  describe them, but they are not in `src/`. Only the forwarding unit is
  modelled, from the spec.
- **`rdata_srv.go`, `text/string.go`, `cmd/hexo`, `cmd/mimeunquote`.** These
  are pure conversions with no state between calls. Their correctness is
  byte-level formatting.
- **`http/internal`.** This is generated embedded content plus an example
  `main`.
- **`ssh/config` `Get` and `Prepend`.** `Get` matches and merges through
  `Section.isMatch`, `mergeField` and `setDefaults`, which are not in `src/`.
  `Prepend` is a plain concatenation of two section lists. `patternToRegex`
  and `parseBool` are pure conversions.
- **`ssh/client.go` `Execute`, `ScpGet`, `ScpPut`, `SetSessionOutputError`,
  `String`.** They act on the remote host, run scp, swap output writers or
  format a string. None of them changes the connection state the model
  tracks.
- **The DNS request context (`request.go`).** It has `NewRequest`, which makes
  a reply channel of capacity 1, and `Reset`. `Reset` clears the message, the
  address and the sender, but not the channel, although spec 4.6 says it
  clears the channel. A reply left in the channel is read only by the server
  loop that reuses requests, and that loop is not in `src/`. The two
  functions have no behaviour of their own to check.
- **The lazy `newClient` failure (`log.Fatal`).** The constructor pre-dials
  every server, so the model assumes that later creation succeeds.

## Plan

Every part whose code is under `src/` and whose state TLC can enumerate is
modelled above, or listed under "Not modelled" with the reason. What is
left:

- `RedirectTemp` is a helper that no handler calls. It writes a 307 to `/`
  when the URL is empty.
- `Start` and `Stop` only wrap `ListenAndServe` and `Shutdown` from
  `net/http`. `Stop` raises its wait to at least five seconds.
