# A verification of kcptun-libev

kcptun-libev tunnels TCP connections through a reliable protocol over UDP
(KCP). This directory holds TLA+ specifications of it, written from the C
source, the TLC configurations that check them on small instances, and proofs
for every value of their constants, checked with TLAPS.

## The system

A *client* process accepts TCP connections and carries each one to a *server*
process, which opens a TCP connection to the target on the client's behalf.
A third process, the *rendezvous server*, may help the two to find each other
behind NATs. All are one program with one single-threaded event loop (libev):
everything happens in callbacks, and a callback runs to its end before another one
starts.

| Part | Source | State | Module |
|---|---|---|---|
| session | `session.c`, `event_tcp.c`, `event_kcp.c` | two state machines (`tcp_state`, `kcp_state`), read and write buffer, flush position, watchers, time stamps | `Session`, `Tunnel` |
| timeouts | `event_timer.c` | ages of a session | `Session`, `Tunnel`, `Link` |
| receiving datagrams | `pktqueue.c` | session table | `Tunnel` |
| TLV framing | `session.c`, `event_kcp.c` | bytes in `wbuf` | `Framing` |
| KCP | `contrib/kcp/ikcp.c` | queues and buffers of segments, acks, windows, probes | `Kcp`, implements `Channel` |
| session 0 | `session.c` | peer address, ping in flight, punched addresses | `Link`; RESET in `Tunnel` |
| packet queues | `pktqueue.c`, `event_pkt.c`, `mcache.h` | `mq_send`, `mq_recv`, frame pool | `PktQueue` |
| nonce filter | `nonce.c`, `libbloom` | two bloom filters | `Nonce` |
| obfuscation | `obfs.c` | contexts of fake TCP connections; packets | `Obfs`, `Packet` |
| server, listener | `server.c`, `event_tcp.c`, `event_timer.c`, `main.c` | sockets, watchers, `m_conv`, configuration objects | `Server` |
| session table | `hashtable.c` | array of items with chains | `Table` |
| HTTP service | `event_http.c`, `http.c` | one connection | `Http` |
| configuration | `conf.c`, `jsonutil.c` | the accepted files | `Conf` |

What makes it hard: each half of a session can be stopped by the local TCP
socket, by a message of the peer, by a RESET, by a timeout or by a lack of
memory, at any moment between two short writes; wake-ups are computed by hand
(`tcp_notify`); datagrams are lost, repeated and late; the server may be
restarted while the client goes on; TIME_WAIT is the only protection of a
finished connection against its own retransmissions; frames, contexts and sessions
have owners that change in callbacks of five kinds.

## The modules

**`Session`** models one `struct session`. A session is a record with the
fields of the struct. A C function that updates a session is an operator of
the same name from the record before the call to the record after it, or to the
*set* of records it may leave behind when the outcome depends on the kernel
(`send`, `recv`, `connect`) or on the allocator (`ikcp_send`). Loops over system
calls (`tcp_recv_all`, `tcp_flush`) are one operator that says how far the loop
got. The payload is abstracted to its position in the stream: block `b` of a
connection carries the bytes `(b-1)*PushLen+1 .. b*PushLen`, which is all that
"the same bytes in the same order" needs.

**`Tunnel`** puts two sessions, client and server, of one connection together with the
network. One callback is one action: `accept_one`, `queue_recv`, `ss0_on_reset`,
`TcpSocketCb`, `FlushCb`, `KcpUpdateCb`, `TimeoutCb`. The loop of `session_read_cb` is
one action per pass (`ReadLoop`); while it runs, no other callback of that process does.
`Tick` is the clock, `Restart` ends the server process and starts it with an empty
session table, `queue_recv_stray` is a late duplicate from a session that may be gone:
it may bring again what was acknowledged long ago, which is new to a session that was
made since (a late DIAL makes it dial). KCP is used through what a session can observe
of it: `tx` are the messages given to `ikcp_send` of which the first `snd_una` are
acknowledged, `rcv_nxt` and `rcv_queue` describe the receiving side. A datagram is sent
and received in one step, so that losing one is a step not taken, and reordering or
duplicating one changes nothing because KCP puts segments in order by number. How much
of the unacknowledged stream arrives is free (`k` in `queue_recv`); a session that is
younger than its peer acknowledges the segments it is sent one by one, as far as its
window reaches (`Acked`). A datagram reaches a session whatever it is by then: a server
that was restarted, or that has already forgotten the session, takes it for a new one.

**`Framing`** models one direction of a session down to the byte. KCP runs in
stream mode: `ikcp_send` fills up the last segment that was not sent yet, so a
segment may hold parts of several messages. A byte is its position in the stream;
segments (`cuts`) and messages (`ends`) are the positions where they end.
`kcp_recv` takes whole segments while they fit in `wbuf`, `ss_process` looks for the
next message, `tcp_flush` writes part of a message to the socket.

**`Kcp`** models two control blocks and the datagrams between them: numbering
modulo `Wrap` with signed differences, cumulative and selective acknowledgements,
fast retransmission, the congestion window, windows and their probes. Time is left
out: the timer of a segment or a probe may have run out at any flush. **`Channel`**
is what a session may rely on, the abstraction that `Tunnel` uses, and `Kcp` is
checked to implement it.

**`Link`** models how a client finds its server: lookups by name, `keepalive_cb` and
`resolve_cb`, PING and PONG, and the rendezvous with LISTEN, CONNECT and PUNCH, with
the NATs of both ends (a NAT lets in what answers a datagram that went out).

**`Nonce`** models the generator of nonces, the two bloom filters that refuse
repeated ones and the functions of `pktqueue.c` that seal and open a packet. The
hash functions are a constant: each nonce is given any set of bits.

**`PktQueue`** models the frames that packets are kept in: the pool (`mcache.h`),
`mq_send`, `mq_recv`, and the callbacks that move frames between them. A packet
is a number. The pool serves the segments of KCP as well (`util.c`, `ikcp_segment_pool`),
so KCP takes frames out of it and puts them back at any time (`ikcp_segment_new`,
`ikcp_segment_delete`). `queue_dispatch` is one action per packet, because each may call
`queue_send`; the batches of `pkt_recv` are one action each. Sending is one step per
flush, with every outcome the socket may give it: full, transient error, persistent
error, after any number of packets. The variable `mmsg` tells the two builds apart,
with and without `recvmmsg` and `sendmmsg`.

**`Obfs`** models the contexts of `obfs.c`: dialling and redialling in a client,
accepting with its start-up limit in a server, both read callbacks, the write
callback, timeouts, and the sessions that are freed with a context. Memory that
`obfs_ctx_new` does not initialize (`in_table`) takes any value of the constant
`Garbage`. **`Packet`** holds the pure functions of the same file: sealing,
opening, checksums and the compiled packet filter with its interpreter.

**`Server`** models a process from `main` to its end: start, listeners and the timer
that wakes them, accepting, conversation numbers, SIGHUP, SIGTERM and exit. A reload may
find any of the configurations in the file, also that of another mode; listeners, timers
and session table stay as they were. Its packets go through UDP (the obfuscator has a
module of its own). It uses
**`Table`** (the hash table with chains, free list, growth, compaction, reseeding
and failing allocations, each function an operator on the array), **`Http`** (one
connection to the HTTP service) and **`Conf`** (which files are accepted, and what
the program needs to start with them; an unknown name of an obfuscator means UDP).
Of the fields `Conf` has those that decide the mode, the socket and the size of a
segment. **`Null`** declares the constant for a null
pointer that they share.

The modules are joined by what each leaves free in the other. A datagram that
`PktQueue` drops or `Nonce` refuses is a lost one in `Tunnel`; the segments in order
that `Framing` takes for granted are what `Tunnel` calls `rcv_queue` and `Channel`
`arrived`; the session that ends in `Server` is one of `Session`. Apart from
`Kcp` and `Channel` these are arguments, not checked refinements.

The modules `MC...` hold the values for TLC, the modules `...Proofs` the proofs.

### What the models leave out

* In `Tunnel` a KCP segment carries one whole message, so `wbuf` never holds a part
  of one; partial messages are the subject of `Framing`, which in turn leaves out
  closing, the send window and a lack of memory. `ikcp_send` can run out of memory
  in the middle of a message; neither module has that case. `Framing` also leaves out
  the refusal of 128 fragments or more (`ikcp.c:500`): with the least `kcp.mtu` that is
  accepted, a longest message has fewer.
* `ikcp_input` does not look at whether its segment was allocated (`ikcp.c:837`); the
  models let that allocation succeed.
* In `Tunnel` a byte is its position in the stream of its connection. If a DIAL that was
  delayed in the network makes a restarted server open a second connection to the
  target, the bytes of the two are not told apart.
* Messages of a wrong length. The check in `ss_process` (`session.c:191`) joins its
  two conditions with `&&`, so it never fires; the models only send the lengths
  that the code sends.
* Sizing the bloom filters from their error rate, which is arithmetic on reals.
* Round-trip times in `Kcp`, and the payload of its segments.
* `queue_free` and `obfs_stop`, which run once at the end of the process.
* The branches of `queue_recv` for a datagram that `ikcp_input` rejects and for a
  session found under another address: the table is keyed by address, and the
  peer sends what the code sends.
* Not modelled at all: encryption (`crypto.c`: calls into libsodium without state),
  the JSON parser and URLs (third party text processing), logging, statistics and
  their formatting, command-line arguments and daemonizing, socket options.

## The runs

| Run | Instance | Checks |
|---|---|---|
| `tunnel_data` | two blocks of two bytes upstream, one downstream, windows of 2, short writes, closes and failures; ages are not counted (`AgeCap = 0`), so no timeout fires and TIME_WAIT does not end | `BufferSafety`, `NoLostWakeup`, `StreamFidelity`, `CloseReachesPeer`, `Delivered` |
| `tunnel_faults` | one block upstream, timeouts of 0 with ages up to 1, so that each may fire in any state after a tick, one keepalive, one stray with whatever the peer sent so far, one restart | `Lifecycle`, `EofMeansComplete`, `Released` |
| `tunnel_clock` | dial_timeout = linger = 1, session_timeout = 3, time_wait = 4, timers at most one tick late, every `ikcp_send` may fail; no data, strays or restarts | `SingleDial`, `Released` |
| `framing_stream` | `wbuf` of 8 bytes, segments of up to 3, messages of 2 to 5, a stream of 12 | `Aligned`, `NoStall`, `AllConsumed` |
| `nonce_filter` | five nonces that share bits, filters of two entries, a counter that wraps and restarts | `Load`, `Forgets`, `NoRepeat` |
| `pktqueue_frames` | both builds, three frames for queues of 2 and 2, a pool of 2 and the segments of KCP, a socket that takes one packet, socket errors, sealing may fail | `Owned`, `Fifo`, `Announced`, `Drained` |
| `kcp_channel` | three segments through windows of 2, numbers that wrap at 12 and start at 10, two datagrams under way | `Windows`, `Kept`, `Unambiguous`, `ServerChannel`, `Settles` |
| `obfs_contexts` | a client or a server, two peers, two local ports, limits of 2 contexts and 1 half open; all small packets | `Owned`, `Counted`, `Reachable`, `Dialling`, `PacketsOpen`, `Reconnects` |
| `obfs_refused` | the same, `in_table` not initialized; violated, see Findings | `StatsAssertion` |
| `link_follow` | direct and rendezvous, each end moves once, the rendezvous server restarts once | `MeetsServer`, `KeepsPeer`, `Follows` |
| `server_life` | a client, a server and a rendezvous server with one peer; a table of 1 item that grows to 2 and past `prime_list`; numbers up to 3, at most two sessions for accepted connections; one reload with any of their files; seven requests; all files over the fields that `conf_check` compares | `TableIsMap`, `NumbersAreFresh`, `ShutDown`, `CutsDontMatter`, `FilesStart`, `AcceptsAgain` |
| `server_http` | one file; violated, see Findings | `ConsumeAssertion` |

What they show:

* `StreamFidelity`, `EofMeansComplete`: the bytes written are the bytes read, in
  order, and a connection that ends with EOF was complete. The second holds as long
  as `ikcp_send` does not run out of memory: `kcp_push` forgets the bytes it could
  not send, and the EOF that follows ends the stream early.
* `NoLostWakeup`: whenever the event loop waits, each pending duty of a session
  is announced by an active watcher.
* `Lifecycle`: the two halves stop together; socket, KCP block and buffers are released
  exactly then, with strays and restarts. The theorem adds failing allocations.
* `SingleDial`: retransmissions of a finished connection, by the session that still
  exists, do not make the server dial again. A DIAL that the network keeps for longer than
  `time_wait` would. It depends on `time_wait` being longer than `dial_timeout` plus
  `linger`, because TIME_WAIT is counted from the creation of the session: with
  `TimeWait = 2` in this instance it is violated. The configuration accepts such
  values; its defaults are on the safe side.
* `CloseReachesPeer`, `Delivered`, `Released`: see Fairness.
* `Aligned`, `NoStall`, `AllConsumed`: wherever the stream is cut, the receiver finds
  the headers, has room for the next segment, and reaches the end.
* `Windows`, `Kept`, `Unambiguous`, `ServerChannel`, `Settles`: no window is overrun,
  nothing is freed before it arrived, numbers that wrap confuse nothing, one direction
  is a channel, and what is sent is taken and acknowledged in the end.
* `MeetsServer`, `KeepsPeer`, `Follows`: a client connects to the server only, late
  answers do not divert it, and it comes to know where the server is. `Follows` is about
  the address, not about `connected`: see `server_resolve` below.
* `NoRepeat`, `Load`, `Forgets`: a nonce is refused for at least as long
  as the next `entries` nonces; the filters are never overfull, hold nonces of
  authentic packets only, and forget in the end what they refuse.
* `PktQueue`'s `Owned` and `Fifo`: every frame has one owner, and packets leave in
  the order they were queued. The one exception is in the statement of `Owned`: a
  frame that `queue_send` could not seal is neither queued nor deleted, and is lost.
* `Announced`: nothing waits in a queue between two callbacks unless a watcher is
  active. For received packets this holds with `recvmmsg` only: without it,
  `pkt_recv` returns 0 when memory runs out although packets were received, and
  these wait for a later read event.
* `Drained`: with `sendmmsg` the send queue becomes empty again and again.
  `pkt_read_cb` reads until the socket is empty, so this needs arrivals to pause
  (`MaxIn` bounds them). The fairness says that a write
  callback makes progress in the end, which a persistent error without `sendmmsg` need not
  let it do (below); the property is therefore not stated for that build.
* `Obfs`'s `Owned`, `Counted`, `Reachable`, `Dialling`, `Reconnects`: contexts, table,
  count and the client's reference stay consistent, a server's sessions can always
  be answered, and a client has an answered connection again and again. They hold
  when uninitialized memory happens to be zero (`Garbage = {FALSE}`); see Findings.
* `PacketsOpen`: every small packet that is sealed passes the filter and opens at its
  payload; lengths never lead outside of what was captured; the compiled filter is
  exact.
* `TableIsMap`: the array with its chains is a map from keys to sessions, up to the
  step in which `table_reseed` moves items of a table with holes (below).
* `NumbersAreFresh`: conversation numbers are not given twice, none is 0, and there are
  never more than `MAX_SESSIONS` sessions for accepted connections. Sessions that
  `queue_recv` makes are not counted: nothing limits them.
* `ShutDown`: after SIGTERM, at any moment, only a connection to the HTTP service with
  its context and descriptor is left, and the watcher of the HTTP listener, whose descriptor
  is closed: `listener_stop` stops `w_accept` twice and never `w_accept_http`. `main` frees
  the configuration once, unless a reload has replaced it (below).
* `CutsDontMatter`, `FilesStart`, `AcceptsAgain`: the way a request is cut does not change
  its answer, every accepted file can be started (method and key taken to be good), and
  listeners wake up again.

Bounds. Two blocks of two bytes are the least that have a first and a last byte in a
message, a message in flush and one behind it, and a window that fills and opens again
(one downstream: the two directions share code). A restart and a stray are allowed once:
both only replace a session by a fresh one or feed one, and after the second block or
the first tick nothing new can follow. In `Framing`, 12 bytes are more than `wbuf` holds
and enough for a message behind a longest one. In `Nonce`, five nonces are more than
both filters hold. In `PktQueue` the frames are fewer than the queues, the pool and a
batch could take, so memory runs out at every place. In `Kcp` the numbers wrap after the
second segment, and the receiver's window closes after two. In `Obfs` both limits are
reached with two peers, and a client with two addresses and two ports replaces every
connection by one that differs in one or both. In `Server` the table grows through the
primes 1 and 2 and past the end of `prime_list`, and the numbers wrap at 3 with two
sessions in the table; datagrams of two conversations reach a process that is a server. `HTTP_MAX_REQUEST` is as long as the longest request with its terminator.
Ages saturate at `AgeCap`, above every timeout of the instance; `MaxKeepalive`,
`MaxRedial`, `MaxReload` and `MaxMove` bound counters that would otherwise grow without
end. Deadlock is not checked where the system may stop: a tunnel whose connection is
over, a stream that is consumed, queues without arrivals, a process that has ended.

Fairness. `LoopFairness`: a callback that began ends. `ClockFairness`: time goes on
and the periodic timer is served. `NetFairness`: KCP retransmits every interval until
it is acknowledged, so unless the network loses every copy, data and acknowledgements
get through: strong fairness of the steps that make progress. `TcpFairness`: the TCP
peer takes bytes and `connect` ends. `Released` uses the clock only, `Delivered` and
`CloseReachesPeer` the network and TCP only, so that neither is rescued by a timeout.
`AllConsumed`: KCP sends and delivers what it has, and the socket takes bytes.
`Drained`: the kernel sends what it took, a callback that began ends, and strong
fairness of a write callback that changes the queue, because libev calls the callback
of every ready descriptor before it polls again and a transient error passes.
`Settles`: the user takes what has arrived, and now and then a whole round trip
succeeds after all timers have run out. `Follows`: timers run, now and then nothing
of what a timer sends is lost, and not every lookup fails. `Reconnects`: `resolve_cb`
comes when nothing is received, and not every dial or answer fails. `AcceptsAgain`: a
timer that was started fires.

Every property has a mutant, a changed definition next to the original
(its name has the change as a suffix), under which TLC finds
the property violated.

## Findings

`obfs_refused`: `obfs_ctx_new` leaves `in_table` uninitialized. When a server refuses
a second connection from an address it knows, `obfs_ctx_del` (`src/src/obfs.c:561`)
reads it; if it is nonzero, the context of the *first* connection leaves the table.
If that one was authenticated it stays counted, and
`assert(authenticated <= num_contexts)` in the statistics (lines 973 and 1018) fails.

`server_http`: `http_ctx_write` (`src/src/event_http.c:233`) subtracts what was sent
from `wbuf->len` and then calls `VBUF_CONSUME`, which subtracts it again. After a short
write of more than half of the answer the assertion of `BUF_CONSUME` fails
(`src/contrib/csnippets/utils/buffer.h:187`); after a smaller one the end of the answer
is never sent.

Noticed while modelling and part of the models, but not the subject of a run:

* Without `sendmmsg`, `pkt_send` sets `drop` under the comment "clear the send queue if the
  error is persistent" (`src/src/event_pkt.c:315`), but returns at line 321 when it was the
  first packet that failed: nothing is cleared, and the same packet is tried again at every
  write event.
* `server_new` makes no session table for a rendezvous server. When the file that SIGHUP
  reads (`src/src/main.c:253`) has the configuration of a server by then, the first datagram
  of a session fails `assert(table != NULL && element != NULL)` in `table_set`
  (`src/contrib/csnippets/algo/hashtable.c:201`); `proc` becomes `"assert_table"`.
* `kcp_push` empties `rbuf` before `ikcp_send` is called; with `Oom = TRUE`,
  `EofMeansComplete` is violated.
* `table_compact` copies an item without its mark `valid`; after `table_reseed` of a
  table with holes iterations miss the moved sessions (history variable `torn`). When
  `table_set` finds no memory it returns the new element, and `assert(elem == NULL)` in
  its callers fails.
* `main` keeps its pointer to the first configuration; after a reload it is freed a
  second time at exit (`freed_twice`).
* `listener.fd_http` is 0 when there is no HTTP service: `listener_stop` closes
  descriptor 0, and `listener_cb` starts a watcher for it.
* `server_resolve` clears `connected` before the lookup. When that fails, a client in
  direct mode refuses connections until a lookup succeeds; its pings are still answered,
  and while they are, `resolve_cb` does not look up again. With `kcp_bind` and
  `kcp_connect` a second `bind` always fails.
* `queue_recv` does not look at `MAX_SESSIONS`, and `queue_send` loses the frame of a
  packet that cannot be sealed.
* A refused connection frees the sessions of the peer's existing one; `obfs_redial_cb`
  schedules nothing after a dial that failed (only `resolve_cb` does), and
  `obfs_ctx_write` adds what was sent to the length of its buffer.

## The proofs

Each holds for every value of the constants that the named assumptions admit.

### The tunnel (`SessionProofs`, `TunnelProofs`)

For any windows, timeouts, amounts of data, and numbers of strays and restarts, with
or without socket failures and allocation failures, `Spec` implies that `TypeOK`,
`Lifecycle`, `BufferSafety` and `NoLostWakeup` always hold (`TypeCorrect`,
`LifecycleHolds`, `BufferSafe`, `NoWakeupLost`); `Invariance` is the inductive
invariant `IInv` they follow from. `SessionAssumption` and `TunnelAssumption`
only give the constants their types (positive windows and block size, natural
timeouts).

`IInv` says that the types are right and that every session satisfies `SInv`:
`HalvesAgree`, `FlushInMessage`, and, unless the read loop is running, `Awake`.
None is inductive alone: `tcp_flush` needs the flush position to be inside a
message, that needs `wbuf` to hold that message while the KCP half is open, and
that needs the halves to agree on when buffers are released. The argument is by
function, as the code is built. Inside a callback `SInv` does not hold, so
`SessionProofs` uses two weaker facts: `Base`, what the halves agree on at every
call (it admits the LINGER state of the TCP half that `session_on_msg` sets and
`tcp_notify` ends), and `Core`, `Base` with `FlushInMessage`. There is a lemma
for each function that says what it keeps, and for each callback that it restores
`SInv` (`NotifySInv` is the heart: it is `tcp_notify` that makes a session awake
again). `TunnelProofs` lifts them to the actions.

### Framing (`FramingProofs`)

`Aligned`, `NoStall` and `TypeOK` for every size of buffer, segment and message.
`FramingAssumption` asks that a segment is no longer than `MAX_PACKET_SIZE` and that a
header fits below `TLV_MAX_LENGTH`. The invariant `FInv` adds that two cuts next to each
other are at most `Mss` apart, that two ends are within the lengths of a message, and
where in a message the flush position is: `NoStall` is the sum of a partial message and
one segment, and needs all of them.

### Nonces (`NonceProofs`)

`NoRepeat`, `Load` and `Forgets` for every number of nonces and entries and any hash
functions. The invariant says what the filters hold: the current one exactly the nonces
of the last `bloom_count[current]` verifications, both together those of the last
`bloom_count[0] + bloom_count[1]`.

### Packet queues (`PktQueueProofs`)

`Owned`, `Fifo` and `Announced` for any finite set of frames, any capacities and batch
size, any number of packets and both builds. The invariant `QInv` divides the live
frames between pool, send queue, receive queue, segments and unsealed packets (`Divided`), says
that no queue holds a frame twice (`OncePacket`, `OnceFrame`: without it a frame could be
put back twice and the sums of `Owned` would be wrong), that the numbers in `mq_send`
increase from `wire` to `last`, what `pkt_recv` has counted (`Reading`), and that a send queue
that is not empty has started the watcher, also inside `pkt_read_cb` (`Watched`). There
is one lemma per callback; `FlushKeeps` and `ReceivedOnce` carry the two that move
several frames at once.

### Only model-checked

The liveness properties (`CloseReachesPeer`, `Delivered`, `Released`, `AllConsumed`,
`Drained`, `Settles`, `Reconnects`, `Follows`, `AcceptsAgain`), which are out of the
prover's reach. The rest of `Tunnel` (`StreamFidelity`, `EofMeansComplete`,
`SingleDial`), `Kcp`, `Obfs`, `Link` and `Server`, so far; among them `Packet`, `Table`,
`Conf` and `Http` are mostly functions by recursion over data, for which the provers
have no induction.
