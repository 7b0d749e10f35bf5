# udpstar: a TLA+ verification project

`udpstar` is a Go library for small real-time multi-player programs over UDP: a
*server* gathers players in a *lobby*, upgrades the lobby to a *session*, receives the
players' *actions* and streams *stories* (the resulting events) to every client.
All traffic is UDP: packets may be lost, duplicated, delayed and reordered.

## 1. Inventory

| component | source | state | operations | what makes it correct |
|---|---|---|---|---|
| Range set | `sequence/range.go` | sorted list of disjoint, non-touching ranges | Union, Subtract, Add, Remove, Contains | canonical form; denotes exactly the set union/difference; the returned set is exactly what was added/removed |
| Stream + engine | `sequence/stream.go`, `engine.go` | `lastSeq`, `lastTime`, ahead list; the receiver's `missing` set | push(feed), expiry, GetMissing | at most once, increasing order; nothing skipped unless expired; `missing` is exactly the gaps |
| Recent | `sequence/recent.go` | ring buffer `head`, `size`, `holes`, entries with cumulative delay | Push, Pop, Remove, RemoveFn, Clear, Recent, Len | a bounded queue of the newest entries; no live entry is lost early; limits |
| History | `sequence/history.go` | chunked list of story entries | Push, Pop, RecentX, IterateRange | every range can be replayed; the recent window |
| Action channel | `client/service_action.go`, `server/service_client.go` | enumerator, Recent, resend timer; per actor stream + missing | input, resend timer, confirm; HandleActionPack | an action is confirmed only after the server has passed it; order; eventual delivery |
| Story channel | `server/service_session.go`, `client/service_story.go` | history; stream + missing, request timer | new story entry, StoryConfirm, story pack, request timer | each client sees a gap-free prefix of the story; a detected gap is repaired |
| Server lobby | `server/service_lobby.go` | slots, per-client counters, state, version | local/remote join and leave, evict, rename, request, finish | one slot per actor, client counters agree with slots, ready iff full |
| Lobby upgrade | `server/server.go` FinishLobby, `client/client_lobby.go` | count-down state, finish timer | Get, Finish x4, Setup messages | server and clients agree that the lobby finished |
| Client lobby | `client/client_lobby.go` | lobby data, finish and request timers, command channel and wait group | Start, HandleIncomingMessages, Join, Leave, LeaveAll | Start ends when told to, commands under way are sent, no channel is used after its close, a finished lobby yields its session |
| Session service | `server/service_session.go`, `service_client.go` | session and client states, request channels | story loop, state ticker, shutdown | Suspend/Resume alternate; cancelling always ends the session |
| Server registry | `server/server.go` | lobby, session and client maps | StartLobby, FinishLobby, StartSession, clean-up goroutines, Start | a running service is registered under its token, an entry names a running service; stopping the server reaches every service |
| Client session | `client/client.go` | three services and their channels | Start, HandleIncomingMessages | Start ends when told to, no channel is used after its close, the receive loop is not left blocked |
| UDP service | `udp/service.go` | handler, running server, idle timer | Handle, idle stop, server loop | an accepted handler gets a running server; cancelling ends both goroutines |
| Lobby listener | `client/client_lobby_listener.go` | list of heard lobbies with age state | HandleBroadcastMessages, Refresh, List | shows the newest data of every live lobby |
| Ping service | `client/service_ping.go` | ring of 10 pings, latency | tick, pong | latency within its bounds |
| Session set-up | `server/setup.go`, `client/setup.go`, `lobbyToSession` | pure | Validate, StoryActors, lobbyToSession | server and client derive the same session |
| Messages | `udpstar/message/**` | pure | Put, Get, Parse | round trip, size limits |
| Raw UDP | `udp/server.go`, `client.go`, `multicast.go`, `sender.go` | socket | Listen, Send | socket I/O |

How they interact. `udp.Service` runs the socket and calls `Server.HandleIncomingMessages`
or the client's handler from its receive loop. The server looks the token up in its maps
and calls the lobby (a command channel), `clientService.HandleActionPack` (a mutex per
actor) or `sessionService.HandleStoryConfirm` (a request channel to the session loop). The
client's services own one goroutine each and talk to their callers through channels.
`sequence` is the library both ends share: the sender numbers entries (enumerator) and keeps
them (`Recent` for actions, `History` for stories); the receiver orders them (`Stream`) and
keeps the set of missing numbers (`RangeSet`) through `Engine`.

What is hard: packets in any order and number; two ends that each keep a picture of the
other (buffers, missing sets, lobby versions); writes after an unlock; unbuffered channels
between goroutines that can be cancelled at any point; time-outs that race late packets; a
count-down of four commands during which the lobby goes on changing; linked lists and rings
edited in place. `PROJECT.json` lists the hazards with their lines.

## 2. Modules

| module | models | abstracts |
|---|---|---|
| `StreamSpec` | what one call of `Engine` promises | - |
| `Stream` | `Stream.push`, `pushAhead`, `Engine`, one action per loop step | payloads; the delay history; wall-clock time is a counter |
| `StreamOps` | the closed form of `push` and `GetMissing`, used by the channels | the loops |
| `RangeSetSpec`, `RangeSet` | set union and difference; the list of ranges with the loops of `union` and `subtract` | pointers: the list is a sequence; a loop is the place where it stops (`FirstReached`, `LastAbsorbed`, `Overlapped`) and what is put there (`Splice`) |
| `RecentSpec`, `Recent` | a bounded queue; the ring with head, size, holes and cumulative delays | payloads are sizes; entries are numbered as they are pushed, so the queue is the set of them |
| `HistorySpec`, `History` | a story that is given up from its old end; the list of nodes with its running totals, `IterateRange` and `RecentX` | payloads are sizes; a node has 2 places in place of 1024; binary search is what it finds |
| `ActionChannel` | one actor's actions: `actionService`, the network, `HandleActionPack` with its writes after the unlock | `Recent` is its specification; of time only whether `maxWaitTime` has run out |
| `StoryChannel` | one story for one client: the session loop's packs and answers, the network, `storyService` | an entry is its number; `History` is the list of all entries |
| `Session` | the session's goroutines: loop, clients, `HandleStoryConfirm` calls, states, Suspend/Resume, cancellation | what the packs contain |
| `ClientSession` | the goroutines of `Client.Start` and the call of `HandleIncomingMessages`: who waits for whom, and the shutdown | what the messages say; sending a datagram takes no step of its own |
| `Lobby` | `lobbyService` and concurrent `FinishLobby` calls | names, addresses, latencies; a version is only compared, so it is whether it still equals the expected one |
| `LobbyClient` | the client's lobby: the goroutines of `Start`, `updateData` with the finish timer, `sendCommand`, `HandlePong` | what messages say; a lobby's data is its state and one value for the rest; how long timers run |
| `LobbyListener` | the list of heard lobbies: `updateData` for Setups and `Refresh`, ageing, removal, `List` | a lobby is a pair of address and token, what a Setup says is one value; the clock is an age per entry; the walk over the list is what it makes of each entry (`Visited`) |
| `Registry` | the maps of `Server`, the goroutine of each service, `FinishLobby`, `Server.Start` | what the services do (`Lobby`, `Session`) |
| `SetUp` | a finished lobby's session at the server (`lobbyToSession`) and at each client (`Lobby.Start`), `Validate` at both ends, `StoryActors`, `makeLatencyData` | names and configurations; channels and configurations are one flag that the application sets |
| `Messages` | `Serializer`, `Deserializer`, the layout, `Size` and `Parse` of every message | `Put` and `Get` of a type name the same fields, so one layout stands for both; bytes are equal within a string |
| `UdpService` | `udp.Service`: `acceptHandlerLoop`, `runServerLoop`, `runServer`, and the read loop and the closer of `Server.ListenAddr` | packets; the idle time |
| `Structures` | the range set, the ring and the list of lobbies side by side, with what is stated of them | |
| `StoryState`, `LobbyClientState` | the constants and variables of `StoryChannel` and `LobbyClient` and the invariants about them, in modules of their own so that the runs of several parts extend what the proofs are about | |
| `StreamOpsProofs` | lemmas about `StreamOps`, for all the proofs that need them | |
| `SequentialProofs` (`Stream` and the parts of `Structures`), `ServerProofs` (`Lobby`, `Registry`), `ActionChannelProofs`, `StoryChannelProofs`, `SessionProofs`, `LobbyClientProofs`, `EndpointsProofs` (`UdpService`, `ClientSession`) | the theorems | |
| `MC*` | instances for TLC | |

`Stream` implements `StreamSpec`, `RangeSet` implements `RangeSetSpec`, `Recent` implements
`RecentSpec` and `History` implements `HistorySpec` (the `...Refines` and `Refinement`
properties). `ActionChannel` and `StoryChannel` compose the two
ends through the closed form of `Stream` (`StreamOps`), which is what `StreamSpec` states, so
the refinement of `Stream` is what makes them speak of the code. In the same way `Registry` takes
from `Lobby` that at most one `FinishLobby` call gets through a count-down (`OneCountdown`) and
from `Session` that a cancelled service ends (`StopsOrAbandoned`, with its exception).

Parts that share no state are checked in one run: `MCSequential` holds the stream, the three data
structures of `Structures`, the history, the set-up of sessions and the messages, `MCServer` the
lobby and the registry (whose names are kept apart: `RegistryInit`, `RegistryNext`, `finishing`),
`MCChannels` the channel of actions and three links for a story, `MCEndpoints` the UDP service, the
client of a session and the client's lobby. A behaviour of such a run works on one part and leaves
the others as they were made; the properties are those of the parts.

Variables carry the source's names where there is one (`lastSeq`, `lastTime`, `ahead`,
`missing`, `slots`, `state`, ...; the stream of a story's client is `clientLast`, `clientAhead`); a program counter (`pc`, `loop`, `call`, `handler`, `fin`,
`finishing`) stands for the place of a goroutine; history variables (`log`, `heard`, `skipped`, `solo`,
`told`, `intact`, `early`, `dropped`, `overtaken`, `overlap`, `late`, `missed`, `failed`,
`broken`) are marked as such and no guard reads them (the command loop's places `early` and
`late` differ only in what `dropped` records). Definitions marked *mutant* are
altered copies of the definition that follows them; they are not part of the model and show
that the properties depend on the code.

Where the code shares memory without synchronisation the model makes the choice
nondeterministic: the answer packs whose backing array is overwritten while they are
serialised (`Overwritten` in `StoryChannel`: by entries of the two packs after it, or of any later one
if it is the first), the slot `EvictIdx` reads (`EvictActor` in
`Lobby` for any actor at any time), `doneCh` read before `Start` has set it (`hasDone` in
`Session`), the stop function `udp.Service` calls after the unlock (`IdleStop` in `UdpService`).

## 3. Runs

| run | shows | bounds and why they suffice |
|---|---|---|
| `sequential` | the stream keeps order, loses nothing without a waiting time, asks for exactly its gaps and skips only what has expired; stream, range set, ring and history implement their abstract counterparts and answer exactly; the list of lobbies shows the latest Setups and announces every change; server and clients make the same session of a full lobby, and what `Validate` accepts can be run; every message is read back as it was sent, has its `Size`, and is refused if it was cut | *stream*: numbers 1..4, feeds of any two numbers (repeats and decreasing ones too), 3 time units, waiting time 0 (none) and 1: old, next, ahead, duplicate, expired and drained entries all occur in one call. *range set*: numbers 1..6: extend at both ends, merge of several nodes, split, removal. *ring*: capacity 3, 5 pushes, every placement of holes and every wrap-around, also pushes after a hole was overwritten. *history*: 5 entries in nodes of 2, no limit and each kind of limit: partly emptied nodes at both ends and one in the middle. *listener*: 3 lobbies (symmetric), thresholds 1, 2 and 3, 5 changes: any entry can age, be heard again, be cut out and come back. *setup*: lobbies of up to 5 slots, 2 stories and 3 clients in any order, where the limits are 2 actors and 1 story for a client (64 and 8), 2 clients and 2 stories for the server (64 and 64), and a byte has 4 values: each limit is reached and passed, and lobbies fall between those of the two ends; sessions of the application with up to 2 stories and 2 actors, equal tokens, shared places and indexes up to and beyond the bits of a mask (2 in place of 64). *message*: each of the 13 types with strings of 0, 2, 254 and 256 bytes and up to 2 rows in a list; datagrams of up to 60 bytes cut at every byte |
| `stream_skip` | *violation*: numbers are skipped although nothing newer has waited | numbers 1..3, one at a time, waiting time 1 |
| `channels` | *actions*: nothing vanishes unnoticed, nothing twice, order; every action is settled at both ends. *stories*: the client's channel is a prefix of the story and requests name exactly its gaps; on a fair link a noticed gap is repaired | *actions*: 3 actions, buffer of 2 (so one is pushed out), one packet in flight each way that may be lost or repeated; two handler goroutines, so that confirmations also overtake each other. *stories*, three links: a fair one with 6 entries in packs of 2, so that an answer takes several packs and overwriting matters, one packet each way; one for order: 5 entries, one range per request, two packets each way, so that packets overtake each other; one with 9 entries in packs of 2, for answers of four packs, in which a pack can carry entries of the next but one |
| `story_alias` | *violation*: packs leave out of order | 5 entries, an answer of two packs |
| `session` | calls return, the controller follows the clients, a cancelled session ends unless it holds a pack for a call that gave up | 2 clients, one call with its goroutine, answers of 0 to 2 packs: each of the three sends of a pack (first, last, between) occurs |
| `session_stop` | *violation*: a cancelled session may never end | 1 client, 1 call |
| `server` | *lobby*: counters, slots, state, broadcast, count-down and session agree. *registry*: the maps name exactly the live services; a lobby loses its entry only to an earlier lobby of its token; the server stops unless a service escaped it | *lobby*: 3 slots, 2 clients, 3 remote actors and 1 local one, 2 `FinishLobby` calls: every move, take-over and refusal, and a change between any two commands of a count-down. *registry*: 2 tokens, 1 client, 3 services, 2 `FinishLobby` calls, services also started after the cancellation: three services of one token overlap in every way |
| `lobby_client_finish` | *violation*: `Start` may never return although the lobby was finished | Setups of an open lobby and of one that starts in a second, 1 caller |
| `lobby_client_panic` | *violation*: the wait group is reused while `Wait` returns | 1 caller with 2 commands |
| `registry_stop` | *violation*: a server whose context is cancelled may never stop | 1 token, 2 lobbies, 1 call |
| `message_max` | *violation*: a message with a string of 255 bytes is not read back | strings of 2 and 255 bytes, lists of at most one row |
| `endpoints` | the UDP service ends, serves accepted handlers and stops its idle server safely; the client of a session ends without a wait or a call left behind; in the client's lobby commands under way are sent, channels are closed last, `Start` and all calls return | 3 handlers (one before, one during, one after an idle stop), any failure of a socket; packs of up to 2 entries and 2 messages, one call at a time as the receive loop makes them; in the lobby 2 callers with a command each and Setups of a starting lobby: each command can fall before, into and after its end, by the timer or by the context |

Deadlock is checked in `story_alias`; the others may stop (all entries pushed, all actions
settled, the session, the lobby or the server ended, `Start` returned).

Fairness. `ActionChannel`: the resend timer and the expiry are timers, the channel of an actor
is read, and of infinitely many packets sent infinitely many arrive (strong fairness of
receiving: UDP is lossy, not severed). `StoryChannel`: the request timer, and the same of the
network. (`MCChannels` writes these out as `[]<>` enabled `=> []<>` taken, since the parts of the run
have fairness of their own each; `CanReceive...` says when a packet can be received.) The live instances have one packet in flight, so that a received packet is one of
the latest; with more the assumption would have to name each packet, for the network could
always lose the one that matters. `Session`: goroutines that can go on do so (weak fairness),
and Go's `select` picks among its ready cases at random, which is strong fairness for the
loop's cases. `LobbyClient`: the same; goroutines that send on one channel wait in a queue,
hence strong fairness of each send. `Registry`: a cancelled service ends and its goroutine gets
the mutex; nothing is assumed of the owners of contexts or of the callers of `FinishLobby`.
`UdpService`: goroutines go on, handlers return, the idle timer fires, and neither select nor
the read loop passes over a cancelled context for ever. `ClientSession`: goroutines go on, and
the same of its selects; the application need not read its stories. No fairness is assumed of
clients, players, Setups, pongs, packets of the UDP service, cancellations or the age of a
client.

Findings, each a violation run:

* `story_alias` - the session loop reuses the backing array of an answer that another
  goroutine is serialising; the receiver's `push` drops the entries that are out of order.
  The gap is asked for again (`channels` passes), so this costs time, not entries, as
  long as an entry is copied in one piece.
* `session_stop` - the session loop blocks for ever on an answer nobody receives any more.
* `registry_stop` - `FinishLobby` deletes the entry of a lobby's token, and the goroutine of that
  lobby deletes it again when it ends. A lobby started under the token in between loses its entry
  to the old goroutine: its clients do not find it, `Server.Start` does not cancel it, and waits
  for it. `MapsSound` and `StopsUnlessUnreached` say that this overlap, and a service started
  after `Server.Start` has looked at the maps, are the only ways.
* `message_max` - `GetBytes` and `GetStr` step over a string with `n+1` in a byte: for 255 bytes that
  is 0, and the string is read again as the fields after it. `PutBytes` and `PutStr` refuse only
  what is longer. A story entry or an action of 255 bytes fits a datagram, so it is a stop for its
  stream: it can be sent again but never read. `WireSound` says that nothing else is misread.
* `lobby_client_panic` - `sendCommand` may call `commandWg.Add` after the finisher's `Wait` was
  woken and before it has returned, which `sync.WaitGroup` answers with a panic. `Wait` is
  modelled from the library: block while the counter is not zero, and check it again on waking.
* `lobby_client_finish` - every Setup stops the client's finish timer, and only one that changes
  something starts it again. The Setup of the count-down's last state, received twice with no other
  after it, leaves `Start` waiting until its context is cancelled. After `FinishLobby` the server
  has no lobby any more that would answer a Request. Without the condition `changed` the run passes.
* `stream_skip` (the comment of `Stream`, not necessarily the code) - the comment says that numbers are
  skipped if newer ones have waited in the ahead queue for more than the waiting time; `push`
  measures the time since the last delivery and never reads `node.time`, so that after a silence a
  gap is skipped at once, with nothing ahead. `SkipOnlyExpired` says what `push` does promise.

Observed while modelling, without a run: `HandleStoryConfirm` ignores `LastSequence`, so a lost
newest entry is noticed only when a newer one arrives (`GapRepaired` is about gaps the client
knows of).

`udp.Service`: the signal that starts the server is dropped when `runServerLoop` is not in its
select, that is while the service starts up or while the server of the last handler stops after
its idle time; the handler then waits on a port nobody listens on until it is done
(`HandlerServed` names these cases). The idle stop calls `s.udpServerStop` through the field
after the unlock: a server that fails, or one that a second idle stop finds still stopping, can
have set it to nil, and the call panics (`IdleStopSafe`). A read that fails leaves the connection
open until `mainCtx` is cancelled, since nothing cancels the server's own context, and the next
`Listen` finds the port taken. A connection closed between two reads makes `SetReadDeadline` fail,
so that a clean stop is reported as `Failed`. A `Service` made without `WithLogger` has a nil
logger, which `runServer` uses.

Set-ups: `Validate` asks for distinct actor tokens only among the local actors and within a
client. With one token in two places of a story `makeLatencyData` numbers positions up to the
number of actors but makes a slice of the number of distinct tokens, and the first report
indexes beyond it. `1 << Index` is 0 for an index of 64 or more, so `Validate` accepts an actor
whose story `StoryActors` then refuses. `LobbySetup.Validate` accepts slots whose stories come
back (A, B, A): the server counts such a story twice and its session is refused, and the client
counts on from another place. It does not bound the slots either, and the ends have different
limits: the server takes 64 clients and 64 stories and any number of actors, a client 8 stories and
64 actors, which are those of the whole lobby and not only its own. So the session of a lobby with
more than 64 slots, or more than 8 stories, starts at the server while every client refuses its
own; with more than 64 clients the server refuses too. Positions in the latency report are counted
in a byte and come round after 256 actors, so that two actors share one. `SetUpSound` states
all of this: within the server's limits (`Playable`) the server accepts, both ends have the same
stories and indexes, and a client accepts exactly within its own (`FitsClient`); what is accepted
can be run.

Packs: `RecentX` (service_session.go:168) limits the payload of a pack to `MaxMessageSize-64`,
but every entry takes 13 bytes more (`Size` in `Messages`): 36 one-byte entries are more than
`MaxMessageSize`, and more than 255 make `PutEntries` panic. An answer is limited by its `Size`.

`LobbyListener`: `changed = changed || updateLobby(...)` does not call `updateLobby` when an entry
earlier in the list has changed in the same walk; the lobby's next Setup is taken in
(`ShowsLatest`). `ClientSession`: while the application does not read a story, `HandlePack` keeps
the receive loop from pongs and confirmations (`CallReturns` assumes it reads).

## 4. Proofs

All theorems hold for every value of the constants that satisfies the assumptions named in
the modules (`StreamConstants`, `RangeSetConstants`, `RecentConstants`, `ListenerConstants`,
`ActionConstants`, `StoryConstants`, `SessionConstants`, `LobbyConstants`, `RegistryConstants`,
`LobbyClientConstants`, `UdpConstants`, `ClientConstants`): numbers are naturals; the ring and the
lobby have a slot, a Setup says something, local and remote actors have different tokens, callers
are finitely many. Each invariant is joined with what makes it inductive, and TLC has checked the
strengthened invariants of the registry, the UDP service, both channels, the stream, the range set,
the ring and the list of lobbies on the instances of the runs before they were proved. `TypeCorrect`
(`RegistryTypeCorrect`) is the type theorem of a part; no run checks it.

`SequentialProofs`, the stream: each theorem has an inductive invariant over the steps inside a call.
`DeliveredInOrder` needs that the log ends in `lastSeq`; `SkipsOnlyWhenExpired` that a call
that is still `expired` has delivered nothing (`ExpiredInv`); `DeliveredWithoutGap` that the log is
the run up to `lastSeq` (`RunInv`); `ArrivedIsKept` that what arrived is delivered, ahead, or
still in the feed (`KeptInv`); `MissingIsExact` relates the missing set at the end of a call to
the one at its start and the numbers that arrived. `StreamDelivers` joins the three theorems on
what is handed out to the property `DeliversAll` of the run.

`StreamImplements`, that `Stream` implements `StreamSpec` with all the steps of a call hidden but
the last, is what lets the channel modules speak of the code. `EngineInv` says how far a
call has got. In the feed loop (`FeedInv`): with A the entries accepted so far
(`AcceptedBefore`), delivery has resumed at `Res(A)` and gone on without a hole to `lastSeq`, what
of A lies beyond waits ahead and is not the next number, and `expired` says that the stream was
late and A is empty. While the ahead list is drained (`DrainInv`): the run goes on through what
waited before the call; if the feed has not moved the stream, nothing is drained, and this
is why `lastTime`, which is set between the two loops, is right. When no node can be drained,
`lastSeq` is the end of the run, of which there is only one (`RunEndUnique`), and `CallInv` gives the
missing set. `EngineInv` in turn needs that between calls the next number never waits ahead
(`NextIsAbsent`).

`SequentialProofs`, the range set: `RangeSetInv` says that the list and the one returned last are
canonical. Every change of a list is a `Splice`: nodes k..m are replaced by others. It stays
canonical if the new nodes are, and stand apart from their neighbours (`SpliceCanonical`), and it
then denotes what it denoted, less the old nodes and with the new (`SpliceDenotes`). So each operation
is reduced to the places where its loops stop (`FirstReachedIs`, `LastAbsorbedIs`, `UnionPlaceIs`,
`OverlappedIs`): union finds k..m such that all below end before q and all above begin after
it, without touching; subtraction changes a run of neighbours. Of what an operation returns the
proof needs that it is a list of non-empty pieces that hold exactly the difference
(`UnionPiecesIs`, `SubtractPiecesIs`), in whatever order, since the result is made of them by union
(`UnionAllIs`). `RangeSetImplements` and `RangeSetStaysCanonical` are the sum of these; the second
adds that one node covers a range if all of them do (`ContainsIs`), for which two neighbours must
not touch.

The ring: head, wrap-around and slots are hidden by one operator, `Slot(q, n)`, the entry n
places behind the head, and its two lemmas on the arithmetic modulo the capacity (`BeforeIs`,
`BeforeDiffers`). `Kept(t, q, k)` says that t holds the entries of q, k places closer to the head;
it is what `trimHead` and `trimTail` do (`TrimHeadIs`, `TrimTailIs`), and removals only empty places
(`MakeHolesIs`). The invariant `RingOK` says of an entry at place n that at least n were
pushed after it, that its cumulative delay is the time since it was pushed, that older places
hold older entries, and that the window has no more holes than are counted: not as many,
for a hole that is pushed over or popped stays in the counter. The first is why an entry
that leaves a full ring is Cap older than the new one (`RecentImplements`), the second why the
limit on delays is exact, the last why `Len` may return size when the counter is 0
(`RecentAnswersExact`). The limit on bytes is compared with one sum, taken over the same places in
`Recent` and in the property; the proof needs of it only that nothing weighs nothing.

The list of lobbies: `ListenerInv` adds to `ShowsLatest` that no lobby is listed twice, without
which a Setup could update one entry and leave another. What stays after a walk is the increasing
list of the positions that do (`StayIs`), each with what the walk makes of it. For
`VersionTellsChanges`, a walk that sets no `changed` cuts nothing out, and is then the identity on what
`List` shows (`QuietWalk`).

`StoryChannelProofs`: `DeliversPrefix` rests on `RunEnd` of the closed form of `push` being where
the run really ends (`RunEndIs`), on the increasing list of a set being what `Sorted` says
(`SortedLists`, `SortedInterval`), and on what an overwritten pack can hold: entries of the
packs of the same answer, so of the story (`ChunksAre`, `OverwrittenIs`, `SerialisedIs`), for
answers of any number of packs, of which the run reaches four. What is
delivered is `lastSeq + 1 .. lastSeq'`, which a reordered or torn pack cannot change because the
stream takes increasing entries only. `AsksExactly` is `MissingAfter` computed step by step
against `GetMissing` (`GapsAfter`). `IInv` adds that no message names a foreign entry and that the
server is silent until it has heard from the client.

`ActionChannelProofs`: `NoActionVanishes` follows from two facts that cross the two ends
(`Placed`): an action that was made is in the client's buffer, passed by the server's stream, or
pushed out; and what the stream has passed is written, with a handler, or skipped by an
expired stream. `WrittenOnceInOrder` needs that handlers hold disjoint, increasing lists that the
channel does not have (`HeldOnce`), which is so because `HandleActionPack` moves the stream under the
mutex before it writes after the unlock; and, as long as calls have not overlapped, that the one
handler at work holds newer actions than any written (`OneAtATime`).

`SessionProofs`: `Owed` - a call or goroutine that waits for a pack is the one the loop is
answering, unless its channel is closed - is inductive with the types and gives
`EndedOwesNothing`.

`ServerProofs`, the lobby: `IndInv` joins the types, `ReadyIffFull`, `OneCountdown` and `Whole` (a call that
holds a fresh version has seen no change of the slots since its Get). Each part needs the
others: a session is sound because a command that changes a slot also changes the version and
the state, so a stale count-down cannot pass `CanFinish`. `SlotsAreSound` joins `ActorsApart` and
`StateTellsFull` to the property `SlotsSound` of the run. `CountsMatch` follows every command that
moves a slot from one client to another with the cardinality of the set of slots a client holds.
`ChangesAnnounced` is inductive with the types.

The registry: entries are deleted by token and not by service, so the invariant says which
services can delete which entry. `EntriesMatch`: an entry is stored under the token of its
service, and a lobby's is that of the latest lobby of the token. `OverlapNoted`: a lobby begun
while an earlier one of its token may still delete its entry, because it lives or because a
`FinishLobby` call holds it, is in `overlap`. With these every deletion takes the entry it means
to or one of a lobby in `overlap`, and `MapsAreSound` follows. `ServicesReached` (`Reached`) uses
it once: `Server.Start` walks over the maps, so it cancels what `MapsSound` says is found there.

`LobbyClientProofs`: `TypeCorrect` includes that `commandWg` is the number of commands being handed
over or processed (the arithmetic rests on the cardinality theorems of `FiniteSetTheorems`).
`EarlySent` needs `Settled`: from the moment `Wait` is released no command that began earlier is
under way, because the counter was zero at that moment and later commands are not early; so the
two selects that see `doneCh` closed can only give up late commands. `ClosedSafely` is inductive
with the types.

`EndpointsProofs`: `IdleStopIsSafe` needs to know where the two goroutines of the service can be
when the stop function is nil: the connection is open only in the read loop, a server ends
only when cancelled or broken, the idle timer runs only in `acceptHandlerLoop`'s select, and a
handler whose server is already stopped is noted (`StopNoted`). `ClosedWithoutSenders` needs that
a service of the client has messages to send exactly while it is at work (`WorkIsToSend`) and
entries to write only then.

Induction. Facts about `Sorted` and `RunEnd`, and that the loop of `UnionAll` has a result, need
induction over the naturals; it is made by the least counterexample (`LeastNat`, from the
well-foundedness of the naturals). The lemmas about `StreamOps` are in `StreamOpsProofs`, which the
other proofs extend.

Only model-checked: everything about liveness (out of the prover's reach here); `ReplaysExactly`
and `HistoryRefines`, whose running totals are sums over nodes within nodes, and `SetUpSound` and
`WireSound`, which fold over the slots of a lobby or the fields of a message. What these folds of
`SequencesExt` and `FiniteSetsExt` compute the provers can only learn by induction over data. The
range set, the ring and the list of lobbies do without: their loops are stated by where
they stop and what they do to each entry, which is also how they are checked.

## 5. Not modelled

Logging; the delay history behind `Quality`; latencies and with them the ring of pings; socket
I/O other than `Server.ListenAddr` (`udp/client.go`, `multicast.go`, `sender.go`); how many entries
the session takes into a pack, beyond what is said above (the channels take what a message can
carry as constants); `Put16`, `Put32Array` and the other parts of the serializer that no message
uses; the composition of the server's count-down with the client's finish timer: both ends are
modelled, each against any behaviour of the other.

## 6. Plan

1. *Done*: `sequence` (stream, range set, recent, history), the two channels, the session and its
   client, the server's and the client's lobby, the list of lobbies, the registry, the UDP
   service, the set-up of sessions, the messages, with the proofs above.
2. *Proofs*: done for every safety property of the runs but the four named above. Next: `History`
   stated without folds, as the ring is, so that `HistoryRefines` can be reduced to what each
   operation does to one node.
3. *Upgrade*: `Lobby`'s count-down and `LobbyClient`'s finish timer composed through Setup
   packets that are lost and repeated, with the seconds both ends count.
4. Packs: `History`'s `RecentX` composed with `Size` of `Messages`.
