# bitflood: specifications, model checking and proofs

`bitflood` downloads one torrent, serves its pieces to others while it does, and
goes on serving until it is interrupted. It is one process: `main` (the function
`client.Main`), a listening goroutine, and for each TCP connection one goroutine
that runs `communicationLoop`, all joined by Go channels and a few mutexes. This
directory specifies that machinery in TLA+, checks it with TLC and proves its safety
properties with TLAPS.

## 1. Inventory

Paths are relative to the repository's root.

| Part | State it keeps | Operations | What makes it correct |
|---|---|---|---|
| Work queue (`client/client.go`, `Main`) | channels `Orders` and `Results`, `results.Pieces`, `PiecesDone`, `alreadySavedFinalFile` | order the missing pieces, receive a piece, save, exit | every missing piece is always somewhere, never in two places; the file is written when and only when all are there; nothing counted is lost at exit |
| Downloading side (`communicationLoop`, `getPiece`, `fillRequests`, `handlePieceComplete`, `handleMessage` in `client/peer.go`; `pieceProgress` in `client/types.go`) | `progress`, the peer's flags and bitfield | take, return and complete an order; request chunks; receive messages | an order leaves with the goroutine that holds it; requests and chunks correspond one to one, across chokes |
| Uploading side (`communicationLoop`, `uploadChunk`) | `seedState.requested`, `Choking`, `Interested` | queue and serve requests, choke and unchoke | every request is answered once; both ends agree who is choked |
| Connection pool (`client/types.go`; `listeningServer`, `connectToPeer`, `launchClients`, `updateOnlineConnections` in `client/client.go`) | the slice `peers`, `blacklist`, `ConnectionEnded` | `Add`, `Remove`, `IsOpen`, `IsBlacklisted`, `Blacklist*`; accept, dial, drain | one slot for each connection, freed when it ends; not more connections than wanted; hosts are tried again |
| Choke algorithm (`chokeAlgorithm`, `Main`) | `generosityMap`, `interestedPeers`, a channel of capacity one per connection | pick five peers every ten seconds | interested peers get slots, generous ones first |
| Persistence (`file/`, `loadFromFile`, `savePartialFiles`, `deletePartialFiles`; `cmd/verify_parts` reads) | result file, partial files | load and verify, append, save, delete | what one run saved the next one loads |
| Bitfield (`bitfield/`) | a byte array | `New`, `NewFull`, `Get`, `Set`, `Copy`, `FromBytes` | it is a set of indexes, and its bytes have the length the wire wants |
| Handshake and wire format (`bittorrent/peer_protocol.go`) | none | handshake in two orders, messages | each end ends in the same state, or in an error |
| Tracker (`bittorrent/tracker.go`; `random.RandomizeAnnounceList`) | the tier and position of a walk, the current tracker | walk the tiers, update | trackers are tried in order, every walk ends |
| The rest: `decode/`, `logging/`, `assert/`, `cmd/peerconnect/`, `main.go`, random strings | | | not modelled, see section 7 |

How they interact: `main` fills `Orders` before any goroutine starts; a
connection's goroutine takes an order, downloads it chunk by chunk, verifies it
and sends it into `Results`; `main` stores it and counts. A goroutine that ends
gives its order back to `Orders` and its address to `ConnectionEnded`; `main`
drains that channel in every iteration, removes and blacklists, and launches
replacements. `PeerInterested` feeds the choke algorithm, whose answer goes to
every connection through its own channel. The listener adds to the pool at any
time.

What is hard here: the same order travels through many hands and any of them may
vanish; a count decides that the download is over; chokes cross requests on the
wire; the pool is locked method by method but used across methods and through
pointers; an interruption may fall anywhere. `PROJECT.json` lists the hazards
one by one, each with its line and the properties about it, or the reason why
there is none.

## 2. Modules

| Module | What it is |
|---|---|
| `Download` | what a run promises, with no peers, connections or goroutines |
| `PieceOrders` | the work queue: `main`, `Orders`, `Results` and any number of connections; implements `Download` |
| `PieceOrdersProofs` | theorems about `PieceOrders` and their proofs |
| `Trade` | what a connection promises about pieces, with no messages, chokes or requests |
| `Transfer` | one connection between two instances of the client, chunk by chunk; implements `Trade` |
| `ConnectionPool` | `main` and the listener around the pool's slice |
| `Choking` | `main`'s two maps, `chokeAlgorithm`, and the channels between `main` and the connections that carry interest and lists |
| `Resume` | what the client promises over all of its runs, with no files |
| `Persistence` | result file and partial files, over any number of runs that may be killed; implements `Resume` |
| `Bitfield` | the bytes of a bitfield, and the check at the other end |
| `Tracker` | the walk over an announce-list, and updates |
| `Handshake` | how a connection between two clients begins and ends |
| `TransferProofs`, `ConnectionPoolProofs`, `ChokingProofs`, `PersistenceProofs`, `BitfieldProofs`, `TrackerProofs`, `HandshakeProofs` | theorems about these modules and their proofs |
| `MCPieceOrders`, `MCTransfer`, `MCConnectionPool`, `MCChoking`, `MCTracker` | instances for TLC, one `.cfg` for each run; `Persistence`, `Bitfield` and `Handshake` need none |

`PieceOrders` and `Transfer` describe the same goroutine at two grains.
`PieceOrders` has many connections and no chunks: between taking an order and the
chunk that completes it, nothing happens to pieces or orders that other goroutines or main
could see.
`Transfer` has all the chunks and messages of one connection, and its queue of
orders is only its own.

Where modules meet, one abstracts the other. `PieceOrders` saves and exits in single
steps, which `Persistence` takes apart file by file and continues into the next run;
`Transfer` lets the choke algorithm choose freely, and `Choking` computes that choice;
`ConnectionPool` knows of a connection that it starts and ends, and `Handshake` shows
that each one does end and is reported; all of them use a bitfield as the set that
`Bitfield` shows its bytes to be.

Definitions marked "variant" in the comments are not part of any specification:
they are the small mistakes that the properties must notice, and each property of
a passing run fails when one of them takes the place of the definition it is
written next to.

### Download

Four variables: what has been gathered, what is on disk, whether the result file
is written, whether the run goes on. A missing piece is gathered one at a time,
the result file is written only with all pieces, and a run that stops has
everything it gathered on disk. A run may also crash, which leaves on disk what was there.

### PieceOrders

| Specification | Code |
|---|---|
| `orders`, `results` | the channels `Orders` and `Results`, of capacity `len(PieceHashes)` |
| `pieces`, `piecesDone` | `results.Pieces` with the bits of `results.Bitfield`, and `results.PiecesDone` |
| `disk`, `saved` | what the files hold; `alreadySavedFinalFile` |
| `main` | `"loop"`, `"tracker"` while it waits in `GetTrackerFromFile`, `"exiting"` during the last second, `"exited"`, or `"crashed"` |
| `pc[c]` | a connection's goroutine: `"off"`, at the `"top"` of the loop, in the `"select"`, about to put an order back in `getPiece` (`"putback"`), about to give it back on its way out (`"giveback"`) |
| `order[c]`, `buf[c]`, `bf[c]` | `progress.order`, `progress.buf` (partial, or full with a good or bad hash), `peer.Bitfield` |
| `dropped` | a history variable, see below |

A step is one channel operation with the local work around it. The code between
two channel operations of a goroutine touches only its own variables, so finer
steps would show nothing more. Two consequences of the code that a reader might
not expect are kept: `getPiece` pops an order and puts it back in two steps, so
the order is in no queue for a moment (others may find the queue empty); and
`handleMessage` failing ends the goroutine *without* giving its order back, in
contrast to the other exits. `dropped` collects the pieces lost like this, and
the properties say that this is the only way to lose one. A piece message that arrives
while `progress.order` is nil is not rejected: it dereferences the pointer
(`client/peer.go:398`), and the process ends without saving (`Panic`).

Properties:

- `NoPieceTwice` - the places where a piece can be (queue, goroutine, `Results`,
  store, dropped) are disjoint, and none holds a piece twice. `PiecesDone` is a
  counter, so the end of the download depends on this.
- `NoPieceLost` - they cover all pieces.
- `SendsNeverBlock` - a goroutine about to send finds room. The code never says
  so; it follows from the two properties above and the channels' capacity.
- `CompleteMeansIdle` - when the counter is full, every piece is stored and no
  goroutine has an order left.
- `ImplementsDownload` - the refinement: `have <- pieces`, `state <- State`.
- `VerifiedIsStored` - main's part alone: it stores what was verified, whatever the peers do.
- `Completion` - when all peers are good, the download ends: none of them keeps an order
  that another would need.
- `OnePeerSuffices` - one good peer is enough, whatever the others did, once they hold no
  orders: what they took went back, and the good peer's goroutine finds it. This fails if any
  way to lose a connection keeps the order.

The last two speak of a download that nothing else ends: main is not interrupted and does not
crash, and no order is dropped (`Downloaded`).

Fairness. `Fairness` is what Go's scheduler and main's select give: a goroutine that can run
does, and a select that is reached again and again takes each case that stays ready, or is
ready again and again (`SF` of `RecordPiece`, since main asks the tracker in between;
`loggingCh` alone starts an iteration each second). It does not say that main comes back from
`GetTrackerFromFile`: without an announce-list main may stay there for ever (section 4),
storing nothing. All three liveness properties therefore have the premise `AskingEnds`, that
main is out of the tracker infinitely often; `Tracker`'s `GivesUp` shows it for an
announce-list. What the properties need of the environment is a premise too, `GoodPeer`:
slots are connected, a bitfield and the last chunk that are offered again and again are taken
(strong fairness, since Go's select chooses at random among ready cases), an idle goroutine is
woken by the next choke tick, and from some time on the peer is complete and no `Fault` happens
on its connection. That the wake-up comes is assumed, not shown.

### Trade and Transfer

`Trade`: each end chooses a piece that it lacks and the other has, gets its chunks, each
once, and with the last one has the piece and may choose the next. Three variables for each
end: the pieces it has, the one it gathers, the chunks of that one.

In `Transfer`, each end's state is a record with the fields of `peer`, `progress` and
`seedState`; `wire[n]` is the TCP stream on its way to `n`. An iteration of the loop
is a composition of operators in the order of the code,
`FillRequests(SayInterested(TakePiece(CompletePiece(UploadChunk(s)))))`, applied after
each message (`handleMessage`) or list of peers to unchoke (`ChokeTick`). One iteration
is one step: it writes to one stream only, and the other end cannot tell a prefix of
what it wrote from all of it. Chunks are numbered; lengths and offsets in bytes are
multiples of `chunkSize`, except that a last chunk may be shorter, which changes
nothing. The choke algorithm's choice is free: it may list a peer that never said on this
connection that it is interested, since main may have heard so on an earlier one, and the
loop does not look (`client/peer.go:183-196`).

Properties:

- `RequestsAccounted` - the downloader's outstanding requests are exactly those that
  are on the wire, in the other's list, or coming back as chunks, each once; the
  requests sent so far are the outstanding ones and the received ones.
- `NothingRejected` - no end ever reaches an error or a nil dereference of
  `handleMessage` or `uploadChunk` against another bitflood.
- `ChokeViewsAgree` - the choked end's view is the choking end's, delayed by the
  messages in flight.
- `InterestKnown` - an end that has an order and is choked is known to be interested, or the
  message is on its way, however early it was unchoked and however often.
- `ImplementsTrade` - the refinement, with the fields `has`, `order` and `received` of each
  end: between the messages no piece is gathered twice, abandoned, or chosen that the other
  lacks, and no chunk of one is counted for another.
- `Exchange` - both ends get what the other had when the connection opened. Fairness:
  messages are delivered (`WF` of `Receive`), an iteration of the loop that has something to
  do comes with the next list (`WF` of `TimelyTick`), and the choke algorithm picks a peer that
  said it is interested infinitely often (`SF` of `PickInterested`), which the code grants while
  fewer than five peers are interested. The premise `UnchokedAreKnown` excludes, from some time
  on, an end that is unchoked with an order but has not said that it is interested. TLC
  finds that `Exchange` fails without it: such an end never says so, see section 4.

The number of pieces is taken not to be a multiple of eight: for multiples of eight
`bitfield.New` makes one byte too many and `handleMessage` refuses the bitfield
(`bitfield/bitfield.go:14`, `client/peer.go:377-383`), which is the subject of
`Bitfield` and ends the connection in `Handshake`.

### ConnectionPool

| Specification | Code |
|---|---|
| `memory`, `cap`, `len` | the slice `connections.peers` with its backing arrays: `append` writes in place while there is room and moves to an array of twice the capacity otherwise (as the runtime does for slices this short) |
| `blacklist` | hosts blacklisted less than `connectionBlacklistDuration` ago |
| `running`, `channel` | the connections' goroutines, and whose channel each reads |
| `ended`, `toRemove` | the channel `ConnectionEnded`, and what `updateOnlineConnections` has drained |
| `pc`, `conn`, `pointer`, `launch` | where main and the listener are; the connection each is adding; the pointer `Add` returned, as an array and an index; `launchClients`' parameter and counters |
| `outgoing` | a history variable: the connections that main dialled |
| `complete` | whether `PiecesDone` has reached the number of pieces |

A step is one critical section, one channel operation or one unlocked read. A
connection is a name (its `net.Addr`, compared by identity in `Remove`); a name is
used again only when nothing refers to it any more. The second read of the length, in
`launchClients(maximumDownloaders-len(...))`, takes the value of then or of the first
read: without a lock, the compiler may merge the two.

Properties:

- `SlotsMatchConnections` - the slice holds exactly the connections between their `Add`
  and the moment main has removed them, each once, although slots move under main and
  the listener.
- `OutgoingLimited` - main never has more than `maximumDownloaders` dialled
  connections, whatever the listener adds and whatever lengths main reads.
- `EndedIsRemoved`, `Reconnects` - slots come back, and a reachable host is connected
  again as long as there is room. Fairness: main's loop and the listener run
  (`WF`), the minute of the blacklist passes (`WF`), and, for `Reconnects`, a dial
  that is attempted again and again succeeds once (`SF` of `Dial`, an assumption about
  the host).
- `OneReaderPerChannel` - violated, section 4.

A state `"panicked"` is where `launchClients`' assertion stops the process; the runs
switch the deadlock check off because of it, and because a finite set of names can be
used up.

### Choking

| Specification | Code |
|---|---|
| `conn[c]` | whether the connection has a slot of `connections.peers`, and how far its goroutine is: before the handshake, in the loop, or ended, with or without a handshake |
| `adding` | the connection that main or the listener is adding, between the two critical sections of `Add` |
| `interested`, `choking` | `peer.Interested`, `peer.Choking` in the goroutine |
| `list[c]` | `peersToUnchokeCh`, of capacity one: empty, or whether the list in it names the peer |
| `interestCh` | the channel `PeerInterested` (`ConnectionEnded` is in `conn`: it is drained as a whole) |
| `interest`, `generosity` | `interestedPeers` (the ids that are true) and `generosityMap` |
| `asked`, `late`, `lastWord`, `crossed`, `missed` | history: who said `interested` since it last had no slot; for whom `main` read such a message only after that; which connection spoke last for its peer; whose `Add` overlapped that of another connection of the same peer; whose channel was full at the last tick |

Connections are told apart, although main's maps are not: they are by peer id. `Add` looks for
the host under one lock and appends under another (`client/types.go:92`, `100`), so main and the
listener may both add the same host. What either connection says then stands for both, and the
end of one clears the entries of both (`client/client.go:520`). A peer is taken to be one
host, and each goroutine to read the channel of its own slot; `ConnectionPool` shows when it
does not.

An iteration of `main` is one step: what the select received and
`updateOnlineConnections` after it, since both work on local maps. A goroutine handles
one message or one list in a step. `Picks` gives all the lists that
`chokeAlgorithm` can return: the order of the map, of equal generosities and the random fifth
are free.

Properties:

- `InterestNotForgotten` - once `main` has read a peer's messages, its map agrees with the
  connection that spoke last for the peer. The end of a connection travels through another
  channel than interest; what saves the property is that a host keeps its slot until its end
  is drained. Two connections whose `Add`s overlapped are not saved by it: the end of
  one takes the last word from the other (`lastWord` in `EndIteration`), which is where H21 bites.
- `UnchokedHasAsked` - a connection is unchoked only if its peer has asked, on it or
  on one that had a slot at the same time, or is in `late`.
- `SlotsRespected` - the connections that were not passed over at the last tick and have
  read its list leave at most `Slots` peers unchoked.
- `ServedWhenFew` - a connection that stays, stays interested, and keeps its peer's last word
  is unchoked for good while slots are free, although a full channel loses lists. Fairness:
  `main` runs (`WF`; it is not in `GetTrackerFromFile` for ever), its select takes the tick and
  `PeerInterested` when they are ready again and again (`SF`), and a goroutine reads a
  list it is offered (`WF`).

### Resume and Persistence

`Resume`: a run starts with everything stored, gathers and stores; a run that ends by
itself has stored what it has; only after a kill may the next run refuse. A write that fails ends the promise.

| Specification | Code |
|---|---|
| `result` | the result file, as the number of whole pieces in it |
| `parts[f]` | the records of a partial file, each whole or cut short |
| `phase` | where `main` is: `"loop"`, `"creating"`, `"saving"`, `"deleting"`, `"appending"`, or how the process ended |
| `pieces`, `piecesDone` | `results.Pieces` (and `Bitfield`), `results.PiecesDone` |
| `loaded`, `loadedDone`, `saved` | `alreadySavedPieces`, `alreadySavedNumber`, `alreadySavedFinalFile` |
| `at` | the index of the loop over files or pieces |
| `report` | what `cmd/verify_parts` printed last |
| `failed` | history: a file could not be created, opened or written |

Every write is a step: one piece of the result file, one record, one removal. The
process may be killed between any two, or inside a record (a result file cut inside a
piece is as short as one cut before it, since both fail their hash). Loading reads
everything and changes nothing, so it is one step. An index past
the end of a file's range cannot occur, and a file that exists is taken to open.
Main saves in the iteration that receives the last piece, so an interrupt never finds a
complete download unsaved: the partial files never hold all pieces, and the save at the first iteration
of a run that found everything there does not occur (`PieceOrders`, which starts from any
set of loaded pieces, has it).

Properties:

- `Recovered` - a run's count is the number of its pieces, and it has whatever the disk has
  intact. This is what would break if a piece were appended twice, in any two runs.
- `ReportStaysTrue` - no piece that was once found on disk is ever lost, until a write
  fails: the partial files are removed even if the result file could not be written.
- `ImplementsResume` - with `have <- pieces`, `store <- OnDisk`. A run whose write fails
  ends without having stored all, so a failure is `Resume`'s action `Break`, which ends the promise.
- `Finishes` - when kills stop, the download is finished, or the client refuses to start, or
  a write has failed. Fairness: a run gets on (`WF(Run)`, which includes that the user starts
  the next one) and pieces arrive now and then (`SF`). Interruptions stay possible at any time.

That the client refuses to start after a kill in the middle of a save is what the code
does, and `Resume` says so: the partial files are still there, but the user has to remove
the short result file; a torn record, too, is for the user to remove.

### Bitfield

`length` and `data` are the fields of the type, `received` the copy that a peer makes of
the bytes; `members` and `announced` are the sets they should be. Shifts and masks are
written as powers of two, and "or" and "and-not" by cases on the bit. `Represents`: after
any sequence of `Set`s, `Get` at both ends gives the set that the calls describe.
`SpareBitsZero`: the bits behind the last piece stay zero in what is sent. `Accepted`: the
other end takes the field if it was full at the start or its length is no multiple of eight.
Otherwise it refuses the field, see section 4.

### Tracker

`tier` and `tierPos` are the variables of `GetTrackerFromFile`, `tracker` what
`getFirstSupportedTracker` returned last, `asked` the history of one walk. A tracker is known
by its place, and its URL matters only by its scheme. `FindTracker` is a call of
`getFirstSupportedTracker`; the request then succeeds or fails, whatever the reason.
`parses` says whether the single announce URL, used when there is no list, can be parsed.

- `AskedInOrder` - a walk goes forwards only, although positions are computed from
  positions.
- `TiersInTurn` - no tier that has a tracker is passed by.
- `GivesUp` - with an announce-list, or with an announce URL that does not parse, a walk
  ends. `WF` of its steps is all that is assumed: `getPeers` returns within half a second.
  With a single URL that parses it need not end, see section 4.

### Handshake

| Specification | Code |
|---|---|
| `torrent`, `valid` | the torrent of an end, and whether its bitfield has the length the other end wants |
| `todo[e]` | what the goroutine (`seed` at the listener, `leech` at the dialler) still has to do |
| `open`, `wire`, `cut` | sockets, the streams between them, the network |
| `reader`, `held` | the goroutine that reads messages, and the one it is passing through `msgChannel` |
| `known` | `peer.Bitfield` is set |
| `reported` | what was sent into `ConnectionEnded` |

A write reaches the other end, or is lost without an error, or fails; a close lets what
was written arrive or not. A handshake or a message is read whole, as `io.ReadFull` does.
An end whose pool refuses the host drops the socket without closing it, the listener
(`client/client.go:250-254`) and the dialler (`290-293`) alike; the Go runtime closes a
`net.Conn` that is garbage, which is the action `Collect`.

- `SameTorrent` - no end gets into the loop with another torrent's peer.
- `FieldFirst` - the first message of the loop is the bitfield. An end that never gets one
  would take no order for the whole connection.
- `ReportedOnce` - each end tells `main` exactly once, on every path out.
- `Settles` - no handshake waits for ever, whatever fails.
- `EndsTogether` - when one end closes, so does the other, and gives up its slot.

Fairness: each goroutine that can run does (`WF`), and garbage is collected (`WF`).
That the network fails or a client stops is never assumed. A cut network is noticed
in the end: TCP's keep-alive, on by default in Go, is part of `AtEOF`.

## 3. Runs

| Run | Instance | Shows |
|---|---|---|
| `orders` | 2 pieces, 3 connections, peers with all pieces or with only `p1` | all properties of `PieceOrders`, 150,000 states |
| `transfer_trading` | 4 pieces of 4 chunks, pipeline of 2; one end has one, the other two, the fourth is nowhere | the safety properties of `Transfer` in both directions at once, and `ImplementsTrade`, 813,000 states |
| `transfer_live` | 3 pieces of 2 chunks, one at each end, the third nowhere | `Exchange`, 26,500 states |
| `pool_safety` | 3 hosts, 4 connections (2 of them to one host), limit 2; symmetry and a view | `TypeOK`, `SlotsMatchConnections`, `OutgoingLimited`, 740,000 states |
| `pool_live` | 2 hosts, 2 connections, limit 2 | `EndedIsRemoved`, `Reconnects` |
| `pool_one_reader` | 2 hosts, 3 connections, limit 2 | a violation |
| `choking_safety` | 2 peers, 3 connections (2 of them to one peer), 1 slot, channel of capacity 1, up to 1 piece counted per peer; symmetry and a view | the safety properties of `Choking`, 750,000 states |
| `choking_live` | 1 peer, 2 connections, 2 slots | `ServedWhenFew`, 30,000 states |
| `persistence` | 4 pieces, 2 to a partial file; any number of runs, kills, failing writes | all properties of `Persistence` but `TypeOK`, which is proved |
| `bitfield` | up to 9 pieces | `Represents`, `SpareBitsZero`, `Accepted`, 640,000 states |
| `tracker` | every list of up to 2 tiers of 3 or 3 tiers of 2 trackers, http or udp, and no list, with an announce URL that parses or not | `AskedInOrder`, `TiersInTurn`, `GivesUp` |
| `handshake` | 2 torrents, 2 messages from each end | all properties of `Handshake`, 60,000 states |

Why these bounds are enough. *PieceOrders*: three goroutines let an order be put
back by one while another looks and a third ends; two pieces let one be held while the
other is queued, stored or on its way; initial stores of every size
are included, and the proofs of section 5 cover every size. *Transfer*: in `transfer_trading`, pieces are longer
than the pipeline, and longer by two, so that requests are refilled while chunks are
outstanding and the pipeline runs dry at the end; two pieces in one direction cover the
change from one to the next, which a choke may cross. `MaxChanges` bounds only how often
the choke algorithm may change
its mind while messages are still on their way: ticks are ten seconds apart. The piece that
nobody has in `transfer_live` stays in the queue, so that an end looks for an order for ever.
*ConnectionPool*: the slice grows through capacities 1, 2 and 4 and shrinks again; two
connections to one host make duplicates possible; with three hosts and a limit of two,
a launch that counted wrongly would exceed the limit. The view of `pool_safety` hides
slots that are outside the slice and that no pointer holds, since an append overwrites
them before anything can read them. `EndCapacity` is 1 or 2, so that goroutines wait to
report their end, as they would behind the code's 50 messages and more.

*Choking*: two peers compete for one slot, so that one is left out, and the one with two
connections may hold both at once, one after the other, or one in each adder's hands; a
connection can end and its host come back while its messages are still in the channel, and a
channel of capacity one makes goroutines wait, as the code's 50 and more would. One piece per
peer tells those who gave from those who did not; more would only refine the order among them.
The view of `choking_safety` hides history that nothing can tell any more, such as the
interest of a connection without the last word. Liveness needs a peer that is interested in fewer than two slots, and a twin that may take its
interest away. *Persistence*: four
pieces, two to a file, put file boundaries inside and at the end of the range (a third file
stays empty, as the code's division makes it); the number of runs is not bounded. *Bitfield*:
nine pieces cover one byte partly used, exactly used, and a second byte. *Tracker*: three trackers in a
tier are the fewest that the walk can pass over, and three tiers the fewest where a tier is
neither first nor last. *Handshake*: `MaxMessages` only keeps the streams short; one message
behind the bitfield is enough for a reader to be stuck with it.

`CHECK_DEADLOCK FALSE` is given where the system may stop: main has exited (`Tracker`), both
ends of a connection are through (`Handshake`), the pool as said above.

Each run finishes within three minutes on two cores.

## 4. Where code and comments disagree

`pool_one_reader` has `"expect": "violation"`; its counterexample is the story.

**Two readers on one unchoke channel.** `Add` returns a pointer
into the slice; before its caller follows it, `Remove` and another `Add` may have
put another connection there. One peer then never hears from the choke algorithm, although
`types/types.go:84` says the channel is from one main to one seed.

The following was seen while modelling. The models contain it, and the properties are
stated so that they are true in its presence; it has no run of its own.

- Chunks are not served first in, first out. `client/peer.go:217` announces FIFO;
  `peer.go:107` deletes the head by moving the last element into its place, so requests 1, 2, 3 are
  served 1, 3, 2. Harmless for the data (`RequestsAccounted` holds), but a request can be
  overtaken for as long as new ones come.
- Two connections to one host. `Add` checks and appends under two locks
  (`client/types.go:92`, `100`); main dials a host while it dials in. When one of the two ends,
  `client/client.go:520` deletes the interest that the other has announced, and a peer
  that goes on being interested is choked for good. Hence `lastWord` in `InterestNotForgotten`
  and `ServedWhenFew`: they hold for the other connection again once it speaks, which this
  client does only once.
- Unchoked too early. `SayInterested` speaks only while choked (`client/peer.go:131-132`), and
  an end is served only after it said so (`peer.go:101`). Main may list a host because of what it said
  on an earlier connection; if the unchoke arrives before the new goroutine has an order, the
  goroutine never says that it is interested and waits until the next choke. Hence the
  premise of `Exchange`.
- A piece message without an order ends the process. `client/peer.go:398` reads a field of
  `progress.order` without looking whether it is nil. Two instances of this client never get there
  (`NothingRejected`); another client can. Hence "not interrupted" in the liveness of
  `PieceOrders`, and `Crash` in `Download`.
- The assertion of `launchClients` can fail (`client/client.go:202-203`, `473`). The length is
  compared and then read again, without the lock; if the listener adds a connection in between,
  zero connections are requested, one is made, and the process panics (`"panicked"`).
- A failed save is announced as finished. `client.go:212` ignores
  what `file.Save` returns, prints "download finished, saved to file" and deletes the partial
  files. The next start refuses the short file. Hence `failed` in `Persistence`.
- Slots stay empty. From five interested peers on, only those that delivered a
  piece to this client are picked, and the list is padded with empty names, which the
  assertion about its length (`client.go:592`) counts. A client that only seeds chokes
  everybody as soon as five are interested. Hence "while slots are free" in `ServedWhenFew`.
- A bitfield that peers refuse. For a multiple of eight pieces `New` makes a
  byte too many (`bitfield/bitfield.go:14`), and `handleMessage` closes the connection
  ("invalid bitfield length", `client/peer.go:377-383`). Hence the condition in `Accepted`.
- Trackers are passed over. A failed tracker's index plus one is added to
  the position instead of replacing it (`bittorrent/tracker.go:37`); the comment at line 83
  describes the position as the last one tried. After two failures in a tier, the third
  tracker is not asked. Hence `TiersInTurn` speaks of a tier's first tracker.
- No shutdown without an announce-list. `GetTrackerFromFile` then never
  fails (`tracker.go:70-76`), so the shutdown that `client.go:179` describes does not
  happen: main asks the one tracker for ever, and neither stores pieces nor hears an
  interrupt. Hence the premises of `GivesUp` and of the liveness properties of `PieceOrders`.

Like these, and without a comment that contradicts it: an order held when a message is
rejected is lost for the run (`dropped`). The panic of `launchClients` has the same effect on
stored pieces as `Panic`, and is not an action of `PieceOrders` as well.

## 5. Proofs

`PieceOrdersProofs` proves, for every finite set of pieces, every set of connections
and every set of bitfields, that `Spec` of `PieceOrders` implies always `TypeOK`
(`TypeCorrect`), `NoPieceTwice` (`NeverTwice`), `NoPieceLost` (`NeverLost`),
`SendsNeverBlock` (`NeverBlocked`) and `CompleteMeansIdle` (`CompletionIsQuiet`), and
that it implements `Download` (`Implementation`). The assumptions are those of the
module: `Pieces` is finite, `NoOrder` is not a piece, bitfields are sets of pieces.

The argument. The invariant `IInv` has four parts: `TypeOK`; `Placed`, that every
piece is in exactly one place; `ControlOK`, what a goroutine's control state says of its
order (one that is off has none, one about to give back has one, and so has one with a
full buffer); and `StoreOK`, that `piecesDone` is the cardinality of `pieces` and the
disk never holds more than memory. None of the properties is inductive alone: that a send
does not overflow a channel (`TypeOK`) needs that the order sent is not in it already
(`Placed`), that a goroutine about to send has an order at all needs `ControlOK`, and
that a full counter means a full store needs the exact count of `StoreOK`. All four
parts hold on the instance of `orders` as well.

The lemmas come in three layers. About sequences: appending, or removing the head, keeps
a sequence without repetition so, and such a sequence over the pieces has at most `N`
elements, fewer if a piece is missing from it (`RoomForOneMore`, the pigeonhole argument
behind `SendsNeverBlock`). About places: what letting go of an order (`Release`), taking
one (`Grab`) and returning one (`ReturnKeepsPlaces`) do to the set of held pieces. About
actions: `ConnStepIInv` and `MainStepIInv`, one step for each action.
The refinement proof shows that only `RecordPiece`, `MainTick`, `TrackerAnswers`, `Exit` and
`Panic` change what `Download` sees, and maps them to `Gather` (with or without the file),
`Save` (twice), `Stop` and `Crash`.

`PersistenceProofs` proves, for every number of pieces and of pieces in a partial file,
`TypeOK` (`TypeCorrect`), `ReportStaysTrue` (`NothingFoundIsLost`), `Recovered`
(`RunsRecover`) and that the files implement `Resume` (`Implementation`). The
assumptions: both numbers are positive (`NumbersAssumption`), and the length of a missing
result file is no number (`NoFileAssumption`). The invariant says what a run in each
phase may find on disk. `OneRecord`: no piece has two records, torn or whole, in any two
files, which the exact count of `Recovered` needs and which holds because a run appends
only what it did not load. `Unfinished`: a run that has not saved finds no result file
and no torn record, and the partial files have what it loaded and what it has appended
so far. `Finishing`: a run saves only with all pieces, and removes partial files only
behind the save. `Counted`: counters are cardinalities. `LeftBehind`: how a run leaves
the disk to the next one, by itself or refused. The refinement takes the phases apart:
starts, saves, appends, removals and ends each have a lemma, and the long one is that
removing partial files behind a whole result file changes nothing that `Resume` sees.

`TransferProofs` proves `TypeOK` (`TypeCorrect`), `NothingRejected` (`NeverRejected`),
`RequestsAccounted` (`EachRequestOnce`), `ChokeViewsAgree` (`ViewsAgree`) and
`InterestKnown` (`InterestReachesPeer`), for every finite set of pieces, every number of
chunks, every length of the pipeline and any number of changes of mind. It uses the four
assumptions of the module: there are two nodes, the pieces are finite, the numbers are
positive, and what each node begins with are pieces. No property is inductive alone: that
a chunk is not rejected needs that it was asked for, which needs that requests are in one
of three places and in one only, which needs that no chunk is served twice, and so on around
the connection. The invariant says for each end: what its own fields say of each other
(`ProgressOK`); that the outstanding requests are the disjoint union of those on the wire,
in the other's list and coming back (`AccountOK`); that what is asked for is in the other's
bitfield (`OfferOK`); that the last change on the wire is the truth (`ViewOK`); that interest
that was announced is known, or its announcement is on the wire (`InterestOK`); and, between
two iterations, the same of an end that has an order and is choked (`Wanted`). An
iteration of the loop is a composition of five calls that work on an end's record and
append to what it is about to write; so the invariant is stated of a pair of ends and
the two streams (`Pair`, `Half`), with the part not yet written counted as part of the wire.
One lemma shows that each call keeps it (`Uploading`, `Completing`, `Taking`,
`SayingInterest`, `Filling`, together `Iterating`), and one does for each kind of message
and for the choke tick.

The same module proves that a connection implements `Trade` (`Implementation`). Beyond `IInv`
the refinement needs that a piece is in one place of an end, in its queue, in progress or
among its own (`Apart`), since otherwise the next order might be a piece that is there already; and
that no complete piece is left in progress from one select to the next (`TradeInv`). Of the five
calls of an iteration only `CompletePiece` and `TakePiece` change what `Trade` sees
(`CompletingOnce`, `TakingOnce`); together they may complete a piece and choose the next in
one step, as `GetLastChunk` of `Trade` does (`Trading`). That the chosen piece is one the other
has is `OfferOK`, and that a chunk is new is `ProgressOK` with `AccountOK` (`HearingPiece`).

`ConnectionPoolProofs` proves `TypeOK` (`TypeCorrect`), `SlotsMatchConnections`
(`SlotsAreExact`) and `OutgoingLimited` (`DialsWithinLimit`) for any finite set of
connections and hosts, any limit and any capacity of `ConnectionEnded`
(`NumbersAssumption`, `NamesAssumption`). In the invariant, a connection that has a slot
is in one of four places - about to be started, running, ended, drained - and in one only
(`PlacesOK`), the slice is injective and holds just these (`SlotsOK`), so that its length is
bounded by the number of connections and `append` never needs an array that does not exist.
`OutgoingLimited` is the subtle one: main reads the length twice without the lock. `LimitOK`
and `LaunchOK` say that the connections main has dialled, together with those that the
launch under way may still dial, are within the limit whatever the second read returned. That
holds because only main dials and only main removes: at either read the slice holds all
connections that main has dialled, and what the listener appends only makes it longer.

`ChokingProofs` proves `InterestNotForgotten` (`NothingForgotten`), `UnchokedHasAsked`
(`OnlyThoseWhoAsked`) and `SlotsRespected` (`SlotsSuffice`) for any set of connections, any
finite set of peers, and any number of slots and capacity (`PeersAssumption`,
`ConnsAssumption`, `NumbersAssumption`, `EmptyAssumption`). `LastWordOK` follows the last word of
each peer: its last message in the channel, or, when there is none, what the map says. That the
end of another connection does not take it away needs `CrossedOK`: two connections of a
peer that have slots at once come from `Add`s that overlapped. That in turn needs to know what
is between the two critical sections (`AddingOK`). `BeliefOK` says that main believes only in
peers that asked or are late, and `GrantOK` follows a grant from there through the list that waits
and the goroutine's state. For `SlotsRespected`, the set of names in the list that main sent
last is carried along as a witness (`SentOK`): every connection that was not passed over either
has it still waiting, or does what it says.

`BitfieldProofs` proves `Represents` (`BytesAreTheSet`), `SpareBitsZero`
(`NothingBehindTheEnd`) and `Accepted` (`LengthsAgree`) for every number of pieces
(`MaxLengthAssumption`). The invariant is that the bits are the set, those behind the last
piece included. It rests on arithmetic that the prover does by cases: there are eight masks,
adding one to a byte in which its bit is not set sets this bit and leaves the seven others
(`AllFlip`, `AllSpare`), and `256 - m` is the byte with all bits from that of `m` upwards
(`HighBits`), which is the last byte of a full field.

`TrackerProofs` proves `AskedInOrder` (`ForwardsOnly`) and `TiersInTurn`
(`NoTierPassedOver`) for every set of announce-lists (`ListsAssumption`: they are sequences
of sequences). In the invariant, all that was asked lies at or before the place where the
search goes on, and strictly before the tracker being asked unless it is that tracker; so it
does not matter that the code advances its position by too much. That the search has a first
result when there is something to find is the least-element property of the natural numbers.
For the tiers the invariant has a second part (`TurnsOK`): every tier before the place of the
search is through, and so is the tier of that place once the search has started in it; where
it has not, no tracker of the tier is passed (`Untouched`).

`HandshakeProofs` proves `SameTorrent` (`OneTorrent`), `ReportedOnce` (`HeardOnce`) and
`FieldFirst` (`BitfieldFirst`) for every set of torrents and every bound on messages
(`MaxMessagesAssumption`). In the invariant, every handshake on a wire tells the truth about
its sender, an end that is past the check of a handshake has the same torrent as the other
end, and an end has reported exactly when what is left for it to do no longer contains the
report (`CountOK`). `FieldFirst` needs to know what comes next on a wire, be it there already
or still to be written: to an end that has accepted no handshake, a handshake and then a
bitfield, to one in its loop without a bitfield, a bitfield (`InOrder`). A close or a cut may empty
a wire at any point, and the order survives because the writer is not heard any more
(`Audible`, `Mute`).

Proved, then, is every property of the runs that is not a liveness property, with the inductive
invariant checked by TLC on the run's instance before. `AskedInOrder`, `TiersInTurn` and the
like speak of histories; `ImplementsDownload`, `ImplementsResume`
and `ImplementsTrade` are the three refinements. `TypeOK` of `Persistence` is no property of its run:
the theorem is stronger, and `Recovered` would show a wrong count first.
Only model-checked is liveness: `Completion`, `VerifiedIsStored`, `OnePeerSuffices`,
`Exchange`, `EndedIsRemoved`, `Reconnects`, `ServedWhenFew`, `Finishes`, `GivesUp`, `Settles`
and `EndsTogether`, since the prover does not reason about fairness and enabledness.
No module uses a recursive definition, so nothing is left to TLC for want of induction over data.

## 6. Plan

All modules planned for the code's components are written. What is left:

1. `Transfer` and `Handshake` against a foreign peer: one that stays silent, drops requests
   when it chokes, repeats itself or asks for what is not there.

## 7. Not modelled

Decoding of torrent files and tracker responses (a library does it; what is left copies
fields), peer ids and random strings, logging, `cmd/peerconnect`, the test helpers and
`main.go`, which hold no state. Of `cmd/verify_parts`, what it reads and reports is modelled.

Other clients than this one: a peer that never answers a handshake keeps its slot of the
pool, one that forgets requests when it chokes leaves the pipeline full, and one that asks for
what is not there blocks the requests behind its own. These are in the list of hazards. The models have two instances
of this client on a connection (`Transfer`, `Handshake`) or leave the peer's behaviour free
(`PieceOrders`, with the message that panics, `ConnectionPool`, `Choking`).

Resources that only leak: the reading goroutine that still holds a message when its loop
has left (`client/peer.go:90`) stays blocked on `msgChannel` (in `Handshake` it stays in
`"holds"`, and no property forbids it), and the request goroutine of a tracker that answers
too late (`tracker.go:127`) on `resultChan`. TCP's buffers are unbounded in the
models, so that a write never waits for a reader. Data races on single words (main reads
`PiecesDone` and the slice header without locks) are modelled where a value read decides
something (`Compare`, `Count`) and not otherwise.

## 8. Running

    tlc -config PieceOrders.cfg MCPieceOrders.tla
    tlapm PieceOrdersProofs.tla
    tlapm PersistenceProofs.tla
    tlapm TrackerProofs.tla
    tlapm HandshakeProofs.tla
    tlapm TransferProofs.tla
    tlapm ConnectionPoolProofs.tla
    tlapm ChokingProofs.tla
    tlapm BitfieldProofs.tla
