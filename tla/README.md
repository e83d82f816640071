# OpenMoHAA: network protocol and script threads in TLA+

OpenMoHAA is a reimplementation of the Medal of Honor: Allied Assault engine, grown
from ioquake3. A dedicated or listen server simulates the game; clients send moves and
receive snapshots over UDP. What makes it hard is not the game but the protocol: nothing
is retransmitted by the network layer, every message repeats what was not acknowledged,
several small rings of fixed size are indexed by sequence numbers at both ends, and
state is compressed against state the other end is believed to hold.

Inside the server, level scripts run as threads that wait for, notify and delete each
other and the entities of the game, on one native call stack.

This directory models that protocol and those threads. Paths below are relative to `src/code`.

## Inventory

| Component | State | Operations | Hard behaviour | Correct when | Module |
|---|---|---|---|---|---|
| Network channel (`qcommon/net_chan.c`, `server/sv_net_chan.c`, `client/cl_net_chan.cpp`) | `netchan_t`: sequence numbers, the message leaving in fragments, the assembly buffer; the queue of messages behind it | transmit, next fragment, next in queue, free queue, process | loss, duplication, reordering of packets; a message submitted while another leaves in fragments; exact multiples of the fragment size | it delivers whole messages, each at most once, in order; a snapshot gets the number it was recorded under; the channel gets idle again | `MessageStream`, `NetChan`, `SvNetChan` |
| Reliable server commands (`server/sv_main.c`, `sv_snapshot.c`, `sv_client.c`, `client/cl_parse.cpp`, `cl_cgame.cpp`, `cgame/cg_servercmds.c`) | the ring of 512 commands at both ends, sequence / acknowledge / sent numbers, what cgame executed | add, replace, overflow, drop, send, receive, execute, acknowledge, new map | lost messages and acknowledgements, rings at their limit, in-place replacement, game states overtaken by packets of the old map | commands are executed as issued, before newer snapshots, and at last | `ServerCommands` |
| Reliable client commands (`client/cl_main.cpp`, `cl_input.cpp`, `server/sv_client.c`) | the other pair of rings, the text both ends xor messages with | add, send, execute, acknowledge, disconnect | the same, and messages encoded with a text the client may have overwritten | executed once, in order, before later moves | `ClientCommands` |
| Connection life cycle (`server/sv_client.c`, `sv_main.c`, `sv_init.c`) | challenges, client slots and states, server ids | getchallenge, connect, enter world, drop, time out, spawn server, map restart, shutdown | reconnects over live slots, zombies, packets of old maps, timeouts | one slot for one connection; a client in the world has this map's game state | `ServerConnect`; maps in `Configstrings` |
| Snapshots (`server/sv_snapshot.c`, `client/cl_parse.cpp`, `cgame/cg_snapshot.c`) | 32 frames for every client, the shared ring of entities, parsed snapshots | build, choose delta source, parse, acknowledge | sources that are overwritten, acknowledgements that name frames not recorded | a decoded snapshot equals the one that was built | `SnapshotDelta` |
| Configstrings (`server/sv_init.c`, `client/cl_cgame.cpp`) | the strings at both ends, `csUpdated` | set, broadcast, update on entering, chunked `bcs` commands | updates while the client loads; replacement of pending updates | both ends agree when all is executed | `Configstrings` |
| UDP downloads (`server/sv_client.c`, `client/cl_parse.cpp`) | window of 48 blocks, block counters | begin, send, `nextdl`, resend, stop | late acknowledgements, 16-bit block numbers | the file is complete and in order | `Download` |
| Rate limits (`server/sv_main.c`) | leaky buckets | limit | clock jumps, division remainders | no more than burst + rate replies | planned: `RateLimit` |
| Script threads (`corepp/listener.cpp`, `con_timer.cpp`, `fgame/scriptthread.cpp`, `scriptmaster.cpp`, `script/scriptvm.cpp`, `scriptclass.cpp`) | what waits for what, what ends with what, the timer list, the event queue, the state of each thread, the current thread | wait, pause, waittill with timeout, endon, notify, remove, thread, waitthread, waitexec, end; the server frame | notifications run threads inside the notifying thread; deleting one listener deletes others; plain pointers in lists | a thread that waits is woken in time or deleted, once; nothing is freed while it runs | `ScriptThreads` |
| Command buffer, votes, rounds | queues and timers | | reentrancy | | later candidates |
| Message coding, collision, renderer, sound, user interface, file system, bots, GameSpy | | | data conversion, floating point, I/O, third-party code | | not modelled |

How they interact. `SV_Frame` runs the game, which adds reliable commands and changes
configstrings (which are commands, too), checks timeouts and sends one snapshot to each
client whose channel is idle. `SV_PacketEvent` hands a packet to the channel of its sender and a completed message to
`SV_ExecuteClientMessage`, which acknowledges server commands, resends the game state,
executes client commands and moves. The client does the same in mirror image, and cgame
takes commands from the client's ring when it makes a snapshot current. Everything runs
on one thread at each end: the interleavings are those of messages, not of threads. The game's script threads
are coroutines: G_RunFrame, called by `SV_Frame`, runs those whose time has come, and entities notify them; what they do
to the outside is set configstrings and send commands.

## Plan

1. (done) The channel as a refinement of an abstract stream, and its proofs.
2. (done) Both directions of reliable commands on top of the abstract stream.
3. (done) `Configstrings`: set / broadcast / `csUpdated` / chunked commands, map change and
   restart, on the promise that `ServerCommands` checks.
4. (done) `SnapshotDelta`: frames, acknowledgements, the two rings. It uses the promise
   `SnapshotSequenceExact` of the channel.
5. (done) `ServerConnect`: challenges, slots, timeouts, reconnects. Left: shutdown, `CL_CheckTimeout`.
6. (done) `Download`. Left: `RateLimit`, then the command buffer and votes.
7. (done) `ScriptThreads`. Left: notifications of threads, script errors.
8. (done) Proofs of the channel, of both command modules, of `ServerConnect`, of `SnapshotDelta`, of
   `Download` and of `Configstrings`, with their ring lemmas. Left: the invariants of `ScriptThreads`.

No module that is proved about uses a RECURSIVE operator. Composition is by contract:
`MessageStream` states what a channel promises, `SvNetChan` is shown to implement it, and the
other modules run over streams of whole messages (`toClient`, `toServer`) from which
any message may be missing. `Configstrings` takes from `ServerCommands` that commands arrive as issued and
before newer snapshots, `Download` takes from `ClientCommands` that they are executed once and in order, and
`SnapshotDelta` takes from both that they do not matter to it. `ServerConnect` ends where
these begin: it knows of a connection only who has it. The detailed fragments and the detailed rings are never
multiplied with each other, which keeps the instances small enough to be exhaustive.

## The modules

**`Messages`, `MessageStream`.** A message is an identity, a length and what the caller
recorded about it. Byte k of message m is the pair of both, so a message put together
from pieces of two others is recognisable. `MessageStream` has two actions, submit and
receive; received messages are whole and their ids grow.

**`NetChan`.** One direction of a connection: the sending half of one `netchan_t`, the wire
and the receiving half of the other. `wire` is the set of all packets ever sent, and
`Netchan_Process` may take any of them at any time: this is loss, duplication, delay and
reordering at once. `Netchan_Transmit` and `Netchan_TransmitNextFragment` are translated
with their exit condition; `Netchan_Process` is split by its returns into `AcceptWhole`,
`MissFragment` and `TakeFragment`. The assembly buffer keeps its old bytes, as the code's does.

**`SvNetChan`.** `SV_Netchan_Transmit` with its queue, `SV_Netchan_TransmitNextFragment`,
`SV_Netchan_FreeQueue` (called when a client is dropped) and the rule of
`SV_SendClientMessages` that a busy channel gets no snapshot. History variables: what was
submitted, and which message took which number.

**`ServerCommands`.** One client. `SV_AddServerCommand` has four outcomes (replace, ignore,
append, overflow), `DropClient` is all of `SV_DropClient` that touches commands, the two
commands it sends included. A snapshot and a game state carry what
`SV_UpdateServerCommandsToClient` writes. `SV_ExecuteClientMessage` is split by its returns:
illegible, of another map (with or without a new game state), move. The client stores
(`CL_ParseCommandString`), cgame executes (`CG_ExecuteNewServerCommands`), and its packets carry
acknowledgement and key. Protocol versions from 2.0 on are modelled
(`SV_ReplacePendingServerCommands` is skipped below). Message numbers matter only where
`messageAcknowledge > gamestateMessageNum` is asked; the answer is kept with each message. A message has room for
`DeferAfter` commands. History: `skipped`, the numbers a game state took the client past although its message had no room
for their commands, and whether a message, or the snapshot parsed from it, `deferred` some.

**`ClientCommands`.** The other direction, with the xor text. `SV_Netchan_Encode` uses the text
of the last client command the server executed, saved with a message that waits in the
queue; `CL_Netchan_Decode` uses the slot that the acknowledgement names. A message decoded
with another text is noise; the model takes it for an illegible message (`ERR_DROP`), which is
how noise ends. `Com_Error` appears as what it does here: `CL_Disconnect`, or the
end of the program when it is entered twice.

**`Configstrings`.** One client, its copy of the configstrings and the maps. `SV_SetConfigstring`
notes updates for a client that is PRIMED (`csUpdated`), and turns them into `cs` or
`bcs0/1/2` commands for one that is ACTIVE. `SV_SpawnServer` is `LoadMap` (with `SV_ClearServer`: the strings are
wiped) or `RestartMap` (`SV_ClientEnterWorld` for everybody). The server id travels in the text of
`CS_SYSTEMINFO`, which `SV_Frame` updates after a restart. `SV_ExecuteClientMessage` is split by its returns, as in
`ServerCommands`. Protocol versions from `PROTOCOL_MOHTA_MIN` on (chunked commands). `overtaken` is history: a
restart came before the client had caught up with the one before (it had no game state, had not
seen the last restart, or its game state was made before the update of `CS_SYSTEMINFO`). `misordered` is history, too: the
indexes whose last short text took the place of an older one that lies before the unsent pieces of a long one; setting the index again takes it
out, unless that is misordered as well. `strays` are the moves executed in another map than the one they were made in.

**`ServerConnect`.** Clients and their slots. A client is known to the server by address and port, or by
qport; a router may change its port, to one that no client, slot or packet on the way names: a router that gives
the port of one client to another while late packets of the first are under way makes the server take the second for the first, which no
code at the server's end can tell. `SV_DirectConnect` is split by its answers; records of challenges are
used again from the oldest on. Time is counted in ticks since something happened, up to the largest limit it is
compared with. A packet lives at most `PacketLife` ticks and may arrive twice. `wasted` is history: a connect
set up anew a slot whose client was connected with the number the slot was set up with.

**`SnapshotDelta`.** One client in the world. `SV_BuildClientSnapshot`, `SV_WriteSnapshotToClient` and
`SV_EmitPacketEntities` on one end, `CL_ParseSnapshot` and `CL_ParsePacketEntities` on the other, the acknowledgement
by the move of a packet, and both kinds of new map. Values are added modulo `Values`, so a difference on top of a wrong value
shows. A message that overflows is sent empty, like a nop. The client writes a new frame behind `parseEntitiesNum` while it reads the
source, and a frame may be larger than `ParseMargin`: `Overruns` says that an entity of the source is overwritten before it is read. What is
read then is any number of entities with any content, which `LostWritten` puts into the ring. As history, frames carry what the server built, and
whether they were decoded from what was overwritten (`garbled`).

**`Download`.** Both ends of a list of files. `SV_WriteDownloadToClient` is `Opened`, `Filled` and
`Transmit`, with `Restarted` for the second without an acknowledgement; `nextdl`, `download`, `donedl` are
commands of the client's packets. The client's `CL_ParseDownload` takes the block it waits for, whatever file it is of.
`crossed` is history: it took a block of another file. The list of files is the set of those that are missing; the client asks for
them in the server's order. `FilesExact`, `NoBrokenDownload`, `CommandsBounded` and the order of the counters in `TypeOK`
are said while nothing was `crossed`. `CommandsBounded` counts what the client has issued and the server has not executed:
the acknowledgements of a window and the two requests around them, or one request for each map, because a client that
asked for its first file asks again with each game state that reaches it before the server executes the first request.

**`ScriptThreads`.** Threads, groups of threads (`ScriptClass`) and entities are listeners. `stack` is the native call stack: its
head is the function that runs, with its arguments, and an action is the part of a function up to its next call, so that
what happens inside the call is interleaved where the code does it. A thread's commands act on `Director.CurrentThread()`.
`waits` is `m_NotifyList` and `m_WaitForList` in one (the code changes both together), in the order of `Register`;
`Unregister`, `UnregisterAll` and `CancelWaitingAll` take from it and leave the calls of `StoppedWaitFor` and `StoppedNotify` on the
stack, which skip what died meanwhile (`SafePtr`). `StoppedWaitFor` is split by its outcomes: run at once, start the timer, be deleted,
nothing. A thread an entity starts without arguments goes on the timer list before `Unpause` and is entered after it
(`EntityStartsThread`); one started with arguments is entered at once (`EntityExecutesThread`): both are branches of
`ScriptThread::Execute`. `ScriptVM`'s state and the thread's are kept apart, as in the code; `FREED` stands for a deleted machine. The frame
is the calls of `G_RunFrame`: events, `SetTime`, `Unpause` (which runs the timer list), events, entities that think, events. The code has
`Think` and events once more (client frames, post-think), of the same form. Times are relative to the frame. History: `idle` (paused
itself), `deadDelete` (something dead or dying was deleted again).

## Runs

| Run | Question | Bounds |
|---|---|---|
| `sv_netchan` | Does the channel implement the stream, with exact numbers, complete messages and a queue that drains? | 3 messages, fragment size 2, lengths 1 to 4: shorter than, equal to and twice the fragment size, and one with a partial last fragment; capacity 4 |
| `server_commands` | Do both ends agree on the commands while messages and acknowledgements get lost? | ring of 3, one command to a message, 4 commands, 2 maps, 2 messages in flight each way: the ring wraps, overflows and is replaced into, snapshots and game states defer |
| `server_commands_live` | Is a command executed at last? | ring of 2, one command to a message, 2 commands, 1 message in flight |
| `client_commands` | Are client commands executed once, in order, before moves, and at last; are server messages readable? | ring of 3, 5 commands: the ring wraps and overflows |
| `configstrings` | Does the client's copy follow, does nothing cross from map to map, and does the client get into each map? | short texts and long ones of two chunks for one index beside `CS_SYSTEMINFO`; 3 texts, 3 server ids (two changes of map of either kind), together at most 4 of both; 1 message in flight each way: short texts overtake pieces |
| `configstrings_restart` | Does it, whenever the map is restarted? (violation) | no texts, one restart |
| `server_connect` | Is there one slot for a client, and is an established connection left alone? | 1 client, 2 slots, 2 records, 3 challenge numbers, 2 ports, 1 packet in flight each way; retransmission 3, reconnect limit 4, packet life 1 tick |
| `server_connect_live` | Are requests answered, slots recovered, forgotten clients told? | 1 client, 1 slot, 1 port, smallest times of the same order |
| `snapshot_delta` | Is what cgame reads what the server built? | frames of 1 and 3 entities, 3 frames, rings of 8 (server) and 5 (client), a margin of 1, 5 messages after the game state, 1 snapshot of another client, 1 map change or restart: both rings wrap, sources get too old in each of the four ways, and sources are overwritten while they are read |
| `download` | Do the files arrive, exact? | files of 3 and 2 blocks, window of 2, 2 messages in flight, one map load |
| `download_game_state` | Does the game state after them? (violation) | 1 file of 1 block, 1 message in flight |
| `script_threads` | Does every thread that waits get its turn, and is nothing deleted or entered twice? | 3 threads, 1 entity, 2 labels, 5 commands, waits and timeouts of half a frame: enough for a thread that waits for a group whose founder waits for the entity, with an endon and a notification that ends it, or a timeout that meets a notification |

A stream keeps the messages in flight; receiving one discards those before it (the channel
drops what comes out of order), a full stream loses its oldest. Two in flight allow a message to overtake a
lost one and an acknowledgement to be older than what was sent since; with one in flight each way an acknowledgement
can still be older than what was sent since. Counters are
bounded by constants in guards (`MaxMessages`, `MaxCommands`, `MaxServerId`, `MaxInFlight`, `MaxSets`, `MaxChanges` (of texts and maps together), `MaxSequence`, `MaxOthers`,
`MaxPackets`, `MaxPortChanges`, `MaxThreads`); nothing in the
code compares them with anything but each other, so a window of a few numbers shows
every relation they can have. `MaxPending` is an environment bound, and its values mean none: a ring of 3
overflows before 4 commands are pending, and one of 2 before 3. Deadlock is not checked for
`sv_netchan` (when all messages are submitted and drained and the receiver has the
newest, nothing is left to do) and `snapshot_delta` (the message numbers run out).

Properties hold under their conditions, which name what the code gives up on purpose, or what it is known to break:
in `ServerCommands` everything but `PendingIntact` is said as long as the server has not `discarded` pending
commands (it drops the client, or takes a message for illegible). Commands that found no room are exempt exactly where they are missed:
`ClientAgrees` and `KeyAgreement` say nothing of a number in `skipped`, and `SnapshotAfterCommands` nothing of a snapshot whose own message
`deferred` some; `ExecutedAsIssued` has no such exception. In `ClientCommands` as
long as at most `MAX_RELIABLE_COMMANDS` commands were ever pending (`peak`), and
`MessagesReadable` as long as fewer were: the slot of the last acknowledged command is needed to decode,
so the ring holds one command less than it seems. `ClientAgrees` of `Configstrings` says nothing of an
index while it is `misordered`, `SnapshotsExact` nothing of a `garbled` frame. `CatchesUp` holds until a client is `overtaken`, the
properties of `Download` until two files have `crossed`.

In `ServerConnect` the times keep the relations of the code: `RETRANSMIT_TIMEOUT` is 3 s, `sv_reconnectlimit` 3 s and counted from up to
0.8 s ahead (`lastConnectTime`), so a tick is about a second and a packet lives for one; two lives have to be shorter than the
reconnect limit (`HandshakeFits`, see Proofs), or `NoWastedConnection` fails. `sv_zombietime`, `sv_timeout` and its six frames are scaled down.
In `SnapshotDelta` `Margin` is 0, which asks more than the 3 of the code. `ParseMargin` (128) is what the client takes for the most one frame
adds; the code does not keep frames below that, and neither does the model: a frame has at most as many entities as either ring.

### Fairness

`SV_SendQueuedMessages` runs in every pass of the main loop and `SV_RateMsec` reaches zero, so a
fragment that can be sent is sent: weak fairness of `SV_Netchan_TransmitNextFragment`. Frames of
server and client recur (`SV_Frame`, `CL_SendCmd`, `CL_CheckForResend`, `SV_SendDownloadMessages`): weak fairness of sending snapshots, blocks and
packets and of executing commands, and of the clock. `SV_CheckTimeouts` runs in each frame: what is due at every frame is done, so strong fairness,
since a late packet may take the condition away. A network that loses some but not all messages: strong fairness of
receiving, for each kind of message that is sent again and again (snapshots would otherwise starve game states, blocks of one
number those of another). `CG_ExecuteNewServerCommands` has its weak fairness over `cgSequence` alone, under the name
`ExecutesCommands`. Nothing is assumed of adding commands, map changes, drops, the router or the user.

### Disagreements between code and comments

Two are runs:

* `configstrings_restart`: a client without its game state becomes active at a map restart; nobody sends it a
  game state any more, and it is sent nops for ever.
* `download_game_state`: the game state after a download is sent once; its loss is never noticed.

Others were found with the same modules under other constants, or without the condition a property has, and are the reason for the condition:

* A client packet that needs two fragments is never completed: `CL_WritePacket` sends the first, `CL_Netchan_TransmitNextFragment`
  has no caller. `CommandsExecuted` of `ClientCommands` fails with `FitsInPacket = 1`, although `cl_main.cpp:236` says that the
  command will be transmitted.
* `waittill_any` is described as waiting for any of its labels (`listener.cpp:332`), but `UnregisterTarget` wakes a thread when it waits
  for nothing more: it goes on when all of them were notified. `waittill_any_timeout` registers its timeout as a label, too (`TimeoutLabel`), so only
  the timeout ends it. `ScriptThreads` models what the code does.
* Commands beyond half a message buffer are deferred, but the snapshot leaves and
  `reliableSent` covers them; a game state even marks them as received. `sv_main.c` promises that no
  future snapshot is executed before the command. `server_commands` defers after one command: `SnapshotAfterCommands` holds for every snapshot whose
  own message deferred nothing, and for no other. A game state that defers commands moves `serverCommandSequence` of the client to its mark,
  and the slots between hold the commands of an earlier lap: these numbers are `skipped`, and the two ends differ in them and in the key of a move that
  acknowledges one of them, but in nothing else.
* `SV_DropClient` uses numbers again that the client may have seen, so the print and
  the disconnect can be ignored (`WindowAgrees` after a drop).
* The ring may be full when adding but not when acknowledging; then all of it counts
  as acknowledged and the client is not dropped (`discarded`).
* An overfull client ring makes `CL_Disconnect` raise the error it is called from:
  the program ends with "recursive error" (the state `CRASHED`).
* A short `cs` overtakes an unsent long text of the same index when an older unsent `cs` is replaced: the client ends with the long text. The run
  `configstrings` does it, and `misordered` marks the index; every other index, and this one when it is set again, agrees.
* A download block names no file. The server sends a window again whose `nextdl`s are on the way, the client finishes the file and waits for block 0
  of the next one, and takes block 0 of the old one. Its `nextdl`s then run ahead of the server's blocks, and the client
  is dropped for a broken download, although `sv_client.c` says of the number that "it should be the same". The server's
  counters lose their order then (`Size = <<0, 2, 1>>`, a window of 1, 2 messages in flight), and the commands
  pending their bound (`Size = <<1, 1>>`, a window of 2, 3 messages in flight).
* Changing the port behind a router between challenge and connect makes the challenge invalid; the
  rejection is only printed, and the client asks until the user gives up (`Valid` in `ConnectsEventually`).
* `client.h` promises that the client's ring of entities holds the frames of `PACKET_BACKUP` messages; frames of more than 64 entities
  make it too small. Most such snapshots are dumped and sent again without a source. But the test for that (`cl_parse.cpp:320`) leaves room for 128 new entities, and a frame
  may bring more: it then overwrites entities of its source before they are read, which nothing notices (`garbled`).

The others are small windows: 512 pending commands, or 24 KB of them in one message, or more than 1300 bytes of
client commands, or a packet in flight at the wrong time.


## Proofs

Every theorem holds for all values of the constants that the named assumptions of the modules admit: rings, windows, tables, times and
bounds of any size. Each `...Proofs` module proves one inductive invariant (`Init` implies it, each action keeps it, one lemma per action, all
joined in one step lemma) and reads the properties off it. (`ConfigstringsProofs` and `SvNetChanProofs` put a second one on top of it.) `RingLemmas` holds what several of them need: arithmetic of slots
(`DifferentSlots`, two numbers less than a ring apart have different slots), what `SubSeq` and a bounded channel contain, and which of two
subsequences is a prefix of the other.

| Module | Theorems | Condition beyond the properties' own |
|---|---|---|
| `SvNetChanProofs` | `TypeCorrect`, `ChannelInvariant`, `SnapshotsExact`, `OneMessage`, `EveryMessageComplete`; `Implementation`: `Spec => ImplementsStream` | none |
| `ServerCommandsProofs` | `CommandsInvariant`, `TypeCorrect`, `PendingStaysIntact`, `ExecutesAsIssued`, `ClientStaysInStep` (`ClientAgrees`), `KeysAgree` (`KeyAgreement`), `SnapshotsFollowCommands` (`SnapshotAfterCommands`) | none |
| `ClientCommandsProofs` | `CommandsInvariant`, `TypeCorrect`, `ExecutesAsIssued`, `NothingIsLost`, `MovesFollowCommands`, `EveryMessageReadable` | none |
| `ServerConnectProofs` | `ConnectInvariant`, `TypeCorrect`, `NoSecondSlot` | none |
| | `NothingWasted` (`NoWastedConnection`) | `HandshakeFits` |
| `SnapshotDeltaProofs` | `DeltaInvariant`, `TypeCorrect`, `SourcesAreKept`, `SnapshotsAreExact` | none |
| `DownloadProofs` | `DownloadInvariant`, `TypeCorrect`, `FilesAreExact` (`FilesExact`), `DownloadsNotBroken` (`NoBrokenDownload`), `CommandsAreBounded` (`CommandsBounded`) | none |
| `ConfigstringsProofs` | `ConfigstringsInvariant`, `TypeCorrect`, `SnapshotsStayInMap` (`SnapshotsOfThisMap`), `MovesStayInMap` (`MovesOfThisMap`), `ClientFollows` (`ClientAgrees`) | none |

**The channel.** The safety properties are not inductive: what a fragment may be joined with depends on every packet
still on the wire. `ChannelInv` has six parts. `SubmittedInv`: ids are places in the order of submission.
`NumberedInv`: numbers are given in that order, one for each message, and a snapshot gets the one it
expected. `QueueInv`: what waits is in order, newer than all that has a number, and no snapshot.
`UnsentInv`: the message leaving in fragments owns `outgoingSequence`. `WireInv`: each packet is a piece of
the message that owns its number, and a short fragment is its last. `AssemblyInv`: the assembled part is
a prefix of the message that owns `fragmentSequence`. The step from part to part is per action; the
refinement maps `last` to the id behind `incomingSequence`, and a step is a submit, a receive or a stutter.
Type correctness of a fragment needs `unsentFragmentStart <= length`, so `TypeOK` is proved together
with the invariant. `CompleteInv` adds that a message that was sent to its end has all of its pieces on the wire.

**Server commands.** Three parties hold the numbers of the commands: the server's ring, the client's, and what is on the way between them.
`RingInv`: the slot of each of the last `MAX_RELIABLE_COMMANDS` commands holds it. `OrderInv`: acknowledged, known to the client, sent and issued are in
this order. `ClientInv`: the client's ring holds what it can still be asked to execute or to decode with. `ToClientInv` and `ToServerInv` say of every message in
flight that its commands are a stretch of those issued that the receiver can use whenever it arrives, in whatever state it then is, and that
of two messages the later one knows more. All but the first hold until the server has `discarded` commands. A message
has room for any number of commands, down to one, so it may leave some of them out, and a game state marks these as received. No assumption excludes that; what follows from it is
carried along as history. The numbers in `skipped` lie behind cgame (`i <= cgSequence`), because a game state moves it to the same mark, so what cgame executes is never one of them; the
rest of the client's window agrees, and each game state in flight says whether it will add to them. A snapshot that `deferred` nothing has a number that covers
all commands ahead of it, and one that did is recognisable by the flag that `snap` keeps.

**Client commands.** The same in the other direction: `RingInv` for the client, `ServerInv` (what was executed is a prefix of what was issued, and the text the server
encodes with is that of the last one), `PacketInv` and `MessageInv` for what is in flight. As long as the ring was never overfull (`Intact`), a packet that arrives
leaves no gap behind the last command executed.

**Connections.** `OneSlotPerClient` is inductive with three more facts: challenges in the table and in flight are of known numbers, two clients never share a
port (`PortsApart`, ports of packets in flight included), and `SlotAges` bounds how old a slot, its last connect and every packet in flight can be relative to each other. The last
is what `NothingWasted` needs: a connect that was sent before its client was told that it is connected is still on the way only while the reconnect limit
forbids it. `HandshakeFits` is `ReconnectLimit > 2 * PacketLife`: one life for the answer that tells the client, one for the last connect
that it sent before. The bound is exact: with `ReconnectLimit = 2 * PacketLife` TLC finds `NoWastedConnection` violated.

**Snapshots.** What makes a source usable is said at both ends by different rings, and a map change resets only the server's. `WireInv`: a snapshot in flight
decodes to what was built when its source is held, if the frame is not `garbled` and no entity of it is overwritten on the way (`Held`: such a frame, if young enough, reads as
it was built). `ClientInv`: a snapshot the client calls valid is the one built under its number. `MapInv(E)`: relative
to the map E that was loaded last, which messages are of it or of a restart of it, that the client acknowledges to the server only numbers recorded since, and
that those frames are either still in the ring as they were or recognisably too old. E is not a variable of the code, which keeps `restartedServerId` only since the
last restart but one: the invariant says that there is such an E. That encoding a difference and patching it gives the entity back is `DifferencePatched`; that writing a frame behind the
others, of whatever size, keeps what is still young enough is `KeepsHeld`. The theorem is about every set of views whose frames fit into the rings.

**Downloads.** What holds the two ends together is the list of commands the client has issued: the server stands at `lastClientCommand` in it. `At(i, d)`
says what download `d` the server has when it has executed `i` commands, and there are four cases: it was asked for nothing but the first file (`Asking`),
it is at the file the client gets (`Getting`), at one the client has already or has just closed it (`Behind`), or it knows that the client has all
(`Done`). `Window` says that each block that is not acknowledged is in its place, `PlacesInv` and `BlocksInv` that everything in the places and
on the way is of a file the client has, or is the right block of the one it gets, or one it has of it; that is why resending a place that was filled again does no harm.
`GameStatesInv` shows why a game state cannot restart a download in the middle: none is on the way then. All of it holds until something was
`crossed`; the types (`TypesInv`) hold always. A packet's commands are executed in one step, by `FoldLeft`. `FoldSteps` unrolls the fold into a run of states, and
`RunsTyped` and `RunsRight` carry the types and `At` along the run. These are inductions over numbers. They are done with the least counterexample (`LeastElement`),
because the induction theorems of the library take an operator as a parameter.

**Configstrings.** Nothing in a packet or a snapshot says which map it is of; the server id does, but late, and a restart changes it as well. `MapInv(E, C, D)`
is relative to three numbers that no variable of the code holds: E is the first server id of the map the server runs, and when that map was loaded the first C commands had
been sent and D were issued. Whatever carries a server id from E on is of this map and everything else of an older one (the client, its packets, `CS_SYSTEMINFO` in game states,
`serverIdAcknowledge`); who has this map is past the first D commands, who has an older one knows at most C, and no text of `CS_SYSTEMINFO` among those first C commands names
this map. The gap between C and D are commands that a client of the old map is never sent: it gets nothing but empty messages until it has the new game state. That is
`SnapshotsOfThisMap`, and `MovesOfThisMap` follows from the same comparison at the server. Two more facts have to be carried
along: server ids begin at 1 (`BoundsAssumption`; a client that has none sends 0), and what a client knows ends at the end of a text (`AtEnd`), never between its
pieces: pieces stay next to each other (`Grouped`), and an update that is not sent yet is there once at most (`PendingOnce`), so that replacing it breaks no group.

`ClientAgrees` needs what the client *will* have. `Gives(commands, n, m, i, old, new)` says that whoever has text `old` of index i after n commands has `new` after m: the last text of i that
is completed between them is `new`, or there is none and the two are the same. `AgreementInv` says that the client of this map, and each of its game states in flight, will have the
server's texts, except those noted in `csUpdated` while the client is PRIMED, and the `misordered` indexes. Setting a text, entering the world, sending, receiving and executing each keep that
(`AgreesWhenSet`, `AgreesOnEntering`, `AgreementSent`, `AgreementParsed`, `AgreementExecuted`); what executing a batch twice through one buffer does is an induction over its commands
(`ExecuteOne`, `Pass`, `Executed`). A short text
that replaces another is the last word on its index if no pieces of that index lie behind the place it takes (`NoPieces`, `ReplaceContinues`, `ConfigstringAdded`); if some do, the
index is `misordered` by definition, and the theorem claims all others. No index is restricted to texts of one length.

Assumed of the environment: what the modules model (channels that lose, delay and reorder but never invent), and in `ServerConnect` that a router hands out no port that
somebody still uses.

Only model-checked:

* The safety properties of `ScriptThreads` (a call stack of nine kinds of frames, whose invariant would restate most of the module).
* Liveness (liveness under fairness is outside the prover's reach), and action properties under fairness.

## Not modelled

Of the channel: addresses, out-of-band packets, the loopback rings, the simulated packet delay, integer
wrap of sequence numbers (2^31 messages), the final message of a shutdown.

Of the commands: what they mean, flood protection (the command is numbered and counted all the same), the
pure check, demo recording. `ServerCommands` knows no map restart: `Configstrings` does.

Of maps: denial of a client by the game when the map changes, `vid_restart` of the client, single player, the limit of
half a message buffer (see above). Downloads exempt a client from the map check: in `Download`.

Of connecting: bans, passwords, protocol versions, ping limits, private slots, bots and local clients, the
authorisation with GameSpy, rate limits, two challenges drawn in the same millisecond, `CL_CheckTimeout`,
connecting again while packets of the last connection are on the way. A client that was silent for
longer than `sv_zombietime` when it is dropped has its slot freed before it is told, and learns it by `NoGhosts`.

Of snapshots: the player state (a difference to the same frame), sounds, which entities a client sees, the
number of bits of a field, rate control, the commands a restart brings (the client may learn the
server id from any snapshot). Decoding is set-wise, one frame at a time.

Of downloads: refusals, cURL, stopping by the user, `sv_dlRate`, a second `stopdl` behind one the server has not executed, files of more than 32767
blocks (`ShortAssumption`: they never complete). What is written twice for safety is written once. The queue of the channel is covered by `SvNetChan`.

Of script threads: compiling, opcodes and values; `throw` and errors of scripts; waits for labels of threads and groups and notifications of
them (for their end, `waitthread` and `waitexec`, they are): a thread that is notified may be deleted through its endon list, while `Unregister` goes on with
its members; commands given through another thread's handle; waits on arrays of listeners; duplicate waits; the limits of depth and cycles; saved games;
threads started outside a frame. An entity ignores `StoppedNotify`, as `Listener` does.

Of the rest, see the inventory: floating-point simulation, presentation, I/O, generated and third-party code.
