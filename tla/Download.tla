------------------------------ MODULE Download ------------------------------
(***************************************************************************)
(* Files a client lacks are sent to it in blocks before it enters the map. *)
(* The server keeps a window of blocks that are not acknowledged, sends    *)
(* them one after the other and starts again at the oldest after a second  *)
(* without an acknowledgement.  The client writes the block it waits for,  *)
(* ignores every other one, and acknowledges with the reliable command     *)
(* nextdl; the command donedl asks for the game state.                     *)
(*                                                                         *)
(* Reliable commands arrive as ClientCommands shows: in order, once each,  *)
(* every packet carrying all that are new.  Messages travel in order, some *)
(* lost (MessageStream).  A file is a number of blocks; behind them comes  *)
(* an empty one.  downloadCount and downloadEOF say nothing that           *)
(* downloadCurrentBlock does not say.  A second passes at any time.        *)
(* Packets written more than once for safety are written once.             *)
(***************************************************************************)
EXTENDS Integers, Sequences, FiniteSets, FiniteSetsExt, SequencesExt

CONSTANTS
    Size,                   \* blocks of each file
    MAX_DOWNLOAD_WINDOW,
    MaxShort,               \* range of a block number on the wire: 32767
    MaxServerId,            \* bound on the maps loaded
    MaxInFlight             \* bound on the messages in flight, one way

Files == DOMAIN Size

ASSUME SizeAssumption == Size \in Seq(Nat) /\ Files # {}
ASSUME WindowAssumption == MAX_DOWNLOAD_WINDOW \in Nat \ {0}
\* Larger files are never complete: the client waits for a number that does not come.
ASSUME ShortAssumption == MaxShort \in Nat /\ \A f \in Files : Size[f] <= MaxShort
ASSUME BoundsAssumption == MaxServerId \in Nat \ {0} /\ MaxInFlight \in Nat \ {0}

VARIABLES
    \* client_t and sv
    state, serverId, lastClientCommand, download,
    \* clientConnection_t and clientActive_t
    clState, clServerId, commands, downloadName, downloadBlock, downloadList, downloadRestart,
    written,                \* blocks in the temporary file
    later,                  \* whether the last message received is newer than the last game state sent
    \* the client's files
    disk,
    \* the two channels
    toClient, toServer,
    \* history: whether a block was taken for one of another file
    crossed

serverVars == <<state, serverId, lastClientCommand, download>>
downloadVars == <<downloadName, downloadBlock, downloadList, downloadRestart, written, disk, crossed>>
clientVars == <<clState, clServerId, commands, later, downloadVars>>
vars == <<serverVars, clientVars, toClient, toServer>>

NoFile == 0
Places == 0 .. MAX_DOWNLOAD_WINDOW - 1
NoBlock == <<>>
Block(file, n) == <<file, n>>
IsEmpty(block) == block = NoBlock \/ block[2] = Size[block[1]]
Complete(file) == [n \in 1 .. Size[file] |-> Block(file, n - 1)]

NoDownload ==
    [name |-> NoFile, open |-> FALSE, clientBlock |-> 0, currentBlock |-> 0, xmitBlock |-> 0,
     blocks |-> [i \in Places |-> NoBlock]]

\* The client has connected and waits for the game state.
Init ==
    /\ state = "CONNECTED"
    /\ serverId = 1
    /\ lastClientCommand = 0
    /\ download = NoDownload
    /\ clState = "CONNECTED"
    /\ clServerId = 0
    /\ commands = <<>>
    /\ downloadName = NoFile
    /\ downloadBlock = 0
    /\ downloadList = {}
    /\ downloadRestart = FALSE
    /\ written = <<>>
    /\ later = TRUE
    /\ disk = [f \in {} |-> <<>>]
    /\ crossed = FALSE
    /\ toClient = <<>>
    /\ toServer = <<>>

Send(channel, m) ==
    IF Len(channel) < MaxInFlight THEN Append(channel, m) ELSE Append(Tail(channel), m)
After(channel, k) == SubSeq(channel, k + 1, Len(channel))

-----------------------------------------------------------------------------
\* The server sends.

\* Mutant: the window is one block too large for its places.
InWindow_OffByOne(d, n) == n - d.clientBlock <= MAX_DOWNLOAD_WINDOW

InWindow(d, n) == n - d.clientBlock < MAX_DOWNLOAD_WINDOW

Opened(d) ==
    IF d.open THEN d
    ELSE [d EXCEPT !.open = TRUE, !.clientBlock = 0, !.currentBlock = 0, !.xmitBlock = 0]

\* The blocks up to the end of the window are read, the empty one behind the file included.
Filled(d) ==
    LET new == {n \in d.currentBlock .. Size[d.name] : InWindow(d, n)}
        block(i) == {n \in new : n % MAX_DOWNLOAD_WINDOW = i}
    IN  [d EXCEPT
            !.currentBlock = @ + Cardinality(new),
            !.blocks = [i \in Places |->
                IF block(i) = {} THEN @[i] ELSE Block(d.name, Max(block(i)))]]

Transmit(d) ==
    /\ toClient' = Send(toClient,
        [kind |-> "download", block |-> d.xmitBlock,
         data |-> d.blocks[d.xmitBlock % MAX_DOWNLOAD_WINDOW], later |-> TRUE])
    /\ download' = [d EXCEPT !.xmitBlock = @ + 1]

\* Mutant: what was sent once is not sent again.
Restarted_Never(d) == d

\* A second without an acknowledgement.
Restarted(d) == [d EXCEPT !.xmitBlock = d.clientBlock]

SV_WriteDownloadToClient ==
    /\ state # "ZOMBIE"
    /\ download.name # NoFile
    /\ LET d == Filled(Opened(download))
       IN  \/ d.xmitBlock # d.currentBlock /\ Transmit(d)
           \/ d.xmitBlock = d.currentBlock /\ Restarted(d).xmitBlock # d.currentBlock /\ Transmit(Restarted(d))
    /\ UNCHANGED <<state, serverId, lastClientCommand, clientVars, toServer>>

\* SV_SendClientMessages: no snapshots while the client is downloading.
SV_SendClientSnapshot ==
    /\ state # "ZOMBIE"
    /\ download.name = NoFile
    /\ toClient' = Send(toClient, [kind |-> "snapshot", later |-> TRUE])
    /\ UNCHANGED <<serverVars, clientVars, toServer>>

\* The download goes on.
SV_SpawnServer ==
    /\ serverId < MaxServerId
    /\ serverId' = serverId + 1
    /\ state' = IF state = "ZOMBIE" THEN state ELSE "CONNECTED"
    /\ UNCHANGED <<lastClientCommand, download, clientVars, toClient, toServer>>

-----------------------------------------------------------------------------
\* The server receives.  sv holds what a command can change: state, download, the
\* channel to the client, and whether a game state was sent.

Earlier(channel) == [k \in DOMAIN channel |-> [channel[k] EXCEPT !.later = FALSE]]

SV_SendClientGameState(sv) ==
    [sv EXCEPT
        !.state = "PRIMED",
        !.gamestate = TRUE,
        !.toClient = Send(Earlier(@), [kind |-> "gamestate", serverId |-> serverId, later |-> FALSE])]

\* Mutant: the file is left open.
SV_CloseDownload_KeepsFile(sv) == [sv EXCEPT !.download.name = NoFile]

\* The counters and the sizes of the blocks stay as they are.
SV_CloseDownload(sv) == [sv EXCEPT !.download.name = NoFile, !.download.open = FALSE]

SV_BeginDownload_f(sv, file) == [SV_CloseDownload(sv) EXCEPT !.download.name = file]

SV_DropClient(sv) == [SV_CloseDownload(sv) EXCEPT !.state = "ZOMBIE"]

\* Mutant: the window does not move with the acknowledgement.
Advanced_Stays(sv) == sv

Advanced(sv) == [sv EXCEPT !.download.clientBlock = @ + 1]

SV_NextDownload_f(sv, block) ==
    IF block # sv.download.clientBlock THEN SV_DropClient(sv)
    ELSE IF IsEmpty(sv.download.blocks[block % MAX_DOWNLOAD_WINDOW]) THEN SV_CloseDownload(sv)
    ELSE Advanced(sv)

SV_DoneDownload_f(sv) == IF sv.state = "ACTIVE" THEN sv ELSE SV_SendClientGameState(sv)

SV_ExecuteClientCommand(sv, c) ==
    CASE sv.state = "ZOMBIE" -> sv
      [] sv.state # "ZOMBIE" /\ c.name = "download" -> SV_BeginDownload_f(sv, c.arg)
      [] sv.state # "ZOMBIE" /\ c.name = "nextdl" -> SV_NextDownload_f(sv, c.arg)
      [] sv.state # "ZOMBIE" /\ c.name = "stopdl" -> SV_CloseDownload(sv)
      [] sv.state # "ZOMBIE" /\ c.name = "donedl" -> SV_DoneDownload_f(sv)

\* SV_ClientEnterWorld with the first move.
ExecuteMove(sv, m) ==
    IF m.move /\ sv.state = "PRIMED" THEN [sv EXCEPT !.state = "ACTIVE"] ELSE sv

Executed(sv, m) ==
    ExecuteMove(
        FoldLeft(SV_ExecuteClientCommand, sv, SubSeq(commands, lastClientCommand + 1, m.sequence)), m)

\* Mutant: only the packets of the current map keep a download going.
OfOtherMap_Downloading(m) == m.serverId # serverId

\* A client that is downloading may stay at the map it was at.
OfOtherMap(m) ==
    /\ m.serverId # serverId
    /\ download.name = NoFile
    /\ ~ (lastClientCommand > 0 /\ commands[lastClientCommand].name = "nextdl")

Update(sv) ==
    /\ state' = sv.state
    /\ download' = sv.download
    /\ toClient' = sv.toClient
    /\ later' = (later /\ ~sv.gamestate)

SV_ExecuteClientMessage ==
    /\ state # "ZOMBIE"
    /\ \E k \in 1 .. Len(toServer) :
          LET m == toServer[k]
              sv == [state |-> state, download |-> download, toClient |-> toClient, gamestate |-> FALSE]
              rest == After(toServer, k)
              new == IF ~OfOtherMap(m) THEN Executed(sv, m)
                     ELSE IF state # "ACTIVE" /\ m.later THEN SV_SendClientGameState(sv)
                     ELSE sv
          IN  /\ Update(new)
              /\ toServer' = IF new.gamestate THEN Earlier(rest) ELSE rest
              /\ lastClientCommand' =
                    IF OfOtherMap(m) THEN lastClientCommand ELSE Max({lastClientCommand, m.sequence})
    /\ UNCHANGED <<serverId, clState, clServerId, commands, downloadVars>>

-----------------------------------------------------------------------------
\* The client.

Packet == [serverId |-> clServerId, sequence |-> Len(commands), later |-> later, move |-> clState = "PRIMED"]

CL_WritePacket ==
    /\ toServer' = Send(toServer, Packet)
    /\ UNCHANGED <<serverVars, clientVars, toClient>>

Command(name, arg) == [name |-> name, arg |-> arg]

\* The list names the files in the order of the server's, and the first one is taken off it.
CL_BeginDownload(list, new) ==
    LET file == Min(list)
    IN  /\ downloadName' = file
        /\ downloadBlock' = 0
        /\ downloadList' = list \ {file}
        /\ downloadRestart' = TRUE
        /\ commands' = commands \o new \o <<Command("download", file)>>

\* The file system is started again with the new files, then the game state is asked for again.
RequestGameState(new) ==
    /\ downloadRestart' = FALSE
    /\ commands' = commands \o new \o <<Command("donedl", 0)>>

\* CL_NextDownload behind the last block of a file.
CL_NextDownload(new) ==
    \/ /\ downloadList # {}
       /\ CL_BeginDownload(downloadList, new)
    \/ /\ downloadList = {}
       /\ RequestGameState(new)
       /\ downloadName' = NoFile
       /\ UNCHANGED <<downloadBlock, downloadList>>

\* CL_InitDownloads.
ParseGamestate(m) ==
    LET missing == Files \ DOMAIN disk
    IN  /\ m.kind = "gamestate"
        /\ clServerId' = m.serverId
        /\ \/ /\ missing # {}
              /\ clState' = "CONNECTED"
              /\ CL_BeginDownload(missing, <<>>)
           \/ /\ missing = {}
              /\ clState' = "PRIMED"
              /\ UNCHANGED <<downloadName, downloadBlock, downloadList, downloadRestart, commands>>
        /\ UNCHANGED <<written, disk, crossed, toServer>>

\* A stopdl behind one that was not executed yet changes nothing and is left out.
ParseUnwanted(m) ==
    /\ downloadName = NoFile
    /\ commands' = IF lastClientCommand < Len(commands) /\ Last(commands).name = "stopdl" THEN commands
                   ELSE Append(commands, Command("stopdl", 0))
    /\ UNCHANGED <<downloadVars, toServer>>

\* Mutant: the client takes every block for the one it waits for.
Expected_Any(m) == TRUE

Expected(m) == m.block = downloadBlock

TakeBlock(m) ==
    /\ Expected(m)
    /\ crossed' = (crossed \/ m.data[1] # downloadName)

Acknowledgement == <<Command("nextdl", downloadBlock)>>

ParseBlock(m) ==
    /\ TakeBlock(m)
    /\ ~IsEmpty(m.data)
    /\ written' = Append(written, m.data)
    /\ downloadBlock' = downloadBlock + 1
    /\ commands' = commands \o Acknowledgement
    /\ UNCHANGED <<downloadName, downloadList, downloadRestart, disk, toServer>>

\* The packet leaves before the next download is asked for.
ParseEndOfFile(m) ==
    /\ TakeBlock(m)
    /\ IsEmpty(m.data)
    /\ written' = <<>>
    /\ disk' = [f \in DOMAIN disk \union {downloadName} |-> IF f = downloadName THEN written ELSE disk[f]]
    /\ toServer' = Send(toServer, [Packet EXCEPT !.sequence = @ + 1])
    /\ CL_NextDownload(Acknowledgement)

CL_ParseDownload(m) ==
    /\ m.kind = "download"
    /\ \/ ParseUnwanted(m)
       \/ downloadName # NoFile /\ ~Expected(m) /\ UNCHANGED <<commands, downloadVars, toServer>>
       \/ downloadName # NoFile /\ ParseBlock(m)
       \/ downloadName # NoFile /\ ParseEndOfFile(m)
    /\ UNCHANGED <<clState, clServerId>>

ParseSnapshot(m) ==
    /\ m.kind = "snapshot"
    /\ UNCHANGED <<clState, clServerId, commands, downloadVars, toServer>>

Receive(k) ==
    LET m == toClient[k]
    IN  /\ ParseGamestate(m) \/ CL_ParseDownload(m) \/ ParseSnapshot(m)
        /\ later' = m.later
        /\ toClient' = After(toClient, k)
        /\ UNCHANGED serverVars

CL_ParseServerMessage == \E k \in 1 .. Len(toClient) : Receive(k)

-----------------------------------------------------------------------------
Next ==
    \/ SV_WriteDownloadToClient
    \/ SV_SendClientSnapshot
    \/ SV_SpawnServer
    \/ SV_ExecuteClientMessage
    \/ CL_WritePacket
    \/ CL_ParseServerMessage

Spec == Init /\ [][Next]_vars

ReceiveKind(kind) == \E k \in 1 .. Len(toClient) : toClient[k].kind = kind /\ Receive(k)
ReceiveBlock(n) ==
    \E k \in 1 .. Len(toClient) : toClient[k].kind = "download" /\ toClient[k].block = n /\ Receive(k)

\* Both programs keep running, and what is sent again and again arrives at last.
FairSpec ==
    /\ Spec
    /\ WF_vars(SV_WriteDownloadToClient)
    /\ WF_vars(SV_SendClientSnapshot)
    /\ WF_vars(CL_WritePacket)
    /\ SF_vars(SV_ExecuteClientMessage)
    /\ SF_vars(ReceiveKind("gamestate"))
    /\ SF_vars(ReceiveKind("snapshot"))
    /\ \A n \in 0 .. Max(Range(Size)) : SF_vars(ReceiveBlock(n))

-----------------------------------------------------------------------------
\* Properties.

TypeOK ==
    /\ state \in {"CONNECTED", "PRIMED", "ACTIVE", "ZOMBIE"}
    /\ serverId \in 1 .. MaxServerId /\ clServerId \in 0 .. serverId
    /\ lastClientCommand \in 0 .. Len(commands)
    /\ download.name \in Files \union {NoFile}
    /\ download.open => download.name # NoFile
    /\ ~crossed => /\ download.clientBlock <= download.currentBlock
                   /\ download.xmitBlock <= download.currentBlock
    /\ clState \in {"CONNECTED", "PRIMED"}
    /\ downloadName \in Files \union {NoFile}
    /\ DOMAIN disk \subseteq Files
    /\ written # <<>> => downloadName # NoFile

\* A file the client has is the server's, block for block, and the one it is getting is
\* a beginning of it, though a place of the window that is sent again may hold another
\* block by then.
FilesExact ==
    ~crossed =>
    /\ \A f \in DOMAIN disk : disk[f] = Complete(f)
    /\ downloadName # NoFile => IsPrefix(written, Complete(downloadName))

\* SV_NextDownload_f: "it should be the same as cl->downloadClientBlock", or the client is
\* dropped for a broken download.
NoBrokenDownload == state = "ZOMBIE" => crossed

\* MAX_DOWNLOAD_WINDOW: the acknowledgements of a window and the requests around them are
\* all that the client's ring of reliable commands must hold, or else one request for each
\* map that was loaded before the server executed the first.
CommandsBounded ==
    ~crossed => Len(commands) - lastClientCommand <= Max({MAX_DOWNLOAD_WINDOW + 2, serverId})

\* The client gets its files whatever is lost and whatever map is loaded in between.
FilesArrive == <>(DOMAIN disk = Files \/ crossed)

-----------------------------------------------------------------------------
\* What comments of the code promise, and the code does not keep.

\* SV_SendClientGameState: a game state that is lost is sent again, also the one that the
\* client asked for with donedl.
GameStateArrives == <>(clState = "PRIMED")
=============================================================================
