---------------------------- MODULE DownloadProofs ----------------------------
(***************************************************************************)
(* Proofs about Download, for all files, windows and bounds.               *)
(*                                                                         *)
(* As long as no block was taken for one of another file (crossed), the    *)
(* list of commands the client issued tells all: the server stands at      *)
(* lastClientCommand in it, and what it has open, and how far, is what the *)
(* commands up to there say.  The server executes the commands of a packet *)
(* in one step, so the invariant is stated for any place in the list (At)  *)
(* and carried over the run of commands by induction.                      *)
(***************************************************************************)
EXTENDS Download, RingLemmas

-----------------------------------------------------------------------------
\* The invariant.

Blocks == (Files \X Nat) \union {NoBlock}

DownloadType ==
    [name : Files \union {NoFile}, open : BOOLEAN, clientBlock : Nat, currentBlock : Nat,
     xmitBlock : Nat, blocks : [Places -> Blocks]]

Commands ==
    [name : {"download"}, arg : Files] \union [name : {"nextdl", "stopdl", "donedl"}, arg : Nat]

ServerMessages ==
    [kind : {"download"}, block : Nat, data : Blocks, later : BOOLEAN]
        \union [kind : {"snapshot"}, later : BOOLEAN]
        \union [kind : {"gamestate"}, serverId : Nat, later : BOOLEAN]

Packets == [serverId : Nat, sequence : Nat, later : BOOLEAN, move : BOOLEAN]

States == {"CONNECTED", "PRIMED", "ACTIVE", "ZOMBIE"}

\* A download that is open is a download.
Sensible(d) == d \in DownloadType /\ (d.open => d.name # NoFile)

ServerTypes ==
    /\ state \in States
    /\ serverId \in 1 .. MaxServerId
    /\ commands \in Seq(Commands)
    /\ lastClientCommand \in 0 .. Len(commands)
    /\ Sensible(download)

ClientTypes ==
    /\ clState \in {"CONNECTED", "PRIMED"}
    /\ clServerId \in 0 .. serverId
    /\ later \in BOOLEAN /\ crossed \in BOOLEAN /\ downloadRestart \in BOOLEAN
    /\ downloadName \in Files \union {NoFile}
    /\ downloadBlock \in Nat
    /\ downloadList \in SUBSET Files
    /\ written \in Seq(Blocks)
    /\ written # <<>> => downloadName # NoFile
    /\ DOMAIN disk \subseteq Files

FlightTypes ==
    /\ toClient \in Seq(ServerMessages)
    /\ toServer \in Seq(Packets)
    /\ \A k \in 1 .. Len(toClient) :
          toClient[k].kind = "gamestate" => toClient[k].serverId \in 1 .. serverId
    /\ \A k \in 1 .. Len(toServer) :
          toServer[k].serverId <= serverId /\ toServer[k].sequence <= Len(commands)

\* While the game state of this map is on the way, nothing that was sent before it asks for
\* another one; and later only a client that has it does.
LaterInv ==
    /\ \A k \in 1 .. Len(toClient) :
          toClient[k].kind = "gamestate" /\ toClient[k].serverId = serverId =>
              /\ ~later
              /\ \A j \in 1 .. k : ~toClient[j].later
              /\ \A j \in 1 .. Len(toServer) : ~toServer[j].later
    /\ clServerId = serverId =>
          \A j \in 1 .. Len(toServer) : toServer[j].later => toServer[j].serverId = serverId

\* The client's files: those it has, the one it gets, and those it will ask for.
FilesInv ==
    /\ \A f \in DOMAIN disk : disk[f] = Complete(f)
    /\ downloadName # NoFile =>
          /\ downloadName \notin DOMAIN disk /\ downloadName \notin downloadList
          /\ downloadList \cap DOMAIN disk = {}
          /\ Files = DOMAIN disk \union downloadList \union {downloadName}
          /\ downloadBlock <= Size[downloadName]
          /\ written = [k \in 1 .. downloadBlock |-> Block(downloadName, k - 1)]

\* Command q asks for file f, and the commands behind it acknowledge the first k blocks.
Asked(q, f, k) ==
    /\ q \in 1 .. Len(commands) /\ q + k <= Len(commands)
    /\ commands[q] = Command("download", f)
    /\ \A i \in 1 .. k : commands[q + i] = Command("nextdl", i - 1)

\* Command p says that the client has all files; at most it declines blocks after that.
Finished(p) ==
    /\ downloadName = NoFile /\ DOMAIN disk = Files
    /\ p \in 1 .. Len(commands)
    /\ commands[p] = Command("donedl", 0)
    /\ \A i \in p + 1 .. Len(commands) : commands[i] = Command("stopdl", 0)

\* The window of an open file: its places hold the blocks that are not acknowledged.
Window(d) ==
    /\ d.currentBlock <= d.clientBlock + MAX_DOWNLOAD_WINDOW
    /\ d.currentBlock <= Size[d.name] + 1
    /\ \A k \in 0 .. d.currentBlock - 1 : d.blocks[k % MAX_DOWNLOAD_WINDOW] # NoBlock
    /\ \A k \in d.clientBlock .. d.currentBlock - 1 :
          d.blocks[k % MAX_DOWNLOAD_WINDOW] = Block(d.name, k)

\* Where the server is, with download d, when it has executed i commands.
\* It was asked for nothing but the first file, once for each game state.
Asking(i, d) ==
    /\ DOMAIN disk = {}
    /\ Len(commands) <= clServerId
    /\ downloadName = NoFile => commands = <<>>
    /\ downloadName # NoFile => downloadName = Min(Files) /\ downloadBlock = 0
    /\ \A j \in 1 .. Len(commands) : commands[j] = Command("download", downloadName)
    /\ i \in 0 .. Len(commands)
    /\ d.name = IF i = 0 THEN NoFile ELSE downloadName
    /\ ~d.open

\* It is at the file the client gets.
Getting(q, i, d) ==
    /\ downloadName # NoFile
    /\ Asked(q, downloadName, downloadBlock) /\ Len(commands) = q + downloadBlock
    /\ i \in q .. Len(commands)
    /\ d.name = downloadName
    /\ d.open => d.clientBlock = i - q /\ downloadBlock <= d.currentBlock /\ Window(d)
    /\ ~d.open => downloadBlock = 0

\* It is at file g, which the client has already, or has just closed it.
Behind(q, g, i, d) ==
    /\ g \in DOMAIN disk
    /\ Asked(q, g, Size[g] + 1) /\ q + Size[g] + 2 <= Len(commands)
    /\ i \in q .. q + Size[g] + 1
    /\ i <= q + Size[g] =>
          /\ d.name = g /\ d.open
          /\ d.clientBlock = i - q /\ d.currentBlock = Size[g] + 1 /\ Window(d)
    /\ i = q + Size[g] + 1 => d.name = NoFile
    /\ \/ /\ downloadName # NoFile /\ downloadBlock = 0
          /\ Len(commands) = q + Size[g] + 2
          /\ commands[Len(commands)] = Command("download", downloadName)
       \/ Finished(q + Size[g] + 2) /\ Len(commands) <= q + Size[g] + 3

\* It knows that the client has all files.
Done(p, i, d) ==
    /\ Finished(p)
    /\ i \in p .. Len(commands) /\ Len(commands) <= i + 1
    /\ d.name = NoFile

\* The places of the window hold blocks of files that were asked for.
PlacesInv(d) ==
    \A j \in Places :
        d.blocks[j] # NoBlock =>
            d.blocks[j][1] \in DOMAIN disk
                \/ (d.open /\ d.name = downloadName /\ d.blocks[j][1] = downloadName)

At(i, d) ==
    /\ d.clientBlock <= d.currentBlock /\ d.xmitBlock <= d.currentBlock
    /\ PlacesInv(d)
    /\ \/ Asking(i, d)
       \/ \E q \in 1 .. i : Getting(q, i, d)
       \/ \E q \in 1 .. i : \E g \in Files : Behind(q, g, i, d)
       \/ \E p \in 1 .. i : Done(p, i, d)

\* A block on the way is of a file the client has, or the right one, or one it has.
Sound(m, d) ==
    /\ m.data # NoBlock
    /\ \/ m.data[1] \in DOMAIN disk
       \/ /\ d.open /\ d.name = downloadName /\ m.data[1] = downloadName
          /\ m.block < d.currentBlock
          /\ m.block < downloadBlock \/ m.data = Block(downloadName, m.block)

BlocksInv(channel, d) ==
    \A k \in 1 .. Len(channel) : channel[k].kind = "download" => Sound(channel[k], d)

\* A game state is on the way only before the first file is served and after the last one;
\* before that, no packet with another server id than the client's has all commands.
GameStatesInv ==
    /\ DOMAIN disk # Files /\ lastClientCommand # 0 =>
          \A k \in 1 .. Len(toClient) : toClient[k].kind # "gamestate"
    /\ lastClientCommand = 0 /\ DOMAIN disk = {} =>
          /\ \A k \in 1 .. Len(toClient) :
                toClient[k].kind = "gamestate" =>
                    /\ clServerId < toClient[k].serverId
                    /\ \A j \in 1 .. k - 1 :
                          toClient[j].kind = "gamestate" =>
                              toClient[j].serverId < toClient[k].serverId
          /\ \A k \in 1 .. Len(toServer) :
                /\ toServer[k].serverId <= clServerId
                /\ toServer[k].serverId = clServerId => toServer[k].sequence = Len(commands)

Exact ==
    /\ state # "ZOMBIE"
    /\ FilesInv
    /\ At(lastClientCommand, download)
    /\ Asking(lastClientCommand, download) => lastClientCommand \in {0, Len(commands)}
    /\ BlocksInv(toClient, download)
    /\ GameStatesInv

ExactInv == ~crossed => Exact

DownloadInv == ServerTypes /\ ClientTypes /\ FlightTypes /\ LaterInv /\ ExactInv

-----------------------------------------------------------------------------
\* The commands of a packet are executed one after the other.

\* g folds the commands with the numbers of any subset of 1 .. m.
FoldsTo(g, sv, cs, m) ==
    g = [s \in SUBSET (1 .. m) |->
            IF s = {} THEN sv ELSE SV_ExecuteClientCommand(g[s \ {Max(s)}], cs[Max(s)])]

LEMMA FoldExtends ==
    ASSUME NEW sv, NEW cs, NEW m \in Nat, NEW g, FoldsTo(g, sv, cs, m)
    PROVE  \E h : FoldsTo(h, sv, cs, m + 1)
<1>. DEFINE h == [s \in SUBSET (1 .. m + 1) |->
                    IF m + 1 \in s THEN SV_ExecuteClientCommand(g[s \ {m + 1}], cs[m + 1]) ELSE g[s]]
            v(s) == IF s = {} THEN sv ELSE SV_ExecuteClientCommand(h[s \ {Max(s)}], cs[Max(s)])
<1>1. ASSUME NEW s \in SUBSET (1 .. m + 1)
      PROVE  h[s] = v(s)
  <2>1. CASE m + 1 \in s
    <3>1. Max(s) = m + 1
      <4>1. s \in SUBSET Nat /\ s # {} /\ m + 1 \in Nat /\ \A y \in s : y <= m + 1
        BY <2>1
      <4>2. Max(s) \in s /\ \A y \in s : y <= Max(s)
        BY <4>1, GreatestElement
      <4>. HIDE DEF h, v
      <4>3. PICK x \in 1 .. m + 1 : x = Max(s)
        BY <4>2
      <4>4. m + 1 <= x
        BY <2>1, <4>2, <4>3
      <4>. QED  BY <4>3, <4>4
    <3>2. s \ {m + 1} \in SUBSET (1 .. m) /\ s \ {m + 1} \in SUBSET (1 .. m + 1) /\ m + 1 \notin s \ {m + 1}
      OBVIOUS
    <3>3. h[s \ {m + 1}] = g[s \ {m + 1}]
      BY <3>2
    <3>4. h[s] = SV_ExecuteClientCommand(g[s \ {m + 1}], cs[m + 1])
      BY <2>1, Zenon
    <3>5. s # {}
      BY <2>1
    <3>. HIDE DEF h
    <3>. QED  BY <3>1, <3>3, <3>4, <3>5, Zenon
  <2>2. CASE m + 1 \notin s /\ s # {}
    <3>1. s \in SUBSET (1 .. m)
      BY <2>2
    <3>. HIDE DEF h
    <3>2. s \ {Max(s)} \in SUBSET (1 .. m) /\ s \ {Max(s)} \in SUBSET (1 .. m + 1) /\ m + 1 \notin s \ {Max(s)}
      BY <2>2, <3>1
    <3>3. h[s \ {Max(s)}] = g[s \ {Max(s)}]
      BY <3>2, Zenon DEF h
    <3>4. h[s] = g[s]
      BY <2>2, Zenon DEF h
    <3>5. g[s] = SV_ExecuteClientCommand(g[s \ {Max(s)}], cs[Max(s)])
      BY <2>2, <3>1, Zenon DEF FoldsTo
    <3>. QED  BY <2>2, <3>3, <3>4, <3>5, Zenon
  <2>3. CASE s = {}
    <3>1. s \in SUBSET (1 .. m) /\ m + 1 \notin s
      BY <2>3
    <3>2. h[s] = g[s]
      BY <3>1, Zenon
    <3>3. g[s] = sv
      BY <2>3, <3>1, Zenon DEF FoldsTo
    <3>. HIDE DEF h
    <3>. QED  BY <2>3, <3>2, <3>3, Zenon
  <2>. QED  BY <2>1, <2>2, <2>3
<1>2. h = [s \in SUBSET (1 .. m + 1) |-> h[s]]
  BY Zenon
<1>3. [s \in SUBSET (1 .. m + 1) |-> h[s]] = [s \in SUBSET (1 .. m + 1) |-> v(s)]
  <2>. HIDE DEF h, v
  <2>. QED  BY <1>1, Zenon
<1>4. FoldsTo(h, sv, cs, m + 1)
  <2>. HIDE DEF h
  <2>. QED  BY <1>2, <1>3, Zenon DEF FoldsTo
<1>. QED  BY <1>4

LEMMA FoldExists ==
    ASSUME NEW sv, NEW cs, NEW n \in Nat
    PROVE  \E g : FoldsTo(g, sv, cs, n)
<1>. DEFINE Bad == {m \in Nat : ~ \E g : FoldsTo(g, sv, cs, m)}
<1>. SUFFICES ASSUME Bad # {} PROVE FALSE
  OBVIOUS
<1>1. Min(Bad) \in Bad /\ \A y \in Bad : Min(Bad) <= y
  <2>. Bad \in SUBSET Nat
    OBVIOUS
  <2>. HIDE DEF Bad
  <2>. QED  BY LeastElement
<1>2. PICK m \in Bad : \A y \in Bad : m <= y
  BY <1>1
<1>3. CASE m = 0
  <2>. DEFINE g == [s \in SUBSET (1 .. 0) |-> sv]
              v(s) == IF s = {} THEN sv ELSE SV_ExecuteClientCommand(g[s \ {Max(s)}], cs[Max(s)])
  <2>1. \A s \in SUBSET (1 .. 0) : s = {}
    OBVIOUS
  <2>2. g = [s \in SUBSET (1 .. 0) |-> v(s)]
    <3>1. \A s \in SUBSET (1 .. 0) : v(s) = sv
      BY <2>1, Zenon
    <3>. HIDE DEF v
    <3>. QED  BY <3>1, Zenon
  <2>3. FoldsTo(g, sv, cs, 0)
    <3>. HIDE DEF g
    <3>. QED  BY <2>2, Zenon DEF FoldsTo
  <2>. QED  BY <1>2, <1>3, <2>3, Zenon
<1>4. CASE m # 0
  <2>1. m - 1 \in Nat /\ ~(m <= m - 1) /\ (m - 1) + 1 = m
    BY <1>2, <1>4
  <2>2. PICK g : FoldsTo(g, sv, cs, m - 1)
    BY <1>2, <2>1
  <2>3. \E h : FoldsTo(h, sv, cs, (m - 1) + 1)
    BY <2>1, <2>2, FoldExtends, Zenon
  <2>. QED  BY <1>2, <2>1, <2>3, Zenon
<1>. QED  BY <1>3, <1>4

LEMMA FoldIs ==
    ASSUME NEW sv, NEW cs, NEW n \in Nat, DOMAIN cs = 1 .. n
    PROVE  \E g : FoldsTo(g, sv, cs, n) /\ FoldLeft(SV_ExecuteClientCommand, sv, cs) = g[1 .. n]
<1>. DEFINE g == CHOOSE g : FoldsTo(g, sv, cs, n)
<1>1. FoldsTo(g, sv, cs, n)
  BY FoldExists, Zenon
<1>2. FoldLeft(SV_ExecuteClientCommand, sv, cs) = g[1 .. n]
  BY Zenon DEF FoldLeft, MapThenFoldSet, FoldsTo
<1>. QED  BY <1>1, <1>2, Zenon

\* Executing a run of commands goes through the states t[0], t[1], ...
Goes(t, sv, cs, n) ==
    /\ t[0] = sv
    /\ \A i \in 0 .. n - 1 : t[i + 1] = SV_ExecuteClientCommand(t[i], cs[i + 1])

LEMMA FoldSteps ==
    ASSUME NEW sv, NEW cs, NEW n \in Nat, DOMAIN cs = 1 .. n
    PROVE  \E t : Goes(t, sv, cs, n) /\ FoldLeft(SV_ExecuteClientCommand, sv, cs) = t[n]
<1>1. PICK g : FoldsTo(g, sv, cs, n) /\ FoldLeft(SV_ExecuteClientCommand, sv, cs) = g[1 .. n]
  BY FoldIs, Zenon
<1>. DEFINE t == [i \in 0 .. n |-> g[1 .. i]]
<1>2. t[0] = sv
  <2>1. 0 \in 0 .. n /\ 1 .. 0 = {} /\ {} \in SUBSET (1 .. n)
    OBVIOUS
  <2>2. g[{}] = sv
    BY <1>1, <2>1, Zenon DEF FoldsTo
  <2>. QED  BY <2>1, <2>2, Zenon
<1>3. ASSUME NEW i \in 0 .. n - 1
      PROVE  t[i + 1] = SV_ExecuteClientCommand(t[i], cs[i + 1])
  <2>. DEFINE s == 1 .. i + 1
  <2>1. /\ i \in 0 .. n /\ i + 1 \in 0 .. n
        /\ s \in SUBSET (1 .. n) /\ s # {} /\ s \ {i + 1} = 1 .. i
    <3>1. i \in 0 .. n /\ i + 1 \in 0 .. n
      OBVIOUS
    <3>2. s \in SUBSET (1 .. n)
      OBVIOUS
    <3>3. i + 1 \in s
      OBVIOUS
    <3>4. s \ {i + 1} = 1 .. i
      OBVIOUS
    <3>. QED  BY <3>1, <3>2, <3>3, <3>4
  <2>2. Max(s) = i + 1
    BY MaxOfInterval
  <2>3. g[s] = SV_ExecuteClientCommand(g[s \ {Max(s)}], cs[Max(s)])
    <3>. HIDE DEF s
    <3>. QED  BY <1>1, <2>1, Zenon DEF FoldsTo
  <2>4. t[i + 1] = g[s] /\ t[i] = g[1 .. i]
    BY <2>1, Zenon
  <2>. HIDE DEF s, t
  <2>. QED  BY <2>1, <2>2, <2>3, <2>4, Zenon
<1>4. t[n] = g[1 .. n]
  <2>1. n \in 0 .. n
    OBVIOUS
  <2>. QED  BY <2>1, Zenon
<1>. HIDE DEF t
<1>5. Goes(t, sv, cs, n)
  BY <1>2, <1>3, Zenon DEF Goes
<1>. QED  BY <1>1, <1>4, <1>5, Zenon

-----------------------------------------------------------------------------
\* Types.

LEMMA Numbers ==
    /\ Files = 1 .. Len(Size) /\ Files \subseteq Nat /\ NoFile \notin Files
    /\ \A f \in Files : Size[f] \in Nat
    /\ MAX_DOWNLOAD_WINDOW \in Nat \ {0}
    /\ MaxInFlight \in Nat \ {0} /\ MaxServerId \in Nat \ {0}
<1>1. Size \in Seq(Nat) /\ Files = 1 .. Len(Size) /\ Len(Size) \in Nat
  BY SizeAssumption DEF Files
<1>2. \A f \in Files : Size[f] \in Nat
  BY <1>1
<1>. QED  BY <1>1, <1>2, WindowAssumption, BoundsAssumption DEF NoFile

\* Adding a message to a channel that may be full.
Extended(after, c, m, d) ==
    /\ Len(after) = Len(c) - d + 1
    /\ \A k \in 1 .. Len(c) - d : after[k] = c[k + d]
    /\ after[Len(c) - d + 1] = m

LEMMA Sending ==
    ASSUME NEW S, NEW c \in Seq(S), NEW m \in S, NEW after, after = Send(c, m)
    PROVE  /\ after \in Seq(S)
           /\ \E d \in {0, 1} : Extended(after, c, m, d)
<1>1. after = IF Len(c) < MaxInFlight THEN Append(c, m) ELSE Append(Tail(c), m)
  BY DEF Send
<1>. QED  BY <1>1, BoundedAppend, Numbers DEF Extended

\* Every message of a channel after a send was there before, or is the one sent.
LEMMA Sent ==
    ASSUME NEW S, NEW c \in Seq(S), NEW m \in S, NEW after, after = Send(c, m), NEW k \in 1 .. Len(after)
    PROVE  after[k] = m \/ \E j \in 1 .. Len(c) : after[k] = c[j]
<1>0. Len(c) \in Nat
  OBVIOUS
<1>1. PICK d \in {0, 1} : Extended(after, c, m, d)
  BY Sending
<1>. USE DEF Extended
<1>2. CASE k \in 1 .. Len(c) - d
  <2>1. after[k] = c[k + d] /\ k + d \in 1 .. Len(c)
    BY <1>0, <1>1, <1>2
  <2>. QED  BY <2>1
<1>3. CASE k = Len(c) - d + 1
  BY <1>1, <1>3
<1>. QED  BY <1>0, <1>1, <1>2, <1>3

\* What is left of a channel behind a message.
LEMMA Remaining ==
    ASSUME NEW S, NEW c \in Seq(S), NEW k \in 1 .. Len(c), NEW rest, rest = After(c, k)
    PROVE  /\ rest \in Seq(S)
           /\ Len(rest) = Len(c) - k
           /\ \A i \in 1 .. Len(rest) : i + k \in 1 .. Len(c) /\ rest[i] = c[i + k]
<1>1. k \in 0 .. Len(c) /\ Len(c) \in Nat
  OBVIOUS
<1>. QED  BY <1>1, SuffixElements DEF After

\* A message that is not later than the last game state any more.
Aged(n, m) ==
    /\ n.kind = m.kind /\ ~n.later
    /\ m.kind = "gamestate" => n.serverId = m.serverId
    /\ m.kind = "download" => n.block = m.block /\ n.data = m.data

LEMMA Aging ==
    ASSUME NEW m \in ServerMessages
    PROVE  [m EXCEPT !.later = FALSE] \in ServerMessages /\ Aged([m EXCEPT !.later = FALSE], m)
<1>1. CASE m \in [kind : {"download"}, block : Nat, data : Blocks, later : BOOLEAN]
  BY <1>1 DEF ServerMessages, Aged
<1>2. CASE m \in [kind : {"snapshot"}, later : BOOLEAN]
  BY <1>2 DEF ServerMessages, Aged
<1>3. CASE m \in [kind : {"gamestate"}, serverId : Nat, later : BOOLEAN]
  BY <1>3 DEF ServerMessages, Aged
<1>. QED  BY <1>1, <1>2, <1>3 DEF ServerMessages

LEMMA AgedChannel ==
    ASSUME NEW c \in Seq(ServerMessages)
    PROVE  /\ Earlier(c) \in Seq(ServerMessages) /\ Len(Earlier(c)) = Len(c)
           /\ \A k \in 1 .. Len(c) : Aged(Earlier(c)[k], c[k])
<1>1. DOMAIN c = 1 .. Len(c) /\ Len(c) \in Nat /\ \A k \in 1 .. Len(c) : c[k] \in ServerMessages
  OBVIOUS
<1>2. Earlier(c) = [k \in 1 .. Len(c) |-> [c[k] EXCEPT !.later = FALSE]]
  BY <1>1 DEF Earlier
<1>3. \A k \in 1 .. Len(c) : Earlier(c)[k] = [c[k] EXCEPT !.later = FALSE]
  BY <1>2
<1>4. \A k \in 1 .. Len(c) : Earlier(c)[k] \in ServerMessages /\ Aged(Earlier(c)[k], c[k])
  BY <1>1, <1>3, Aging
<1>5. Earlier(c) \in [1 .. Len(c) -> ServerMessages]
  BY <1>2, <1>3, <1>4
<1>. QED  BY <1>1, <1>4, <1>5

LEMMA AgedPackets ==
    ASSUME NEW c \in Seq(Packets)
    PROVE  /\ Earlier(c) \in Seq(Packets) /\ Len(Earlier(c)) = Len(c)
           /\ \A k \in 1 .. Len(c) :
                 /\ ~Earlier(c)[k].later
                 /\ Earlier(c)[k].serverId = c[k].serverId
                 /\ Earlier(c)[k].sequence = c[k].sequence
<1>1. DOMAIN c = 1 .. Len(c) /\ Len(c) \in Nat /\ \A k \in 1 .. Len(c) : c[k] \in Packets
  OBVIOUS
<1>2. Earlier(c) = [k \in 1 .. Len(c) |-> [c[k] EXCEPT !.later = FALSE]]
  BY <1>1 DEF Earlier
<1>3. \A k \in 1 .. Len(c) : Earlier(c)[k] = [c[k] EXCEPT !.later = FALSE]
  BY <1>2
<1>4. \A p \in Packets :
          /\ [p EXCEPT !.later = FALSE] \in Packets
          /\ ~[p EXCEPT !.later = FALSE].later
          /\ [p EXCEPT !.later = FALSE].serverId = p.serverId
          /\ [p EXCEPT !.later = FALSE].sequence = p.sequence
  BY DEF Packets
<1>5. \A k \in 1 .. Len(c) :
          /\ Earlier(c)[k] \in Packets
          /\ ~Earlier(c)[k].later
          /\ Earlier(c)[k].serverId = c[k].serverId
          /\ Earlier(c)[k].sequence = c[k].sequence
  BY <1>1, <1>3, <1>4
<1>6. Earlier(c) \in [1 .. Len(c) -> Packets]
  BY <1>2, <1>5
<1>. QED  BY <1>1, <1>5, <1>6

\* What a command can change.
Services ==
    [state : States, download : DownloadType, toClient : Seq(ServerMessages), gamestate : BOOLEAN]

\* A game state that was sent is newer than all that is on the way.
Typed(sv, channel) ==
    /\ sv \in Services /\ Sensible(sv.download)
    /\ \A k \in 1 .. Len(sv.toClient) :
          sv.toClient[k].kind = "gamestate" => sv.toClient[k].serverId \in 1 .. serverId
    /\ IF sv.gamestate THEN \A k \in 1 .. Len(sv.toClient) : ~sv.toClient[k].later
                       ELSE sv.toClient = channel

\* The counters and the blocks of a download stay as they are.
SameCounters(e, d) ==
    /\ e.clientBlock = d.clientBlock /\ e.currentBlock = d.currentBlock
    /\ e.xmitBlock = d.xmitBlock /\ e.blocks = d.blocks

LEMMA Closing ==
    ASSUME NEW sv \in Services, Sensible(sv.download), NEW r, r = SV_CloseDownload(sv)
    PROVE  /\ r \in Services /\ Sensible(r.download)
           /\ r.state = sv.state /\ r.toClient = sv.toClient /\ r.gamestate = sv.gamestate
           /\ r.download.name = NoFile /\ ~r.download.open /\ SameCounters(r.download, sv.download)
BY DEF Services, Sensible, DownloadType, SV_CloseDownload, SameCounters

LEMMA Beginning ==
    ASSUME NEW sv \in Services, Sensible(sv.download), NEW file \in Files,
           NEW r, r = SV_BeginDownload_f(sv, file)
    PROVE  /\ r \in Services /\ Sensible(r.download)
           /\ r.state = sv.state /\ r.toClient = sv.toClient /\ r.gamestate = sv.gamestate
           /\ r.download.name = file /\ ~r.download.open /\ SameCounters(r.download, sv.download)
BY DEF Services, Sensible, DownloadType, SV_CloseDownload, SV_BeginDownload_f, SameCounters

LEMMA Advancing ==
    ASSUME NEW sv \in Services, Sensible(sv.download), NEW r, r = Advanced(sv)
    PROVE  /\ r \in Services /\ Sensible(r.download)
           /\ r.state = sv.state /\ r.toClient = sv.toClient /\ r.gamestate = sv.gamestate
           /\ r.download.name = sv.download.name /\ r.download.open = sv.download.open
           /\ r.download.clientBlock = sv.download.clientBlock + 1
           /\ r.download.currentBlock = sv.download.currentBlock
           /\ r.download.xmitBlock = sv.download.xmitBlock /\ r.download.blocks = sv.download.blocks
BY SMTT(30) DEF Services, Sensible, DownloadType, Advanced

LEMMA Dropping ==
    ASSUME NEW sv \in Services, Sensible(sv.download), NEW r, r = SV_DropClient(sv)
    PROVE  /\ r \in Services /\ Sensible(r.download)
           /\ r.toClient = sv.toClient /\ r.gamestate = sv.gamestate
<1>1. PICK c : c = SV_CloseDownload(sv)
  OBVIOUS
<1>2. c \in Services /\ Sensible(c.download) /\ c.toClient = sv.toClient /\ c.gamestate = sv.gamestate
  BY <1>1, Closing
<1>3. r = [c EXCEPT !.state = "ZOMBIE"]
  BY <1>1 DEF SV_DropClient
<1>. QED  BY <1>2, <1>3 DEF Services, States

LEMMA SendingGameState ==
    ASSUME NEW sv \in Services, serverId \in Nat, NEW r, r = SV_SendClientGameState(sv)
    PROVE  /\ r \in Services /\ r.gamestate /\ r.state = "PRIMED" /\ r.download = sv.download
           /\ \E d \in {0, 1} :
                 /\ Len(r.toClient) = Len(sv.toClient) - d + 1
                 /\ \A k \in 1 .. Len(sv.toClient) - d : Aged(r.toClient[k], sv.toClient[k + d])
                 /\ r.toClient[Len(sv.toClient) - d + 1] =
                       [kind |-> "gamestate", serverId |-> serverId, later |-> FALSE]
<1>. DEFINE m == [kind |-> "gamestate", serverId |-> serverId, later |-> FALSE]
            c == sv.toClient
            e == Earlier(c)
            after == Send(e, m)
<1>1. c \in Seq(ServerMessages) /\ m \in ServerMessages
  BY DEF Services, ServerMessages
<1>. HIDE DEF m, c
<1>2. e \in Seq(ServerMessages) /\ Len(e) = Len(c) /\ \A k \in 1 .. Len(c) : Aged(e[k], c[k])
  BY <1>1, AgedChannel
<1>. HIDE DEF e
<1>3. after \in Seq(ServerMessages)
  BY <1>1, <1>2, Sending
<1>4. PICK d \in {0, 1} : Extended(after, e, m, d)
  BY <1>1, <1>2, Sending
<1>. USE DEF Extended
<1>5. r = [sv EXCEPT !.state = "PRIMED", !.gamestate = TRUE, !.toClient = after]
  BY DEF SV_SendClientGameState, m, c, e
<1>. HIDE DEF after
<1>6. r \in Services /\ r.gamestate /\ r.state = "PRIMED" /\ r.download = sv.download /\ r.toClient = after
  BY <1>3, <1>5 DEF Services, States
<1>7. Len(c) \in Nat
  BY <1>1
<1>8. ASSUME NEW k \in 1 .. Len(c) - d PROVE Aged(after[k], c[k + d])
  <2>1. k + d \in 1 .. Len(c)
    BY <1>7
  <2>. QED  BY <1>2, <1>4, <2>1
<1>. QED  BY <1>2, <1>4, <1>6, <1>8 DEF m, c

LEMMA StaysTyped ==
    ASSUME NEW channel, NEW sv, Typed(sv, channel), NEW r \in Services, Sensible(r.download),
           r.toClient = sv.toClient, r.gamestate = sv.gamestate
    PROVE  Typed(r, channel)
BY DEF Typed

LEMMA ExecutesTyped ==
    ASSUME serverId \in Nat \ {0}, NEW channel, NEW sv, Typed(sv, channel), NEW c \in Commands,
           NEW r, r = SV_ExecuteClientCommand(sv, c)
    PROVE  Typed(r, channel)
<1>0. sv \in Services /\ Sensible(sv.download)
  BY DEF Typed
<1>1. CASE sv.state = "ZOMBIE"
  <2>1. r = sv
    BY <1>1, Zenon DEF SV_ExecuteClientCommand
  <2>. QED  BY <2>1
<1>2. CASE sv.state # "ZOMBIE" /\ c.name = "download"
  <2>1. r = SV_BeginDownload_f(sv, c.arg)
    BY <1>2 DEF SV_ExecuteClientCommand
  <2>2. c.arg \in Files
    BY <1>2 DEF Commands
  <2>. QED  BY <1>0, <2>1, <2>2, Beginning, StaysTyped
<1>3. CASE sv.state # "ZOMBIE" /\ c.name = "nextdl"
  <2>1. r = SV_NextDownload_f(sv, c.arg)
    BY <1>3 DEF SV_ExecuteClientCommand
  <2>2. r \in {SV_DropClient(sv), SV_CloseDownload(sv), Advanced(sv)}
    BY <2>1, Zenon DEF SV_NextDownload_f
  <2>3. CASE r = SV_DropClient(sv)
    BY <1>0, <2>3, Dropping, StaysTyped
  <2>4. CASE r = SV_CloseDownload(sv)
    BY <1>0, <2>4, Closing, StaysTyped
  <2>5. CASE r = Advanced(sv)
    BY <1>0, <2>5, Advancing, StaysTyped
  <2>. QED  BY <2>2, <2>3, <2>4, <2>5
<1>4. CASE sv.state # "ZOMBIE" /\ c.name = "stopdl"
  <2>1. r = SV_CloseDownload(sv)
    BY <1>4 DEF SV_ExecuteClientCommand
  <2>. QED  BY <1>0, <2>1, Closing, StaysTyped
<1>5. CASE sv.state # "ZOMBIE" /\ c.name = "donedl"
  <2>1. r = SV_DoneDownload_f(sv)
    BY <1>5 DEF SV_ExecuteClientCommand
  <2>2. CASE r = sv
    BY <2>2
  <2>3. CASE r = SV_SendClientGameState(sv)
    <3>1. r \in Services /\ r.gamestate /\ r.download = sv.download
      BY <1>0, <2>3, SendingGameState
    <3>2. PICK d \in {0, 1} :
              /\ Len(r.toClient) = Len(sv.toClient) - d + 1
              /\ \A k \in 1 .. Len(sv.toClient) - d : Aged(r.toClient[k], sv.toClient[k + d])
              /\ r.toClient[Len(sv.toClient) - d + 1] =
                    [kind |-> "gamestate", serverId |-> serverId, later |-> FALSE]
      BY <1>0, <2>3, SendingGameState
    <3>3. ASSUME NEW k \in 1 .. Len(r.toClient)
          PROVE  /\ ~r.toClient[k].later
                 /\ r.toClient[k].kind = "gamestate" => r.toClient[k].serverId \in 1 .. serverId
      <4>0. Len(sv.toClient) \in Nat
        BY <1>0 DEF Services
      <4>1. CASE k \in 1 .. Len(sv.toClient) - d
        <5>1. k + d \in 1 .. Len(sv.toClient)
          BY <4>0, <4>1
        <5>2. Aged(r.toClient[k], sv.toClient[k + d])
          BY <3>2, <4>1
        <5>. QED  BY <5>1, <5>2 DEF Aged, Typed
      <4>2. CASE k = Len(sv.toClient) - d + 1
        BY <3>2, <4>2
      <4>. QED  BY <3>2, <4>0, <4>1, <4>2
    <3>. QED  BY <1>0, <3>1, <3>3 DEF Typed
  <2>. QED  BY <2>1, <2>2, <2>3, Zenon DEF SV_DoneDownload_f
<1>6. c.name \in {"download", "nextdl", "stopdl", "donedl"}
  BY DEF Commands
<1>. QED  BY <1>1, <1>2, <1>3, <1>4, <1>5, <1>6

\* The states that the commands behind lastClientCommand lead through.
Runs(t, sv, n) ==
    /\ t[0] = sv
    /\ \A i \in 0 .. n - 1 :
          t[i + 1] = SV_ExecuteClientCommand(t[i], commands[lastClientCommand + i + 1])

LEMMA Running ==
    ASSUME ServerTypes, NEW sv, NEW m \in Packets, m.sequence <= Len(commands)
    PROVE  \E n \in Nat : \E t :
              /\ Runs(t, sv, n) /\ Executed(sv, m) = ExecuteMove(t[n], m)
              /\ Max({lastClientCommand, m.sequence}) = lastClientCommand + n
              /\ lastClientCommand + n <= Len(commands)
              /\ n = 0 \/ lastClientCommand + n = m.sequence
<1>0. /\ lastClientCommand \in Nat /\ Len(commands) \in Nat /\ lastClientCommand <= Len(commands)
      /\ commands \in Seq(Commands) /\ m.sequence \in Nat
  BY DEF ServerTypes, Packets
<1>. DEFINE cs == SubSeq(commands, lastClientCommand + 1, m.sequence)
            n == IF lastClientCommand <= m.sequence THEN m.sequence - lastClientCommand ELSE 0
<1>1. n \in Nat /\ lastClientCommand + n <= Len(commands) /\ (n = 0 \/ lastClientCommand + n = m.sequence)
  BY <1>0
<1>2. Max({lastClientCommand, m.sequence}) = lastClientCommand + n
  BY <1>0, MaxOfPair
<1>3. DOMAIN cs = 1 .. n /\ \A i \in 1 .. n : cs[i] = commands[lastClientCommand + i]
  <2>1. \A i \in lastClientCommand + 1 .. m.sequence : commands[i] \in Commands
    BY <1>0
  <2>2. /\ cs \in Seq(Commands)
        /\ Len(cs) = IF lastClientCommand + 1 <= m.sequence
                     THEN m.sequence - (lastClientCommand + 1) + 1 ELSE 0
        /\ \A i \in 1 .. m.sequence - (lastClientCommand + 1) + 1 :
              cs[i] = commands[lastClientCommand + 1 + i - 1]
    BY <1>0, <2>1, SubSeqProperties
  <2>. HIDE DEF cs
  <2>3. Len(cs) = n
    BY <1>0, <2>2
  <2>4. ASSUME NEW i \in 1 .. n PROVE cs[i] = commands[lastClientCommand + i]
    <3>1. i \in 1 .. m.sequence - (lastClientCommand + 1) + 1 /\ lastClientCommand + 1 + i - 1 = lastClientCommand + i
      BY <1>0
    <3>. QED  BY <2>2, <3>1
  <2>. QED  BY <2>2, <2>3, <2>4
<1>4. PICK t : Goes(t, sv, cs, n) /\ FoldLeft(SV_ExecuteClientCommand, sv, cs) = t[n]
  <2>1. n \in Nat
    BY <1>1
  <2>2. DOMAIN cs = 1 .. n
    BY <1>3, Zenon
  <2>. HIDE DEF cs, n
  <2>3. \E t : Goes(t, sv, cs, n) /\ FoldLeft(SV_ExecuteClientCommand, sv, cs) = t[n]
    BY <2>1, <2>2, FoldSteps, Zenon
  <2>. QED  BY <2>3, Zenon
<1>5. Executed(sv, m) = ExecuteMove(t[n], m)
  <2>1. Executed(sv, m) = ExecuteMove(FoldLeft(SV_ExecuteClientCommand, sv, cs), m)
    BY Zenon DEF Executed
  <2>. HIDE DEF cs, n
  <2>. QED  BY <1>4, <2>1, Zenon
<1>. HIDE DEF cs, n
<1>6. Runs(t, sv, n)
  <2>1. ASSUME NEW i \in 0 .. n - 1
        PROVE  t[i + 1] = SV_ExecuteClientCommand(t[i], commands[lastClientCommand + i + 1])
    <3>1. i + 1 \in 1 .. n /\ lastClientCommand + (i + 1) = lastClientCommand + i + 1
      BY <1>0, <1>1
    <3>2. cs[i + 1] = commands[lastClientCommand + i + 1]
      BY <1>3, <3>1
    <3>3. t[i + 1] = SV_ExecuteClientCommand(t[i], cs[i + 1])
      BY <1>4, Zenon DEF Goes
    <3>. QED  BY <3>2, <3>3, Zenon
  <2>2. t[0] = sv
    BY <1>4, Zenon DEF Goes
  <2>. QED  BY <2>1, <2>2, Zenon DEF Runs
<1>. QED  BY <1>1, <1>2, <1>5, <1>6, Zenon

LEMMA RunsTyped ==
    ASSUME ServerTypes, NEW channel, NEW sv, Typed(sv, channel), NEW n \in Nat, NEW t, Runs(t, sv, n),
           lastClientCommand + n <= Len(commands), NEW k \in 0 .. n
    PROVE  Typed(t[k], channel)
<1>. DEFINE Bad == {j \in 0 .. n : ~Typed(t[j], channel)}
<1>. SUFFICES ASSUME Bad # {} PROVE FALSE
  OBVIOUS
<1>1. Bad \in SUBSET Nat
  OBVIOUS
<1>2. PICK j \in Bad : \A i \in Bad : j <= i
  <2>. HIDE DEF Bad
  <2>. QED  BY <1>1, LeastElement
<1>3. j # 0
  BY <1>2 DEF Runs
<1>4. j - 1 \in 0 .. n - 1 /\ j - 1 \in 0 .. n /\ (j - 1) + 1 = j /\ j - 1 \notin Bad
  BY <1>2, <1>3
<1>5. Typed(t[j - 1], channel)
  BY <1>4
<1>6. t[j] = SV_ExecuteClientCommand(t[j - 1], commands[lastClientCommand + (j - 1) + 1])
  BY <1>4, Zenon DEF Runs
<1>7. commands[lastClientCommand + (j - 1) + 1] \in Commands
  <2>1. lastClientCommand \in Nat /\ Len(commands) \in Nat /\ commands \in Seq(Commands)
    BY DEF ServerTypes
  <2>2. lastClientCommand + (j - 1) + 1 \in 1 .. Len(commands)
    BY <1>2, <1>4, <2>1
  <2>. QED  BY <2>1, <2>2
<1>8. serverId \in Nat \ {0}
  BY DEF ServerTypes
<1>9. Typed(t[j], channel)
  BY <1>5, <1>6, <1>7, <1>8, ExecutesTyped
<1>. QED  BY <1>2, <1>9

-----------------------------------------------------------------------------
\* Types, and which messages are later than the last game state, in every step.

TypesInv == ServerTypes /\ ClientTypes /\ FlightTypes /\ LaterInv

LEMMA Issuing ==
    ASSUME NEW S, NEW s \in Seq(S), NEW a \in S, NEW c \in S
    PROVE  /\ s \o <<a>> = Append(s, a)
           /\ s \o <<>> \o <<c>> = Append(s, c)
           /\ s \o <<a>> \o <<c>> = Append(Append(s, a), c)
<1>1. s \o <<>> = s
  OBVIOUS
<1>2. \A t \in Seq(S), x \in S : t \o <<x>> = Append(t, x)
  OBVIOUS
<1>3. Append(s, a) \in Seq(S)
  OBVIOUS
<1>. QED  BY <1>1, <1>2, <1>3

LEMMA Appended ==
    ASSUME NEW S, NEW s \in Seq(S), NEW a \in S
    PROVE  /\ Len(Append(s, a)) = Len(s) + 1
           /\ Append(s, a)[Len(s) + 1] = a
           /\ \A j \in 1 .. Len(s) : Append(s, a)[j] = s[j]
OBVIOUS

LEMMA FirstOfList ==
    ASSUME NEW list \in SUBSET Files, list # {}
    PROVE  Min(list) \in list /\ Min(list) \in Files
<1>1. list \in SUBSET Nat
  BY Numbers
<1>. QED  BY <1>1, LeastElement

LEMMA OpeningTyped ==
    ASSUME NEW d \in DownloadType, NEW e, e = Opened(d)
    PROVE  /\ e \in DownloadType /\ e.open /\ e.name = d.name /\ e.blocks = d.blocks
           /\ d.open => e = d
           /\ ~d.open => e.clientBlock = 0 /\ e.currentBlock = 0 /\ e.xmitBlock = 0
BY DEF Opened, DownloadType

\* The places that the blocks read now go to.
New(d) == {n \in d.currentBlock .. Size[d.name] : InWindow(d, n)}
NewAt(d, i) == {n \in New(d) : n % MAX_DOWNLOAD_WINDOW = i}

LEMMA Filling ==
    ASSUME NEW d \in DownloadType, d.name \in Files, NEW e, e = Filled(d)
    PROVE  /\ e \in DownloadType /\ e.name = d.name /\ e.open = d.open
           /\ e.clientBlock = d.clientBlock /\ e.xmitBlock = d.xmitBlock
           /\ e.currentBlock = d.currentBlock + Cardinality(New(d))
           /\ \A i \in Places :
                 e.blocks[i] = IF NewAt(d, i) = {} THEN d.blocks[i] ELSE Block(d.name, Max(NewAt(d, i)))
<1>. DEFINE bs == [i \in Places |->
                      IF NewAt(d, i) = {} THEN d.blocks[i] ELSE Block(d.name, Max(NewAt(d, i)))]
            c == d.currentBlock + Cardinality(New(d))
<1>1. e = [d EXCEPT !.currentBlock = c, !.blocks = bs]
  <2>1. e = [d EXCEPT !.currentBlock = d.currentBlock + Cardinality(New(d)), !.blocks = bs]
    BY Zenon DEF Filled, New, NewAt
  <2>. QED  BY <2>1
<1>2. Size[d.name] \in Nat /\ d.currentBlock \in Nat
  BY Numbers DEF DownloadType
<1>3. c \in Nat
  <2>1. New(d) \in SUBSET (d.currentBlock .. Size[d.name])
    BY SMTT(30) DEF New
  <2>2. IsFiniteSet(d.currentBlock .. Size[d.name])
    <3>1. PICK lo \in Int, hi \in Int : lo = d.currentBlock /\ hi = Size[d.name]
      BY <1>2
    <3>2. IsFiniteSet(lo .. hi)
      BY FS_Interval
    <3>. QED  BY <3>1, <3>2
  <2>3. Cardinality(New(d)) \in Nat
    BY <2>1, <2>2, FS_Subset, FS_CardinalityType
  <2>. QED  BY <1>2, <2>3
<1>4. bs \in [Places -> Blocks]
  <2>. SUFFICES ASSUME NEW i \in Places
                PROVE  (IF NewAt(d, i) = {} THEN d.blocks[i] ELSE Block(d.name, Max(NewAt(d, i)))) \in Blocks
    OBVIOUS
  <2>1. CASE NewAt(d, i) = {}
    BY <2>1 DEF DownloadType
  <2>2. CASE NewAt(d, i) # {}
    <3>1. NewAt(d, i) \in SUBSET Nat /\ \A n \in NewAt(d, i) : n <= Size[d.name]
      BY <1>2 DEF NewAt, New
    <3>2. Max(NewAt(d, i)) \in Nat
      BY <1>2, <2>2, <3>1, GreatestElement
    <3>. QED  BY <2>2, <3>2 DEF Block, Blocks
  <2>. QED  BY <2>1, <2>2
<1>. HIDE DEF bs, c
<1>5. /\ e \in DownloadType /\ e.name = d.name /\ e.open = d.open
      /\ e.clientBlock = d.clientBlock /\ e.xmitBlock = d.xmitBlock
      /\ e.currentBlock = c /\ e.blocks = bs
  BY <1>1, <1>3, <1>4 DEF DownloadType
<1>. QED  BY <1>5, Zenon DEF bs, c

\* The block sent, and what becomes of the download.
LEMMA Transmitting ==
    ASSUME NEW d \in DownloadType, Transmit(d)
    PROVE  \E m \in ServerMessages :
              /\ m.kind = "download" /\ m.block = d.xmitBlock
              /\ m.data = d.blocks[d.xmitBlock % MAX_DOWNLOAD_WINDOW]
              /\ toClient' = Send(toClient, m)
              /\ download' = [d EXCEPT !.xmitBlock = d.xmitBlock + 1]
              /\ download' \in DownloadType /\ download'.name = d.name /\ download'.open = d.open
              /\ download'.xmitBlock = d.xmitBlock + 1 /\ download'.clientBlock = d.clientBlock
              /\ download'.currentBlock = d.currentBlock /\ download'.blocks = d.blocks
<1>. DEFINE m == [kind |-> "download", block |-> d.xmitBlock,
                  data |-> d.blocks[d.xmitBlock % MAX_DOWNLOAD_WINDOW], later |-> TRUE]
<1>1. d.xmitBlock % MAX_DOWNLOAD_WINDOW \in Places
  <2>1. d.xmitBlock \in Int /\ MAX_DOWNLOAD_WINDOW \in Nat \ {0}
    BY WindowAssumption DEF DownloadType
  <2>. QED  BY <2>1, Division DEF Places
<1>2. m \in ServerMessages
  BY <1>1 DEF ServerMessages, DownloadType
<1>3. download' = [d EXCEPT !.xmitBlock = d.xmitBlock + 1]
  BY DEF Transmit
<1>4. /\ [d EXCEPT !.xmitBlock = d.xmitBlock + 1] \in DownloadType
      /\ [d EXCEPT !.xmitBlock = d.xmitBlock + 1].name = d.name
      /\ [d EXCEPT !.xmitBlock = d.xmitBlock + 1].open = d.open
      /\ [d EXCEPT !.xmitBlock = d.xmitBlock + 1].xmitBlock = d.xmitBlock + 1
      /\ [d EXCEPT !.xmitBlock = d.xmitBlock + 1].clientBlock = d.clientBlock
      /\ [d EXCEPT !.xmitBlock = d.xmitBlock + 1].currentBlock = d.currentBlock
      /\ [d EXCEPT !.xmitBlock = d.xmitBlock + 1].blocks = d.blocks
  BY DEF DownloadType
<1>5. toClient' = Send(toClient, m)
  BY DEF Transmit
<1>. QED  BY <1>2, <1>3, <1>4, <1>5

\* The message that is sent: the window is filled, and the next block is the one after the
\* last or the oldest that is not acknowledged.
LEMMA Writing ==
    ASSUME TypesInv, SV_WriteDownloadToClient
    PROVE  \E d, e \in DownloadType, x \in Nat, m \in ServerMessages :
              /\ download.name \in Files
              /\ d = Opened(download) /\ e = Filled(d)
              /\ x \in {e.xmitBlock, e.clientBlock} /\ x # e.currentBlock
              /\ m.kind = "download" /\ m.block = x /\ m.data = e.blocks[x % MAX_DOWNLOAD_WINDOW]
              /\ toClient' = Send(toClient, m)
              /\ download' \in DownloadType /\ download'.name = e.name /\ download'.open = e.open
              /\ download'.xmitBlock = x + 1 /\ download'.clientBlock = e.clientBlock
              /\ download'.currentBlock = e.currentBlock /\ download'.blocks = e.blocks
<1>. DEFINE d == Opened(download)   e == Filled(d)
<1>1. download \in DownloadType /\ download.name \in Files
  BY DEF TypesInv, ServerTypes, Sensible, SV_WriteDownloadToClient, DownloadType
<1>2. d \in DownloadType /\ d.name = download.name
  BY <1>1, OpeningTyped
<1>. HIDE DEF d
<1>3. e \in DownloadType
  BY <1>1, <1>2, Filling
<1>4. \/ e.xmitBlock # e.currentBlock /\ Transmit(e)
      \/ e.xmitBlock = e.currentBlock /\ Restarted(e).xmitBlock # e.currentBlock /\ Transmit(Restarted(e))
  BY Zenon DEF SV_WriteDownloadToClient, d, e
<1>. HIDE DEF e
<1>5. CASE e.xmitBlock # e.currentBlock /\ Transmit(e)
  <2>1. PICK m \in ServerMessages :
              /\ m.kind = "download" /\ m.block = e.xmitBlock
              /\ m.data = e.blocks[e.xmitBlock % MAX_DOWNLOAD_WINDOW]
              /\ toClient' = Send(toClient, m)
              /\ download' = [e EXCEPT !.xmitBlock = e.xmitBlock + 1]
              /\ download' \in DownloadType /\ download'.name = e.name /\ download'.open = e.open
              /\ download'.xmitBlock = e.xmitBlock + 1 /\ download'.clientBlock = e.clientBlock
              /\ download'.currentBlock = e.currentBlock /\ download'.blocks = e.blocks
    BY <1>3, <1>5, Transmitting
  <2>2. e.xmitBlock \in Nat
    BY <1>3 DEF DownloadType
  <2>. QED  BY <1>1, <1>2, <1>3, <1>5, <2>1, <2>2, Zenon DEF d, e
<1>6. CASE /\ e.xmitBlock = e.currentBlock /\ Restarted(e).xmitBlock # e.currentBlock
           /\ Transmit(Restarted(e))
  <2>. DEFINE f == Restarted(e)
  <2>0. /\ f \in DownloadType /\ f.xmitBlock = e.clientBlock /\ e.clientBlock \in Nat /\ f.name = e.name
        /\ f.open = e.open /\ f.clientBlock = e.clientBlock /\ f.currentBlock = e.currentBlock
        /\ f.blocks = e.blocks
    BY <1>3 DEF DownloadType, Restarted
  <2>. HIDE DEF f
  <2>1. PICK m \in ServerMessages :
              /\ m.kind = "download" /\ m.block = f.xmitBlock
              /\ m.data = f.blocks[f.xmitBlock % MAX_DOWNLOAD_WINDOW]
              /\ toClient' = Send(toClient, m)
              /\ download' = [f EXCEPT !.xmitBlock = f.xmitBlock + 1]
              /\ download' \in DownloadType /\ download'.name = f.name /\ download'.open = f.open
              /\ download'.xmitBlock = f.xmitBlock + 1 /\ download'.clientBlock = f.clientBlock
              /\ download'.currentBlock = f.currentBlock /\ download'.blocks = f.blocks
    BY <1>6, <2>0, Transmitting DEF f
  <2>2. e.clientBlock # e.currentBlock
    BY <1>6, <2>0 DEF f
  <2>. QED  BY <1>1, <1>2, <1>3, <2>0, <2>1, <2>2 DEF d, e
<1>. QED  BY <1>4, <1>5, <1>6

\* A message that is not a game state changes nothing but the channel it is sent through.
LEMMA SendsToClient ==
    ASSUME TypesInv, NEW m \in ServerMessages, m.kind # "gamestate", toClient' = Send(toClient, m),
           UNCHANGED <<serverId, later, toServer, clServerId, commands>>
    PROVE  FlightTypes' /\ LaterInv'
<1>. USE DEF TypesInv, FlightTypes, LaterInv
<1>1. toClient' \in Seq(ServerMessages) /\ toClient \in Seq(ServerMessages) /\ Len(toClient) \in Nat
  BY Sending
<1>2. PICK d \in {0, 1} : Extended(toClient', toClient, m, d)
  BY Sending
<1>3. /\ Len(toClient') = Len(toClient) - d + 1
      /\ \A k \in 1 .. Len(toClient) - d : toClient'[k] = toClient[k + d]
      /\ toClient'[Len(toClient) - d + 1] = m
  BY <1>2 DEF Extended
<1>4. ASSUME NEW k \in 1 .. Len(toClient'), toClient'[k].kind = "gamestate"
      PROVE  k \in 1 .. Len(toClient) - d
  BY <1>1, <1>3, <1>4
<1>5. ASSUME NEW k \in 1 .. Len(toClient'), toClient'[k].kind = "gamestate"
      PROVE  /\ toClient'[k].serverId \in 1 .. serverId'
             /\ toClient'[k].serverId = serverId' =>
                   /\ ~later'
                   /\ \A j \in 1 .. k : ~toClient'[j].later
                   /\ \A j \in 1 .. Len(toServer') : ~toServer'[j].later
  <2>1. k \in 1 .. Len(toClient) - d
    BY <1>4, <1>5
  <2>2. k + d \in 1 .. Len(toClient) /\ toClient'[k] = toClient[k + d]
    BY <1>1, <1>3, <2>1
  <2>3. ASSUME NEW j \in 1 .. k PROVE j + d \in 1 .. k + d /\ toClient'[j] = toClient[j + d]
    <3>1. j \in 1 .. Len(toClient) - d /\ j + d \in 1 .. k + d
      BY <1>1, <2>1
    <3>. QED  BY <1>3, <3>1
  <2>. QED  BY <1>5, <2>2, <2>3
<1>6. toServer' = toServer /\ commands' = commands /\ serverId' = serverId /\ clServerId' = clServerId
  OBVIOUS
<1>7. FlightTypes'
  BY <1>1, <1>5, <1>6
<1>8. LaterInv'
  BY <1>5, <1>6
<1>. QED  BY <1>7, <1>8

LEMMA WritesTyped ==
    ASSUME TypesInv, SV_WriteDownloadToClient
    PROVE  TypesInv'
<1>1. UNCHANGED <<state, serverId, lastClientCommand, clientVars, toServer>>
  BY DEF SV_WriteDownloadToClient
<1>. USE DEF clientVars, downloadVars
<1>2. PICK d, e \in DownloadType, x \in Nat, m \in ServerMessages :
          /\ download.name \in Files
          /\ d = Opened(download) /\ e = Filled(d)
          /\ m.kind = "download"
          /\ toClient' = Send(toClient, m)
          /\ download' \in DownloadType /\ download'.name = e.name
  BY Writing
<1>3. download'.name \in Files /\ download' \in DownloadType
  <2>1. download \in DownloadType
    BY DEF TypesInv, ServerTypes, Sensible
  <2>2. d.name = download.name
    BY <1>2, <2>1, OpeningTyped
  <2>3. e.name = d.name
    BY <1>2, <2>2, Filling
  <2>. QED  BY <1>2, <2>2, <2>3
<1>4. Sensible(download')
  BY <1>3, Numbers DEF Sensible
<1>5. ServerTypes'
  BY <1>1, <1>4 DEF TypesInv, ServerTypes, Sensible
<1>6. ClientTypes'
  BY <1>1 DEF TypesInv, ClientTypes
<1>7. FlightTypes' /\ LaterInv'
  BY <1>1, <1>2, SendsToClient
<1>. QED  BY <1>5, <1>6, <1>7 DEF TypesInv

LEMMA SnapshotTyped ==
    ASSUME TypesInv, SV_SendClientSnapshot
    PROVE  TypesInv'
<1>1. UNCHANGED <<serverVars, clientVars, toServer>>
  BY DEF SV_SendClientSnapshot
<1>. USE DEF serverVars, clientVars, downloadVars
<1>2. PICK m \in ServerMessages : m.kind = "snapshot" /\ toClient' = Send(toClient, m)
  <2>. DEFINE m == [kind |-> "snapshot", later |-> TRUE]
  <2>1. m \in ServerMessages /\ m.kind = "snapshot"
    BY DEF ServerMessages
  <2>2. toClient' = Send(toClient, m)
    BY DEF SV_SendClientSnapshot
  <2>. QED  BY <2>1, <2>2
<1>3. ServerTypes'
  BY <1>1 DEF TypesInv, ServerTypes, Sensible
<1>4. ClientTypes'
  BY <1>1 DEF TypesInv, ClientTypes
<1>5. FlightTypes' /\ LaterInv'
  BY <1>1, <1>2, SendsToClient
<1>. QED  BY <1>3, <1>4, <1>5 DEF TypesInv

LEMMA SpawnsTyped ==
    ASSUME TypesInv, SV_SpawnServer
    PROVE  TypesInv'
<1>1. /\ UNCHANGED <<lastClientCommand, download, clientVars, toClient, toServer>>
      /\ serverId' = serverId + 1 /\ serverId < MaxServerId
      /\ state' \in {state, "CONNECTED"}
  BY DEF SV_SpawnServer
<1>. USE DEF clientVars, downloadVars
<1>0. serverId \in 1 .. MaxServerId /\ MaxServerId \in Nat
  BY BoundsAssumption DEF TypesInv, ServerTypes
<1>2. serverId' \in 1 .. MaxServerId
  BY <1>0, <1>1
<1>3. ServerTypes'
  BY <1>1, <1>2 DEF TypesInv, ServerTypes, Sensible, States
<1>4. ClientTypes'
  <2>1. clServerId \in 0 .. serverId'
    BY <1>0, <1>1 DEF TypesInv, ClientTypes
  <2>. QED  BY <1>1, <2>1 DEF TypesInv, ClientTypes
<1>5. FlightTypes'
  <2>1. \A k \in 1 .. Len(toClient) :
            toClient[k].kind = "gamestate" => toClient[k].serverId \in 1 .. serverId'
    BY <1>0, <1>1 DEF TypesInv, FlightTypes
  <2>2. \A k \in 1 .. Len(toServer) : toServer[k].serverId <= serverId'
    <3>. SUFFICES ASSUME NEW k \in 1 .. Len(toServer) PROVE toServer[k].serverId <= serverId'
      OBVIOUS
    <3>1. toServer[k].serverId <= serverId /\ toServer[k] \in Packets
      BY DEF TypesInv, FlightTypes
    <3>2. toServer[k].serverId \in Nat
      BY <3>1 DEF Packets
    <3>. QED  BY <1>0, <1>1, <3>1, <3>2
  <2>. QED  BY <1>1, <2>1, <2>2 DEF TypesInv, FlightTypes
<1>6. LaterInv'
  <2>1. \A k \in 1 .. Len(toClient) :
            toClient[k].kind = "gamestate" => toClient[k].serverId # serverId'
    BY <1>0, <1>1 DEF TypesInv, FlightTypes
  <2>2. clServerId # serverId'
    BY <1>0, <1>1 DEF TypesInv, ClientTypes
  <2>. QED  BY <1>1, <2>1, <2>2 DEF LaterInv
<1>. QED  BY <1>3, <1>4, <1>5, <1>6 DEF TypesInv

\* A packet of the client.
Written(p) ==
    /\ p \in Packets /\ p.serverId = clServerId /\ p.later = later /\ toServer' = Send(toServer, p)

LEMMA PacketWritten ==
    ASSUME TypesInv
    PROVE  /\ Packet \in Packets /\ Packet.serverId = clServerId /\ Packet.later = later
           /\ Packet.sequence = Len(commands)
           /\ LET p == [Packet EXCEPT !.sequence = @ + 1]
              IN  /\ p \in Packets /\ p.serverId = clServerId /\ p.later = later
                  /\ p.sequence = Len(commands) + 1
<1>1. clServerId \in Nat /\ Len(commands) \in Nat /\ later \in BOOLEAN
  BY DEF TypesInv, ServerTypes, ClientTypes
<1>2. Packet = [serverId |-> clServerId, sequence |-> Len(commands), later |-> later,
                move |-> clState = "PRIMED"]
  BY DEF Packet
<1>3. Packet \in Packets
  BY <1>1, <1>2 DEF Packets
<1>4. \A q \in Packets :
          /\ [q EXCEPT !.sequence = q.sequence + 1] \in Packets
          /\ [q EXCEPT !.sequence = q.sequence + 1].serverId = q.serverId
          /\ [q EXCEPT !.sequence = q.sequence + 1].later = q.later
          /\ [q EXCEPT !.sequence = q.sequence + 1].sequence = q.sequence + 1
  BY DEF Packets
<1>5. Packet.serverId = clServerId /\ Packet.later = later /\ Packet.sequence = Len(commands)
  BY <1>2
<1>. HIDE DEF Packet
<1>. QED  BY <1>3, <1>4, <1>5

LEMMA WrittenTyped ==
    ASSUME TypesInv, NEW p, Written(p), NEW k \in 1 .. Len(toServer')
    PROVE  /\ toServer' \in Seq(Packets)
           /\ toServer'[k] = p \/ \E j \in 1 .. Len(toServer) : toServer'[k] = toServer[j]
<1>1. toServer \in Seq(Packets)
  BY DEF TypesInv, FlightTypes
<1>2. toServer' \in Seq(Packets)
  BY <1>1, Sending DEF Written
<1>3. toServer'[k] = p \/ \E j \in 1 .. Len(toServer) : toServer'[k] = toServer[j]
  BY <1>1, Sent DEF Written
<1>. QED  BY <1>2, <1>3

LEMMA PacketTyped ==
    ASSUME TypesInv, CL_WritePacket
    PROVE  TypesInv'
<1>1. UNCHANGED <<serverVars, clientVars, toClient>> /\ toServer' = Send(toServer, Packet)
  BY DEF CL_WritePacket
<1>. USE DEF serverVars, clientVars, downloadVars
<1>2. PICK p : p = Packet /\ Written(p) /\ p.sequence = Len(commands)
  BY <1>1, PacketWritten DEF Written
<1>3. ServerTypes'
  BY <1>1 DEF TypesInv, ServerTypes, Sensible
<1>4. ClientTypes'
  BY <1>1 DEF TypesInv, ClientTypes
<1>5. toServer' \in Seq(Packets)
  BY <1>2, Sending DEF TypesInv, FlightTypes, Written
<1>6. ASSUME NEW k \in 1 .. Len(toServer')
      PROVE  /\ toServer'[k].serverId <= serverId /\ toServer'[k].sequence <= Len(commands)
             /\ toServer'[k].later =>
                   /\ clServerId = serverId => toServer'[k].serverId = serverId
                   /\ \A j \in 1 .. Len(toClient) :
                         ~(toClient[j].kind = "gamestate" /\ toClient[j].serverId = serverId)
  <2>1. CASE toServer'[k] = p
    <3>1. clServerId <= serverId /\ Len(commands) \in Nat
      BY DEF TypesInv, ClientTypes, ServerTypes
    <3>2. p.serverId = clServerId /\ p.sequence = Len(commands) /\ p.later = later
      BY <1>2 DEF Written
    <3>3. later => \A j \in 1 .. Len(toClient) :
                         ~(toClient[j].kind = "gamestate" /\ toClient[j].serverId = serverId)
      BY DEF TypesInv, LaterInv
    <3>. QED  BY <2>1, <3>1, <3>2, <3>3
  <2>2. CASE \E j \in 1 .. Len(toServer) : toServer'[k] = toServer[j]
    BY <2>2 DEF TypesInv, FlightTypes, LaterInv
  <2>. QED  BY <1>2, <2>1, <2>2, WrittenTyped
<1>7. FlightTypes'
  BY <1>1, <1>5, <1>6 DEF TypesInv, FlightTypes
<1>8. LaterInv'
  BY <1>1, <1>6 DEF TypesInv, LaterInv
<1>. QED  BY <1>3, <1>4, <1>7, <1>8 DEF TypesInv

\* What the client does with a message: it issues commands, takes the server id of a game
\* state, and may write a packet with its new commands.
Parses(m) ==
    /\ commands' \in Seq(Commands) /\ Len(commands) <= Len(commands')
    /\ clState' \in {"CONNECTED", "PRIMED"} /\ crossed' \in BOOLEAN /\ downloadRestart' \in BOOLEAN
    /\ downloadName' \in Files \union {NoFile} /\ downloadBlock' \in Nat
    /\ downloadList' \in SUBSET Files
    /\ written' \in Seq(Blocks) /\ (written' # <<>> => downloadName' # NoFile)
    /\ DOMAIN disk' \subseteq Files
    /\ \/ clServerId' = clServerId
       \/ m.kind = "gamestate" /\ clServerId' = m.serverId /\ toServer' = toServer
    /\ toServer' = toServer \/ \E p : Written(p) /\ p.sequence <= Len(commands')

LEMMA AppendsTyped ==
    ASSUME NEW s \in Seq(Commands), NEW a \in Commands, NEW c \in Commands
    PROVE  /\ Append(s, c) \in Seq(Commands) /\ Len(Append(s, c)) = Len(s) + 1
           /\ Append(Append(s, a), c) \in Seq(Commands)
           /\ Len(Append(Append(s, a), c)) = Len(s) + 2
           /\ Len(s) \in Nat
OBVIOUS

LEMMA CommandTypes ==
    /\ \A f \in Files : Command("download", f) \in Commands
    /\ \A n \in Nat : Command("nextdl", n) \in Commands
    /\ Command("stopdl", 0) \in Commands /\ Command("donedl", 0) \in Commands
BY DEF Command, Commands

LEMMA ParsesGamestate ==
    ASSUME TypesInv, NEW m, ParseGamestate(m)
    PROVE  Parses(m)
<1>0. commands \in Seq(Commands) /\ Len(commands) \in Nat
  BY DEF TypesInv, ServerTypes
<1>1. m.kind = "gamestate" /\ clServerId' = m.serverId /\ UNCHANGED <<written, disk, crossed, toServer>>
  BY DEF ParseGamestate
<1>. DEFINE missing == Files \ DOMAIN disk
<1>2. CASE /\ missing # {} /\ clState' = "CONNECTED"
           /\ CL_BeginDownload(missing, <<>>)
  <2>1. Min(missing) \in missing /\ Min(missing) \in Files
    <3>. missing \in SUBSET Files
      OBVIOUS
    <3>. HIDE DEF missing
    <3>. QED  BY <1>2, FirstOfList
  <2>. HIDE DEF missing
  <2>2. /\ downloadName' = Min(missing) /\ downloadBlock' = 0 /\ downloadRestart' = TRUE
        /\ downloadList' = missing \ {Min(missing)}
        /\ commands' = commands \o <<>> \o <<Command("download", Min(missing))>>
    BY <1>2, Zenon DEF CL_BeginDownload
  <2>3. Command("download", Min(missing)) \in Commands
    BY <2>1, CommandTypes
  <2>4. commands' = Append(commands, Command("download", Min(missing)))
    BY <1>0, <2>2, <2>3, Issuing
  <2>5. commands' \in Seq(Commands) /\ Len(commands') = Len(commands) + 1
    BY <1>0, <2>3, <2>4, AppendsTyped
  <2>6. downloadName' \in Files /\ downloadName' # NoFile /\ downloadList' \in SUBSET Files
    BY <2>1, <2>2, Numbers DEF missing
  <2>. QED  BY <1>0, <1>1, <1>2, <2>2, <2>5, <2>6 DEF Parses, TypesInv, ClientTypes
<1>3. CASE /\ clState' = "PRIMED"
           /\ UNCHANGED <<downloadName, downloadBlock, downloadList, downloadRestart, commands>>
  BY <1>0, <1>1, <1>3 DEF Parses, TypesInv, ClientTypes
<1>. QED  BY <1>2, <1>3, Zenon DEF ParseGamestate

LEMMA ParsesDownload ==
    ASSUME TypesInv, NEW m \in ServerMessages, m.kind = "download", CL_ParseDownload(m)
    PROVE  Parses(m)
<1>0. commands \in Seq(Commands) /\ Len(commands) \in Nat
  BY DEF TypesInv, ServerTypes
<1>1. clState' = clState /\ clServerId' = clServerId
  BY DEF CL_ParseDownload
<1>2. CASE ParseUnwanted(m)
  <2>1. UNCHANGED <<downloadVars, toServer>>
    BY <1>2 DEF ParseUnwanted
  <2>2. commands' = commands \/ commands' = Append(commands, Command("stopdl", 0))
    BY <1>2, Zenon DEF ParseUnwanted
  <2>3. commands' \in Seq(Commands) /\ Len(commands) <= Len(commands')
    BY <1>0, <2>2, CommandTypes, AppendsTyped
  <2>. QED  BY <1>1, <2>1, <2>3 DEF Parses, TypesInv, ClientTypes, downloadVars
<1>3. CASE UNCHANGED <<commands, downloadVars, toServer>>
  BY <1>0, <1>1, <1>3 DEF Parses, TypesInv, ClientTypes, downloadVars
<1>4. CASE downloadName # NoFile /\ ParseBlock(m)
  <2>1. /\ written' = Append(written, m.data) /\ downloadBlock' = downloadBlock + 1
        /\ commands' = commands \o <<Command("nextdl", downloadBlock)>>
        /\ UNCHANGED <<downloadName, downloadList, downloadRestart, disk, toServer>>
        /\ crossed' = (crossed \/ m.data[1] # downloadName)
    BY <1>4 DEF ParseBlock, Acknowledgement, TakeBlock
  <2>2. downloadBlock \in Nat /\ written \in Seq(Blocks) /\ crossed \in BOOLEAN
    BY DEF TypesInv, ClientTypes
  <2>3. m.data \in Blocks
    BY DEF ServerMessages
  <2>4. Command("nextdl", downloadBlock) \in Commands
    BY <2>2, CommandTypes
  <2>5. commands' = Append(commands, Command("nextdl", downloadBlock))
    BY <1>0, <2>1, <2>4, Issuing
  <2>6. commands' \in Seq(Commands) /\ Len(commands) <= Len(commands')
    BY <1>0, <2>4, <2>5, AppendsTyped
  <2>7. written' \in Seq(Blocks) /\ downloadBlock' \in Nat
    BY <2>1, <2>2, <2>3
  <2>8. crossed' \in BOOLEAN
    BY <2>1
  <2>. QED  BY <1>1, <1>4, <2>1, <2>6, <2>7, <2>8 DEF Parses, TypesInv, ClientTypes
<1>5. CASE downloadName # NoFile /\ ParseEndOfFile(m)
  <2>. DEFINE p == [Packet EXCEPT !.sequence = @ + 1]
              a == Command("nextdl", downloadBlock)
  <2>1. /\ written' = <<>> /\ DOMAIN disk' = DOMAIN disk \union {downloadName}
        /\ crossed' = (crossed \/ m.data[1] # downloadName)
        /\ toServer' = Send(toServer, p)
        /\ CL_NextDownload(<<a>>)
    BY <1>5 DEF ParseEndOfFile, Acknowledgement, TakeBlock
  <2>2. p \in Packets /\ p.serverId = clServerId /\ p.later = later /\ p.sequence = Len(commands) + 1
    BY PacketWritten
  <2>. HIDE DEF p
  <2>3. Written(p)
    BY <2>1, <2>2 DEF Written
  <2>4. /\ downloadBlock \in Nat /\ downloadList \in SUBSET Files
        /\ DOMAIN disk \subseteq Files /\ downloadName \in Files
    BY <1>5 DEF TypesInv, ClientTypes
  <2>5. a \in Commands
    BY <2>4, CommandTypes
  <2>. HIDE DEF a
  <2>6. /\ downloadName' \in Files \union {NoFile} /\ downloadBlock' \in Nat
        /\ downloadList' \in SUBSET Files /\ downloadRestart' \in BOOLEAN
        /\ \E c \in Commands : commands' = Append(Append(commands, a), c)
    <3>1. CASE downloadList # {} /\ CL_BeginDownload(downloadList, <<a>>)
      <4>1. Min(downloadList) \in downloadList /\ Min(downloadList) \in Files
        BY <2>4, <3>1, FirstOfList
      <4>2. /\ downloadName' = Min(downloadList) /\ downloadBlock' = 0 /\ downloadRestart' = TRUE
            /\ downloadList' = downloadList \ {Min(downloadList)}
            /\ commands' = commands \o <<a>> \o <<Command("download", Min(downloadList))>>
        BY <3>1, Zenon DEF CL_BeginDownload
      <4>3. Command("download", Min(downloadList)) \in Commands
        BY <4>1, CommandTypes
      <4>4. commands' = Append(Append(commands, a), Command("download", Min(downloadList)))
        BY <1>0, <2>5, <4>2, <4>3, Issuing
      <4>. QED  BY <2>4, <4>1, <4>2, <4>3, <4>4
    <3>2. CASE /\ downloadList = {} /\ RequestGameState(<<a>>) /\ downloadName' = NoFile
               /\ UNCHANGED <<downloadBlock, downloadList>>
      <4>1. /\ downloadRestart' = FALSE
            /\ commands' = commands \o <<a>> \o <<Command("donedl", 0)>>
        BY <3>2, Zenon DEF RequestGameState
      <4>2. commands' = Append(Append(commands, a), Command("donedl", 0))
        BY <1>0, <2>5, <4>1, CommandTypes, Issuing
      <4>. QED  BY <2>4, <3>2, <4>1, <4>2, CommandTypes
    <3>. QED  BY <2>1, <3>1, <3>2, Zenon DEF CL_NextDownload
  <2>7. commands' \in Seq(Commands) /\ Len(commands') = Len(commands) + 2
    BY <1>0, <2>5, <2>6, AppendsTyped
  <2>8. crossed' \in BOOLEAN /\ DOMAIN disk' \subseteq Files
    BY <2>1, <2>4
  <2>9. written' \in Seq(Blocks) /\ (written' # <<>> => downloadName' # NoFile)
    BY <2>1
  <2>10. p.sequence <= Len(commands') /\ Len(commands) <= Len(commands')
    BY <1>0, <2>2, <2>7
  <2>11. clState' \in {"CONNECTED", "PRIMED"}
    BY <1>1 DEF TypesInv, ClientTypes
  <2>. QED  BY <1>1, <2>3, <2>6, <2>7, <2>8, <2>9, <2>10, <2>11 DEF Parses
<1>. QED  BY <1>2, <1>3, <1>4, <1>5, Zenon DEF CL_ParseDownload

LEMMA ReceivesTyped ==
    ASSUME TypesInv, NEW k \in 1 .. Len(toClient), Receive(k)
    PROVE  TypesInv'
<1>. DEFINE m == toClient[k]
<1>0. /\ toClient \in Seq(ServerMessages) /\ Len(toClient) \in Nat /\ m \in ServerMessages
      /\ commands \in Seq(Commands) /\ Len(commands) \in Nat /\ toServer \in Seq(Packets)
      /\ Len(toServer) \in Nat
  BY DEF TypesInv, FlightTypes, ServerTypes
<1>. HIDE DEF m
<1>1. /\ UNCHANGED serverVars /\ later' = m.later /\ toClient' = After(toClient, k)
      /\ ParseGamestate(m) \/ CL_ParseDownload(m) \/ ParseSnapshot(m)
  BY Zenon DEF Receive, m
<1>2. Parses(m)
  <2>1. CASE ParseGamestate(m)
    BY <2>1, ParsesGamestate
  <2>2. CASE CL_ParseDownload(m)
    <3>1. m.kind = "download"
      BY <2>2 DEF CL_ParseDownload
    <3>. QED  BY <1>0, <2>2, <3>1, ParsesDownload
  <2>3. CASE ParseSnapshot(m)
    BY <1>0, <2>3 DEF ParseSnapshot, Parses, TypesInv, ClientTypes, clientVars, downloadVars
  <2>. QED  BY <1>1, <2>1, <2>2, <2>3
<1>3. /\ toClient' \in Seq(ServerMessages) /\ Len(toClient') = Len(toClient) - k
      /\ \A i \in 1 .. Len(toClient') : i + k \in 1 .. Len(toClient) /\ toClient'[i] = toClient[i + k]
  BY <1>0, <1>1, Remaining
<1>4. toServer' \in Seq(Packets)
  BY <1>0, <1>2, Sending DEF Parses, Written
<1>5. ASSUME NEW j \in 1 .. Len(toServer')
      PROVE  \/ \E i \in 1 .. Len(toServer) : toServer'[j] = toServer[i]
             \/ /\ toServer'[j].serverId = clServerId /\ toServer'[j].later = later
                /\ toServer'[j].sequence <= Len(commands')
                /\ clServerId' = clServerId \/ toServer' = toServer
  <2>1. CASE toServer' = toServer
    BY <2>1
  <2>2. CASE \E p : Written(p) /\ p.sequence <= Len(commands')
    BY <1>2, <2>2, WrittenTyped DEF Written, Parses
  <2>. QED  BY <1>2, <2>1, <2>2 DEF Parses
<1>6. ServerTypes'
  <2>1. Len(commands') \in Nat /\ lastClientCommand \in 0 .. Len(commands')
    <3>1. Len(commands) <= Len(commands') /\ commands' \in Seq(Commands)
      BY <1>2 DEF Parses
    <3>2. Len(commands') \in Nat
      BY <3>1
    <3>3. lastClientCommand \in 0 .. Len(commands)
      BY DEF TypesInv, ServerTypes
    <3>. QED  BY <1>0, <3>1, <3>2, <3>3
  <2>. QED  BY <1>1, <1>2, <2>1 DEF TypesInv, ServerTypes, Sensible, serverVars, Parses
<1>7. clServerId' \in 0 .. serverId
  <2>1. serverId \in Nat
    BY DEF TypesInv, ServerTypes
  <2>2. m.kind = "gamestate" => m.serverId \in 1 .. serverId
    BY DEF TypesInv, FlightTypes, m
  <2>. QED  BY <1>2, <2>1, <2>2 DEF Parses, TypesInv, ClientTypes
<1>8. ClientTypes'
  <2>1. later' \in BOOLEAN
    BY <1>0, <1>1 DEF ServerMessages
  <2>. QED  BY <1>1, <1>2, <1>7, <2>1 DEF ClientTypes, Parses, serverVars
<1>9. FlightTypes'
  <2>1. \A i \in 1 .. Len(toClient') :
            toClient'[i].kind = "gamestate" => toClient'[i].serverId \in 1 .. serverId'
    BY <1>1, <1>3 DEF TypesInv, FlightTypes, serverVars
  <2>2. ASSUME NEW j \in 1 .. Len(toServer')
        PROVE  toServer'[j].serverId <= serverId' /\ toServer'[j].sequence <= Len(commands')
    <3>1. CASE \E i \in 1 .. Len(toServer) : toServer'[j] = toServer[i]
      <4>1. PICK i \in 1 .. Len(toServer) : toServer'[j] = toServer[i]
        BY <3>1
      <4>2. toServer[i].serverId <= serverId /\ toServer[i].sequence <= Len(commands) /\ toServer[i] \in Packets
        BY <1>0 DEF TypesInv, FlightTypes
      <4>3. toServer[i].sequence \in Nat /\ Len(commands) <= Len(commands') /\ Len(commands') \in Nat
        BY <1>2, <4>2 DEF Parses, Packets
      <4>4. toServer[i].sequence <= Len(commands')
        BY <1>0, <4>2, <4>3
      <4>. QED  BY <1>1, <4>1, <4>2, <4>4 DEF serverVars
    <3>2. CASE toServer'[j].serverId = clServerId /\ toServer'[j].sequence <= Len(commands')
      <4>1. clServerId <= serverId'
        BY <1>1 DEF TypesInv, ClientTypes, serverVars
      <4>. QED  BY <3>2, <4>1
    <3>. QED  BY <1>5, <3>1, <3>2
  <2>. QED  BY <1>3, <1>4, <2>1, <2>2 DEF FlightTypes
<1>10. LaterInv'
  <2>1. ASSUME NEW i \in 1 .. Len(toClient'), toClient'[i].kind = "gamestate",
               toClient'[i].serverId = serverId'
        PROVE  /\ ~later'
               /\ \A j \in 1 .. i : ~toClient'[j].later
               /\ \A j \in 1 .. Len(toServer') : ~toServer'[j].later
    <3>1. i + k \in 1 .. Len(toClient) /\ toClient'[i] = toClient[i + k] /\ serverId' = serverId
      BY <1>1, <1>3 DEF serverVars
    <3>2. /\ ~later /\ \A j \in 1 .. i + k : ~toClient[j].later
          /\ \A j \in 1 .. Len(toServer) : ~toServer[j].later
      BY <2>1, <3>1 DEF TypesInv, LaterInv
    <3>3. ASSUME NEW j \in 1 .. i PROVE ~toClient'[j].later
      <4>1. j \in 1 .. Len(toClient') /\ j + k \in 1 .. i + k
        BY <1>0, <1>3
      <4>. QED  BY <1>3, <3>2, <4>1
    <3>4. ~later'
      <4>1. k \in 1 .. i + k
        OBVIOUS
      <4>. QED  BY <1>1, <3>2, <4>1 DEF m
    <3>. QED  BY <1>5, <3>2, <3>3, <3>4
  <2>2. ASSUME clServerId' = serverId', NEW j \in 1 .. Len(toServer'), toServer'[j].later
        PROVE  toServer'[j].serverId = serverId'
    <3>1. CASE clServerId' = clServerId
      <4>1. serverId' = serverId /\ clServerId = serverId
        BY <1>1, <2>2, <3>1 DEF serverVars
      <4>. QED  BY <1>5, <2>2, <4>1 DEF TypesInv, LaterInv
    <3>2. CASE m.kind = "gamestate" /\ clServerId' = m.serverId /\ toServer' = toServer
      <4>1. serverId' = serverId /\ m.serverId = serverId
        BY <1>1, <2>2, <3>2 DEF serverVars
      <4>2. ~toServer[j].later
        BY <2>2, <3>2, <4>1 DEF TypesInv, LaterInv, m
      <4>. QED  BY <2>2, <3>2, <4>2
    <3>. QED  BY <1>2, <3>1, <3>2 DEF Parses
  <2>. QED  BY <2>1, <2>2 DEF LaterInv
<1>. QED  BY <1>6, <1>8, <1>9, <1>10 DEF TypesInv

\* The server before it executes a packet.
Before == [state |-> state, download |-> download, toClient |-> toClient, gamestate |-> FALSE]

\* The commands of a packet lead through t to t[n].
Commanded(m, n, t) ==
    /\ n \in Nat /\ Runs(t, Before, n)
    /\ lastClientCommand' = lastClientCommand + n
    /\ lastClientCommand + n <= Len(commands)
    /\ n = 0 \/ lastClientCommand + n = m.sequence

\* What executing packet k leads to.
Outcome(k, m, new) ==
    /\ k \in 1 .. Len(toServer) /\ m = toServer[k] /\ m \in Packets
    /\ state # "ZOMBIE"
    /\ state' = new.state /\ download' = new.download /\ toClient' = new.toClient
    /\ later' = (later /\ ~new.gamestate)
    /\ toServer' = IF new.gamestate THEN Earlier(After(toServer, k)) ELSE After(toServer, k)
    /\ UNCHANGED <<serverId, clState, clServerId, commands, downloadVars>>
    /\ \/ OfOtherMap(m) /\ lastClientCommand' = lastClientCommand /\ new = Before
       \/ /\ OfOtherMap(m) /\ lastClientCommand' = lastClientCommand
          /\ m.later /\ new = SV_SendClientGameState(Before)
       \/ /\ ~OfOtherMap(m)
          /\ \E n, t : Commanded(m, n, t) /\ new = ExecuteMove(t[n], m)

LEMMA Execution ==
    ASSUME TypesInv, SV_ExecuteClientMessage
    PROVE  \E k, m, new : Outcome(k, m, new)
<1>1. PICK k \in 1 .. Len(toServer) :
          LET m == toServer[k]
              rest == After(toServer, k)
              new == IF ~OfOtherMap(m) THEN Executed(Before, m)
                     ELSE IF state # "ACTIVE" /\ m.later THEN SV_SendClientGameState(Before)
                     ELSE Before
          IN  /\ Update(new)
              /\ toServer' = IF new.gamestate THEN Earlier(rest) ELSE rest
              /\ lastClientCommand' =
                    IF OfOtherMap(m) THEN lastClientCommand ELSE Max({lastClientCommand, m.sequence})
  BY Zenon DEF SV_ExecuteClientMessage, Before
<1>2. PICK m : m = toServer[k]
  OBVIOUS
<1>3. PICK new : new = IF ~OfOtherMap(m) THEN Executed(Before, m)
                       ELSE IF state # "ACTIVE" /\ m.later THEN SV_SendClientGameState(Before)
                       ELSE Before
  BY Zenon
<1>4. /\ Update(new)
      /\ toServer' = IF new.gamestate THEN Earlier(After(toServer, k)) ELSE After(toServer, k)
      /\ lastClientCommand' =
            IF OfOtherMap(m) THEN lastClientCommand ELSE Max({lastClientCommand, m.sequence})
  BY <1>1, <1>2, <1>3, Zenon
<1>5. /\ state' = new.state /\ download' = new.download /\ toClient' = new.toClient
      /\ later' = (later /\ ~new.gamestate)
  BY <1>4, Zenon DEF Update
<1>6. UNCHANGED <<serverId, clState, clServerId, commands, downloadVars>> /\ state # "ZOMBIE"
  BY Zenon DEF SV_ExecuteClientMessage
<1>7. m \in Packets /\ m.sequence <= Len(commands)
  <2>1. toServer \in Seq(Packets)
    BY DEF TypesInv, FlightTypes
  <2>2. m \in Packets
    BY <1>2, <2>1
  <2>. QED  BY <1>2, <2>2 DEF TypesInv, FlightTypes
<1>8. CASE OfOtherMap(m)
  <2>1. lastClientCommand' = lastClientCommand
    BY <1>4, <1>8, Zenon
  <2>2. new = Before \/ (m.later /\ new = SV_SendClientGameState(Before))
    BY <1>3, <1>8, Zenon
  <2>. QED  BY <1>2, <1>4, <1>5, <1>6, <1>7, <1>8, <2>1, <2>2, Zenon DEF Outcome
<1>9. CASE ~OfOtherMap(m)
  <2>1. new = Executed(Before, m) /\ lastClientCommand' = Max({lastClientCommand, m.sequence})
    BY <1>3, <1>4, <1>9, Zenon
  <2>2. ServerTypes
    BY DEF TypesInv
  <2>3. \E n \in Nat : \E t :
            /\ Runs(t, Before, n) /\ Executed(Before, m) = ExecuteMove(t[n], m)
            /\ Max({lastClientCommand, m.sequence}) = lastClientCommand + n
            /\ lastClientCommand + n <= Len(commands)
            /\ n = 0 \/ lastClientCommand + n = m.sequence
    BY <1>7, <2>2, Running, Zenon
  <2>4. \E n, t : Commanded(m, n, t) /\ new = ExecuteMove(t[n], m)
    BY <2>1, <2>3, Zenon DEF Commanded
  <2>. QED  BY <1>2, <1>4, <1>5, <1>6, <1>7, <1>9, <2>4, Zenon DEF Outcome
<1>. QED  BY <1>8, <1>9

LEMMA BeforeTyped ==
    ASSUME TypesInv
    PROVE  Typed(Before, toClient) /\ Before \in Services /\ ~Before.gamestate
<1>1. /\ state \in States /\ download \in DownloadType /\ Sensible(download)
      /\ toClient \in Seq(ServerMessages)
  BY DEF TypesInv, ServerTypes, FlightTypes, Sensible
<1>2. /\ Before \in Services /\ Before.download = download /\ Before.toClient = toClient
      /\ ~Before.gamestate
  BY <1>1 DEF Before, Services
<1>. QED  BY <1>1, <1>2 DEF Typed, TypesInv, FlightTypes

LEMMA MoveTyped ==
    ASSUME NEW channel, NEW sv, Typed(sv, channel), NEW m, NEW r, r = ExecuteMove(sv, m)
    PROVE  /\ Typed(r, channel) /\ r.download = sv.download /\ r.toClient = sv.toClient
           /\ r.gamestate = sv.gamestate
           /\ sv.state # "ZOMBIE" => r.state # "ZOMBIE"
<1>1. sv \in Services /\ Sensible(sv.download)
  BY DEF Typed
<1>2. CASE r = sv
  BY <1>2
<1>3. CASE r = [sv EXCEPT !.state = "ACTIVE"]
  <2>1. /\ r \in Services /\ r.download = sv.download /\ r.toClient = sv.toClient
        /\ r.gamestate = sv.gamestate /\ r.state # "ZOMBIE"
    BY <1>1, <1>3 DEF Services, States
  <2>. QED  BY <1>1, <2>1, StaysTyped
<1>. QED  BY <1>2, <1>3, Zenon DEF ExecuteMove

LEMMA OutcomeTyped ==
    ASSUME TypesInv, NEW k, NEW m, NEW new, Outcome(k, m, new)
    PROVE  Typed(new, toClient)
<1>0. Typed(Before, toClient) /\ serverId \in Nat \ {0} /\ ServerTypes
  BY BeforeTyped DEF TypesInv, ServerTypes
<1>1. CASE new = Before
  BY <1>0, <1>1
<1>2. CASE new = SV_SendClientGameState(Before)
  <2>1. /\ new \in Services /\ new.gamestate /\ new.download = Before.download
    BY <1>0, <1>2, SendingGameState DEF Typed
  <2>2. PICK d \in {0, 1} :
            /\ Len(new.toClient) = Len(Before.toClient) - d + 1
            /\ \A i \in 1 .. Len(Before.toClient) - d : Aged(new.toClient[i], Before.toClient[i + d])
            /\ new.toClient[Len(Before.toClient) - d + 1] =
                  [kind |-> "gamestate", serverId |-> serverId, later |-> FALSE]
    BY <1>0, <1>2, SendingGameState DEF Typed
  <2>3. ASSUME NEW i \in 1 .. Len(new.toClient)
        PROVE  /\ ~new.toClient[i].later
               /\ new.toClient[i].kind = "gamestate" => new.toClient[i].serverId \in 1 .. serverId
    <3>0. Len(Before.toClient) \in Nat
      BY <1>0 DEF Services, Typed
    <3>1. CASE i \in 1 .. Len(Before.toClient) - d
      <4>1. i + d \in 1 .. Len(Before.toClient)
        BY <3>0, <3>1
      <4>2. Aged(new.toClient[i], Before.toClient[i + d])
        BY <2>2, <3>1
      <4>. QED  BY <1>0, <4>1, <4>2 DEF Aged, Typed
    <3>2. CASE i = Len(Before.toClient) - d + 1
      BY <1>0, <2>2, <3>2
    <3>. QED  BY <2>2, <3>0, <3>1, <3>2
  <2>. QED  BY <1>0, <2>1, <2>3 DEF Typed
<1>3. CASE \E n, t : Commanded(m, n, t) /\ new = ExecuteMove(t[n], m)
  <2>1. PICK n, t : Commanded(m, n, t) /\ new = ExecuteMove(t[n], m)
    BY <1>3
  <2>2. n \in Nat /\ n \in 0 .. n /\ Runs(t, Before, n) /\ lastClientCommand + n <= Len(commands)
    BY <2>1 DEF Commanded
  <2>3. Typed(t[n], toClient)
    BY <1>0, <2>2, RunsTyped
  <2>. QED  BY <2>1, <2>3, MoveTyped
<1>. QED  BY <1>1, <1>2, <1>3 DEF Outcome

\* The packets behind the one that is executed.
LEMMA OutcomePackets ==
    ASSUME TypesInv, NEW k, NEW m, NEW new, Outcome(k, m, new)
    PROVE  /\ toServer' \in Seq(Packets) /\ Len(toServer') = Len(toServer) - k
           /\ \A j \in 1 .. Len(toServer') :
                 /\ j + k \in 1 .. Len(toServer)
                 /\ toServer'[j].serverId = toServer[j + k].serverId
                 /\ toServer'[j].sequence = toServer[j + k].sequence
                 /\ toServer'[j].later => toServer[j + k].later /\ ~new.gamestate
<1>1. toServer \in Seq(Packets) /\ k \in 1 .. Len(toServer)
  BY DEF TypesInv, FlightTypes, Outcome
<1>2. PICK rest : rest = After(toServer, k)
  OBVIOUS
<1>3. /\ rest \in Seq(Packets) /\ Len(rest) = Len(toServer) - k
      /\ \A j \in 1 .. Len(rest) : j + k \in 1 .. Len(toServer) /\ rest[j] = toServer[j + k]
  BY <1>1, <1>2, Remaining
<1>4. CASE new.gamestate
  <2>1. toServer' = Earlier(rest)
    BY <1>2, <1>4 DEF Outcome
  <2>2. /\ Earlier(rest) \in Seq(Packets) /\ Len(Earlier(rest)) = Len(rest)
        /\ \A j \in 1 .. Len(rest) :
              /\ ~Earlier(rest)[j].later
              /\ Earlier(rest)[j].serverId = rest[j].serverId
              /\ Earlier(rest)[j].sequence = rest[j].sequence
    BY <1>3, AgedPackets
  <2>. QED  BY <1>3, <2>1, <2>2
<1>5. CASE ~new.gamestate
  <2>1. toServer' = rest
    BY <1>2, <1>5 DEF Outcome
  <2>. QED  BY <1>3, <1>5, <2>1
<1>. QED  BY <1>4, <1>5

LEMMA ExecutionTyped ==
    ASSUME TypesInv, SV_ExecuteClientMessage
    PROVE  TypesInv'
<1>1. PICK k, m, new : Outcome(k, m, new)
  BY Execution
<1>2. Typed(new, toClient)
  BY <1>1, OutcomeTyped
<1>3. /\ toServer' \in Seq(Packets) /\ Len(toServer') = Len(toServer) - k
      /\ \A j \in 1 .. Len(toServer') :
            /\ j + k \in 1 .. Len(toServer)
            /\ toServer'[j].serverId = toServer[j + k].serverId
            /\ toServer'[j].sequence = toServer[j + k].sequence
            /\ toServer'[j].later => toServer[j + k].later /\ ~new.gamestate
  BY <1>1, OutcomePackets
<1>4. /\ state' = new.state /\ download' = new.download /\ toClient' = new.toClient
      /\ later' = (later /\ ~new.gamestate)
      /\ UNCHANGED <<serverId, clState, clServerId, commands, downloadVars>>
  BY <1>1 DEF Outcome
<1>5. lastClientCommand' \in 0 .. Len(commands)
  <2>0. lastClientCommand \in 0 .. Len(commands) /\ Len(commands) \in Nat
    BY DEF TypesInv, ServerTypes
  <2>1. CASE lastClientCommand' = lastClientCommand
    BY <2>0, <2>1
  <2>2. CASE \E n, t : Commanded(m, n, t)
    BY <2>0, <2>2 DEF Commanded
  <2>. QED  BY <1>1, <2>1, <2>2 DEF Outcome
<1>6. ServerTypes'
  BY <1>2, <1>4, <1>5 DEF TypesInv, ServerTypes, Typed, Services, Sensible
<1>7. ClientTypes'
  BY <1>4 DEF TypesInv, ClientTypes, downloadVars
<1>8. FlightTypes'
  <2>1. toClient' \in Seq(ServerMessages)
    BY <1>2, <1>4 DEF Typed, Services
  <2>2. \A i \in 1 .. Len(toClient') :
            toClient'[i].kind = "gamestate" => toClient'[i].serverId \in 1 .. serverId'
    BY <1>2, <1>4 DEF Typed
  <2>3. \A j \in 1 .. Len(toServer') :
            toServer'[j].serverId <= serverId' /\ toServer'[j].sequence <= Len(commands')
    BY <1>3, <1>4 DEF TypesInv, FlightTypes
  <2>. QED  BY <1>3, <2>1, <2>2, <2>3 DEF FlightTypes
<1>9. LaterInv'
  <2>1. CASE new.gamestate
    <3>1. /\ ~later' /\ \A i \in 1 .. Len(toClient') : ~toClient'[i].later
          /\ \A j \in 1 .. Len(toServer') : ~toServer'[j].later
      BY <1>2, <1>3, <1>4, <2>1 DEF Typed
    <3>2. \A i \in 1 .. Len(toClient') : \A j \in 1 .. i : j \in 1 .. Len(toClient')
      OBVIOUS
    <3>. QED  BY <3>1, <3>2 DEF LaterInv
  <2>2. CASE ~new.gamestate
    <3>1. toClient' = toClient /\ later' = later /\ serverId' = serverId /\ clServerId' = clServerId
      BY <1>2, <1>4, <2>2 DEF Typed, TypesInv, ClientTypes
    <3>. QED  BY <1>3, <3>1 DEF TypesInv, LaterInv
  <2>. QED  BY <2>1, <2>2
<1>. QED  BY <1>6, <1>7, <1>8, <1>9 DEF TypesInv

LEMMA TypesInitially == Init => TypesInv
<1>. SUFFICES ASSUME Init PROVE TypesInv
  OBVIOUS
<1>. USE DEF Init
<1>1. ServerTypes
  <2>1. Sensible(NoDownload)
    BY DEF Sensible, NoDownload, DownloadType, Blocks
  <2>2. 1 \in 1 .. MaxServerId
    BY BoundsAssumption
  <2>. QED  BY <2>1, <2>2 DEF ServerTypes, States
<1>2. ClientTypes
  <2>1. DOMAIN disk = {} /\ written \in Seq(Blocks) /\ downloadList \in SUBSET Files
    OBVIOUS
  <2>2. clServerId \in 0 .. serverId /\ downloadBlock \in Nat
    OBVIOUS
  <2>. QED  BY <2>1, <2>2 DEF ClientTypes
<1>3. FlightTypes
  BY DEF FlightTypes
<1>4. LaterInv
  BY DEF LaterInv
<1>. QED  BY <1>1, <1>2, <1>3, <1>4 DEF TypesInv

LEMMA TypesStep == TypesInv /\ [Next]_vars => TypesInv'
<1>. SUFFICES ASSUME TypesInv, [Next]_vars PROVE TypesInv'
  OBVIOUS
<1>1. CASE SV_WriteDownloadToClient
  BY <1>1, WritesTyped
<1>2. CASE SV_SendClientSnapshot
  BY <1>2, SnapshotTyped
<1>3. CASE SV_SpawnServer
  BY <1>3, SpawnsTyped
<1>4. CASE SV_ExecuteClientMessage
  BY <1>4, ExecutionTyped
<1>5. CASE CL_WritePacket
  BY <1>5, PacketTyped
<1>6. CASE CL_ParseServerMessage
  <2>1. PICK k \in 1 .. Len(toClient) : Receive(k)
    BY <1>6 DEF CL_ParseServerMessage
  <2>. QED  BY <2>1, ReceivesTyped
<1>7. CASE UNCHANGED vars
  BY <1>7 DEF vars, serverVars, clientVars, downloadVars, TypesInv, ServerTypes, ClientTypes, FlightTypes,
              LaterInv, Sensible
<1>. QED  BY <1>1, <1>2, <1>3, <1>4, <1>5, <1>6, <1>7 DEF Next

-----------------------------------------------------------------------------
\* The window.

\* Reading blocks up to the end of the window.
LEMMA FillsWindow ==
    ASSUME NEW d \in DownloadType, d.name \in Files, Window(d), d.clientBlock <= d.currentBlock,
           NEW e, e = Filled(d)
    PROVE  /\ Window(e) /\ d.currentBlock <= e.currentBlock
           /\ \A i \in Places : e.blocks[i] = d.blocks[i] \/ e.blocks[i][1] = d.name
<1>. DEFINE W == MAX_DOWNLOAD_WINDOW
<1>0. /\ Size[d.name] \in Nat /\ W \in Nat \ {0}
      /\ d.currentBlock \in Nat /\ d.clientBlock \in Nat
  BY Numbers, WindowAssumption DEF DownloadType
<1>1. PICK a \in Nat : a = d.currentBlock
  BY <1>0
<1>2. PICK c \in Nat : c = d.clientBlock
  BY <1>0
<1>3. PICK s \in Nat : s = Size[d.name]
  BY <1>0
<1>4. PICK b \in Nat : b = IF s + 1 <= c + W THEN s + 1 ELSE c + W
  BY <1>0
<1>5. a <= b /\ b <= s + 1 /\ b <= c + W
  <2>1. a <= c + W /\ a <= s + 1
    BY <1>1, <1>2, <1>3 DEF Window
  <2>. QED  BY <1>0, <1>4, <2>1
<1>6. New(d) = a .. b - 1
  <2>1. New(d) = {n \in a .. s : n - c < W}
    BY <1>1, <1>2, <1>3 DEF New, InWindow
  <2>. QED  BY <1>0, <1>4, <2>1
<1>7. Cardinality(New(d)) = b - a
  <2>1. Cardinality(a .. b - 1) = IF a > b - 1 THEN 0 ELSE (b - 1) - a + 1
    BY FS_Interval
  <2>. QED  BY <1>5, <1>6, <2>1
<1>8. /\ e.name = d.name /\ e.clientBlock = d.clientBlock
      /\ e.currentBlock = d.currentBlock + Cardinality(New(d))
      /\ \A i \in Places :
            e.blocks[i] = IF NewAt(d, i) = {} THEN d.blocks[i] ELSE Block(d.name, Max(NewAt(d, i)))
  BY Filling
<1>9. e.currentBlock = b
  BY <1>1, <1>5, <1>7, <1>8
<1>10. \A k \in Nat : k % W \in Places
  BY <1>0, Division DEF Places
<1>11. c <= a
  BY <1>1, <1>2
<1>12. ASSUME NEW k \in a .. b - 1
       PROVE  e.blocks[k % W] = Block(d.name, k)
  <2>1. k \in NewAt(d, k % W)
    BY <1>6 DEF NewAt
  <2>2. ASSUME NEW n \in NewAt(d, k % W) PROVE n = k
    <3>1. n \in a .. b - 1 /\ n % W = k % W
      BY <1>6, <2>2 DEF NewAt
    <3>2. k < n + W /\ n < k + W
      BY <1>0, <1>5, <1>11, <3>1
    <3>. n \in Int /\ k \in Int /\ W \in Nat \ {0}
      BY <1>0, <3>1
    <3>. HIDE DEF W
    <3>3. ASSUME n < k PROVE FALSE
      BY <3>1, <3>2, <3>3, DifferentSlots
    <3>4. ASSUME k < n PROVE FALSE
      BY <3>1, <3>2, <3>4, DifferentSlots
    <3>. QED  BY <3>1, <3>3, <3>4
  <2>3. NewAt(d, k % W) = {k}
    BY <2>1, <2>2
  <2>4. Max({k}) = k
    BY DEF Max
  <2>5. k % W \in Places
    BY <1>10
  <2>. QED  BY <1>8, <2>3, <2>4, <2>5
<1>13. ASSUME NEW k \in c .. a - 1
       PROVE  e.blocks[k % W] = d.blocks[k % W]
  <2>1. ASSUME NEW n \in NewAt(d, k % W) PROVE FALSE
    <3>1. n \in a .. b - 1 /\ n % W = k % W
      BY <1>6, <2>1 DEF NewAt
    <3>2. k < n /\ n < k + W
      BY <1>0, <1>5, <3>1
    <3>. QED  BY <1>0, <3>1, <3>2, DifferentSlots
  <2>2. k % W \in Places /\ NewAt(d, k % W) = {}
    BY <1>10, <2>1
  <2>. QED  BY <1>8, <2>2
<1>14. ASSUME NEW k \in 0 .. a - 1
       PROVE  e.blocks[k % W] # NoBlock
  <2>1. k % W \in Places /\ d.blocks[k % W] # NoBlock
    BY <1>1, <1>10 DEF Window
  <2>2. \A n : Block(d.name, n) # NoBlock
    BY DEF Block, NoBlock
  <2>. QED  BY <1>8, <2>1, <2>2
<1>15. Window(e)
  <2>1. e.currentBlock <= e.clientBlock + W /\ e.currentBlock <= Size[e.name] + 1
    BY <1>2, <1>3, <1>5, <1>8, <1>9
  <2>2. ASSUME NEW k \in 0 .. b - 1 PROVE e.blocks[k % W] # NoBlock
    <3>1. CASE k \in 0 .. a - 1
      BY <1>14, <3>1
    <3>2. CASE k \in a .. b - 1
      BY <1>12, <3>2 DEF Block, NoBlock
    <3>. QED  BY <3>1, <3>2
  <2>3. ASSUME NEW k \in c .. b - 1 PROVE e.blocks[k % W] = Block(e.name, k)
    <3>1. CASE k \in c .. a - 1
      <4>1. d.blocks[k % W] = Block(d.name, k)
        BY <1>1, <1>2, <3>1 DEF Window
      <4>. QED  BY <1>8, <1>13, <3>1, <4>1
    <3>2. CASE k \in a .. b - 1
      BY <1>8, <1>12, <3>2
    <3>. QED  BY <3>1, <3>2
  <2>. QED  BY <1>2, <1>8, <1>9, <2>1, <2>2, <2>3 DEF Window
<1>16. ASSUME NEW i \in Places PROVE e.blocks[i] = d.blocks[i] \/ e.blocks[i][1] = d.name
  <2>1. \A n : Block(d.name, n)[1] = d.name
    BY DEF Block
  <2>. QED  BY <1>8, <2>1
<1>17. d.currentBlock <= e.currentBlock
  BY <1>1, <1>5, <1>9
<1>. QED  BY <1>15, <1>16, <1>17

-----------------------------------------------------------------------------
\* Steps of the server, before any block was taken for one of another file.

KeepsClient ==
    UNCHANGED <<disk, commands, downloadName, downloadBlock, downloadList, written, clServerId>>

LEMMA FilesKept ==
    ASSUME KeepsClient, FilesInv
    PROVE  FilesInv'
BY DEF KeepsClient, FilesInv

LEMMA PlaceKept ==
    ASSUME KeepsClient, NEW i, NEW d
    PROVE  (At(i, d) => At(i, d)') /\ (Asking(i, d)' => Asking(i, d))
<1>1. Asking(i, d) <=> Asking(i, d)'
  BY DEF KeepsClient, Asking
<1>2. ASSUME NEW q, Getting(q, i, d) PROVE Getting(q, i, d)'
  BY <1>2 DEF KeepsClient, Getting, Asked, Window
<1>3. ASSUME NEW q, NEW g, Behind(q, g, i, d) PROVE Behind(q, g, i, d)'
  BY <1>3 DEF KeepsClient, Behind, Asked, Window, Finished
<1>4. ASSUME NEW p, Done(p, i, d) PROVE Done(p, i, d)'
  BY <1>4 DEF KeepsClient, Done, Finished
<1>5. PlacesInv(d) => PlacesInv(d)'
  BY DEF KeepsClient, PlacesInv
<1>6. ASSUME At(i, d) PROVE At(i, d)'
  <2>1. CASE Asking(i, d)
    BY <1>1, <1>5, <1>6, <2>1 DEF At
  <2>2. CASE \E q \in 1 .. i : Getting(q, i, d)
    BY <1>2, <1>5, <1>6, <2>2 DEF At
  <2>3. CASE \E q \in 1 .. i : \E g \in Files : Behind(q, g, i, d)
    BY <1>3, <1>5, <1>6, <2>3 DEF At
  <2>4. CASE \E p \in 1 .. i : Done(p, i, d)
    BY <1>4, <1>5, <1>6, <2>4 DEF At
  <2>. QED  BY <1>6, <2>1, <2>2, <2>3, <2>4 DEF At
<1>. QED  BY <1>1, <1>6

LEMMA BlocksKept ==
    ASSUME KeepsClient, NEW c, NEW d, BlocksInv(c, d)
    PROVE  BlocksInv(c, d)'
BY DEF KeepsClient, BlocksInv, Sound

\* What is left to show of a step of the server.
LEMMA ServerStep ==
    ASSUME KeepsClient, FilesInv, NEW i, i = lastClientCommand', NEW d, d = download',
           NEW c, c = toClient',
           state' # "ZOMBIE", At(i, d), Asking(i, d) => i \in {0, Len(commands)}, BlocksInv(c, d),
           GameStatesInv'
    PROVE  Exact'
<1>1. FilesInv'
  BY FilesKept
<1>2. At(lastClientCommand, download)'
  <2>1. At(i, d)'
    BY PlaceKept
  <2>2. At(lastClientCommand, download)' <=> At(i, d)'
    BY DEF At, Asking, Getting, Behind, Done, PlacesInv
  <2>. QED  BY <2>1, <2>2
<1>3. Asking(lastClientCommand, download)' => lastClientCommand' \in {0, Len(commands')}
  <2>1. Asking(lastClientCommand, download)' <=> Asking(i, d)'
    BY DEF Asking
  <2>2. commands' = commands
    BY DEF KeepsClient
  <2>. QED  BY <2>1, <2>2, PlaceKept
<1>4. BlocksInv(toClient, download)'
  <2>1. BlocksInv(c, d)'
    BY BlocksKept
  <2>2. BlocksInv(toClient, download)' <=> BlocksInv(c, d)'
    BY DEF BlocksInv, Sound
  <2>. QED  BY <2>1, <2>2
<1>. QED  BY <1>1, <1>2, <1>3, <1>4 DEF Exact

\* A server that has a download is at the file the client gets, or at one it has.
LEMMA Served ==
    ASSUME FilesInv, NEW i \in Nat, NEW d, d.name # NoFile, At(i, d),
           Len(commands) \in Nat, Asking(i, d) => i \in {0, Len(commands)}
    PROVE  \/ \E q \in 1 .. i : Getting(q, i, d)
           \/ \E q \in 1 .. i : \E g \in Files : Behind(q, g, i, d) /\ i <= q + Size[g]
<1>1. CASE Asking(i, d)
  <2>1. i # 0 /\ d.name = downloadName /\ downloadName # NoFile /\ downloadBlock = 0 /\ ~d.open
    BY <1>1 DEF Asking
  <2>2. i = Len(commands) /\ i \in 1 .. i
    BY <1>1, <2>1
  <2>3. commands[i] = Command("download", downloadName)
    BY <1>1, <2>2 DEF Asking
  <2>4. Asked(i, downloadName, downloadBlock)
    BY <2>1, <2>2, <2>3 DEF Asked
  <2>5. Getting(i, i, d)
    BY <2>1, <2>2, <2>4 DEF Getting
  <2>. QED  BY <2>2, <2>5
<1>2. CASE \E q \in 1 .. i : \E g \in Files : Behind(q, g, i, d)
  <2>1. PICK q \in 1 .. i, g \in Files : Behind(q, g, i, d)
    BY <1>2
  <2>2. i <= q + Size[g]
    <3>1. Size[g] \in Nat /\ q \in Nat
      BY Numbers
    <3>2. i \in q .. q + Size[g] + 1 /\ i # q + Size[g] + 1
      BY <2>1 DEF Behind
    <3>. QED  BY <3>1, <3>2
  <2>. QED  BY <2>1, <2>2
<1>3. CASE \E p \in 1 .. i : Done(p, i, d)
  BY <1>3 DEF Done
<1>. QED  BY <1>1, <1>2, <1>3 DEF At

\* Opening the file.
LEMMA OpensFile ==
    ASSUME NEW i \in Nat, NEW q \in 1 .. i, NEW d \in DownloadType, Getting(q, i, d),
           d.clientBlock <= d.currentBlock, d.xmitBlock <= d.currentBlock, NEW e, e = Opened(d)
    PROVE  /\ Getting(q, i, e) /\ e.open /\ Window(e)
           /\ e.clientBlock <= e.currentBlock /\ e.xmitBlock <= e.currentBlock
<1>1. /\ e \in DownloadType /\ e.open /\ e.name = d.name /\ e.blocks = d.blocks
      /\ d.open => e = d
      /\ ~d.open => e.clientBlock = 0 /\ e.currentBlock = 0 /\ e.xmitBlock = 0
  BY OpeningTyped
<1>2. CASE d.open
  BY <1>1, <1>2 DEF Getting
<1>3. CASE ~d.open
  <2>1. downloadBlock = 0 /\ Len(commands) = q + downloadBlock /\ i \in q .. Len(commands)
    BY <1>3 DEF Getting
  <2>2. i = q
    BY <2>1
  <2>3. d.name = downloadName /\ downloadName # NoFile
    BY <1>3 DEF Getting
  <2>4. e.name \in Files
    BY <1>1, <2>3 DEF DownloadType
  <2>5. Size[e.name] \in Nat /\ MAX_DOWNLOAD_WINDOW \in Nat
    BY <2>4, Numbers
  <2>6. Window(e)
    BY <1>1, <1>3, <2>5 DEF Window
  <2>. QED  BY <1>1, <1>3, <2>1, <2>2, <2>6 DEF Getting
<1>. QED  BY <1>2, <1>3

\* Getting on with a file, with more blocks read, changes nothing of where the server is.
SameWindow(e, d) ==
    /\ e.name = d.name /\ e.open /\ e.clientBlock = d.clientBlock
    /\ d.currentBlock <= e.currentBlock /\ Window(e)

LEMMA GetsOn ==
    ASSUME NEW i, NEW q, NEW d \in DownloadType, NEW e \in DownloadType, Getting(q, i, d), d.open,
           SameWindow(e, d), downloadBlock \in Nat
    PROVE  Getting(q, i, e)
<1>1. d.currentBlock \in Nat /\ e.currentBlock \in Nat
  BY DEF DownloadType
<1>. QED  BY <1>1 DEF Getting, SameWindow

LEMMA GetsOnBehind ==
    ASSUME NEW i \in Nat, NEW q \in 1 .. i, NEW g \in Files, NEW d \in DownloadType,
           NEW e \in DownloadType, Behind(q, g, i, d), i <= q + Size[g], SameWindow(e, d)
    PROVE  Behind(q, g, i, e)
<1>1. d.currentBlock \in Nat /\ e.currentBlock \in Nat /\ Size[g] \in Nat
  BY Numbers DEF DownloadType
<1>2. d.currentBlock = Size[g] + 1 /\ d.name = g /\ d.clientBlock = i - q
  BY DEF Behind
<1>3. e.currentBlock <= Size[g] + 1
  BY <1>2 DEF SameWindow, Window
<1>4. e.currentBlock = Size[g] + 1
  BY <1>1, <1>2, <1>3 DEF SameWindow
<1>5. i # q + Size[g] + 1
  BY <1>1
<1>. QED  BY <1>2, <1>4, <1>5 DEF Behind, SameWindow

\* What is known of a download between two steps.
Counted(d) == d.clientBlock <= d.currentBlock /\ d.xmitBlock <= d.currentBlock

LEMMA WritesExact ==
    ASSUME TypesInv, Exact, SV_WriteDownloadToClient
    PROVE  Exact'
<1>1. UNCHANGED <<state, serverId, lastClientCommand, clientVars, toServer>> /\ state # "ZOMBIE"
  BY DEF SV_WriteDownloadToClient
<1>2. KeepsClient
  BY <1>1 DEF KeepsClient, clientVars, downloadVars
<1>3. PICK d, e \in DownloadType, x \in Nat, m \in ServerMessages :
          /\ download.name \in Files
          /\ d = Opened(download) /\ e = Filled(d)
          /\ x \in {e.xmitBlock, e.clientBlock} /\ x # e.currentBlock
          /\ m.kind = "download" /\ m.block = x /\ m.data = e.blocks[x % MAX_DOWNLOAD_WINDOW]
          /\ toClient' = Send(toClient, m)
          /\ download' \in DownloadType /\ download'.name = e.name /\ download'.open = e.open
          /\ download'.xmitBlock = x + 1 /\ download'.clientBlock = e.clientBlock
          /\ download'.currentBlock = e.currentBlock /\ download'.blocks = e.blocks
  BY Writing
<1>4. PICK i \in Nat : i = lastClientCommand
  BY DEF TypesInv, ServerTypes
<1>5. PICK o \in DownloadType : o = download
  BY DEF TypesInv, ServerTypes, Sensible
<1>6. PICK f \in DownloadType : f = download'
  BY <1>3
<1>7. /\ At(i, o) /\ Counted(o) /\ PlacesInv(o)
      /\ Asking(i, o) => i \in {0, Len(commands)}
      /\ FilesInv /\ BlocksInv(toClient, o)
  BY <1>4, <1>5 DEF Exact, At, Counted
<1>8. o.name \in Files /\ o.name # NoFile /\ Len(commands) \in Nat /\ downloadBlock \in Nat
  BY <1>3, <1>5, Numbers DEF TypesInv, ServerTypes, ClientTypes
<1>9. /\ d.open /\ d.name = o.name /\ d.blocks = o.blocks /\ (o.open => d = o)
  BY <1>3, <1>5, OpeningTyped
<1>10. /\ e.name = d.name /\ e.open /\ e.clientBlock = d.clientBlock /\ e.xmitBlock = d.xmitBlock
  BY <1>3, <1>8, <1>9, Filling
<1>11. \/ \E q \in 1 .. i : Getting(q, i, d) /\ Counted(d) /\ Window(d)
       \/ \E q \in 1 .. i : \E g \in Files :
             Behind(q, g, i, o) /\ i <= q + Size[g] /\ d = o /\ Counted(d) /\ Window(d)
  <2>1. CASE \E q \in 1 .. i : Getting(q, i, o)
    BY <1>3, <1>5, <1>7, <2>1, OpensFile DEF Counted
  <2>2. CASE \E q \in 1 .. i : \E g \in Files : Behind(q, g, i, o) /\ i <= q + Size[g]
    <3>1. PICK q \in 1 .. i, g \in Files : Behind(q, g, i, o) /\ i <= q + Size[g]
      BY <2>2
    <3>2. o.open /\ Window(o)
      BY <3>1 DEF Behind
    <3>. QED  BY <1>7, <1>9, <3>1, <3>2
  <2>. QED  BY <1>7, <1>8, <2>1, <2>2, Served
<1>12. Window(d) /\ Counted(d)
  BY <1>11
<1>13. /\ Window(e) /\ d.currentBlock <= e.currentBlock
       /\ \A j \in Places : e.blocks[j] = d.blocks[j] \/ e.blocks[j][1] = d.name
  BY <1>3, <1>8, <1>9, <1>12, FillsWindow DEF Counted
<1>14. SameWindow(f, d)
  <2>1. Window(f)
    BY <1>3, <1>6, <1>13 DEF Window
  <2>. QED  BY <1>3, <1>6, <1>10, <1>13, <2>1 DEF SameWindow
<1>15. x < e.currentBlock
  <2>1. e.xmitBlock <= d.currentBlock /\ e.clientBlock <= d.currentBlock
    BY <1>10, <1>12 DEF Counted
  <2>2. e.xmitBlock \in Nat /\ e.clientBlock \in Nat /\ d.currentBlock \in Nat /\ e.currentBlock \in Nat
    BY DEF DownloadType
  <2>3. x <= e.currentBlock
    BY <1>3, <1>13, <2>1, <2>2
  <2>. QED  BY <1>3, <2>2, <2>3
<1>16. Counted(f)
  <2>1. f.clientBlock = d.clientBlock /\ f.currentBlock = e.currentBlock /\ f.xmitBlock = x + 1
    BY <1>3, <1>6, <1>10
  <2>2. d.clientBlock \in Nat /\ d.currentBlock \in Nat /\ e.currentBlock \in Nat
    BY DEF DownloadType
  <2>. QED  BY <1>12, <1>13, <1>15, <2>1, <2>2 DEF Counted
\* The file is one the client has, or the one it gets.
<1>17. f.open /\ (o.name \in DOMAIN disk \/ o.name = downloadName)
  BY <1>3, <1>6, <1>9, <1>10, <1>11 DEF Behind, Getting
<1>18. f.name = o.name
  BY <1>3, <1>6, <1>9, <1>10
<1>19. PlacesInv(f)
  <2>. SUFFICES ASSUME NEW j \in Places, f.blocks[j] # NoBlock
                PROVE  f.blocks[j][1] \in DOMAIN disk
                          \/ (f.open /\ f.name = downloadName /\ f.blocks[j][1] = downloadName)
    BY DEF PlacesInv
  <2>1. f.blocks[j] = o.blocks[j] \/ f.blocks[j][1] = o.name
    BY <1>3, <1>6, <1>9, <1>13
  <2>2. CASE f.blocks[j] = o.blocks[j]
    BY <1>7, <1>17, <1>18, <2>2 DEF PlacesInv
  <2>3. CASE f.blocks[j][1] = o.name
    BY <1>17, <1>18, <2>3
  <2>. QED  BY <2>1, <2>2, <2>3
<1>20. At(i, f) /\ i # 0 /\ ~Asking(i, f)
  <2>1. CASE \E q \in 1 .. i : Getting(q, i, d) /\ Counted(d) /\ Window(d)
    <3>1. PICK q \in 1 .. i : Getting(q, i, d)
      BY <2>1
    <3>2. Getting(q, i, f)
      BY <1>8, <1>9, <1>14, <3>1, GetsOn
    <3>. QED  BY <1>16, <1>17, <1>19, <3>2 DEF At, Counted, Asking
  <2>2. CASE \E q \in 1 .. i : \E g \in Files :
                Behind(q, g, i, o) /\ i <= q + Size[g] /\ d = o /\ Counted(d) /\ Window(d)
    <3>1. PICK q \in 1 .. i, g \in Files : Behind(q, g, i, d) /\ i <= q + Size[g]
      BY <2>2
    <3>2. Behind(q, g, i, f)
      BY <1>14, <3>1, GetsOnBehind
    <3>. QED  BY <1>16, <1>17, <1>19, <3>2 DEF At, Counted, Asking
  <2>. QED  BY <1>11, <2>1, <2>2
<1>21. Sound(m, f)
  <2>1. x % MAX_DOWNLOAD_WINDOW \in Places
    BY WindowAssumption, Division DEF Places
  <2>2. m.data = f.blocks[x % MAX_DOWNLOAD_WINDOW] /\ m.block = x /\ f.currentBlock = e.currentBlock
    BY <1>3, <1>6
  <2>3. m.data # NoBlock
    <3>1. e.currentBlock \in Nat
      BY DEF DownloadType
    <3>2. x \in 0 .. f.currentBlock - 1
      BY <1>15, <2>2, <3>1
    <3>. QED  BY <1>14, <2>2, <3>2 DEF SameWindow, Window
  <2>4. m.data[1] \in DOMAIN disk
           \/ (f.open /\ f.name = downloadName /\ m.data[1] = downloadName)
    BY <1>19, <2>1, <2>2, <2>3 DEF PlacesInv
  <2>5. CASE m.data[1] \in DOMAIN disk
    BY <2>3, <2>5 DEF Sound
  <2>6. CASE f.open /\ f.name = downloadName /\ m.data[1] = downloadName
    <3>1. m.block < f.currentBlock
      BY <1>15, <2>2
    <3>2. m.block < downloadBlock \/ m.data = Block(downloadName, m.block)
      <4>1. CASE x < f.clientBlock
        <5>0. o.name \notin DOMAIN disk
          BY <1>7, <1>8, <1>18, <2>6 DEF FilesInv
        <5>1. PICK q \in 1 .. i : Getting(q, i, d)
          BY <1>11, <5>0 DEF Behind
        <5>2. /\ d.clientBlock = i - q /\ Len(commands) = q + downloadBlock
              /\ i \in q .. Len(commands)
          BY <1>9, <5>1 DEF Getting
        <5>3. f.clientBlock = i - q
          BY <1>14, <5>2 DEF SameWindow
        <5>. QED  BY <1>8, <2>2, <4>1, <5>2, <5>3
      <4>2. CASE ~(x < f.clientBlock)
        <5>1. f.clientBlock \in Nat /\ f.currentBlock \in Nat
          BY DEF DownloadType
        <5>2. x \in f.clientBlock .. f.currentBlock - 1
          BY <1>15, <2>2, <4>2, <5>1
        <5>. QED  BY <1>14, <2>2, <2>6, <5>2 DEF SameWindow, Window
      <4>. QED  BY <4>1, <4>2
    <3>. QED  BY <2>3, <2>6, <3>1, <3>2 DEF Sound
  <2>. QED  BY <2>4, <2>5, <2>6
<1>22. PICK c \in Seq(ServerMessages) : c = toClient /\ toClient' = Send(c, m)
  BY <1>3 DEF TypesInv, FlightTypes
<1>23. \A j \in 1 .. Len(toClient') : toClient'[j] = m \/ \E k \in 1 .. Len(c) : toClient'[j] = c[k]
  BY <1>22, Sent
<1>24. BlocksInv(toClient', f)
  <2>. SUFFICES ASSUME NEW j \in 1 .. Len(toClient'), toClient'[j].kind = "download"
                PROVE  Sound(toClient'[j], f)
    BY DEF BlocksInv
  <2>1. CASE toClient'[j] = m
    BY <1>21, <2>1
  <2>2. CASE \E k \in 1 .. Len(c) : toClient'[j] = c[k]
    <3>1. PICK k \in 1 .. Len(c) : toClient'[j] = c[k]
      BY <2>2
    <3>2. Sound(c[k], o) /\ c[k] \in ServerMessages /\ c[k].kind = "download"
      BY <1>7, <1>22, <3>1 DEF BlocksInv
    <3>3. c[k].block \in Nat
      BY <3>2 DEF ServerMessages
    <3>4. CASE c[k].data[1] \in DOMAIN disk
      BY <3>1, <3>2, <3>4 DEF Sound
    <3>5. CASE /\ o.open /\ o.name = downloadName /\ c[k].data[1] = downloadName
               /\ c[k].block < o.currentBlock
               /\ c[k].block < downloadBlock \/ c[k].data = Block(downloadName, c[k].block)
      <4>1. o.currentBlock <= f.currentBlock /\ o.currentBlock \in Nat /\ f.currentBlock \in Nat
        BY <1>9, <1>14, <3>5 DEF SameWindow, DownloadType
      <4>2. c[k].block < f.currentBlock
        BY <3>3, <3>5, <4>1
      <4>. QED  BY <1>17, <1>18, <3>1, <3>2, <3>5, <4>2 DEF Sound
    <3>. QED  BY <3>2, <3>4, <3>5 DEF Sound
  <2>. QED  BY <1>23, <2>1, <2>2
<1>25. GameStatesInv'
  <2>1. \A k \in 1 .. Len(c) : DOMAIN disk # Files => c[k].kind # "gamestate"
    BY <1>4, <1>20, <1>22 DEF Exact, GameStatesInv
  <2>2. \A j \in 1 .. Len(toClient') : DOMAIN disk # Files => toClient'[j].kind # "gamestate"
    BY <1>3, <1>23, <2>1
  <2>3. disk' = disk /\ lastClientCommand' # 0
    BY <1>1, <1>2, <1>4, <1>20 DEF KeepsClient
  <2>. QED  BY <2>2, <2>3 DEF GameStatesInv
<1>. QED  BY <1>1, <1>2, <1>4, <1>6, <1>7, <1>20, <1>24, <1>25, ServerStep

LEMMA SnapshotExact ==
    ASSUME TypesInv, Exact, SV_SendClientSnapshot
    PROVE  Exact'
<1>1. UNCHANGED <<serverVars, clientVars, toServer>> /\ state # "ZOMBIE"
  BY DEF SV_SendClientSnapshot
<1>2. KeepsClient
  BY <1>1 DEF KeepsClient, clientVars, downloadVars
<1>3. PICK m \in ServerMessages : m.kind = "snapshot" /\ toClient' = Send(toClient, m)
  <2>. DEFINE m == [kind |-> "snapshot", later |-> TRUE]
  <2>1. m \in ServerMessages /\ m.kind = "snapshot"
    BY DEF ServerMessages
  <2>2. toClient' = Send(toClient, m)
    BY DEF SV_SendClientSnapshot
  <2>. QED  BY <2>1, <2>2
<1>4. toClient \in Seq(ServerMessages) /\ Len(toClient) \in Nat
  BY DEF TypesInv, FlightTypes
<1>5. PICK d \in {0, 1} : Extended(toClient', toClient, m, d)
  BY <1>3, <1>4, Sending
<1>6. ASSUME NEW k \in 1 .. Len(toClient'), toClient'[k].kind # "snapshot"
      PROVE  k \in 1 .. Len(toClient) - d /\ k + d \in 1 .. Len(toClient) /\ toClient'[k] = toClient[k + d]
  <2>1. k \in 1 .. Len(toClient) - d
    BY <1>3, <1>4, <1>5, <1>6 DEF Extended
  <2>. QED  BY <1>4, <1>5, <2>1 DEF Extended
<1>7. BlocksInv(toClient', download)
  BY <1>6 DEF Exact, BlocksInv
<1>8. GameStatesInv'
  <2>1. /\ disk' = disk /\ lastClientCommand' = lastClientCommand /\ toServer' = toServer
        /\ clServerId' = clServerId /\ commands' = commands
    BY <1>1, <1>2 DEF KeepsClient, serverVars
  <2>2. DOMAIN disk # Files /\ lastClientCommand # 0 =>
            \A k \in 1 .. Len(toClient') : toClient'[k].kind # "gamestate"
    BY <1>6 DEF Exact, GameStatesInv
  <2>3. ASSUME lastClientCommand = 0, DOMAIN disk = {},
               NEW k \in 1 .. Len(toClient'), toClient'[k].kind = "gamestate"
        PROVE  /\ clServerId < toClient'[k].serverId
               /\ \A j \in 1 .. k - 1 :
                     toClient'[j].kind = "gamestate" => toClient'[j].serverId < toClient'[k].serverId
    <3>1. k + d \in 1 .. Len(toClient) /\ toClient'[k] = toClient[k + d]
      BY <1>6, <2>3
    <3>2. /\ clServerId < toClient[k + d].serverId
          /\ \A j \in 1 .. k + d - 1 :
                toClient[j].kind = "gamestate" => toClient[j].serverId < toClient[k + d].serverId
      BY <2>3, <3>1 DEF Exact, GameStatesInv
    <3>3. ASSUME NEW j \in 1 .. k - 1, toClient'[j].kind = "gamestate"
          PROVE  toClient'[j].serverId < toClient'[k].serverId
      <4>1. j \in 1 .. Len(toClient')
        <5>1. Len(toClient') \in Nat
          BY <1>4, <1>5 DEF Extended
        <5>. QED  BY <5>1
      <4>2. toClient'[j] = toClient[j + d]
        BY <1>6, <3>3, <4>1
      <4>3. j + d \in 1 .. k + d - 1
        OBVIOUS
      <4>. QED  BY <3>1, <3>2, <3>3, <4>2, <4>3
    <3>. QED  BY <3>1, <3>2, <3>3
  <2>4. lastClientCommand = 0 /\ DOMAIN disk = {} =>
            \A k \in 1 .. Len(toServer) :
                /\ toServer[k].serverId <= clServerId
                /\ toServer[k].serverId = clServerId => toServer[k].sequence = Len(commands)
    BY DEF Exact, GameStatesInv
  <2>. QED  BY <2>1, <2>2, <2>3, <2>4 DEF GameStatesInv
<1>9. lastClientCommand' = lastClientCommand /\ download' = download /\ state' = state
  BY <1>1 DEF serverVars
<1>10. PICK i : i = lastClientCommand
  OBVIOUS
<1>11. PICK e : e = download
  OBVIOUS
<1>12. FilesInv /\ At(i, e) /\ (Asking(i, e) => i \in {0, Len(commands)})
  BY <1>10, <1>11 DEF Exact
<1>. QED  BY <1>1, <1>2, <1>7, <1>8, <1>9, <1>10, <1>11, <1>12, ServerStep

LEMMA SpawnsExact ==
    ASSUME Exact, SV_SpawnServer
    PROVE  Exact'
<1>1. /\ UNCHANGED <<lastClientCommand, download, clientVars, toClient, toServer>>
      /\ state # "ZOMBIE" => state' # "ZOMBIE"
  BY DEF SV_SpawnServer
<1>2. KeepsClient
  BY <1>1 DEF KeepsClient, clientVars, downloadVars
<1>3. PICK i : i = lastClientCommand
  OBVIOUS
<1>4. PICK e : e = download
  OBVIOUS
<1>5. GameStatesInv'
  BY <1>1, <1>2 DEF Exact, GameStatesInv, KeepsClient
<1>6. PICK c : c = toClient
  OBVIOUS
<1>7. /\ FilesInv /\ At(i, e) /\ (Asking(i, e) => i \in {0, Len(commands)}) /\ BlocksInv(c, e)
      /\ state # "ZOMBIE"
  BY <1>3, <1>4, <1>6 DEF Exact
<1>. QED  BY <1>1, <1>2, <1>3, <1>4, <1>5, <1>6, <1>7, ServerStep

LEMMA PacketExact ==
    ASSUME TypesInv, Exact, CL_WritePacket
    PROVE  Exact'
<1>1. UNCHANGED <<serverVars, clientVars, toClient>> /\ toServer' = Send(toServer, Packet)
  BY DEF CL_WritePacket
<1>2. KeepsClient /\ UNCHANGED serverVars
  BY <1>1 DEF KeepsClient, clientVars, downloadVars
<1>3. PICK p : p = Packet /\ Written(p) /\ p.sequence = Len(commands)
  BY <1>1, PacketWritten DEF Written
<1>4. GameStatesInv'
  <2>1. ASSUME lastClientCommand = 0, DOMAIN disk = {}, NEW k \in 1 .. Len(toServer')
        PROVE  /\ toServer'[k].serverId <= clServerId
               /\ toServer'[k].serverId = clServerId => toServer'[k].sequence = Len(commands)
    <3>1. CASE toServer'[k] = p
      <4>1. clServerId <= clServerId
        BY DEF TypesInv, ClientTypes
      <4>. QED  BY <1>3, <3>1, <4>1 DEF Written
    <3>2. CASE \E j \in 1 .. Len(toServer) : toServer'[k] = toServer[j]
      BY <2>1, <3>2 DEF Exact, GameStatesInv
    <3>. QED  BY <1>3, <3>1, <3>2, WrittenTyped
  <2>2. /\ disk' = disk /\ lastClientCommand' = lastClientCommand /\ toClient' = toClient
        /\ clServerId' = clServerId /\ commands' = commands
    BY <1>1, <1>2 DEF KeepsClient, serverVars
  <2>. QED  BY <2>1, <2>2 DEF Exact, GameStatesInv
<1>5. PICK i : i = lastClientCommand
  OBVIOUS
<1>6. PICK e : e = download
  OBVIOUS
<1>7. PICK c : c = toClient
  OBVIOUS
<1>8. /\ FilesInv /\ At(i, e) /\ (Asking(i, e) => i \in {0, Len(commands)}) /\ BlocksInv(c, e)
      /\ state # "ZOMBIE"
  BY <1>5, <1>6, <1>7 DEF Exact
<1>9. lastClientCommand' = i /\ download' = e /\ toClient' = c /\ state' = state
  BY <1>1, <1>2, <1>5, <1>6, <1>7 DEF serverVars
<1>. QED  BY <1>2, <1>4, <1>8, <1>9, ServerStep

-----------------------------------------------------------------------------
\* The server executes the commands of a packet.

\* sv is what the server is like after i commands.
Right(i, sv) ==
    /\ sv.state # "ZOMBIE"
    /\ At(i, sv.download)
    /\ BlocksInv(sv.toClient, sv.download)
    /\ sv.gamestate => DOMAIN disk = Files

\* Unless the server is at the file that the client gets, all blocks are of files it has.
LEMMA Settled ==
    ASSUME NEW d, ~(d.open /\ d.name = downloadName), NEW e, e.blocks = d.blocks, NEW c
    PROVE  (PlacesInv(d) => PlacesInv(e)) /\ (BlocksInv(c, d) => BlocksInv(c, e))
<1>1. PlacesInv(d) => PlacesInv(e)
  BY DEF PlacesInv
<1>2. BlocksInv(c, d) => BlocksInv(c, e)
  BY DEF BlocksInv, Sound
<1>. QED  BY <1>1, <1>2

LEMMA SameBlocks ==
    ASSUME NEW d, NEW e, e.blocks = d.blocks, e.open = d.open, e.name = d.name,
           e.currentBlock = d.currentBlock, NEW c
    PROVE  (PlacesInv(d) => PlacesInv(e)) /\ (BlocksInv(c, d) => BlocksInv(c, e))
<1>1. PlacesInv(d) => PlacesInv(e)
  BY DEF PlacesInv
<1>2. BlocksInv(c, d) => BlocksInv(c, e)
  BY DEF BlocksInv, Sound
<1>. QED  BY <1>1, <1>2

\* The block that an acknowledgement is for is in its place.
LEMMA Acknowledged ==
    ASSUME NEW d \in DownloadType, d.name \in Files, Window(d), d.clientBlock < d.currentBlock
    PROVE  IsEmpty(d.blocks[d.clientBlock % MAX_DOWNLOAD_WINDOW]) <=> d.clientBlock = Size[d.name]
<1>1. d.clientBlock \in Nat /\ d.currentBlock \in Nat
  BY DEF DownloadType
<1>2. d.blocks[d.clientBlock % MAX_DOWNLOAD_WINDOW] = Block(d.name, d.clientBlock)
  <2>1. d.clientBlock \in d.clientBlock .. d.currentBlock - 1
    BY <1>1
  <2>. QED  BY <2>1 DEF Window
<1>3. Block(d.name, d.clientBlock) # NoBlock /\ Block(d.name, d.clientBlock)[1] = d.name
      /\ Block(d.name, d.clientBlock)[2] = d.clientBlock
  BY DEF Block, NoBlock
<1>. QED  BY <1>2, <1>3 DEF IsEmpty

\* The window goes on by the block that was acknowledged.
LEMMA AdvancedWindow ==
    ASSUME NEW d \in DownloadType, Window(d), NEW e \in DownloadType, e.name = d.name,
           e.blocks = d.blocks, e.currentBlock = d.currentBlock, e.clientBlock = d.clientBlock + 1
    PROVE  Window(e)
<1>1. d.clientBlock \in Nat /\ d.currentBlock \in Nat /\ MAX_DOWNLOAD_WINDOW \in Nat
  BY WindowAssumption DEF DownloadType
<1>2. \A k \in e.clientBlock .. e.currentBlock - 1 : k \in d.clientBlock .. d.currentBlock - 1
  BY <1>1
<1>3. e.currentBlock <= e.clientBlock + MAX_DOWNLOAD_WINDOW
  BY <1>1 DEF Window
<1>. QED  BY <1>2, <1>3 DEF Window

LEMMA ExecutesAsking ==
    ASSUME TypesInv, FilesInv, NEW channel, NEW i \in Nat, i + 1 <= Len(commands),
           NEW sv, Typed(sv, channel), Right(i, sv), Asking(i, sv.download),
           NEW r, r = SV_ExecuteClientCommand(sv, commands[i + 1])
    PROVE  Right(i + 1, r)
<1>0. sv \in Services /\ Sensible(sv.download) /\ Len(commands) \in Nat
  BY DEF Typed, TypesInv, ServerTypes
<1>1. commands[i + 1] = Command("download", downloadName) /\ downloadName # NoFile
  <2>1. i + 1 \in 1 .. Len(commands)
    BY <1>0
  <2>2. commands # <<>>
    BY <2>1
  <2>. QED  BY <2>1, <2>2 DEF Asking
<1>2. downloadName \in Files
  BY <1>1 DEF TypesInv, ClientTypes
<1>3. r = SV_BeginDownload_f(sv, downloadName)
  BY <1>1 DEF SV_ExecuteClientCommand, Right, Command
<1>4. /\ r \in Services /\ r.state = sv.state /\ r.toClient = sv.toClient /\ r.gamestate = sv.gamestate
      /\ r.download.name = downloadName /\ ~r.download.open
      /\ SameCounters(r.download, sv.download)
  BY <1>0, <1>2, <1>3, Beginning
<1>5. PICK d \in DownloadType : d = sv.download
  BY <1>0 DEF Sensible
<1>6. PICK e : e = r.download
  OBVIOUS
<1>7. /\ e.name = downloadName /\ ~e.open /\ e.blocks = d.blocks /\ e.clientBlock = d.clientBlock
      /\ e.currentBlock = d.currentBlock /\ e.xmitBlock = d.xmitBlock
  BY <1>4, <1>5, <1>6 DEF SameCounters
<1>8. ~d.open /\ At(i, d) /\ BlocksInv(sv.toClient, d)
  BY <1>5 DEF Asking, Right
<1>9. PlacesInv(e) /\ BlocksInv(r.toClient, e)
  BY <1>4, <1>7, <1>8, Settled DEF At
<1>10. Asking(i + 1, e)
  <2>1. i + 1 \in 0 .. Len(commands) /\ i + 1 # 0
    BY <1>0
  <2>. QED  BY <1>7, <2>1 DEF Asking
<1>11. At(i + 1, e)
  BY <1>7, <1>8, <1>9, <1>10 DEF At
<1>. QED  BY <1>4, <1>6, <1>9, <1>11 DEF Right

LEMMA ExecutesNext ==
    ASSUME NEW sv \in Services, Sensible(sv.download), sv.state # "ZOMBIE",
           NEW d, d = sv.download, NEW b, b = d.clientBlock,
           NEW r, r = SV_ExecuteClientCommand(sv, Command("nextdl", b))
    PROVE  r = IF IsEmpty(d.blocks[b % MAX_DOWNLOAD_WINDOW]) THEN SV_CloseDownload(sv) ELSE Advanced(sv)
<1>. DEFINE c == Command("nextdl", b)
<1>1. c.name = "nextdl" /\ c.arg = b
  BY DEF Command
<1>2. r = SV_NextDownload_f(sv, b)
  BY <1>1 DEF SV_ExecuteClientCommand
<1>. QED  BY <1>2, Zenon DEF SV_NextDownload_f

LEMMA ExecutesGetting ==
    ASSUME TypesInv, FilesInv, NEW channel, NEW i \in Nat, i + 1 <= Len(commands),
           NEW sv, Typed(sv, channel), Right(i, sv), NEW q \in 1 .. i, Getting(q, i, sv.download),
           NEW r, r = SV_ExecuteClientCommand(sv, commands[i + 1])
    PROVE  Right(i + 1, r)
<1>0. sv \in Services /\ Sensible(sv.download) /\ Len(commands) \in Nat /\ downloadBlock \in Nat
  BY DEF Typed, TypesInv, ServerTypes, ClientTypes
<1>1. PICK d \in DownloadType : d = sv.download
  BY <1>0 DEF Sensible
<1>2. /\ downloadName # NoFile /\ Asked(q, downloadName, downloadBlock)
      /\ Len(commands) = q + downloadBlock /\ i \in q .. Len(commands) /\ d.name = downloadName
      /\ d.open => d.clientBlock = i - q /\ downloadBlock <= d.currentBlock /\ Window(d)
      /\ ~d.open => downloadBlock = 0
  BY <1>1 DEF Getting
<1>3. i - q < downloadBlock /\ i - q + 1 \in 1 .. downloadBlock /\ q + (i - q + 1) = i + 1
  BY <1>0, <1>2
<1>4. commands[i + 1] = Command("nextdl", i - q)
  <2>1. commands[q + (i - q + 1)] = Command("nextdl", (i - q + 1) - 1)
    BY <1>2, <1>3 DEF Asked
  <2>2. (i - q + 1) - 1 = i - q
    OBVIOUS
  <2>. QED  BY <1>3, <2>1, <2>2
<1>5. d.open /\ d.clientBlock = i - q /\ downloadBlock <= d.currentBlock /\ Window(d)
  BY <1>2, <1>3
<1>6. d.name \in Files /\ Size[d.name] \in Nat /\ d.currentBlock \in Nat
  BY <1>2, Numbers DEF TypesInv, ClientTypes, DownloadType
<1>7. d.clientBlock < d.currentBlock /\ d.clientBlock # Size[d.name]
  <2>1. downloadBlock <= Size[d.name]
    BY <1>2 DEF FilesInv
  <2>. QED  BY <1>0, <1>3, <1>5, <1>6, <2>1
<1>8. r = Advanced(sv)
  <2>1. sv.state # "ZOMBIE"
    BY DEF Right
  <2>2. ~IsEmpty(d.blocks[d.clientBlock % MAX_DOWNLOAD_WINDOW])
    BY <1>5, <1>6, <1>7, Acknowledged
  <2>3. r = SV_ExecuteClientCommand(sv, Command("nextdl", d.clientBlock))
    BY <1>4, <1>5
  <2>. QED  BY <1>0, <1>1, <2>1, <2>2, <2>3, ExecutesNext
<1>9. /\ r \in Services /\ Sensible(r.download) /\ r.state = sv.state /\ r.toClient = sv.toClient
      /\ r.gamestate = sv.gamestate
      /\ r.download.name = sv.download.name /\ r.download.open = sv.download.open
      /\ r.download.clientBlock = sv.download.clientBlock + 1
      /\ r.download.currentBlock = sv.download.currentBlock
      /\ r.download.xmitBlock = sv.download.xmitBlock /\ r.download.blocks = sv.download.blocks
  BY <1>0, <1>8, Advancing
<1>10. PICK e \in DownloadType : e = r.download
  BY <1>9 DEF Sensible
<1>11. /\ e.name = d.name /\ e.open = d.open /\ e.blocks = d.blocks /\ e.clientBlock = d.clientBlock + 1
       /\ e.currentBlock = d.currentBlock /\ e.xmitBlock = d.xmitBlock
  BY <1>1, <1>9, <1>10
<1>12. At(i, d) /\ BlocksInv(sv.toClient, d)
  BY <1>1 DEF Right
<1>13. PlacesInv(e) /\ BlocksInv(r.toClient, e)
  BY <1>9, <1>11, <1>12, SameBlocks DEF At
<1>14. Getting(q, i + 1, e)
  <2>1. Window(e)
    BY <1>5, <1>11, AdvancedWindow
  <2>2. e.clientBlock = (i + 1) - q /\ i + 1 \in q .. Len(commands)
    BY <1>0, <1>5, <1>11
  <2>. QED  BY <1>2, <1>5, <1>11, <2>1, <2>2 DEF Getting
<1>15. At(i + 1, e)
  <2>1. e.clientBlock <= e.currentBlock
    BY <1>5, <1>6, <1>7, <1>11
  <2>2. q \in 1 .. i + 1
    OBVIOUS
  <2>. QED  BY <1>11, <1>12, <1>13, <1>14, <2>1, <2>2 DEF At
<1>. QED  BY <1>9, <1>10, <1>13, <1>15 DEF Right

\* A file the client has is not the one it gets.
LEMMA NotGetting ==
    ASSUME FilesInv, NEW g \in Files, g \in DOMAIN disk
    PROVE  g # downloadName
BY Numbers DEF FilesInv

LEMMA ExecutesBehind ==
    ASSUME TypesInv, FilesInv, NEW channel, NEW i \in Nat, i + 1 <= Len(commands),
           NEW sv, Typed(sv, channel), Right(i, sv), NEW q \in 1 .. i, NEW g \in Files,
           Behind(q, g, i, sv.download), i <= q + Size[g],
           NEW r, r = SV_ExecuteClientCommand(sv, commands[i + 1])
    PROVE  Right(i + 1, r)
<1>0. sv \in Services /\ Sensible(sv.download) /\ Len(commands) \in Nat /\ Size[g] \in Nat
  BY Numbers DEF Typed, TypesInv, ServerTypes
<1>1. PICK d \in DownloadType : d = sv.download
  BY <1>0 DEF Sensible
<1>2. /\ g \in DOMAIN disk /\ Asked(q, g, Size[g] + 1) /\ q + Size[g] + 2 <= Len(commands)
      /\ i \in q .. q + Size[g] + 1
      /\ d.name = g /\ d.open /\ d.clientBlock = i - q /\ d.currentBlock = Size[g] + 1 /\ Window(d)
      /\ \/ /\ downloadName # NoFile /\ downloadBlock = 0
            /\ Len(commands) = q + Size[g] + 2
            /\ commands[Len(commands)] = Command("download", downloadName)
         \/ Finished(q + Size[g] + 2) /\ Len(commands) <= q + Size[g] + 3
  BY <1>1 DEF Behind
<1>3. i - q + 1 \in 1 .. Size[g] + 1 /\ q + (i - q + 1) = i + 1
  BY SMTT(30), <1>0, <1>2
<1>4. commands[i + 1] = Command("nextdl", i - q)
  <2>1. commands[q + (i - q + 1)] = Command("nextdl", (i - q + 1) - 1)
    BY <1>2, <1>3 DEF Asked
  <2>2. (i - q + 1) - 1 = i - q
    OBVIOUS
  <2>. QED  BY <1>3, <2>1, <2>2
<1>5. d.clientBlock < d.currentBlock
  BY <1>0, <1>2
<1>6. r = IF i - q = Size[g] THEN SV_CloseDownload(sv) ELSE Advanced(sv)
  <2>1. sv.state # "ZOMBIE"
    BY DEF Right
  <2>2. IsEmpty(d.blocks[d.clientBlock % MAX_DOWNLOAD_WINDOW]) <=> i - q = Size[g]
    BY <1>2, <1>5, Acknowledged
  <2>3. r = SV_ExecuteClientCommand(sv, Command("nextdl", d.clientBlock))
    BY <1>2, <1>4
  <2>4. r = IF IsEmpty(d.blocks[d.clientBlock % MAX_DOWNLOAD_WINDOW])
            THEN SV_CloseDownload(sv) ELSE Advanced(sv)
    BY <1>0, <1>1, <2>1, <2>3, ExecutesNext
  <2>. QED  BY <2>2, <2>4
<1>7. At(i, d) /\ BlocksInv(sv.toClient, d) /\ ~(d.open /\ d.name = downloadName)
  BY <1>1, <1>2, NotGetting DEF Right
<1>8. CASE i - q = Size[g]
  <2>1. /\ r \in Services /\ r.state = sv.state /\ r.toClient = sv.toClient
        /\ r.gamestate = sv.gamestate
        /\ r.download.name = NoFile /\ ~r.download.open /\ SameCounters(r.download, sv.download)
    BY <1>0, <1>6, <1>8, Closing
  <2>2. PICK e : e = r.download
    OBVIOUS
  <2>3. /\ e.name = NoFile /\ e.blocks = d.blocks /\ e.clientBlock = d.clientBlock
        /\ e.currentBlock = d.currentBlock /\ e.xmitBlock = d.xmitBlock
    BY <1>1, <2>1, <2>2 DEF SameCounters
  <2>4. PlacesInv(e) /\ BlocksInv(r.toClient, e)
    BY <1>7, <2>1, <2>3, Settled DEF At
  <2>5. i + 1 = q + Size[g] + 1 /\ ~(i + 1 <= q + Size[g])
    BY <1>0, <1>8
  <2>6. Behind(q, g, i + 1, e)
    <3>1. i + 1 \in q .. q + Size[g] + 1
      BY <1>0, <2>5
    <3>. QED  BY <1>2, <2>3, <2>5, <3>1 DEF Behind
  <2>7. At(i + 1, e)
    <3>1. q \in 1 .. i + 1
      OBVIOUS
    <3>. QED  BY <1>7, <2>3, <2>4, <2>6, <3>1 DEF At
  <2>. QED  BY <2>1, <2>2, <2>4, <2>7 DEF Right
<1>9. CASE i - q # Size[g]
  <2>1. /\ r \in Services /\ Sensible(r.download) /\ r.state = sv.state /\ r.toClient = sv.toClient
        /\ r.gamestate = sv.gamestate
        /\ r.download.name = sv.download.name /\ r.download.open = sv.download.open
        /\ r.download.clientBlock = sv.download.clientBlock + 1
        /\ r.download.currentBlock = sv.download.currentBlock
        /\ r.download.xmitBlock = sv.download.xmitBlock /\ r.download.blocks = sv.download.blocks
    BY <1>0, <1>6, <1>9, Advancing
  <2>2. PICK e \in DownloadType : e = r.download
    BY <2>1 DEF Sensible
  <2>3. /\ e.name = d.name /\ e.open = d.open /\ e.blocks = d.blocks
        /\ e.clientBlock = d.clientBlock + 1
        /\ e.currentBlock = d.currentBlock /\ e.xmitBlock = d.xmitBlock
    BY <1>1, <2>1, <2>2
  <2>4. PlacesInv(e) /\ BlocksInv(r.toClient, e)
    BY <1>7, <2>1, <2>3, SameBlocks DEF At
  <2>5. i + 1 # q + Size[g] + 1 /\ i + 1 <= q + Size[g] /\ e.clientBlock = (i + 1) - q
    <3>1. PICK s \in Nat : s = Size[g]
      BY <1>0
    <3>2. i \in q .. q + s + 1 /\ i - q # s /\ i <= q + s
      BY <1>2, <1>9, <3>1
    <3>3. i + 1 # q + s + 1 /\ i + 1 <= q + s
      BY <3>2
    <3>4. e.clientBlock = (i + 1) - q
      BY <1>2, <2>3
    <3>. QED  BY <3>1, <3>3, <3>4
  <2>6. Behind(q, g, i + 1, e)
    <3>1. i + 1 \in q .. q + Size[g] + 1
      BY <1>0, <2>5
    <3>2. Window(e)
      BY <1>2, <2>3, AdvancedWindow
    <3>. QED  BY <1>2, <2>3, <2>5, <3>1, <3>2 DEF Behind
  <2>7. At(i + 1, e)
    <3>1. q \in 1 .. i + 1
      OBVIOUS
    <3>2. e.clientBlock <= e.currentBlock
      BY <1>0, <1>2, <2>3, <2>5
    <3>. QED  BY <1>7, <2>3, <2>4, <2>6, <3>1, <3>2 DEF At
  <2>. QED  BY <2>1, <2>2, <2>4, <2>7 DEF Right
<1>. QED  BY <1>8, <1>9

\* A game state is sent: the blocks on the way stay what they are.
LEMMA BlocksAged ==
    ASSUME NEW sv \in Services, serverId \in Nat, NEW r, r = SV_SendClientGameState(sv),
           NEW d, BlocksInv(sv.toClient, d)
    PROVE  BlocksInv(r.toClient, d)
<1>1. PICK n \in {0, 1} :
          /\ Len(r.toClient) = Len(sv.toClient) - n + 1
          /\ \A k \in 1 .. Len(sv.toClient) - n : Aged(r.toClient[k], sv.toClient[k + n])
          /\ r.toClient[Len(sv.toClient) - n + 1] =
                [kind |-> "gamestate", serverId |-> serverId, later |-> FALSE]
  BY SendingGameState
<1>2. Len(sv.toClient) \in Nat
  BY DEF Services
<1>3. ASSUME NEW k \in 1 .. Len(r.toClient), r.toClient[k].kind = "download"
      PROVE  Sound(r.toClient[k], d)
  <2>1. r.toClient[k].kind = "gamestate" \/ k \in 1 .. Len(sv.toClient) - n
    BY <1>1, <1>2
  <2>2. k \in 1 .. Len(sv.toClient) - n
    BY <1>3, <2>1
  <2>3. Aged(r.toClient[k], sv.toClient[k + n]) /\ k + n \in 1 .. Len(sv.toClient)
    BY <1>1, <1>2, <2>2
  <2>4. /\ sv.toClient[k + n].kind = "download" /\ r.toClient[k].block = sv.toClient[k + n].block
        /\ r.toClient[k].data = sv.toClient[k + n].data
    BY <1>3, <2>3 DEF Aged
  <2>5. Sound(sv.toClient[k + n], d)
    BY <2>3, <2>4 DEF BlocksInv
  <2>. QED  BY <2>4, <2>5 DEF Sound
<1>. QED  BY <1>3 DEF BlocksInv

LEMMA ExecutesClosed ==
    ASSUME TypesInv, FilesInv, NEW channel, NEW i \in Nat, i + 1 <= Len(commands),
           NEW sv, Typed(sv, channel), Right(i, sv), NEW q \in 1 .. i, NEW g \in Files,
           Behind(q, g, i, sv.download), i = q + Size[g] + 1,
           NEW r, r = SV_ExecuteClientCommand(sv, commands[i + 1])
    PROVE  Right(i + 1, r)
<1>0. sv \in Services /\ Sensible(sv.download) /\ Len(commands) \in Nat /\ Size[g] \in Nat
  BY Numbers DEF Typed, TypesInv, ServerTypes
<1>1. PICK d \in DownloadType : d = sv.download
  BY <1>0 DEF Sensible
<1>2. /\ d.name = NoFile
      /\ \/ /\ downloadName # NoFile /\ downloadBlock = 0
            /\ Len(commands) = i + 1
            /\ commands[i + 1] = Command("download", downloadName)
         \/ Finished(i + 1) /\ Len(commands) <= (i + 1) + 1
  <2>1. /\ d.name = NoFile
        /\ \/ /\ downloadName # NoFile /\ downloadBlock = 0
              /\ Len(commands) = q + Size[g] + 2
              /\ commands[Len(commands)] = Command("download", downloadName)
           \/ Finished(q + Size[g] + 2) /\ Len(commands) <= q + Size[g] + 3
    BY <1>1 DEF Behind
  <2>2. q + Size[g] + 2 = i + 1 /\ q + Size[g] + 3 = (i + 1) + 1
    BY <1>0
  <2>. QED  BY <2>1, <2>2
<1>3. At(i, d) /\ BlocksInv(sv.toClient, d) /\ sv.state # "ZOMBIE" /\ ~d.open
  BY <1>0, <1>1, <1>2 DEF Right, Sensible
<1>4. CASE /\ downloadName # NoFile /\ downloadBlock = 0 /\ Len(commands) = i + 1
           /\ commands[i + 1] = Command("download", downloadName)
  <2>1. downloadName \in Files
    BY <1>4 DEF TypesInv, ClientTypes
  <2>2. r = SV_BeginDownload_f(sv, downloadName)
    BY <1>3, <1>4 DEF SV_ExecuteClientCommand, Command
  <2>3. /\ r \in Services /\ r.state = sv.state /\ r.toClient = sv.toClient
        /\ r.gamestate = sv.gamestate
        /\ r.download.name = downloadName /\ ~r.download.open
        /\ SameCounters(r.download, sv.download)
    BY <1>0, <2>1, <2>2, Beginning
  <2>4. PICK e : e = r.download
    OBVIOUS
  <2>5. /\ e.name = downloadName /\ ~e.open /\ e.blocks = d.blocks /\ e.clientBlock = d.clientBlock
        /\ e.currentBlock = d.currentBlock /\ e.xmitBlock = d.xmitBlock
    BY <1>1, <2>3, <2>4 DEF SameCounters
  <2>6. PlacesInv(e) /\ BlocksInv(r.toClient, e)
    BY <1>3, <2>3, <2>5, Settled DEF At
  <2>7. Getting(i + 1, i + 1, e) /\ i + 1 \in 1 .. i + 1
    BY <1>4, <2>5 DEF Getting, Asked
  <2>8. At(i + 1, e)
    BY <1>3, <2>5, <2>6, <2>7 DEF At
  <2>. QED  BY <1>3, <2>3, <2>4, <2>6, <2>8 DEF Right
<1>5. CASE Finished(i + 1) /\ Len(commands) <= (i + 1) + 1
  <2>1. commands[i + 1] = Command("donedl", 0) /\ DOMAIN disk = Files
    BY <1>5 DEF Finished
  <2>2. r = SV_DoneDownload_f(sv)
    BY <1>3, <2>1 DEF SV_ExecuteClientCommand, Command
  <2>3. Done(i + 1, i + 1, d) /\ i + 1 \in 1 .. i + 1
    BY <1>0, <1>2, <1>5 DEF Done
  <2>4. At(i + 1, d)
    BY <1>3, <2>3 DEF At
  <2>5. CASE r = sv
    BY <1>1, <1>3, <2>1, <2>4, <2>5 DEF Right
  <2>6. CASE r = SV_SendClientGameState(sv)
    <3>1. serverId \in Nat
      BY DEF TypesInv, ServerTypes
    <3>2. r.state = "PRIMED" /\ r.download = sv.download
      BY <1>0, <2>6, <3>1, SendingGameState
    <3>3. BlocksInv(r.toClient, d)
      BY <1>0, <1>3, <2>6, <3>1, BlocksAged
    <3>. QED  BY <1>1, <2>1, <2>4, <3>2, <3>3 DEF Right
  <2>. QED  BY <2>2, <2>5, <2>6, Zenon DEF SV_DoneDownload_f
<1>. QED  BY <1>2, <1>4, <1>5

LEMMA ExecutesDone ==
    ASSUME TypesInv, NEW channel, NEW i \in Nat, i + 1 <= Len(commands),
           NEW sv, Typed(sv, channel), Right(i, sv), NEW p \in 1 .. i, Done(p, i, sv.download),
           NEW r, r = SV_ExecuteClientCommand(sv, commands[i + 1])
    PROVE  Right(i + 1, r)
<1>0. sv \in Services /\ Sensible(sv.download) /\ Len(commands) \in Nat
  BY DEF Typed, TypesInv, ServerTypes
<1>1. PICK d \in DownloadType : d = sv.download
  BY <1>0 DEF Sensible
<1>2. Finished(p) /\ i \in p .. Len(commands) /\ Len(commands) <= i + 1 /\ d.name = NoFile
  BY <1>1 DEF Done
<1>3. At(i, d) /\ BlocksInv(sv.toClient, d) /\ sv.state # "ZOMBIE" /\ ~d.open
  BY <1>0, <1>1, <1>2 DEF Right, Sensible
<1>4. commands[i + 1] = Command("stopdl", 0) /\ i + 1 \in p .. Len(commands)
  <2>1. i + 1 \in p + 1 .. Len(commands)
    BY <1>0, <1>2
  <2>. QED  BY <1>2, <2>1 DEF Finished
<1>5. r = SV_CloseDownload(sv)
  BY <1>3, <1>4 DEF SV_ExecuteClientCommand, Command
<1>6. /\ r.state = sv.state /\ r.toClient = sv.toClient /\ r.gamestate = sv.gamestate
      /\ r.download.name = NoFile /\ SameCounters(r.download, sv.download)
  BY <1>0, <1>5, Closing
<1>7. PICK e : e = r.download
  OBVIOUS
<1>8. /\ e.name = NoFile /\ e.blocks = d.blocks /\ e.clientBlock = d.clientBlock
      /\ e.currentBlock = d.currentBlock /\ e.xmitBlock = d.xmitBlock
  BY <1>1, <1>6, <1>7 DEF SameCounters
<1>9. PlacesInv(e) /\ BlocksInv(r.toClient, e)
  BY <1>3, <1>6, <1>8, Settled DEF At
<1>10. Done(p, i + 1, e) /\ p \in 1 .. i + 1
  <2>1. Len(commands) <= (i + 1) + 1
    BY <1>0, <1>2
  <2>. QED  BY <1>2, <1>4, <1>8, <2>1 DEF Done
<1>11. At(i + 1, e)
  BY <1>3, <1>8, <1>9, <1>10 DEF At
<1>12. sv.gamestate => DOMAIN disk = Files
  BY DEF Right
<1>. QED  BY <1>3, <1>6, <1>7, <1>9, <1>11, <1>12 DEF Right

LEMMA ExecutesRight ==
    ASSUME TypesInv, FilesInv, NEW channel, NEW i \in Nat, i + 1 <= Len(commands),
           NEW sv, Typed(sv, channel), Right(i, sv),
           NEW r, r = SV_ExecuteClientCommand(sv, commands[i + 1])
    PROVE  Right(i + 1, r)
<1>1. CASE Asking(i, sv.download)
  BY <1>1, ExecutesAsking
<1>2. CASE \E q \in 1 .. i : Getting(q, i, sv.download)
  BY <1>2, ExecutesGetting
<1>3. CASE \E q \in 1 .. i : \E g \in Files : Behind(q, g, i, sv.download)
  <2>1. PICK q \in 1 .. i, g \in Files : Behind(q, g, i, sv.download)
    BY <1>3
  <2>2. CASE i <= q + Size[g]
    BY <2>1, <2>2, ExecutesBehind
  <2>3. CASE i = q + Size[g] + 1
    BY <2>1, <2>3, ExecutesClosed
  <2>4. i <= q + Size[g] \/ i = q + Size[g] + 1
    <3>1. PICK s \in Nat : s = Size[g]
      BY Numbers
    <3>2. i \in q .. q + s + 1
      BY <2>1, <3>1 DEF Behind
    <3>3. i <= q + s \/ i = q + s + 1
      BY <3>2
    <3>. QED  BY <3>1, <3>3
  <2>. QED  BY <2>2, <2>3, <2>4
<1>4. CASE \E p \in 1 .. i : Done(p, i, sv.download)
  BY <1>4, ExecutesDone
<1>. QED  BY <1>1, <1>2, <1>3, <1>4 DEF Right, At

LEMMA RunsRight ==
    ASSUME TypesInv, FilesInv, NEW channel, NEW sv, Typed(sv, channel), Right(lastClientCommand, sv),
           NEW n \in Nat, NEW t, Runs(t, sv, n),
           lastClientCommand + n <= Len(commands), NEW k \in 0 .. n
    PROVE  Right(lastClientCommand + k, t[k])
<1>. DEFINE Bad == {j \in 0 .. n : ~Right(lastClientCommand + j, t[j])}
<1>. SUFFICES ASSUME Bad # {} PROVE FALSE
  OBVIOUS
<1>1. Bad \in SUBSET Nat
  OBVIOUS
<1>2. PICK j \in Bad : \A i \in Bad : j <= i
  <2>. HIDE DEF Bad
  <2>. QED  BY <1>1, LeastElement
<1>0. PICK l \in Nat : l = lastClientCommand
  BY DEF TypesInv, ServerTypes
<1>3. j # 0
  <2>1. l + 0 = l
    OBVIOUS
  <2>. QED  BY <1>0, <1>2, <2>1 DEF Runs
<1>4. j - 1 \in 0 .. n - 1 /\ j - 1 \in 0 .. n /\ (j - 1) + 1 = j /\ j - 1 \notin Bad
  BY <1>2, <1>3
<1>5. Right(l + (j - 1), t[j - 1])
  BY <1>0, <1>4
<1>6. t[j] = SV_ExecuteClientCommand(t[j - 1], commands[lastClientCommand + (j - 1) + 1])
  BY <1>4, Zenon DEF Runs
<1>7. Typed(t[j - 1], channel)
  BY <1>4, RunsTyped DEF TypesInv
<1>8. l + (j - 1) \in Nat /\ (l + (j - 1)) + 1 <= Len(commands) /\ (l + (j - 1)) + 1 = l + j
  <2>1. Len(commands) \in Nat /\ l + n <= Len(commands)
    BY <1>0 DEF TypesInv, ServerTypes
  <2>. QED  BY <1>2, <1>4, <2>1
<1>9. t[j] = SV_ExecuteClientCommand(t[j - 1], commands[(l + (j - 1)) + 1])
  BY <1>0, <1>6
<1>10. Right((l + (j - 1)) + 1, t[j])
  BY <1>5, <1>7, <1>8, <1>9, ExecutesRight
<1>11. Right(lastClientCommand + j, t[j])
  BY <1>0, <1>8, <1>10
<1>. QED  BY <1>2, <1>11

\* With nothing executed, nothing was asked for but the first file.
LEMMA NothingExecuted ==
    ASSUME NEW d, At(0, d)
    PROVE  Asking(0, d)
<1>1. 1 .. 0 = {}
  OBVIOUS
<1>. QED  BY <1>1 DEF At

\* The packets that are left say of the client what they said before.
LEMMA PacketsLeft ==
    ASSUME TypesInv, Exact, NEW k, NEW m, NEW new, Outcome(k, m, new),
           lastClientCommand = 0, DOMAIN disk = {}, NEW j \in 1 .. Len(toServer')
    PROVE  /\ toServer'[j].serverId <= clServerId
           /\ toServer'[j].serverId = clServerId => toServer'[j].sequence = Len(commands)
<1>1. /\ j + k \in 1 .. Len(toServer)
      /\ toServer'[j].serverId = toServer[j + k].serverId
      /\ toServer'[j].sequence = toServer[j + k].sequence
  BY OutcomePackets
<1>2. /\ toServer[j + k].serverId <= clServerId
      /\ toServer[j + k].serverId = clServerId => toServer[j + k].sequence = Len(commands)
  BY <1>1 DEF Exact, GameStatesInv
<1>. QED  BY <1>1, <1>2

\* The first packet that is executed comes from a client that has the game state of this map.
LEMMA FirstPacket ==
    ASSUME TypesInv, Exact, NEW k, NEW m, NEW new, Outcome(k, m, new), ~OfOtherMap(m),
           lastClientCommand = 0
    PROVE  /\ DOMAIN disk = {} /\ m.sequence = Len(commands)
           /\ \A j \in 1 .. Len(toClient) : toClient[j].kind # "gamestate"
<1>1. PICK d : d = download
  OBVIOUS
<1>2. At(0, d)
  BY <1>1 DEF Exact
<1>3. DOMAIN disk = {} /\ d.name = NoFile
  BY <1>2, NothingExecuted DEF Asking
<1>4. m = toServer[k] /\ k \in 1 .. Len(toServer) /\ m.serverId = serverId
  BY <1>1, <1>3 DEF Outcome, OfOtherMap
<1>5. m.serverId <= clServerId /\ (m.serverId = clServerId => m.sequence = Len(commands))
  BY <1>3, <1>4 DEF Exact, GameStatesInv
<1>6. clServerId \in 0 .. serverId /\ serverId \in Nat
  BY DEF TypesInv, ClientTypes, ServerTypes
<1>7. clServerId = serverId
  BY <1>4, <1>5, <1>6
<1>8. ASSUME NEW j \in 1 .. Len(toClient), toClient[j].kind = "gamestate" PROVE FALSE
  <2>1. clServerId < toClient[j].serverId
    BY <1>3, <1>8 DEF Exact, GameStatesInv
  <2>2. toClient[j].serverId \in 1 .. serverId
    BY <1>8 DEF TypesInv, FlightTypes
  <2>. QED  BY <1>6, <1>7, <2>1, <2>2
<1>. QED  BY <1>3, <1>4, <1>5, <1>7, <1>8

LEMMA BeforeRight ==
    ASSUME TypesInv, Exact
    PROVE  Right(lastClientCommand, Before)
BY DEF Exact, Right, Before

LEMMA CommandsExact ==
    ASSUME TypesInv, Exact, NEW k, NEW m, NEW new, Outcome(k, m, new), ~OfOtherMap(m),
           NEW n, NEW t, Commanded(m, n, t), new = ExecuteMove(t[n], m)
    PROVE  Exact'
<1>0. PICK l \in Nat : l = lastClientCommand
  BY DEF TypesInv, ServerTypes
<1>1. /\ n \in Nat /\ Runs(t, Before, n) /\ lastClientCommand' = l + n /\ l + n <= Len(commands)
      /\ n = 0 \/ l + n = m.sequence
  BY <1>0 DEF Commanded
<1>2. Len(commands) \in Nat /\ Typed(Before, toClient) /\ ServerTypes /\ FilesInv
  BY BeforeTyped DEF TypesInv, ServerTypes, Exact
<1>3. n \in 0 .. n
  BY <1>1
<1>4. Typed(t[n], toClient)
  BY <1>0, <1>1, <1>2, <1>3, RunsTyped
<1>5. Right(l + n, t[n])
  BY <1>0, <1>1, <1>2, <1>3, BeforeRight, RunsRight
<1>6. /\ Typed(new, toClient) /\ new.download = t[n].download /\ new.toClient = t[n].toClient
      /\ new.gamestate = t[n].gamestate /\ (t[n].state # "ZOMBIE" => new.state # "ZOMBIE")
  BY <1>4, MoveTyped
<1>7. Right(l + n, new)
  BY <1>5, <1>6 DEF Right
<1>8. /\ state' = new.state /\ download' = new.download /\ toClient' = new.toClient
      /\ UNCHANGED <<serverId, clState, clServerId, commands, downloadVars>>
  BY DEF Outcome
<1>9. KeepsClient
  BY <1>8 DEF KeepsClient, downloadVars
<1>10. PICK e : e = new.download
  OBVIOUS
<1>11. PICK d : d = download
  OBVIOUS
<1>12. ASSUME Asking(l + n, e) PROVE l + n \in {0, Len(commands)}
  <2>1. At(l, d) /\ (Asking(l, d) => l \in {0, Len(commands)})
    BY <1>0, <1>11 DEF Exact
  <2>2. /\ DOMAIN disk = {} /\ (downloadName = NoFile => commands = <<>>)
        /\ (downloadName # NoFile => downloadBlock = 0)
    BY <1>12 DEF Asking
  <2>3. CASE Asking(l, d)
    <3>1. CASE l = Len(commands)
      BY <1>1, <1>2, <3>1
    <3>2. CASE l = 0 /\ n # 0
      <4>0. lastClientCommand = 0
        BY <1>0, <3>2
      <4>1. m.sequence = Len(commands)
        BY <4>0, FirstPacket, Zenon
      <4>. QED  BY <1>1, <3>2, <4>1
    <3>3. CASE l = 0 /\ n = 0
      BY <3>3
    <3>. QED  BY <2>1, <2>3, <3>1, <3>2, <3>3
  <2>4. CASE \E q \in 1 .. l : Getting(q, l, d)
    <3>1. PICK q \in 1 .. l : Getting(q, l, d)
      BY <2>4
    <3>2. Len(commands) = q + 0
      BY <2>2, <3>1 DEF Getting
    <3>. QED  BY <1>1, <1>2, <3>2
  <2>5. CASE \E q \in 1 .. l : \E g \in Files : Behind(q, g, l, d)
    BY <2>2, <2>5 DEF Behind
  <2>6. CASE \E p \in 1 .. l : Done(p, l, d)
    <3>1. PICK p \in 1 .. l : Finished(p)
      BY <2>6 DEF Done
    <3>2. commands = <<>> /\ p \in 1 .. Len(commands)
      BY <2>2, <3>1 DEF Finished
    <3>. QED  BY <3>2
  <2>. QED  BY <2>1, <2>3, <2>4, <2>5, <2>6 DEF At
<1>13. GameStatesInv'
  <2>1. disk' = disk /\ clServerId' = clServerId /\ commands' = commands
    BY <1>9 DEF KeepsClient
  <2>2. ASSUME DOMAIN disk # Files, lastClientCommand' # 0, NEW j \in 1 .. Len(toClient')
        PROVE  toClient'[j].kind # "gamestate"
    <3>1. toClient' = toClient
      BY <1>6, <1>7, <1>8, <2>2 DEF Right, Typed
    <3>2. CASE l # 0
      BY <1>0, <2>2, <3>1, <3>2 DEF Exact, GameStatesInv
    <3>3. CASE l = 0
      BY <1>0, <2>2, <3>1, <3>3, FirstPacket
    <3>. QED  BY <3>2, <3>3
  <2>3. ASSUME lastClientCommand' = 0, DOMAIN disk = {}
        PROVE  lastClientCommand = 0 /\ toClient' = toClient
    <3>1. DOMAIN disk # Files
      BY <2>3, SizeAssumption
    <3>2. lastClientCommand = 0
      BY <1>0, <1>1, <2>3
    <3>. QED  BY <1>6, <1>7, <1>8, <3>1, <3>2 DEF Right, Typed
  <2>4. ASSUME lastClientCommand' = 0, DOMAIN disk = {}
        PROVE  /\ \A j \in 1 .. Len(toClient') :
                     toClient'[j].kind = "gamestate" =>
                         /\ clServerId < toClient'[j].serverId
                         /\ \A h \in 1 .. j - 1 :
                               toClient'[h].kind = "gamestate" =>
                                   toClient'[h].serverId < toClient'[j].serverId
               /\ \A j \in 1 .. Len(toServer') :
                     /\ toServer'[j].serverId <= clServerId
                     /\ toServer'[j].serverId = clServerId => toServer'[j].sequence = Len(commands)
    <3>1. lastClientCommand = 0 /\ toClient' = toClient
      BY <2>3, <2>4
    <3>2. \A j \in 1 .. Len(toServer') :
              /\ toServer'[j].serverId <= clServerId
              /\ toServer'[j].serverId = clServerId => toServer'[j].sequence = Len(commands)
      BY <2>4, <3>1, PacketsLeft
    <3>. QED  BY <2>4, <3>1, <3>2 DEF Exact, GameStatesInv
  <2>. QED  BY <2>1, <2>2, <2>4 DEF GameStatesInv
<1>14. /\ At(l + n, e) /\ BlocksInv(new.toClient, e) /\ state' # "ZOMBIE"
  BY <1>7, <1>8, <1>10 DEF Right
<1>. QED  BY <1>1, <1>2, <1>8, <1>9, <1>10, <1>12, <1>13, <1>14, ServerStep

\* A client at another map is sent the game state, but not between two files.
LEMMA ResendExact ==
    ASSUME TypesInv, Exact, NEW k, NEW m, NEW new, Outcome(k, m, new), OfOtherMap(m),
           lastClientCommand' = lastClientCommand, m.later, new = SV_SendClientGameState(Before)
    PROVE  Exact'
<1>0. /\ Before \in Services /\ serverId \in Nat /\ Before.download = download
      /\ Before.toClient = toClient /\ toClient \in Seq(ServerMessages) /\ Len(toClient) \in Nat
  BY BeforeTyped DEF TypesInv, ServerTypes, FlightTypes, Before
<1>1. new.state = "PRIMED" /\ new.download = download
  BY <1>0, SendingGameState
<1>2. PICK n \in {0, 1} :
          /\ Len(new.toClient) = Len(Before.toClient) - n + 1
          /\ \A i \in 1 .. Len(Before.toClient) - n : Aged(new.toClient[i], Before.toClient[i + n])
          /\ new.toClient[Len(Before.toClient) - n + 1] =
                [kind |-> "gamestate", serverId |-> serverId, later |-> FALSE]
  BY <1>0, SendingGameState
<1>3. /\ state' = new.state /\ download' = new.download /\ toClient' = new.toClient
      /\ UNCHANGED <<serverId, clState, clServerId, commands, downloadVars>>
  BY DEF Outcome
<1>4. KeepsClient
  BY <1>3 DEF KeepsClient, downloadVars
<1>5. PICK i \in Nat : i = lastClientCommand
  BY DEF TypesInv, ServerTypes
<1>6. PICK d : d = download
  OBVIOUS
<1>7. /\ At(i, d) /\ (Asking(i, d) => i \in {0, Len(commands)}) /\ FilesInv
      /\ BlocksInv(Before.toClient, d)
  BY <1>0, <1>5, <1>6 DEF Exact
<1>8. BlocksInv(new.toClient, d)
  BY <1>0, <1>7, BlocksAged
<1>9. /\ m.serverId # serverId /\ d.name = NoFile
      /\ ~(i > 0 /\ commands[i].name = "nextdl")
  BY <1>5, <1>6 DEF OfOtherMap
<1>10. i # 0 => DOMAIN disk = Files
  <2>1. CASE Asking(i, d)
    <3>1. ASSUME i # 0 PROVE FALSE
      <4>1. d.name = downloadName /\ i \in 0 .. Len(commands)
        BY <2>1, <3>1 DEF Asking
      <4>2. commands = <<>>
        BY <1>9, <2>1, <4>1 DEF Asking
      <4>. QED  BY <3>1, <4>1, <4>2
    <3>. QED  BY <3>1
  <2>2. CASE \E q \in 1 .. i : Getting(q, i, d)
    BY <1>9, <2>2 DEF Getting
  <2>3. CASE \E q \in 1 .. i : \E g \in Files : Behind(q, g, i, d)
    <3>1. PICK q \in 1 .. i, g \in Files : Behind(q, g, i, d)
      BY <2>3
    <3>2. PICK s \in Nat : s = Size[g]
      BY Numbers
    <3>3. i \in q .. q + s + 1 /\ Asked(q, g, s + 1) /\ (i <= q + s => d.name = g)
      BY <3>1, <3>2 DEF Behind
    <3>4. d.name # g
      BY <1>9, Numbers
    <3>5. i = q + (s + 1) /\ s + 1 \in 1 .. s + 1
      BY <3>3, <3>4
    <3>6. commands[q + (s + 1)] = Command("nextdl", (s + 1) - 1)
      BY <3>3, <3>5 DEF Asked
    <3>7. commands[i].name = "nextdl"
      BY <3>5, <3>6 DEF Command
    <3>8. i > 0
      BY <3>5
    <3>. QED  BY <1>9, <3>7, <3>8
  <2>4. CASE \E p \in 1 .. i : Done(p, i, d)
    BY <2>4 DEF Done, Finished
  <2>. QED  BY <1>7, <2>1, <2>2, <2>3, <2>4 DEF At
\* No game state of this map is on the way, and the client has none.
<1>11. m = toServer[k] /\ k \in 1 .. Len(toServer)
  BY DEF Outcome
<1>12. \A j \in 1 .. Len(toClient) :
           toClient[j].kind = "gamestate" => toClient[j].serverId # serverId
  BY <1>11 DEF TypesInv, LaterInv
<1>13. clServerId < serverId
  <2>1. clServerId # serverId
    BY <1>9, <1>11 DEF TypesInv, LaterInv
  <2>2. clServerId \in 0 .. serverId
    BY DEF TypesInv, ClientTypes
  <2>. QED  BY <1>0, <2>1, <2>2
<1>14. ASSUME lastClientCommand = 0, DOMAIN disk = {}, NEW j \in 1 .. Len(toClient'),
              toClient'[j].kind = "gamestate"
       PROVE  /\ clServerId < toClient'[j].serverId
              /\ \A h \in 1 .. j - 1 :
                    toClient'[h].kind = "gamestate" => toClient'[h].serverId < toClient'[j].serverId
  <2>1. \A h \in 1 .. Len(toClient) - n :
            /\ h + n \in 1 .. Len(toClient)
            /\ toClient'[h].kind = toClient[h + n].kind
            /\ toClient'[h].kind = "gamestate" => toClient'[h].serverId = toClient[h + n].serverId
    <3>. SUFFICES ASSUME NEW h \in 1 .. Len(toClient) - n
                  PROVE  /\ h + n \in 1 .. Len(toClient)
                         /\ toClient'[h].kind = toClient[h + n].kind
                         /\ toClient'[h].kind = "gamestate" => toClient'[h].serverId = toClient[h + n].serverId
      OBVIOUS
    <3>1. Aged(toClient'[h], toClient[h + n])
      BY <1>0, <1>2, <1>3
    <3>2. h + n \in 1 .. Len(toClient)
      BY <1>0
    <3>. QED  BY <3>1, <3>2 DEF Aged
  <2>2. Len(toClient') = Len(toClient) - n + 1
    BY <1>0, <1>2, <1>3
  <2>3. CASE j \in 1 .. Len(toClient) - n
    <3>1. /\ clServerId < toClient[j + n].serverId
          /\ \A h \in 1 .. j + n - 1 :
                toClient[h].kind = "gamestate" => toClient[h].serverId < toClient[j + n].serverId
      BY <1>14, <2>1, <2>3 DEF Exact, GameStatesInv
    <3>2. ASSUME NEW h \in 1 .. j - 1, toClient'[h].kind = "gamestate"
          PROVE  toClient'[h].serverId < toClient'[j].serverId
      <4>1. h \in 1 .. Len(toClient) - n /\ h + n \in 1 .. j + n - 1
        BY <1>0, <2>3
      <4>2. toClient[h + n].kind = "gamestate" /\ toClient'[h].serverId = toClient[h + n].serverId
        BY <2>1, <3>2, <4>1
      <4>3. toClient'[j].serverId = toClient[j + n].serverId
        BY <1>14, <2>1, <2>3
      <4>. QED  BY <3>1, <4>1, <4>2, <4>3
    <3>. QED  BY <1>14, <2>1, <2>3, <3>1, <3>2
  <2>4. CASE j = Len(toClient) - n + 1
    <3>1. toClient'[j].serverId = serverId
      BY <1>0, <1>2, <1>3, <2>4
    <3>2. ASSUME NEW h \in 1 .. j - 1, toClient'[h].kind = "gamestate"
          PROVE  toClient'[h].serverId < serverId
      <4>1. h \in 1 .. Len(toClient) - n
        BY <1>0, <2>4
      <4>2. /\ toClient'[h].serverId = toClient[h + n].serverId /\ h + n \in 1 .. Len(toClient)
            /\ toClient[h + n].kind = "gamestate"
        BY <2>1, <3>2, <4>1
      <4>3. toClient[h + n].serverId \in 1 .. serverId /\ toClient[h + n].serverId # serverId
        BY <1>12, <4>2 DEF TypesInv, FlightTypes
      <4>. QED  BY <1>0, <4>2, <4>3
    <3>. QED  BY <1>13, <3>1, <3>2
  <2>. QED  BY <1>0, <2>2, <2>3, <2>4
<1>15. GameStatesInv'
  <2>1. disk' = disk /\ clServerId' = clServerId /\ commands' = commands
    BY <1>4 DEF KeepsClient
  <2>2. ASSUME lastClientCommand = 0, DOMAIN disk = {}
        PROVE  \A j \in 1 .. Len(toServer') :
                  /\ toServer'[j].serverId <= clServerId
                  /\ toServer'[j].serverId = clServerId => toServer'[j].sequence = Len(commands)
    BY <2>2, PacketsLeft
  <2>. QED  BY <1>5, <1>10, <1>14, <2>1, <2>2 DEF GameStatesInv
<1>16. lastClientCommand' = i /\ download' = d /\ state' # "ZOMBIE"
  BY <1>1, <1>3, <1>5, <1>6
<1>. QED  BY <1>3, <1>4, <1>7, <1>8, <1>15, <1>16, ServerStep

LEMMA ExecutionExact ==
    ASSUME TypesInv, Exact, SV_ExecuteClientMessage
    PROVE  Exact'
<1>1. PICK k, m, new : Outcome(k, m, new)
  BY Execution
<1>2. CASE lastClientCommand' = lastClientCommand /\ new = Before
  <2>1. /\ state' = state /\ download' = download /\ toClient' = toClient
        /\ UNCHANGED <<serverId, clState, clServerId, commands, downloadVars>>
    BY <1>1, <1>2 DEF Outcome, Before
  <2>2. KeepsClient
    BY <2>1 DEF KeepsClient, downloadVars
  <2>3. GameStatesInv'
    <3>1. disk' = disk /\ clServerId' = clServerId /\ commands' = commands
      BY <2>2 DEF KeepsClient
    <3>2. ASSUME lastClientCommand = 0, DOMAIN disk = {}
          PROVE  \A j \in 1 .. Len(toServer') :
                    /\ toServer'[j].serverId <= clServerId
                    /\ toServer'[j].serverId = clServerId => toServer'[j].sequence = Len(commands)
      BY <1>1, <3>2, PacketsLeft
    <3>. QED  BY <1>2, <2>1, <3>1, <3>2 DEF Exact, GameStatesInv
  <2>4. PICK i : i = lastClientCommand
    OBVIOUS
  <2>5. PICK d : d = download
    OBVIOUS
  <2>6. PICK c : c = toClient
    OBVIOUS
  <2>7. /\ FilesInv /\ At(i, d) /\ (Asking(i, d) => i \in {0, Len(commands)}) /\ BlocksInv(c, d)
        /\ state # "ZOMBIE"
    BY <2>4, <2>5, <2>6 DEF Exact
  <2>. QED  BY <1>2, <2>1, <2>2, <2>3, <2>4, <2>5, <2>6, <2>7, ServerStep
<1>3. CASE /\ OfOtherMap(m) /\ lastClientCommand' = lastClientCommand
           /\ m.later /\ new = SV_SendClientGameState(Before)
  BY <1>1, <1>3, ResendExact
<1>4. CASE ~OfOtherMap(m) /\ \E n, t : Commanded(m, n, t) /\ new = ExecuteMove(t[n], m)
  BY <1>1, <1>4, CommandsExact
<1>. QED  BY <1>1, <1>2, <1>3, <1>4 DEF Outcome

-----------------------------------------------------------------------------
\* The client takes a message.

\* Message k is taken; those before it are lost.
Advances(k, m) ==
    /\ k \in 1 .. Len(toClient) /\ m = toClient[k] /\ m \in ServerMessages
    /\ UNCHANGED serverVars
    /\ toClient' = After(toClient, k)

LEMMA ChannelLeft ==
    ASSUME TypesInv, NEW k, NEW m, Advances(k, m)
    PROVE  \A i \in 1 .. Len(toClient') : i + k \in 1 .. Len(toClient) /\ toClient'[i] = toClient[i + k]
<1>1. /\ toClient \in Seq(ServerMessages) /\ k \in 1 .. Len(toClient)
      /\ toClient' = After(toClient, k)
  BY DEF TypesInv, FlightTypes, Advances
<1>. QED  BY <1>1, Remaining

\* What is left to show of a step of the client.
LEMMA ClientStep ==
    ASSUME Exact, UNCHANGED serverVars, FilesInv', NEW i, i = lastClientCommand, NEW d, d = download,
           NEW c, c = toClient',
           At(i, d)', Asking(i, d)' => i \in {0, Len(commands')}, BlocksInv(c, d)', GameStatesInv'
    PROVE  Exact'
<1>1. state' = state /\ lastClientCommand' = i /\ download' = d
  BY DEF serverVars
<1>2. state' # "ZOMBIE"
  BY <1>1 DEF Exact
<1>3. At(lastClientCommand, download)'
  BY <1>1 DEF At, Asking, Getting, Behind, Done, PlacesInv
<1>4. BlocksInv(toClient, download)'
  BY <1>1 DEF BlocksInv, Sound
<1>5. (Asking(lastClientCommand, download) => lastClientCommand \in {0, Len(commands)})'
  BY <1>1 DEF Asking
<1>. QED  BY <1>2, <1>3, <1>4, <1>5 DEF Exact

\* Game states are as rare behind a message as before it.
LEMMA GameStatesLeft ==
    ASSUME TypesInv, Exact, NEW k, NEW m, Advances(k, m), disk' = disk,
           \/ DOMAIN disk # {}
           \/ lastClientCommand # 0
           \/ UNCHANGED <<commands, clServerId, toServer>>
    PROVE  GameStatesInv'
<1>1. \A i \in 1 .. Len(toClient') : i + k \in 1 .. Len(toClient) /\ toClient'[i] = toClient[i + k]
  BY ChannelLeft
<1>2. lastClientCommand' = lastClientCommand
  BY DEF Advances, serverVars
<1>3. ASSUME DOMAIN disk # Files, lastClientCommand # 0, NEW i \in 1 .. Len(toClient')
      PROVE  toClient'[i].kind # "gamestate"
  BY <1>1, <1>3 DEF Exact, GameStatesInv
<1>4. ASSUME DOMAIN disk = {}, lastClientCommand = 0, UNCHANGED <<commands, clServerId, toServer>>,
             NEW i \in 1 .. Len(toClient'), toClient'[i].kind = "gamestate"
      PROVE  /\ clServerId < toClient'[i].serverId
             /\ \A j \in 1 .. i - 1 :
                   toClient'[j].kind = "gamestate" => toClient'[j].serverId < toClient'[i].serverId
  <2>1. /\ clServerId < toClient[i + k].serverId
        /\ \A j \in 1 .. (i + k) - 1 :
              toClient[j].kind = "gamestate" => toClient[j].serverId < toClient[i + k].serverId
    BY <1>1, <1>4 DEF Exact, GameStatesInv
  <2>2. ASSUME NEW j \in 1 .. i - 1
        PROVE  j \in 1 .. Len(toClient') /\ j + k \in 1 .. (i + k) - 1
    <3>1. k \in Nat /\ i \in Nat /\ Len(toClient') \in Nat
      <4>1. toClient \in Seq(ServerMessages) /\ k \in 1 .. Len(toClient) /\ toClient' = After(toClient, k)
        BY DEF TypesInv, FlightTypes, Advances
      <4>2. toClient' \in Seq(ServerMessages)
        BY <4>1, Remaining
      <4>. QED  BY <4>1, <4>2
    <3>2. j \in 1 .. Len(toClient')
      BY <3>1
    <3>. QED  BY <3>1, <3>2
  <2>. QED  BY <1>1, <2>1, <2>2
<1>5. CASE DOMAIN disk # {} \/ lastClientCommand # 0
  BY <1>2, <1>3, <1>5 DEF GameStatesInv
<1>6. CASE DOMAIN disk = {} /\ lastClientCommand = 0 /\ UNCHANGED <<commands, clServerId, toServer>>
  <2>1. \A i \in 1 .. Len(toServer) :
            /\ toServer[i].serverId <= clServerId
            /\ toServer[i].serverId = clServerId => toServer[i].sequence = Len(commands)
    BY <1>6 DEF Exact, GameStatesInv
  <2>. QED  BY <1>2, <1>4, <1>6, <2>1 DEF GameStatesInv
<1>. QED  BY <1>5, <1>6

LEMMA BlocksLeft ==
    ASSUME TypesInv, NEW k, NEW m, Advances(k, m), NEW d, BlocksInv(toClient, d), NEW c, c = toClient',
           NEW i \in 1 .. Len(c), c[i].kind = "download"
    PROVE  Sound(c[i], d) /\ c[i] \in ServerMessages
<1>1. i + k \in 1 .. Len(toClient) /\ c[i] = toClient[i + k]
  BY ChannelLeft
<1>2. toClient \in Seq(ServerMessages)
  BY DEF TypesInv, FlightTypes
<1>. QED  BY <1>1, <1>2 DEF BlocksInv

\* A message that is ignored.
LEMMA IgnoresExact ==
    ASSUME TypesInv, Exact, NEW k, NEW m, Advances(k, m), KeepsClient, toServer' = toServer
    PROVE  Exact'
<1>1. PICK i : i = lastClientCommand
  OBVIOUS
<1>2. PICK d : d = download
  OBVIOUS
<1>3. PICK c : c = toClient'
  OBVIOUS
<1>4. /\ At(i, d) /\ (Asking(i, d) => i \in {0, Len(commands)}) /\ FilesInv
      /\ BlocksInv(toClient, d) /\ state # "ZOMBIE"
  BY <1>1, <1>2 DEF Exact
<1>5. BlocksInv(c, d)
  BY <1>3, <1>4, BlocksLeft DEF BlocksInv
<1>6. GameStatesInv'
  BY GameStatesLeft DEF KeepsClient
<1>7. state' = state /\ lastClientCommand' = i /\ download' = d
  BY <1>1, <1>2 DEF Advances, serverVars
<1>. QED  BY <1>3, <1>4, <1>5, <1>6, <1>7, ServerStep

\* A block on the way means that the client has files or is getting one.
LEMMA BlockOnTheWay ==
    ASSUME Exact, NEW k, NEW m, Advances(k, m), m.kind = "download",
           NEW i, i = lastClientCommand, NEW d, d = download
    PROVE  Sound(m, d) /\ ~Asking(i, d) /\ (DOMAIN disk # {} \/ i # 0)
<1>1. Sound(m, d) /\ At(i, d)
  BY DEF Advances, Exact, BlocksInv
<1>2. ~Asking(i, d)
  BY <1>1 DEF Sound, Asking
<1>3. CASE i = 0
  <2>1. Asking(0, d)
    BY <1>1, <1>3, NothingExecuted
  <2>. QED  BY <1>2, <1>3, <2>1
<1>. QED  BY <1>1, <1>2, <1>3

LEMMA UnwantedExact ==
    ASSUME TypesInv, Exact, NEW k, NEW m, Advances(k, m), m.kind = "download",
           ParseUnwanted(m), clServerId' = clServerId
    PROVE  Exact'
<1>1. PICK i \in Nat : i = lastClientCommand
  BY DEF TypesInv, ServerTypes
<1>2. PICK d : d = download
  OBVIOUS
<1>3. PICK c : c = toClient'
  OBVIOUS
<1>4. At(i, d) /\ FilesInv /\ BlocksInv(toClient, d)
  BY <1>1, <1>2 DEF Exact
<1>5. Sound(m, d) /\ ~Asking(i, d)
  BY <1>1, <1>2, BlockOnTheWay
<1>6. /\ downloadName = NoFile
      /\ UNCHANGED <<downloadName, downloadBlock, downloadList, written, disk, toServer>>
  BY DEF ParseUnwanted, downloadVars
<1>7. CASE commands' = commands
  BY <1>6, <1>7, IgnoresExact DEF KeepsClient
<1>8. CASE /\ commands' = Append(commands, Command("stopdl", 0))
           /\ ~(i < Len(commands) /\ Last(commands).name = "stopdl")
  <2>1. PICK n \in Nat : n = Len(commands)
    BY DEF TypesInv, ServerTypes
  <2>2. /\ Len(commands') = n + 1 /\ commands'[n + 1] = Command("stopdl", 0)
        /\ \A j \in 1 .. n : commands'[j] = commands[j]
    BY <1>8, <2>1, CommandTypes DEF TypesInv, ServerTypes
  <2>3. ASSUME NEW p, Finished(p), p < n, i < n PROVE FALSE
    <3>1. commands[n] = Command("stopdl", 0)
      <4>1. p \in Nat
        BY <2>1, <2>3 DEF Finished
      <4>2. n \in p + 1 .. Len(commands)
        BY <2>1, <2>3, <4>1
      <4>. QED  BY <2>3, <4>2 DEF Finished
    <3>2. Last(commands).name = "stopdl"
      BY <2>1, <3>1 DEF Last, Command
    <3>. QED  BY <1>8, <2>1, <2>3, <3>2
  <2>4. ASSUME NEW p, Finished(p) PROVE Finished(p)'
    <3>1. DOMAIN disk = Files /\ commands[p] = Command("donedl", 0)
      BY <2>4 DEF Finished
    <3>2. p \in 1 .. n
      BY <2>1, <2>4 DEF Finished
    <3>3. p \in 1 .. Len(commands') /\ commands'[p] = Command("donedl", 0)
      BY <2>2, <3>1, <3>2
    <3>4. \A j \in p + 1 .. n : commands[j] = Command("stopdl", 0)
      BY <2>1, <2>4 DEF Finished
    <3>5. \A j \in p + 1 .. Len(commands') : commands'[j] = Command("stopdl", 0)
      <4>. SUFFICES ASSUME NEW j \in p + 1 .. Len(commands')
                    PROVE  commands'[j] = Command("stopdl", 0)
        OBVIOUS
      <4>1. CASE j = n + 1
        BY <2>2, <4>1
      <4>2. CASE j # n + 1
        <5>1. j \in p + 1 .. n /\ j \in 1 .. n
          BY <2>2, <3>2, <4>2
        <5>. QED  BY <2>2, <3>4, <5>1
      <4>. QED  BY <4>1, <4>2
    <3>. QED  BY <1>6, <3>1, <3>3, <3>5 DEF Finished
  <2>5. /\ At(i, d)' /\ DOMAIN disk # {}
    <3>1. CASE \E q \in 1 .. i : Getting(q, i, d)
      BY <1>6, <3>1 DEF Getting
    <3>2. CASE \E q \in 1 .. i : \E g \in Files : Behind(q, g, i, d)
      <4>1. PICK q \in 1 .. i, g \in Files : Behind(q, g, i, d)
        BY <3>2
      <4>2. PICK s \in Nat : s = Size[g]
        BY Numbers
      <4>3. /\ g \in DOMAIN disk /\ Asked(q, g, s + 1) /\ i \in q .. q + s + 1
            /\ i <= q + s =>
                  /\ d.name = g /\ d.open
                  /\ d.clientBlock = i - q /\ d.currentBlock = s + 1 /\ Window(d)
            /\ i = q + s + 1 => d.name = NoFile
            /\ Finished(q + s + 2) /\ n <= q + s + 3 /\ q + s + 2 <= n
        BY <1>6, <2>1, <4>1, <4>2 DEF Behind
      <4>4. n = q + s + 2
        <5>1. CASE n = q + s + 3
          <6>1. q + s + 2 < n /\ i < n
            BY <4>3, <5>1
          <6>. QED  BY <2>3, <4>3, <6>1
        <5>. QED  BY <4>3, <5>1
      <4>5. Asked(q, g, s + 1)'
        <5>1. /\ q \in 1 .. n /\ q + (s + 1) <= n /\ commands[q] = Command("download", g)
              /\ \A j \in 1 .. s + 1 : commands[q + j] = Command("nextdl", j - 1)
          BY <2>1, <4>3 DEF Asked
        <5>2. q \in 1 .. Len(commands') /\ q + (s + 1) <= Len(commands')
          BY <2>2, <5>1
        <5>3. \A j \in 1 .. s + 1 : q + j \in 1 .. n
          BY <5>1
        <5>. QED  BY <2>2, <5>1, <5>2, <5>3 DEF Asked
      <4>6. Finished(q + s + 2)'
        BY <2>4, <4>3
      <4>7. Behind(q, g, i, d)'
        <5>1. q + s + 2 <= Len(commands') /\ Len(commands') <= q + s + 3
          BY <2>2, <4>4
        <5>. QED  BY <1>6, <4>2, <4>3, <4>5, <4>6, <5>1 DEF Behind, Window
      <4>. QED  BY <1>4, <1>6, <4>3, <4>7 DEF At, PlacesInv
    <3>3. CASE \E p \in 1 .. i : Done(p, i, d)
      <4>1. PICK p \in 1 .. i : Done(p, i, d)
        BY <3>3
      <4>2. Finished(p) /\ i \in p .. n /\ n <= i + 1 /\ d.name = NoFile
        BY <2>1, <4>1 DEF Done
      <4>3. n = i
        <5>1. CASE n = i + 1
          <6>1. p < n /\ i < n
            BY <5>1
          <6>. QED  BY <2>3, <4>2, <6>1
        <5>. QED  BY <4>2, <5>1
      <4>4. Finished(p)' /\ DOMAIN disk = Files
        BY <2>4, <4>2 DEF Finished
      <4>5. Done(p, i, d)'
        <5>1. i \in p .. Len(commands') /\ Len(commands') <= i + 1
          BY <2>2, <4>3
        <5>. QED  BY <4>2, <4>4, <5>1 DEF Done
      <4>. QED  BY <1>4, <1>6, <4>4, <4>5, SizeAssumption DEF At, PlacesInv
    <3>. QED  BY <1>4, <1>5, <3>1, <3>2, <3>3 DEF At
  <2>6. ~Asking(i, d)'
    BY <1>6, <2>5 DEF Asking
  <2>7. FilesInv'
    BY <1>4, <1>6 DEF FilesInv
  <2>8. BlocksInv(c, d)'
    <3>1. \A j \in 1 .. Len(c) : c[j].kind = "download" => Sound(c[j], d)
      BY <1>3, <1>4, BlocksLeft
    <3>. QED  BY <1>6, <3>1 DEF BlocksInv, Sound
  <2>9. GameStatesInv'
    BY <1>6, <2>5, GameStatesLeft
  <2>10. UNCHANGED serverVars
    BY DEF Advances
  <2>. QED  BY <1>1, <1>2, <1>3, <2>5, <2>6, <2>7, <2>8, <2>9, <2>10, ClientStep
<1>. QED  BY <1>1, <1>7, <1>8 DEF ParseUnwanted

\* The client with all files goes on with the game state.
LEMMA GamestateCompleteExact ==
    ASSUME TypesInv, Exact, NEW k, NEW m, Advances(k, m), DOMAIN disk = Files,
           UNCHANGED <<commands, downloadVars, toServer>>
    PROVE  Exact'
<1>1. PICK i \in Nat : i = lastClientCommand
  BY DEF TypesInv, ServerTypes
<1>2. PICK d : d = download
  OBVIOUS
<1>3. PICK c : c = toClient'
  OBVIOUS
<1>4. At(i, d) /\ FilesInv /\ BlocksInv(toClient, d)
  BY <1>1, <1>2 DEF Exact
<1>5. DOMAIN disk # {}
  BY SizeAssumption
<1>6. UNCHANGED <<commands, downloadName, downloadBlock, downloadList, written, disk, toServer>>
  BY DEF downloadVars
<1>7. At(i, d)'
  <2>1. ~Asking(i, d)
    BY <1>5 DEF Asking
  <2>. QED  BY <1>4, <1>6, <2>1 DEF At, PlacesInv, Getting, Behind, Done, Asked, Finished
<1>8. ~Asking(i, d)'
  BY <1>5, <1>6 DEF Asking
<1>9. FilesInv'
  BY <1>4, <1>6 DEF FilesInv
<1>10. BlocksInv(c, d)'
  <2>1. \A j \in 1 .. Len(c) : c[j].kind = "download" => Sound(c[j], d)
    BY <1>3, <1>4, BlocksLeft
  <2>. QED  BY <1>6, <2>1 DEF BlocksInv, Sound
<1>11. GameStatesInv'
  BY <1>5, <1>6, GameStatesLeft
<1>12. UNCHANGED serverVars
  BY DEF Advances
<1>. QED  BY <1>1, <1>2, <1>3, <1>7, <1>8, <1>9, <1>10, <1>11, <1>12, ClientStep

\* The client without files asks for the first one, each time a game state arrives.
LEMMA GamestateMissingExact ==
    ASSUME TypesInv, Exact, NEW k, NEW m, Advances(k, m), m.kind = "gamestate",
           ParseGamestate(m), DOMAIN disk # Files
    PROVE  Exact'
<1>1. PICK i \in Nat : i = lastClientCommand
  BY DEF TypesInv, ServerTypes
<1>2. PICK d : d = download
  OBVIOUS
<1>3. PICK c : c = toClient'
  OBVIOUS
<1>4. At(i, d) /\ FilesInv /\ BlocksInv(toClient, d)
  BY <1>1, <1>2 DEF Exact
<1>5. i = 0
  BY <1>1 DEF Exact, GameStatesInv, Advances
<1>6. Asking(0, d)
  BY <1>4, <1>5, NothingExecuted
<1>7. /\ DOMAIN disk = {} /\ Len(commands) <= clServerId /\ d.name = NoFile /\ ~d.open
      /\ downloadName = NoFile => commands = <<>>
      /\ downloadName # NoFile => downloadName = Min(Files) /\ downloadBlock = 0
      /\ \A j \in 1 .. Len(commands) : commands[j] = Command("download", downloadName)
  BY <1>6 DEF Asking
<1>8. Files \ DOMAIN disk = Files /\ Files # {}
  BY <1>7, SizeAssumption
<1>9. PICK f \in Files : f = Min(Files)
  BY <1>8, FirstOfList
<1>10. /\ clServerId' = m.serverId /\ downloadName' = f /\ downloadBlock' = 0
       /\ downloadList' = Files \ {f} /\ commands' = commands \o <<>> \o <<Command("download", f)>>
       /\ written' = written /\ disk' = disk /\ toServer' = toServer
  <2>1. /\ clServerId' = m.serverId /\ CL_BeginDownload(Files, <<>>)
        /\ written' = written /\ disk' = disk /\ toServer' = toServer
    BY <1>8 DEF ParseGamestate
  <2>. QED  BY <1>9, <2>1, Zenon DEF CL_BeginDownload
<1>11. PICK n \in Nat : n = Len(commands)
  BY DEF TypesInv, ServerTypes
<1>12. /\ Len(commands') = n + 1 /\ commands'[n + 1] = Command("download", f)
       /\ \A j \in 1 .. n : commands'[j] = commands[j]
  <2>1. commands \in Seq(Commands) /\ Command("download", f) \in Commands
    BY CommandTypes DEF TypesInv, ServerTypes
  <2>2. commands' = Append(commands, Command("download", f))
    BY <1>10, <2>1, Issuing
  <2>. QED  BY <1>11, <2>1, <2>2
<1>13. m.serverId \in Nat /\ clServerId \in Nat /\ clServerId < m.serverId
  <2>1. m = toClient[k] /\ k \in 1 .. Len(toClient)
    BY DEF Advances
  <2>2. m.serverId \in 1 .. serverId
    BY <2>1 DEF TypesInv, FlightTypes
  <2>3. clServerId < m.serverId
    BY <1>1, <1>5, <1>7, <2>1 DEF Exact, GameStatesInv
  <2>4. clServerId \in 0 .. serverId /\ serverId \in Nat
    BY DEF TypesInv, ClientTypes, ServerTypes
  <2>. QED  BY <2>2, <2>3, <2>4
<1>14. f # NoFile
  BY Numbers
<1>15. Asking(0, d)'
  <2>1. Len(commands') <= clServerId'
    BY <1>7, <1>10, <1>11, <1>12, <1>13
  <2>2. \A j \in 1 .. Len(commands') : commands'[j] = Command("download", f)
    <3>. SUFFICES ASSUME NEW j \in 1 .. Len(commands')
                  PROVE  commands'[j] = Command("download", f)
      OBVIOUS
    <3>1. CASE j = n + 1
      BY <1>12, <3>1
    <3>2. CASE j # n + 1
      <4>1. j \in 1 .. n
        BY <1>12, <3>2
      <4>2. commands[j] = Command("download", downloadName) /\ commands # <<>>
        BY <1>7, <1>11, <4>1
      <4>3. downloadName = f
        BY <1>7, <1>9, <4>2
      <4>. QED  BY <1>12, <4>1, <4>2, <4>3
    <3>. QED  BY <3>1, <3>2
  <2>3. 0 \in 0 .. Len(commands')
    BY <1>12
  <2>4. f = Min(Files)
    BY <1>9
  <2>. QED  BY <1>7, <1>10, <1>14, <2>1, <2>2, <2>3, <2>4 DEF Asking
<1>16. At(i, d)'
  <2>1. PlacesInv(d)'
    BY <1>4, <1>7, <1>10 DEF At, PlacesInv
  <2>. QED  BY <1>4, <1>5, <1>15, <2>1 DEF At
<1>17. FilesInv'
  <2>1. written = <<>>
    <3>1. CASE downloadName = NoFile
      BY <3>1 DEF TypesInv, ClientTypes
    <3>2. CASE downloadName # NoFile
      <4>1. written = [j \in 1 .. 0 |-> Block(downloadName, j - 1)]
        BY <1>4, <1>7, <3>2 DEF FilesInv
      <4>. QED  BY <4>1
    <3>. QED  BY <3>1, <3>2
  <2>2. written' = [j \in 1 .. 0 |-> Block(f, j - 1)]
    BY <1>10, <2>1
  <2>3. 0 <= Size[f]
    BY Numbers
  <2>4. \A g \in DOMAIN disk' : disk'[g] = Complete(g)
    BY <1>7, <1>10
  <2>. QED  BY <1>7, <1>10, <2>2, <2>3, <2>4 DEF FilesInv
<1>18. BlocksInv(c, d)'
  <2>1. \A j \in 1 .. Len(c) : c[j].kind = "download" => Sound(c[j], d)
    BY <1>3, <1>4, BlocksLeft
  <2>. QED  BY <1>7, <2>1 DEF BlocksInv, Sound
<1>19. GameStatesInv'
  <2>1. \A j \in 1 .. Len(toClient') : j + k \in 1 .. Len(toClient) /\ toClient'[j] = toClient[j + k]
    BY ChannelLeft
  <2>2. m = toClient[k] /\ k \in 1 .. Len(toClient) /\ Len(toClient) \in Nat /\ Len(toClient') \in Nat
    <3>1. toClient \in Seq(ServerMessages) /\ k \in 1 .. Len(toClient) /\ toClient' = After(toClient, k)
      BY DEF TypesInv, FlightTypes, Advances
    <3>2. toClient' \in Seq(ServerMessages)
      BY <3>1, Remaining
    <3>. QED  BY <3>1, <3>2 DEF Advances
  <2>3. ASSUME NEW j \in 1 .. Len(toClient'), toClient'[j].kind = "gamestate"
        PROVE  /\ clServerId' < toClient'[j].serverId
               /\ \A h \in 1 .. j - 1 :
                     toClient'[h].kind = "gamestate" => toClient'[h].serverId < toClient'[j].serverId
    <3>1. \A h \in 1 .. (j + k) - 1 :
              toClient[h].kind = "gamestate" => toClient[h].serverId < toClient[j + k].serverId
      BY <1>1, <1>5, <1>7, <2>1, <2>3 DEF Exact, GameStatesInv
    <3>2. k \in 1 .. (j + k) - 1
      BY <2>2
    <3>3. ASSUME NEW h \in 1 .. j - 1
          PROVE  h \in 1 .. Len(toClient') /\ h + k \in 1 .. (j + k) - 1
      <4>1. k \in Nat /\ j \in Nat
        BY <2>2
      <4>2. h \in 1 .. Len(toClient')
        BY <2>2
      <4>. QED  BY <4>1, <4>2
    <3>. QED  BY <1>10, <2>1, <2>2, <2>3, <3>1, <3>2, <3>3
  <2>4. ASSUME NEW j \in 1 .. Len(toServer)
        PROVE  toServer[j].serverId <= clServerId' /\ toServer[j].serverId # clServerId'
    <3>1. toServer[j].serverId <= clServerId
      BY <1>1, <1>5, <1>7 DEF Exact, GameStatesInv
    <3>2. toServer[j].serverId \in Nat
      <4>1. toServer \in Seq(Packets)
        BY DEF TypesInv, FlightTypes
      <4>2. toServer[j] \in Packets
        BY <4>1
      <4>. QED  BY <4>2 DEF Packets
    <3>3. PICK a \in Nat : a = m.serverId
      BY <1>13
    <3>4. PICK b \in Nat : b = clServerId
      BY <1>13
    <3>5. PICK o \in Nat : o = toServer[j].serverId
      BY <3>2
    <3>6. o <= b /\ b < a
      BY <1>13, <3>1, <3>3, <3>4, <3>5
    <3>. QED  BY <1>10, <3>3, <3>5, <3>6
  <2>5. lastClientCommand' = 0
    BY <1>1, <1>5 DEF Advances, serverVars
  <2>. QED  BY <1>10, <2>3, <2>4, <2>5 DEF GameStatesInv
<1>20. UNCHANGED serverVars
  BY DEF Advances
<1>21. Asking(i, d)' => i \in {0, Len(commands')}
  BY <1>5
<1>. QED  BY <1>1, <1>2, <1>3, <1>16, <1>17, <1>18, <1>19, <1>20, <1>21, ClientStep

\* A block that is taken is the right one of the file that the server is at.
LEMMA BlockTaken ==
    ASSUME TypesInv, Exact, NEW k, NEW m, Advances(k, m), m.kind = "download",
           downloadName # NoFile, TakeBlock(m), ~crossed',
           NEW i \in Nat, i = lastClientCommand, NEW d, d = download
    PROVE  /\ d.open /\ d.name = downloadName /\ m.data = Block(downloadName, downloadBlock)
           /\ downloadBlock < d.currentBlock
           /\ \E q \in 1 .. i : Getting(q, i, d)
<1>1. m.data[1] = downloadName /\ m.block = downloadBlock
  BY DEF TakeBlock, Expected
<1>2. Sound(m, d) /\ ~Asking(i, d)
  BY BlockOnTheWay
<1>3. downloadName \notin DOMAIN disk
  BY DEF Exact, FilesInv
<1>4. d.open /\ d.name = downloadName /\ m.block < d.currentBlock
  BY <1>1, <1>2, <1>3 DEF Sound
<1>5. m.data = Block(downloadName, downloadBlock)
  <2>1. downloadBlock \in Nat
    BY DEF TypesInv, ClientTypes
  <2>2. m.block < downloadBlock \/ m.data = Block(downloadName, m.block)
    BY <1>1, <1>2, <1>3 DEF Sound
  <2>. QED  BY <1>1, <2>1, <2>2
<1>6. \E q \in 1 .. i : Getting(q, i, d)
  <2>1. At(i, d)
    BY DEF Exact
  <2>2. ASSUME NEW q \in 1 .. i, NEW g \in Files, Behind(q, g, i, d) PROVE FALSE
    <3>1. PICK s \in Nat : s = Size[g]
      BY Numbers
    <3>2. /\ i \in q .. q + s + 1 /\ g \in DOMAIN disk
          /\ i <= q + s => d.name = g
          /\ i = q + s + 1 => d.name = NoFile
      BY <2>2, <3>1 DEF Behind
    <3>3. i <= q + s \/ i = q + s + 1
      BY <3>2
    <3>. QED  BY <1>3, <1>4, <3>2, <3>3
  <2>3. ASSUME NEW p \in 1 .. i, Done(p, i, d) PROVE FALSE
    BY <1>4, <2>3 DEF Done
  <2>. QED  BY <1>2, <2>1, <2>2, <2>3 DEF At
<1>. QED  BY <1>1, <1>4, <1>5, <1>6

\* An acknowledgement behind those of a file.
LEMMA AskedMore ==
    ASSUME NEW q \in Nat, NEW f, NEW b \in Nat, Asked(q, f, b), Len(commands) = q + b,
           commands \in Seq(Commands),
           Len(commands') >= q + b + 1, commands'[q + b + 1] = Command("nextdl", b),
           \A j \in 1 .. Len(commands) : commands'[j] = commands[j],
           Len(commands') \in Nat
    PROVE  Asked(q, f, b + 1)'
<1>1. /\ q \in 1 .. q + b /\ commands[q] = Command("download", f)
      /\ \A j \in 1 .. b : commands[q + j] = Command("nextdl", j - 1)
  BY DEF Asked
<1>2. commands'[q] = Command("download", f) /\ q \in 1 .. Len(commands') /\ q + (b + 1) <= Len(commands')
  BY <1>1
<1>3. ASSUME NEW j \in 1 .. b + 1
      PROVE  commands'[q + j] = Command("nextdl", j - 1)
  <2>1. CASE j = b + 1
    <3>1. q + j = q + b + 1 /\ j - 1 = b
      BY <2>1
    <3>. QED  BY <3>1
  <2>2. CASE j # b + 1
    <3>1. j \in 1 .. b /\ q + j \in 1 .. q + b
      BY <1>1, <2>2
    <3>. QED  BY <1>1, <3>1
  <2>. QED  BY <2>1, <2>2
<1>. QED  BY <1>2, <1>3 DEF Asked

LEMMA BlockExact ==
    ASSUME TypesInv, Exact, NEW k, NEW m, Advances(k, m), m.kind = "download",
           downloadName # NoFile, ParseBlock(m), clServerId' = clServerId, ~crossed'
    PROVE  Exact'
<1>1. PICK i \in Nat : i = lastClientCommand
  BY DEF TypesInv, ServerTypes
<1>2. PICK d : d = download
  OBVIOUS
<1>3. PICK c : c = toClient'
  OBVIOUS
<1>4. PICK b \in Nat : b = downloadBlock
  BY DEF TypesInv, ClientTypes
<1>5. PICK f \in Files : f = downloadName
  BY DEF TypesInv, ClientTypes
<1>6. At(i, d) /\ FilesInv /\ BlocksInv(toClient, d)
  BY <1>1, <1>2 DEF Exact
<1>7. /\ d.open /\ d.name = f /\ m.data = Block(f, b) /\ b < d.currentBlock
      /\ \E q \in 1 .. i : Getting(q, i, d)
  BY <1>1, <1>2, <1>4, <1>5, BlockTaken DEF ParseBlock
<1>8. /\ written' = Append(written, Block(f, b)) /\ downloadBlock' = b + 1
      /\ commands' = commands \o <<Command("nextdl", b)>>
      /\ UNCHANGED <<downloadName, downloadList, disk, toServer>>
  BY <1>4, <1>7 DEF ParseBlock, Acknowledgement
<1>9. PICK q \in 1 .. i : Getting(q, i, d)
  BY <1>7
<1>10. /\ Asked(q, f, b) /\ Len(commands) = q + b /\ i \in q .. Len(commands)
       /\ d.clientBlock = i - q /\ Window(d)
  BY <1>4, <1>5, <1>7, <1>9 DEF Getting
<1>11. /\ Len(commands') = q + b + 1 /\ commands'[q + b + 1] = Command("nextdl", b)
       /\ \A j \in 1 .. Len(commands) : commands'[j] = commands[j]
  <2>1. commands \in Seq(Commands) /\ Command("nextdl", b) \in Commands
    BY CommandTypes DEF TypesInv, ServerTypes
  <2>2. commands' = Append(commands, Command("nextdl", b))
    BY <1>8, <2>1, Issuing
  <2>3. PICK s \in Seq(Commands), o \in Commands : s = commands /\ o = Command("nextdl", b)
    BY <2>1
  <2>4. /\ Len(Append(s, o)) = Len(s) + 1 /\ Append(s, o)[Len(s) + 1] = o
        /\ \A j \in 1 .. Len(s) : Append(s, o)[j] = s[j]
    BY Appended
  <2>5. commands' = Append(s, o) /\ Len(s) = q + b
    BY <1>10, <2>2, <2>3
  <2>. QED  BY <2>3, <2>4, <2>5
<1>12. Asked(q, f, b + 1)'
  <2>1. commands \in Seq(Commands) /\ q \in Nat
    BY DEF TypesInv, ServerTypes
  <2>. QED  BY <1>10, <1>11, <2>1, AskedMore
<1>13. PICK s \in Nat : s = Size[f] /\ b < s
  <2>1. f # NoFile /\ Block(f, b) # NoBlock /\ Block(f, b)[1] = f /\ Block(f, b)[2] = b
    BY <1>5 DEF Block, NoBlock
  <2>2. b # Size[f]
    BY <1>7, <2>1 DEF ParseBlock, IsEmpty
  <2>3. PICK s \in Nat : s = Size[f]
    BY Numbers
  <2>4. b <= s
    BY <1>4, <1>5, <1>6, <2>3 DEF FilesInv
  <2>. QED  BY <2>2, <2>3, <2>4
<1>14. At(i, d)'
  <2>1. Getting(q, i, d)'
    <3>1. Len(commands') = q + (b + 1) /\ i \in q .. Len(commands')
      BY <1>10, <1>11
    <3>2. b + 1 <= d.currentBlock
      <4>1. d.currentBlock \in Nat
        BY <1>2 DEF TypesInv, ServerTypes, Sensible, DownloadType
      <4>. QED  BY <1>7, <4>1
    <3>3. Asked(q, downloadName, downloadBlock)'
      BY <1>5, <1>8, <1>12 DEF Asked
    <3>. QED  BY <1>5, <1>7, <1>8, <1>10, <3>1, <3>2, <3>3 DEF Getting, Window
  <2>2. PlacesInv(d)'
    BY <1>6, <1>8 DEF At, PlacesInv
  <2>. QED  BY <1>6, <2>1, <2>2 DEF At
<1>15. ~Asking(i, d)'
  BY <1>7 DEF Asking
<1>16. FilesInv'
  <2>1. written' = [j \in 1 .. b + 1 |-> Block(f, j - 1)]
    <3>1. written = [j \in 1 .. b |-> Block(f, j - 1)]
      BY <1>4, <1>5, <1>6 DEF FilesInv
    <3>2. written \in Seq(Blocks) /\ Len(written) = b
      BY <3>1 DEF TypesInv, ClientTypes
    <3>. QED  BY <1>8, <3>1, <3>2
  <2>2. b + 1 <= Size[f]
    BY <1>13
  <2>. QED  BY <1>5, <1>6, <1>8, <2>1, <2>2 DEF FilesInv
<1>17. BlocksInv(c, d)'
  <2>. SUFFICES ASSUME NEW j \in 1 .. Len(c), c[j].kind = "download"
                PROVE  Sound(c[j], d)'
    BY DEF BlocksInv
  <2>1. Sound(c[j], d) /\ c[j] \in ServerMessages
    BY <1>3, <1>6, BlocksLeft
  <2>2. c[j].block \in Nat
    BY <2>1 DEF ServerMessages
  <2>3. c[j].block < b => c[j].block < b + 1
    BY <2>2
  <2>. QED  BY <1>4, <1>8, <2>1, <2>3 DEF Sound
<1>18. GameStatesInv'
  <2>1. lastClientCommand # 0
    BY <1>1, <1>9
  <2>. QED  BY <1>8, <2>1, GameStatesLeft
<1>19. UNCHANGED serverVars
  BY DEF Advances
<1>. QED  BY <1>1, <1>2, <1>3, <1>14, <1>15, <1>16, <1>17, <1>18, <1>19, ClientStep

\* The last block of a file: the file is there, and the next one is asked for, or the game state.
LEMMA EndOfFileExact ==
    ASSUME TypesInv, Exact, NEW k, NEW m, Advances(k, m), m.kind = "download",
           downloadName # NoFile, ParseEndOfFile(m), clServerId' = clServerId, ~crossed'
    PROVE  Exact'
<1>1. PICK i \in Nat : i = lastClientCommand
  BY DEF TypesInv, ServerTypes
<1>2. PICK d : d = download
  OBVIOUS
<1>3. PICK c : c = toClient'
  OBVIOUS
<1>4. PICK b \in Nat : b = downloadBlock
  BY DEF TypesInv, ClientTypes
<1>5. PICK f \in Files : f = downloadName
  BY DEF TypesInv, ClientTypes
<1>6. At(i, d) /\ FilesInv /\ BlocksInv(toClient, d)
  BY <1>1, <1>2 DEF Exact
<1>7. /\ d.open /\ d.name = f /\ m.data = Block(f, b) /\ b < d.currentBlock
      /\ \E q \in 1 .. i : Getting(q, i, d)
  BY <1>1, <1>2, <1>4, <1>5, BlockTaken DEF ParseEndOfFile
<1>8. b = Size[f]
  <2>1. Block(f, b) # NoBlock /\ Block(f, b)[1] = f /\ Block(f, b)[2] = b
    BY DEF Block, NoBlock
  <2>. QED  BY <1>7, <2>1 DEF ParseEndOfFile, IsEmpty
<1>9. PICK q \in 1 .. i : Getting(q, i, d)
  BY <1>7
<1>10. /\ Asked(q, f, b) /\ Len(commands) = q + b /\ i \in q .. q + b
       /\ d.clientBlock = i - q /\ Window(d)
  BY <1>4, <1>5, <1>7, <1>9 DEF Getting
<1>11. d.currentBlock = b + 1
  <2>1. d.currentBlock <= b + 1
    BY <1>7, <1>8, <1>10 DEF Window
  <2>2. d.currentBlock \in Nat
    BY <1>2 DEF TypesInv, ServerTypes, Sensible, DownloadType
  <2>. QED  BY <1>7, <2>1, <2>2
<1>12. /\ written' = <<>>
       /\ disk' = [g \in DOMAIN disk \union {f} |-> IF g = f THEN written ELSE disk[g]]
       /\ CL_NextDownload(<<Command("nextdl", b)>>)
  BY <1>4, <1>5 DEF ParseEndOfFile, Acknowledgement
<1>13. /\ f \notin DOMAIN disk /\ f \notin downloadList /\ downloadList \cap DOMAIN disk = {}
       /\ Files = DOMAIN disk \union downloadList \union {f} /\ f # NoFile
       /\ written = Complete(f) /\ \A g \in DOMAIN disk : disk[g] = Complete(g)
  <2>1. written = [j \in 1 .. b |-> Block(f, j - 1)]
    BY <1>4, <1>5, <1>6 DEF FilesInv
  <2>2. written = Complete(f)
    BY <1>8, <2>1 DEF Complete
  <2>. QED  BY <1>5, <1>6, <2>2 DEF FilesInv
<1>14. DOMAIN disk' = DOMAIN disk \union {f} /\ \A g \in DOMAIN disk' : disk'[g] = Complete(g)
  BY <1>12, <1>13
\* The command behind the acknowledgement.
<1>15. PICK o \in Commands :
           /\ commands' = commands \o <<Command("nextdl", b)>> \o <<o>>
           /\ \/ /\ downloadList # {} /\ downloadName' \in downloadList /\ downloadBlock' = 0
                 /\ downloadList' = downloadList \ {downloadName'}
                 /\ o = Command("download", downloadName')
              \/ /\ downloadList = {} /\ downloadName' = NoFile
                 /\ o = Command("donedl", 0)
  <2>1. CASE downloadList # {} /\ CL_BeginDownload(downloadList, <<Command("nextdl", b)>>)
    <3>1. downloadList \in SUBSET Files
      BY DEF TypesInv, ClientTypes
    <3>2. Min(downloadList) \in downloadList /\ Min(downloadList) \in Files
      BY <2>1, <3>1, FirstOfList
    <3>3. PICK g \in downloadList : g = Min(downloadList) /\ g \in Files
      BY <3>2
    <3>4. /\ downloadName' = g /\ downloadBlock' = 0 /\ downloadList' = downloadList \ {g}
          /\ commands' = commands \o <<Command("nextdl", b)>> \o <<Command("download", g)>>
      BY <2>1, <3>3, Zenon DEF CL_BeginDownload
    <3>. QED  BY <2>1, <3>3, <3>4, CommandTypes
  <2>2. CASE /\ downloadList = {} /\ downloadName' = NoFile
             /\ RequestGameState(<<Command("nextdl", b)>>)
    BY <2>2, CommandTypes DEF RequestGameState
  <2>. QED  BY <1>12, <2>1, <2>2 DEF CL_NextDownload
<1>16. /\ Len(commands') = q + b + 2 /\ commands'[q + b + 1] = Command("nextdl", b)
       /\ commands'[q + b + 2] = o
       /\ \A j \in 1 .. Len(commands) : commands'[j] = commands[j]
  <2>1. PICK a \in Commands : a = Command("nextdl", b)
    BY CommandTypes
  <2>2. commands \in Seq(Commands)
    BY DEF TypesInv, ServerTypes
  <2>3. commands' = Append(Append(commands, a), o)
    <3>1. PICK s \in Seq(Commands) : s = commands
      BY <2>2
    <3>2. s \o <<a>> \o <<o>> = Append(Append(s, a), o)
      BY Issuing
    <3>. QED  BY <1>15, <2>1, <3>1, <3>2
  <2>4. PICK n \in Nat : n = Len(commands) /\ n = q + b
    BY <1>10
  <2>5. /\ Append(commands, a) \in Seq(Commands) /\ Len(Append(commands, a)) = n + 1
        /\ Append(commands, a)[n + 1] = a
        /\ \A j \in 1 .. n : Append(commands, a)[j] = commands[j]
    <3>1. Append(commands, a) \in Seq(Commands) /\ Len(Append(commands, a)) = n + 1
      BY <2>2, <2>4, AppendsTyped
    <3>. QED  BY <2>2, <2>4, <3>1, Appended
  <2>6. /\ Len(commands') = (n + 1) + 1 /\ commands'[(n + 1) + 1] = o
        /\ \A j \in 1 .. n + 1 : commands'[j] = Append(commands, a)[j]
    BY <2>3, <2>5
  <2>7. n + 1 \in 1 .. n + 1 /\ \A j \in 1 .. n : j \in 1 .. n + 1
    OBVIOUS
  <2>8. commands'[n + 1] = a /\ \A j \in 1 .. n : commands'[j] = commands[j]
    BY <2>5, <2>6, <2>7
  <2>9. (n + 1) + 1 = q + b + 2 /\ n + 1 = q + b + 1
    BY <2>4
  <2>. QED  BY <2>1, <2>4, <2>6, <2>8, <2>9
<1>17. Asked(q, f, b + 1)'
  <2>1. commands \in Seq(Commands) /\ q \in Nat
    BY DEF TypesInv, ServerTypes
  <2>2. Len(commands') \in Nat /\ Len(commands') >= q + b + 1
    BY <1>16
  <2>. QED  BY <1>10, <1>16, <2>1, <2>2, AskedMore
<1>18. DOMAIN disk' # {}
  BY <1>14
<1>19. \/ downloadName' # NoFile /\ downloadBlock' = 0 /\ o = Command("download", downloadName')
       \/ Finished(q + b + 2)'
  <2>1. CASE downloadList # {}
    <3>1. downloadName' \in Files
      BY <1>15, <2>1 DEF TypesInv, ClientTypes
    <3>. QED  BY <1>15, <2>1, <3>1, Numbers
  <2>2. CASE downloadList = {}
    <3>1. downloadName' = NoFile /\ o = Command("donedl", 0) /\ DOMAIN disk' = Files
      BY <1>13, <1>14, <1>15, <2>2
    <3>2. q + b + 2 \in 1 .. Len(commands')
      BY <1>16
    <3>3. \A j \in q + b + 2 + 1 .. Len(commands') : FALSE
      BY <1>16
    <3>. QED  BY <1>16, <3>1, <3>2, <3>3 DEF Finished
  <2>. QED  BY <2>1, <2>2
<1>20. Behind(q, f, i, d)'
  <2>1. i \in q .. q + b + 1 /\ i # q + b + 1
    BY <1>10
  <2>2. q + b + 2 <= Len(commands') /\ Len(commands') <= q + b + 3
    BY <1>16
  <2>3. f \in DOMAIN disk'
    BY <1>14
  <2>. QED  BY <1>7, <1>8, <1>10, <1>11, <1>16, <1>17, <1>19, <2>1, <2>2, <2>3 DEF Behind, Window
<1>21. At(i, d)'
  <2>1. PlacesInv(d)'
    BY <1>5, <1>6, <1>14 DEF At, PlacesInv
  <2>. QED  BY <1>6, <1>20, <2>1 DEF At
<1>22. ~Asking(i, d)'
  BY <1>18 DEF Asking
<1>23. FilesInv'
  <2>1. CASE downloadList # {}
    <3>1. /\ downloadName' \in downloadList /\ downloadBlock' = 0
          /\ downloadList' = downloadList \ {downloadName'}
      BY <1>15, <2>1
    <3>2. PICK g \in Files : g = downloadName'
      BY <3>1 DEF TypesInv, ClientTypes
    <3>3. written' = [j \in 1 .. 0 |-> Block(g, j - 1)] /\ 0 <= Size[g]
      BY <1>12, Numbers
    <3>. QED  BY <1>13, <1>14, <3>1, <3>2, <3>3 DEF FilesInv
  <2>2. CASE downloadList = {}
    BY <1>14, <1>15, <2>2 DEF FilesInv
  <2>. QED  BY <2>1, <2>2
<1>24. BlocksInv(c, d)'
  <2>1. \A j \in 1 .. Len(c) : c[j].kind = "download" => Sound(c[j], d)
    BY <1>3, <1>6, BlocksLeft
  <2>. QED  BY <1>5, <1>14, <2>1 DEF BlocksInv, Sound
<1>25. GameStatesInv'
  <2>1. \A j \in 1 .. Len(toClient') : j + k \in 1 .. Len(toClient) /\ toClient'[j] = toClient[j + k]
    BY ChannelLeft
  <2>2. DOMAIN disk # Files /\ lastClientCommand # 0
    BY <1>1, <1>9, <1>13
  <2>3. \A j \in 1 .. Len(toClient') : toClient'[j].kind # "gamestate"
    BY <2>1, <2>2 DEF Exact, GameStatesInv
  <2>. QED  BY <1>18, <2>3 DEF GameStatesInv
<1>26. UNCHANGED serverVars
  BY DEF Advances
<1>. QED  BY <1>1, <1>2, <1>3, <1>21, <1>22, <1>23, <1>24, <1>25, <1>26, ClientStep

LEMMA ReceptionExact ==
    ASSUME TypesInv, Exact, NEW k \in 1 .. Len(toClient), Receive(k), ~crossed'
    PROVE  Exact'
<1>. DEFINE m == toClient[k]
<1>0. m \in ServerMessages /\ m = toClient[k]
  <2>1. toClient \in Seq(ServerMessages)
    BY DEF TypesInv, FlightTypes
  <2>. QED  BY <2>1
<1>. HIDE DEF m
<1>1. /\ UNCHANGED serverVars /\ toClient' = After(toClient, k)
      /\ ParseGamestate(m) \/ CL_ParseDownload(m) \/ ParseSnapshot(m)
  BY Zenon DEF Receive, m
<1>2. Advances(k, m)
  BY <1>0, <1>1 DEF Advances
<1>3. CASE ParseGamestate(m)
  <2>1. m.kind = "gamestate"
    BY <1>3 DEF ParseGamestate
  <2>2. CASE DOMAIN disk = Files
    <3>1. Files \ DOMAIN disk = {}
      BY <2>2
    <3>2. UNCHANGED <<commands, downloadVars, toServer>>
      BY <1>3, <3>1 DEF ParseGamestate, downloadVars
    <3>. QED  BY <1>2, <2>2, <3>2, GamestateCompleteExact
  <2>3. CASE DOMAIN disk # Files
    BY <1>2, <1>3, <2>1, <2>3, GamestateMissingExact
  <2>. QED  BY <2>2, <2>3
<1>4. CASE CL_ParseDownload(m)
  <2>1. m.kind = "download" /\ clServerId' = clServerId
    BY <1>4 DEF CL_ParseDownload
  <2>2. CASE ParseUnwanted(m)
    BY <1>2, <2>1, <2>2, UnwantedExact
  <2>3. CASE downloadName # NoFile /\ ~Expected(m) /\ UNCHANGED <<commands, downloadVars, toServer>>
    BY <1>2, <2>1, <2>3, IgnoresExact DEF KeepsClient, downloadVars
  <2>4. CASE downloadName # NoFile /\ ParseBlock(m)
    BY <1>2, <2>1, <2>4, BlockExact
  <2>5. CASE downloadName # NoFile /\ ParseEndOfFile(m)
    BY <1>2, <2>1, <2>5, EndOfFileExact
  <2>. QED  BY <1>4, <2>2, <2>3, <2>4, <2>5 DEF CL_ParseDownload
<1>5. CASE ParseSnapshot(m)
  BY <1>2, <1>5, IgnoresExact DEF ParseSnapshot, KeepsClient, downloadVars
<1>. QED  BY <1>1, <1>3, <1>4, <1>5

\* A block that was taken for one of another file stays taken.
LEMMA StaysCrossed ==
    ASSUME Next, ~crossed', crossed \in BOOLEAN
    PROVE  ~crossed
<1>1. CASE \E k \in 1 .. Len(toClient) : Receive(k)
  <2>1. PICK k \in 1 .. Len(toClient) : Receive(k)
    BY <1>1
  <2>2. PICK m : m = toClient[k]
    OBVIOUS
  <2>3. ParseGamestate(m) \/ CL_ParseDownload(m) \/ ParseSnapshot(m)
    BY <2>1, <2>2, Zenon DEF Receive
  <2>4. crossed' = crossed \/ TakeBlock(m)
    BY <2>3 DEF ParseGamestate, CL_ParseDownload, ParseSnapshot, ParseUnwanted, ParseBlock,
                ParseEndOfFile, downloadVars
  <2>. QED  BY <2>4, Zenon DEF TakeBlock
<1>2. CASE ~ \E k \in 1 .. Len(toClient) : Receive(k)
  <2>1. UNCHANGED crossed
    BY <1>2 DEF Next, CL_ParseServerMessage, SV_WriteDownloadToClient, SV_SendClientSnapshot,
                SV_SpawnServer, SV_ExecuteClientMessage, CL_WritePacket, clientVars, downloadVars
  <2>. QED  BY <2>1
<1>. QED  BY <1>1, <1>2

LEMMA ExactStep ==
    ASSUME TypesInv, ExactInv, Next
    PROVE  ExactInv'
<1>. SUFFICES ASSUME ~crossed' PROVE Exact'
  BY Zenon DEF ExactInv
<1>1. Exact
  BY StaysCrossed DEF ExactInv, TypesInv, ClientTypes
<1>2. CASE SV_WriteDownloadToClient
  BY <1>1, <1>2, WritesExact
<1>3. CASE SV_SendClientSnapshot
  BY <1>1, <1>3, SnapshotExact
<1>4. CASE SV_SpawnServer
  BY <1>1, <1>4, SpawnsExact
<1>5. CASE SV_ExecuteClientMessage
  BY <1>1, <1>5, ExecutionExact
<1>6. CASE CL_WritePacket
  BY <1>1, <1>6, PacketExact
<1>7. CASE CL_ParseServerMessage
  BY <1>1, <1>7, ReceptionExact DEF CL_ParseServerMessage
<1>. QED  BY <1>2, <1>3, <1>4, <1>5, <1>6, <1>7 DEF Next

LEMMA ExactInitially ==
    ASSUME Init
    PROVE  Exact
<1>1. Asking(0, NoDownload)
  BY DEF Init, Asking, NoDownload
<1>2. PlacesInv(NoDownload)
  BY DEF PlacesInv, NoDownload
<1>3. At(0, NoDownload)
  BY <1>1, <1>2 DEF At, NoDownload
<1>4. lastClientCommand = 0 /\ download = NoDownload
  BY DEF Init
<1>5. FilesInv
  BY DEF Init, FilesInv
<1>6. GameStatesInv
  BY DEF Init, GameStatesInv
<1>. QED  BY <1>3, <1>4, <1>5, <1>6 DEF Init, Exact, BlocksInv

LEMMA DownloadInitially ==
    ASSUME Init
    PROVE  DownloadInv
BY TypesInitially, ExactInitially DEF DownloadInv, TypesInv, ExactInv

LEMMA DownloadStep ==
    ASSUME DownloadInv, [Next]_vars
    PROVE  DownloadInv'
<1>1. TypesInv /\ ExactInv
  BY DEF DownloadInv, TypesInv
<1>2. TypesInv'
  BY <1>1, TypesStep
<1>3. ExactInv'
  <2>1. CASE Next
    BY <1>1, <2>1, ExactStep
  <2>2. CASE UNCHANGED vars
    <3>1. Exact <=> Exact'
      BY <2>2 DEF vars, serverVars, clientVars, downloadVars, Exact, FilesInv, At, PlacesInv, Asking,
                  Getting, Behind, Done, Asked, Finished, BlocksInv, Sound, GameStatesInv
    <3>2. crossed' = crossed
      BY <2>2 DEF vars, clientVars, downloadVars
    <3>. QED  BY <1>1, <3>1, <3>2, Zenon DEF ExactInv
  <2>. QED  BY <2>1, <2>2
<1>. QED  BY <1>2, <1>3 DEF DownloadInv, TypesInv

\* The inductive invariant: while no block was taken for one of another file, the commands the
\* client issued tell what the server has open, and how far it is in it.
THEOREM DownloadInvariant == Spec => []DownloadInv
<1>1. Init => DownloadInv
  BY DownloadInitially
<1>2. DownloadInv /\ [Next]_vars => DownloadInv'
  BY DownloadStep
<1>. QED  BY <1>1, <1>2, PTL DEF Spec

\* The state keeps its types, and the counters of the download (downloadClientBlock,
\* downloadXmitBlock, downloadCurrentBlock) their order.
THEOREM TypeCorrect == Spec => []TypeOK
<1>1. ASSUME DownloadInv PROVE TypeOK
  <2>1. ~crossed => /\ download.clientBlock <= download.currentBlock
                    /\ download.xmitBlock <= download.currentBlock
    BY <1>1 DEF DownloadInv, ExactInv, Exact, At
  <2>2. download \in DownloadType
    BY <1>1 DEF DownloadInv, ServerTypes, Sensible
  <2>3. download.name \in Files \union {NoFile}
    BY <2>2 DEF DownloadType
  <2>. QED  BY <1>1, <2>1, <2>3 DEF DownloadInv, ServerTypes, ClientTypes, Sensible, States, TypeOK
<1>. QED  BY <1>1, DownloadInvariant, PTL

LEMMA IsBeginning ==
    ASSUME NEW s, NEW n \in Nat, NEW b \in 0 .. n, NEW f,
           s = [j \in 1 .. b |-> Block(f, j - 1)]
    PROVE  IsPrefix(s, [j \in 1 .. n |-> Block(f, j - 1)])
<1>. DEFINE t == [j \in 1 .. n |-> Block(f, j - 1)]
<1>1. Len(s) = b /\ Len(t) = n
  OBVIOUS
<1>2. SubSeq(s, 1, b) = [j \in 1 .. b |-> s[j]]
  OBVIOUS
<1>3. SubSeq(t, 1, b) = [j \in 1 .. b |-> t[j]]
  OBVIOUS
<1>4. \A j \in 1 .. b : s[j] = t[j]
  OBVIOUS
<1>. HIDE DEF t
<1>5. SubSeq(s, 1, b) = SubSeq(t, 1, b)
  BY <1>2, <1>3, <1>4
<1>6. IsPrefix(s, t)
  BY <1>1, <1>5 DEF IsPrefix
<1>. QED  BY <1>6 DEF t

\* CL_ParseDownload writes, and SV_WriteDownloadToClient sends again and again, the server's
\* file, block for block: no file a client has or is getting is anything but the server's or
\* a beginning of it, however long the file, small the window and lossy the network.
THEOREM FilesAreExact == Spec => []FilesExact
<1>1. ASSUME DownloadInv PROVE FilesExact
  <2>. SUFFICES ASSUME ~crossed
                PROVE  /\ \A f \in DOMAIN disk : disk[f] = Complete(f)
                       /\ downloadName # NoFile => IsPrefix(written, Complete(downloadName))
    BY DEF FilesExact
  <2>1. FilesInv
    BY <1>1 DEF DownloadInv, ExactInv, Exact
  <2>2. ASSUME downloadName # NoFile PROVE IsPrefix(written, Complete(downloadName))
    <3>1. PICK f \in Files : f = downloadName
      BY <1>1, <2>2 DEF DownloadInv, ClientTypes
    <3>2. PICK n \in Nat : n = Size[f]
      BY Numbers
    <3>3. PICK b \in Nat : b = downloadBlock
      BY <1>1 DEF DownloadInv, ClientTypes
    <3>4. PICK s : s = written
      OBVIOUS
    <3>5. b \in 0 .. n /\ s = [j \in 1 .. b |-> Block(f, j - 1)]
      BY <2>1, <2>2, <3>1, <3>2, <3>3, <3>4 DEF FilesInv
    <3>6. IsPrefix(s, [j \in 1 .. n |-> Block(f, j - 1)])
      BY <3>5, IsBeginning
    <3>7. Complete(f) = [j \in 1 .. n |-> Block(f, j - 1)]
      BY <3>2 DEF Complete
    <3>. QED  BY <3>1, <3>4, <3>6, <3>7
  <2>. QED  BY <2>1, <2>2 DEF FilesInv
<1>. QED  BY <1>1, DownloadInvariant, PTL

\* SV_NextDownload_f drops no client for a broken download: the block it acknowledges is the
\* one the server waits for, also with packets lost, sent twice and in the wrong order, and
\* with maps loaded in between.
THEOREM DownloadsNotBroken == Spec => []NoBrokenDownload
<1>1. DownloadInv => NoBrokenDownload
  BY DEF DownloadInv, ExactInv, Exact, NoBrokenDownload
<1>. QED  BY <1>1, DownloadInvariant, PTL

LEMMA CommandsInFlight ==
    ASSUME TypesInv, Exact
    PROVE  Len(commands) - lastClientCommand <= Max({MAX_DOWNLOAD_WINDOW + 2, serverId})
<1>1. PICK i \in Nat : i = lastClientCommand
  BY DEF TypesInv, ServerTypes
<1>2. PICK d : d = download
  OBVIOUS
<1>3. PICK n \in Nat : n = Len(commands)
  BY DEF TypesInv, ServerTypes
<1>4. PICK w \in Nat \ {0} : w = MAX_DOWNLOAD_WINDOW
  BY WindowAssumption
<1>5. PICK v \in Nat : v = serverId
  BY DEF TypesInv, ServerTypes
<1>6. n - i <= w + 2 \/ n - i <= v
  <2>0. At(i, d)
    BY <1>1, <1>2 DEF Exact
  <2>1. CASE Asking(i, d)
    <3>1. n <= clServerId /\ clServerId \in 0 .. v
      BY <1>3, <1>5, <2>1 DEF Asking, TypesInv, ClientTypes
    <3>. QED  BY <3>1
  <2>2. CASE \E q \in 1 .. i : Getting(q, i, d)
    <3>1. PICK q \in 1 .. i : Getting(q, i, d)
      BY <2>2
    <3>2. PICK b \in Nat : b = downloadBlock
      BY DEF TypesInv, ClientTypes
    <3>3. n = q + b
      BY <1>3, <3>1, <3>2 DEF Getting
    <3>4. CASE d.open
      <4>1. /\ d.clientBlock = i - q /\ b <= d.currentBlock
            /\ d.currentBlock <= d.clientBlock + w
        BY <1>4, <3>1, <3>2, <3>4 DEF Getting, Window
      <4>2. PICK e \in Nat : e = d.currentBlock
        BY <1>2 DEF TypesInv, ServerTypes, Sensible, DownloadType
      <4>3. b <= e /\ e <= (i - q) + w
        BY <4>1, <4>2
      <4>. QED  BY <3>3, <4>3
    <3>5. CASE ~d.open
      <4>1. b = 0
        BY <3>1, <3>2, <3>5 DEF Getting
      <4>. QED  BY <3>3, <4>1
    <3>. QED  BY <3>4, <3>5
  <2>3. CASE \E q \in 1 .. i : \E g \in Files : Behind(q, g, i, d)
    <3>1. PICK q \in 1 .. i, g \in Files : Behind(q, g, i, d)
      BY <2>3
    <3>2. PICK s \in Nat : s = Size[g]
      BY Numbers
    <3>3. i \in q .. q + s + 1 /\ (n = q + s + 2 \/ n <= q + s + 3)
      BY <1>3, <3>1, <3>2 DEF Behind
    <3>4. CASE i <= q + s
      <4>1. d.clientBlock = i - q /\ d.currentBlock = s + 1 /\ d.currentBlock <= d.clientBlock + w
        BY <1>4, <3>1, <3>2, <3>4 DEF Behind, Window
      <4>2. s + 1 <= (i - q) + w
        BY <4>1
      <4>. QED  BY <3>3, <4>2
    <3>5. CASE ~(i <= q + s)
      BY <3>3, <3>5
    <3>. QED  BY <3>4, <3>5
  <2>4. CASE \E p \in 1 .. i : Done(p, i, d)
    <3>1. n <= i + 1
      BY <1>3, <2>4 DEF Done
    <3>. QED  BY <3>1
  <2>. QED  BY <2>0, <2>1, <2>2, <2>3, <2>4 DEF At
<1>7. Max({w + 2, v}) = IF w + 2 >= v THEN w + 2 ELSE v
  BY MaxOfPair
<1>8. n - i <= Max({w + 2, v})
  BY <1>6, <1>7
<1>. QED  BY <1>1, <1>3, <1>4, <1>5, <1>8

\* The client's ring of reliable commands holds the acknowledgements of a window and the
\* requests around them, or one request for each map, whatever the sizes of the files are.
THEOREM CommandsAreBounded == Spec => []CommandsBounded
<1>1. ASSUME DownloadInv PROVE CommandsBounded
  <2>1. TypesInv /\ (~crossed => Exact)
    BY <1>1 DEF DownloadInv, ExactInv, TypesInv
  <2>. QED  BY <2>1, CommandsInFlight DEF CommandsBounded
<1>. QED  BY <1>1, DownloadInvariant, PTL
=============================================================================
