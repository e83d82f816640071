------------------------- MODULE ConfigstringsProofs -------------------------
(***************************************************************************)
(* Proofs about Configstrings, for all indexes, lengths and bounds.        *)
(*                                                                         *)
(* Two things hold the ends together.  The server ids: those from E on are *)
(* of the map the server runs, those before are of older maps, and so is   *)
(* everything that carries one (MapInv).  And the list of commands: what   *)
(* the client will have of an index when it has executed all of them is    *)
(* the last text they hold for it behind the place where the client is, or *)
(* else what it has already (Gives).                                       *)
(***************************************************************************)
EXTENDS Configstrings, RingLemmas

-----------------------------------------------------------------------------
\* The invariant: types.

Command == [op : {"cs", "bcs0", "bcs1", "bcs2"}, index : Indexes, text : Text]

ServerMessage ==
    [kind : {"snapshot", "gamestate"}, upto : Nat, active : BOOLEAN, strings : [Indexes -> Text],
     map : Nat, later : BOOLEAN]
        \union [kind : {"nop"}, later : BOOLEAN]

ClientPacket == [serverId : Nat, move : BOOLEAN, map : Nat, later : BOOLEAN]

Buffers == [index : Indexes, pieces : Seq(Text)]

\* CS_SYSTEMINFO, and indexes without long texts, are never sent in pieces.
MayBeLong(i) == i \in DOMAIN Lengths /\ "long" \in Lengths[i]

SettingTypes ==
    /\ state \in {"FREE", "CONNECTED", "PRIMED", "ACTIVE"}
    /\ serverId \in 1 .. MaxServerId /\ restartedServerId \in 1 .. serverId
    /\ serverIdAcknowledge \in 0 .. serverId
    /\ configstrings \in [Indexes -> Text]
    /\ \A i \in Indexes : configstrings[i].length = "long" => MayBeLong(i)
    /\ csUpdated \subseteq Indexes /\ \E b \in Nat : \A i \in csUpdated : i <= b
    /\ map \in Nat /\ sets \in Nat /\ overtaken \in BOOLEAN

ServerTypes ==
    /\ SettingTypes
    /\ commands \in Seq(Command)
    /\ reliableSent \in 0 .. Len(commands)

ClientTypes ==
    /\ clServerId \in 0 .. serverId
    /\ clStrings \in [Indexes -> Text \union {Garbled}]
    /\ bigConfigString \in Buffers
    /\ snap \in [num : Nat, active : BOOLEAN, map : Nat]
    /\ snap.num \in 0 .. reliableSent
    /\ cgSequence \in 0 .. snap.num
    /\ clLater \in BOOLEAN
    /\ clMap \in 0 .. map

ChannelTypes == toClient \in Seq(ServerMessage) /\ toServer \in Seq(ClientPacket)

\* A message that carries commands: a snapshot or a game state.
Full(m) == m.kind # "nop"

\* Messages are in the order in which they were sent, and so is what they know.
InOrder ==
    /\ \A k \in 1 .. Len(toClient) : Full(toClient[k]) =>
          /\ snap.num <= toClient[k].upto /\ toClient[k].upto <= reliableSent
          /\ clMap <= toClient[k].map /\ toClient[k].map <= map
    /\ \A j, k \in 1 .. Len(toClient) : Full(toClient[j]) /\ Full(toClient[k]) /\ j <= k =>
          toClient[j].upto <= toClient[k].upto /\ toClient[j].map <= toClient[k].map

-----------------------------------------------------------------------------
\* The invariant: the commands.

\* The pieces of a long text are next to each other.
GroupAt(q, s, i, text) ==
    /\ s \in 1 .. Len(q) /\ s + Chunks - 1 <= Len(q)
    /\ \A k \in 1 .. Chunks : q[s + k - 1] = Bcs(i, text, k)

Grouped(q) ==
    \A n \in 1 .. Len(q) : q[n].op # "cs" =>
        \E s \in 1 .. Len(q) : s <= n /\ n < s + Chunks /\ GroupAt(q, s, q[n].index, q[n].text)

\* No group goes on behind n.
AtEnd(q, n) == n = 0 \/ q[n].op \in {"cs", "bcs2"}

\* One update at most of an index waits to be sent as one command.
PendingOnce(q, r) ==
    \A j, k \in r + 1 .. Len(q) : q[j].op = "cs" /\ q[k].op = "cs" /\ q[j].index = q[k].index => j = k

LongOnly(q) == \A n \in 1 .. Len(q) : q[n].op # "cs" => MayBeLong(q[n].index)

WellFormed(q, r) == Grouped(q) /\ LongOnly(q) /\ PendingOnce(q, r) /\ AtEnd(q, Len(q))

\* Only a client in the world is sent commands, and it is owed nothing.
Quiet ==
    /\ csUpdated # {} \/ state = "PRIMED" => reliableSent = Len(commands)
    /\ state = "ACTIVE" => csUpdated = {}

CommandsInv ==
    /\ WellFormed(commands, reliableSent)
    /\ AtEnd(commands, snap.num) /\ AtEnd(commands, cgSequence)
    /\ \A k \in 1 .. Len(toClient) : Full(toClient[k]) => AtEnd(commands, toClient[k].upto)
    /\ Quiet

-----------------------------------------------------------------------------
\* The invariant: the maps.

\* E is the first server id of the map the server runs.  When that map was loaded, C commands
\* were sent and D issued.
IdsOfMaps(q, E, C, D) ==
    \A n \in 1 .. Len(q) : q[n].index = CS_SYSTEMINFO =>
          /\ q[n].text.id <= serverId
          /\ n <= C => q[n].text.id < E
          /\ n > D => q[n].text.id >= E

MapServer(E, C, D) ==
    /\ E \in 1 .. restartedServerId
    /\ C \in 0 .. reliableSent /\ D \in C .. Len(commands)
    /\ configstrings[CS_SYSTEMINFO].id \in E .. serverId
    /\ IdsOfMaps(commands, E, C, D)

MapClient(E, C, D) ==
    /\ clServerId = clStrings[CS_SYSTEMINFO].id
    /\ clServerId >= E <=> clMap = map
    /\ snap.map = clMap
    /\ clMap < map => snap.num <= C
    /\ clMap = map => cgSequence >= D

MapToClient(E, C, D) ==
    \A k \in 1 .. Len(toClient) : Full(toClient[k]) =>
          /\ toClient[k].map < map => toClient[k].upto <= C
          /\ toClient[k].map = map => toClient[k].upto >= D
          /\ toClient[k].kind = "snapshot" => toClient[k].map = clMap
          /\ toClient[k].kind = "gamestate" =>
                /\ toClient[k].strings[CS_SYSTEMINFO].id <= serverId
                /\ toClient[k].strings[CS_SYSTEMINFO].id >= E <=> toClient[k].map = map

MapToServer(E) ==
    /\ \A k \in 1 .. Len(toServer) :
          /\ toServer[k].serverId <= serverId
          /\ toServer[k].map <= clMap
          /\ toServer[k].serverId >= E <=> toServer[k].map = map
    /\ serverIdAcknowledge >= E => clMap = map

\* A client that was not given the map has nothing of it.
MapGiven ==
    state \in {"FREE", "CONNECTED"} =>
        /\ clMap < map
        /\ \A k \in 1 .. Len(toClient) : toClient[k].kind = "gamestate" => toClient[k].map < map

MapInv(E, C, D) == MapServer(E, C, D) /\ MapClient(E, C, D) /\ MapToClient(E, C, D) /\ MapToServer(E)

MapsInv == \E E, C, D \in Nat : MapInv(E, C, D)

Consistent ==
    /\ ServerTypes /\ ClientTypes /\ ChannelTypes
    /\ InOrder /\ CommandsInv /\ MapsInv /\ MapGiven
    /\ MovesOfThisMap

-----------------------------------------------------------------------------
\* The invariant: the strings.

Completes(c, i) == c.op \in {"cs", "bcs2"} /\ c.index = i

\* The last text for the index that the commands behind f hold.
Latest(q, f, n, i, text) ==
    \E k \in f + 1 .. n :
        /\ Completes(q[k], i) /\ q[k].text = text
        /\ \A j \in k + 1 .. n : ~Completes(q[j], i)

\* Who has old when it has executed the first f commands has new when it has executed n.
Gives(q, f, n, i, old, new) ==
    \/ old = new /\ \A k \in f + 1 .. n : ~Completes(q[k], i)
    \/ Latest(q, f, n, i, new)

\* What a client with these strings, that has executed the commands up to n, will have.
WillAgree(strings, n) ==
    \A i \in Indexes :
        \/ state = "PRIMED" /\ i \in csUpdated
        \/ i \in misordered
        \/ Gives(commands, n, Len(commands), i, strings[i], configstrings[i])

AgreementInv ==
    /\ clMap = map => WillAgree(clStrings, cgSequence)
    /\ \A k \in 1 .. Len(toClient) : toClient[k].kind = "gamestate" /\ toClient[k].map = map =>
          WillAgree(toClient[k].strings, toClient[k].upto)

-----------------------------------------------------------------------------
\* Commands that are added or replaced.

LEMMA Constants ==
    /\ Chunks \in Nat /\ Chunks >= 2 /\ MaxInFlight \in Nat \ {0}
    /\ Indexes \in SUBSET Nat /\ CS_SYSTEMINFO \in Indexes /\ ~MayBeLong(CS_SYSTEMINFO)
    /\ \A id \in Nat : SystemInfo(id) \in Text /\ Empty \in Text
BY LengthsAssumption, ChunksAssumption, BoundsAssumption
   DEF Indexes, CS_SYSTEMINFO, MayBeLong, SystemInfo, Text, Empty

LEMMA CommandTypes ==
    ASSUME NEW i \in Indexes, NEW text \in Text
    PROVE  /\ Cs(i, text) \in Command
           /\ Cs(i, text).op = "cs" /\ Cs(i, text).index = i /\ Cs(i, text).text = text
           /\ \A k \in 1 .. Chunks :
                 /\ Bcs(i, text, k) \in Command
                 /\ Bcs(i, text, k).index = i /\ Bcs(i, text, k).text = text
                 /\ Bcs(i, text, k).op # "cs"
                 /\ Bcs(i, text, k).op = "bcs0" <=> k = 1
                 /\ Bcs(i, text, k).op = "bcs2" <=> k = Chunks
<1>1. Cs(i, text) \in Command /\ Cs(i, text).op = "cs" /\ Cs(i, text).index = i /\ Cs(i, text).text = text
  BY DEF Cs, Command
<1>2. ASSUME NEW k \in 1 .. Chunks
      PROVE  /\ Bcs(i, text, k) \in Command
             /\ Bcs(i, text, k).index = i /\ Bcs(i, text, k).text = text
             /\ Bcs(i, text, k).op # "cs"
             /\ Bcs(i, text, k).op = "bcs0" <=> k = 1
             /\ Bcs(i, text, k).op = "bcs2" <=> k = Chunks
  <2>1. CASE k = 1
    BY <2>1, Constants DEF Bcs, Command
  <2>2. CASE k # 1 /\ k < Chunks
    BY <2>2, Constants DEF Bcs, Command
  <2>3. CASE k # 1 /\ ~(k < Chunks)
    BY <2>3, Constants DEF Bcs, Command
  <2>. QED  BY <2>1, <2>2, <2>3
<1>. QED  BY <1>1, <1>2

\* The queue q becomes q2: what was sent stays as it is, and what is new or changed is of the
\* indexes in U and holds their text in strings.
Continues(q, q2, r, strings, U) ==
    /\ q2 \in Seq(Command) /\ Len(q2) >= Len(q)
    /\ WellFormed(q2, r)
    /\ \A n \in 1 .. Len(q) : q2[n].op = q[n].op /\ q2[n].index = q[n].index
    /\ \A n \in 1 .. Len(q2) : \/ n <= Len(q) /\ q2[n] = q[n]
                               \/ n > r /\ q2[n].index \in U /\ q2[n].text = strings[q2[n].index]

LEMMA ContinuesSame ==
    ASSUME NEW q \in Seq(Command), NEW r, NEW strings, NEW U, WellFormed(q, r)
    PROVE  Continues(q, q, r, strings, U)
<1>. Len(q) \in Nat
  OBVIOUS
<1>. QED  BY DEF Continues

LEMMA ContinuesTwice ==
    ASSUME NEW q \in Seq(Command), NEW q2, NEW q3, NEW r, NEW strings, NEW U, NEW V, NEW W,
           Continues(q, q2, r, strings, U), Continues(q2, q3, r, strings, V),
           U \subseteq W, V \subseteq W
    PROVE  Continues(q, q3, r, strings, W)
<1>1. PICK l \in Nat : l = Len(q)
  OBVIOUS
<1>2. PICK l2 \in Nat : l2 = Len(q2)
  BY DEF Continues
<1>3. PICK l3 \in Nat : l3 = Len(q3)
  BY DEF Continues
<1>4. l <= l2 /\ l2 <= l3
  BY <1>1, <1>2, <1>3 DEF Continues
<1>5. ASSUME NEW n \in 1 .. l PROVE q3[n].op = q[n].op /\ q3[n].index = q[n].index
  <2>1. n \in 1 .. l2
    BY <1>4
  <2>. QED  BY <1>1, <1>2, <2>1 DEF Continues
<1>6. ASSUME NEW n \in 1 .. l3
      PROVE  \/ n <= l /\ q3[n] = q[n]
             \/ n > r /\ q3[n].index \in W /\ q3[n].text = strings[q3[n].index]
  <2>1. CASE n > r /\ q3[n].index \in V /\ q3[n].text = strings[q3[n].index]
    BY <2>1
  <2>2. CASE n <= l2 /\ q3[n] = q2[n]
    <3>1. n \in 1 .. l2
      BY <2>2
    <3>2. \/ n <= l /\ q2[n] = q[n]
          \/ n > r /\ q2[n].index \in U /\ q2[n].text = strings[q2[n].index]
      BY <1>1, <1>2, <3>1 DEF Continues
    <3>. QED  BY <2>2, <3>2
  <2>. QED  BY <1>2, <1>3, <2>1, <2>2 DEF Continues
<1>. QED  BY <1>1, <1>2, <1>3, <1>4, <1>5, <1>6 DEF Continues

\* A group stays where it is when none of its pieces is changed.
LEMMA GroupStays ==
    ASSUME NEW q \in Seq(Command), NEW q2 \in Seq(Command), Len(q2) >= Len(q),
           NEW i \in Indexes, NEW text \in Text, NEW s, GroupAt(q, s, i, text),
           \A n \in 1 .. Len(q) : q[n].op # "cs" => q2[n] = q[n]
    PROVE  GroupAt(q2, s, i, text)
<1>1. PICK l \in Nat : l = Len(q)
  OBVIOUS
<1>2. PICK l2 \in Nat : l2 = Len(q2)
  OBVIOUS
<1>3. s \in 1 .. l /\ s + Chunks - 1 <= l /\ l <= l2
  BY <1>1, <1>2 DEF GroupAt
<1>4. ASSUME NEW k \in 1 .. Chunks PROVE q2[s + k - 1] = Bcs(i, text, k)
  <2>1. s + k - 1 \in 1 .. l
    BY <1>3, Constants
  <2>2. q[s + k - 1] = Bcs(i, text, k) /\ Bcs(i, text, k).op # "cs"
    BY CommandTypes DEF GroupAt
  <2>. QED  BY <1>1, <2>1, <2>2
<1>5. s \in 1 .. l2 /\ s + Chunks - 1 <= l2
  BY <1>3, Constants
<1>. QED  BY <1>2, <1>4, <1>5 DEF GroupAt

\* Behind m there are no pieces of a text of the index.
NoPieces(q, m, i) == \A n \in m + 1 .. Len(q) : q[n].index = i => q[n].op = "cs"

Replaced(q, q2, m, c) == q2 = [q EXCEPT ![m] = c]

\* An update that waits is replaced.
LEMMA ReplaceContinues ==
    ASSUME NEW q \in Seq(Command), NEW r \in 0 .. Len(q), WellFormed(q, r),
           NEW i \in Indexes, NEW strings, strings[i] \in Text,
           NEW m \in r + 1 .. Len(q), q[m].op = "cs", q[m].index = i,
           NEW q2, Replaced(q, q2, m, Cs(i, strings[i]))
    PROVE  /\ Continues(q, q2, r, strings, {i})
           /\ NoPieces(q, m, i) => Latest(q2, r, Len(q2), i, strings[i])
<1>1. PICK l \in Nat : l = Len(q)
  OBVIOUS
<1>2. r \in 0 .. l /\ m \in r + 1 .. l /\ m \in 1 .. l
  BY <1>1
<1>3. /\ q2 \in Seq(Command) /\ Len(q2) = l
      /\ q2[m] = Cs(i, strings[i])
      /\ \A n \in 1 .. l : n # m => q2[n] = q[n]
  BY <1>1, <1>2, CommandTypes DEF Replaced
<1>4. \A n \in 1 .. l : q2[n].op = q[n].op /\ q2[n].index = q[n].index
  BY <1>2, <1>3, CommandTypes
<1>5. Grouped(q2)
  <2>. SUFFICES ASSUME NEW n \in 1 .. l, q2[n].op # "cs"
                PROVE  \E s \in 1 .. l : s <= n /\ n < s + Chunks /\ GroupAt(q2, s, q2[n].index, q2[n].text)
    BY <1>3 DEF Grouped
  <2>1. q[n].op # "cs" /\ q2[n] = q[n]
    BY <1>3, <1>4
  <2>2. PICK s \in 1 .. l : s <= n /\ n < s + Chunks /\ GroupAt(q, s, q[n].index, q[n].text)
    BY <1>1, <2>1 DEF WellFormed, Grouped
  <2>3. q[n] \in Command
    BY <1>1
  <2>4. \A k \in 1 .. Len(q) : q[k].op # "cs" => q2[k] = q[k]
    BY <1>1, <1>3
  <2>5. GroupAt(q2, s, q[n].index, q[n].text)
    <3>1. Len(q2) >= Len(q)
      BY <1>1, <1>3
    <3>2. q[n].index \in Indexes /\ q[n].text \in Text
      BY <2>3 DEF Command
    <3>. QED  BY <1>3, <2>2, <2>4, <3>1, <3>2, GroupStays
  <2>. QED  BY <2>1, <2>2, <2>5
<1>6. LongOnly(q2)
  BY <1>1, <1>3, <1>4 DEF LongOnly, WellFormed
<1>7. PendingOnce(q2, r)
  <2>1. \A n \in r + 1 .. l : n \in 1 .. l
    BY <1>2
  <2>. QED  BY <1>1, <1>3, <1>4, <2>1 DEF PendingOnce, WellFormed
<1>8. AtEnd(q2, l)
  <2>1. AtEnd(q, l) /\ l \in 1 .. l
    BY <1>1, <1>2 DEF WellFormed
  <2>. QED  BY <1>4, <2>1 DEF AtEnd
<1>9. Continues(q, q2, r, strings, {i})
  <2>1. WellFormed(q2, r)
    BY <1>3, <1>5, <1>6, <1>7, <1>8 DEF WellFormed
  <2>2. q2[m].index = i /\ q2[m].text = strings[i] /\ m > r
    BY <1>2, <1>3, CommandTypes
  <2>. QED  BY <1>1, <1>3, <1>4, <2>1, <2>2 DEF Continues
<1>10. ASSUME NoPieces(q, m, i)
       PROVE  Latest(q2, r, Len(q2), i, strings[i])
  <2>1. Completes(q2[m], i) /\ q2[m].text = strings[i]
    BY <1>3, CommandTypes DEF Completes
  <2>2. ASSUME NEW j \in m + 1 .. l, Completes(q2[j], i) PROVE FALSE
    <3>1. j \in r + 1 .. l /\ j \in 1 .. l /\ j # m
      BY <1>2
    <3>2. q[j].index = i /\ q[j].op = "cs"
      BY <1>1, <1>4, <1>10, <2>2, <3>1 DEF Completes, NoPieces
    <3>. QED  BY <1>1, <1>2, <3>1, <3>2 DEF WellFormed, PendingOnce
  <2>. QED  BY <1>2, <1>3, <2>1, <2>2 DEF Latest
<1>. QED  BY <1>9, <1>10

\* The commands that bring a text, when none of its index waits to be replaced.
Pieces(i, text) ==
    IF text.length = "long" THEN [k \in 1 .. Chunks |-> Bcs(i, text, k)] ELSE <<Cs(i, text)>>

LEMMA PiecesElements ==
    ASSUME NEW i \in Indexes, NEW text \in Text
    PROVE  /\ Pieces(i, text) \in Seq(Command)
           /\ Len(Pieces(i, text)) = IF text.length = "long" THEN Chunks ELSE 1
           /\ \A k \in 1 .. Len(Pieces(i, text)) :
                 Pieces(i, text)[k] = IF text.length = "long" THEN Bcs(i, text, k) ELSE Cs(i, text)
<1>1. CASE text.length = "long"
  <2>. DEFINE w == [k \in 1 .. Chunks |-> Bcs(i, text, k)]
  <2>1. w \in Seq(Command) /\ Len(w) = Chunks /\ \A k \in 1 .. Chunks : w[k] = Bcs(i, text, k)
    BY Constants, CommandTypes
  <2>2. Pieces(i, text) = w
    BY <1>1 DEF Pieces
  <2>. HIDE DEF w
  <2>. QED  BY <1>1, <2>1, <2>2
<1>2. CASE text.length # "long"
  <2>1. Pieces(i, text) = <<Cs(i, text)>>
    BY <1>2 DEF Pieces
  <2>. QED  BY <1>2, <2>1, CommandTypes
<1>. QED  BY <1>1, <1>2

LEMMA AppendContinues ==
    ASSUME NEW q \in Seq(Command), NEW r \in 0 .. Len(q), WellFormed(q, r),
           NEW i \in Indexes, NEW strings, strings[i] \in Text,
           strings[i].length = "long" => MayBeLong(i),
           strings[i].length # "long" =>
                \A n \in r + 1 .. Len(q) : ~(q[n].op = "cs" /\ q[n].index = i),
           NEW q2, q2 = q \o Pieces(i, strings[i])
    PROVE  /\ Continues(q, q2, r, strings, {i})
           /\ Latest(q2, r, Len(q2), i, strings[i])
<1>. DEFINE text == strings[i]
<1>1. PICK l \in Nat : l = Len(q)
  OBVIOUS
<1>2. PICK c \in Nat : c = Chunks /\ c >= 2
  BY Constants
<1>3. PICK d \in Nat : d = (IF text.length = "long" THEN c ELSE 1) /\ d >= 1
  BY <1>2
<1>4. /\ Pieces(i, text) \in Seq(Command) /\ Len(Pieces(i, text)) = d
      /\ \A k \in 1 .. d : Pieces(i, text)[k] = IF text.length = "long" THEN Bcs(i, text, k) ELSE Cs(i, text)
  BY <1>2, <1>3, PiecesElements
<1>5. /\ q2 \in Seq(Command) /\ Len(q2) = l + d
      /\ \A n \in 1 .. l : q2[n] = q[n]
      /\ \A k \in 1 .. d : q2[l + k] = IF text.length = "long" THEN Bcs(i, text, k) ELSE Cs(i, text)
  <2>. DEFINE w == Pieces(i, text)
  <2>. HIDE DEF w
  <2>0. w \in Seq(Command) /\ Len(w) = d
    BY <1>4 DEF w
  <2>1. /\ q \o w \in Seq(Command) /\ Len(q \o w) = l + d
        /\ \A n \in 1 .. l + d : (q \o w)[n] = IF n <= l THEN q[n] ELSE w[n - l]
    BY <1>1, <2>0, ConcatProperties
  <2>2. ASSUME NEW k \in 1 .. d PROVE (q \o w)[l + k] = w[k]
    <3>1. l + k \in 1 .. l + d /\ ~(l + k <= l) /\ (l + k) - l = k
      OBVIOUS
    <3>. QED  BY <2>1, <3>1
  <2>. QED  BY <1>4, <2>1, <2>2 DEF w
<1>. HIDE DEF text
<1>6. ASSUME NEW n \in l + 1 .. l + d
      PROVE  q2[n].index = i /\ q2[n].text = text
  <2>1. n - l \in 1 .. d /\ l + (n - l) = n
    OBVIOUS
  <2>2. q2[n] = IF text.length = "long" THEN Bcs(i, text, n - l) ELSE Cs(i, text)
    BY <1>5, <2>1
  <2>3. text.length = "long" => n - l \in 1 .. Chunks
    BY <1>2, <1>3, <2>1
  <2>. QED  BY <2>2, <2>3, CommandTypes DEF text
<1>7. q2[l + d].op = (IF text.length = "long" THEN "bcs2" ELSE "cs")
  <2>1. d \in 1 .. d /\ (text.length = "long" => d = Chunks /\ d \in 1 .. Chunks)
    BY <1>2, <1>3
  <2>2. q2[l + d] = IF text.length = "long" THEN Bcs(i, text, d) ELSE Cs(i, text)
    BY <1>5, <2>1
  <2>. QED  BY <2>1, <2>2, CommandTypes DEF text
<1>8. Grouped(q2)
  <2>. SUFFICES ASSUME NEW n \in 1 .. l + d, q2[n].op # "cs"
                PROVE  \E s \in 1 .. l + d : s <= n /\ n < s + Chunks /\ GroupAt(q2, s, q2[n].index, q2[n].text)
    BY <1>5 DEF Grouped
  <2>1. CASE n <= l
    <3>0. n \in 1 .. l
      BY <2>1
    <3>1. q2[n] = q[n] /\ q[n] \in Command
      BY <1>1, <1>5, <3>0
    <3>2. PICK s \in 1 .. l : s <= n /\ n < s + Chunks /\ GroupAt(q, s, q[n].index, q[n].text)
      BY <1>1, <3>0, <3>1 DEF WellFormed, Grouped
    <3>3. \A k \in 1 .. Len(q) : q[k].op # "cs" => q2[k] = q[k]
      BY <1>1, <1>5
    <3>4. GroupAt(q2, s, q[n].index, q[n].text)
      <4>1. Len(q2) >= Len(q)
        BY <1>1, <1>5
      <4>. QED  BY <1>5, <3>1, <3>2, <3>3, <4>1, GroupStays DEF Command
    <3>5. s \in 1 .. l + d
      OBVIOUS
    <3>. QED  BY <3>1, <3>2, <3>4, <3>5
  <2>2. CASE n > l
    <3>1. n \in l + 1 .. l + d
      BY <2>2
    <3>2. text.length = "long"
      <4>1. n - l \in 1 .. d /\ l + (n - l) = n
        BY <3>1
      <4>2. q2[n] = IF text.length = "long" THEN Bcs(i, text, n - l) ELSE Cs(i, text)
        BY <1>5, <4>1
      <4>. QED  BY <4>2, CommandTypes DEF text
    <3>3. d = c
      BY <1>3, <3>2
    <3>4. l + 1 \in 1 .. l + d /\ l + 1 <= n /\ n < (l + 1) + c /\ (l + 1) + c - 1 <= l + d
      BY <1>2, <3>1, <3>3
    <3>5. ASSUME NEW k \in 1 .. c PROVE q2[(l + 1) + k - 1] = Bcs(i, text, k)
      <4>1. (l + 1) + k - 1 = l + k /\ k \in 1 .. d
        BY <3>3
      <4>. QED  BY <1>5, <3>2, <4>1
    <3>6. GroupAt(q2, l + 1, i, text)
      BY <1>2, <1>5, <3>4, <3>5 DEF GroupAt
    <3>. QED  BY <1>2, <1>6, <3>1, <3>4, <3>6
  <2>3. n <= l \/ n > l
    OBVIOUS
  <2>. QED  BY <2>1, <2>2, <2>3, Zenon
<1>9. LongOnly(q2)
  <2>. SUFFICES ASSUME NEW n \in 1 .. l + d, q2[n].op # "cs" PROVE MayBeLong(q2[n].index)
    BY <1>5 DEF LongOnly
  <2>1. CASE n \in 1 .. l
    BY <1>1, <1>5, <2>1 DEF LongOnly, WellFormed
  <2>2. CASE n \in l + 1 .. l + d
    <3>1. n - l \in 1 .. d /\ l + (n - l) = n
      BY <2>2
    <3>2. q2[n] = IF text.length = "long" THEN Bcs(i, text, n - l) ELSE Cs(i, text)
      BY <1>5, <3>1
    <3>3. text.length = "long"
      BY <3>2, CommandTypes DEF text
    <3>. QED  BY <1>6, <2>2, <3>3 DEF text
  <2>3. n \in 1 .. l \/ n \in l + 1 .. l + d
    OBVIOUS
  <2>. QED  BY <2>1, <2>2, <2>3, Zenon
<1>10. PendingOnce(q2, r)
  <2>. SUFFICES ASSUME NEW j \in r + 1 .. l + d, NEW k \in r + 1 .. l + d, j <= k,
                       q2[j].op = "cs", q2[k].op = "cs", q2[j].index = q2[k].index
                PROVE  j = k
    <3>1. \A j, k \in r + 1 .. l + d : j <= k \/ k <= j
      BY <1>1
    <3>. QED  BY <1>5, <3>1, Zenon DEF PendingOnce
  <2>0. r \in 0 .. l
    BY <1>1
  <2>1. CASE k <= l
    <3>1. j \in r + 1 .. l /\ k \in r + 1 .. l /\ j \in 1 .. l /\ k \in 1 .. l
      BY <2>0, <2>1
    <3>2. PendingOnce(q, r)
      BY <1>1 DEF WellFormed
    <3>. QED  BY <1>1, <1>5, <3>1, <3>2, SMTT(30) DEF PendingOnce
  <2>2. CASE k > l
    <3>1. k \in l + 1 .. l + d
      BY <2>0, <2>2
    <3>2. k - l \in 1 .. d /\ l + (k - l) = k
      BY <3>1
    <3>3. q2[k] = IF text.length = "long" THEN Bcs(i, text, k - l) ELSE Cs(i, text)
      BY <1>5, <3>2
    <3>4. text.length = "long" => k - l \in 1 .. Chunks
      BY <1>2, <1>3, <3>2
    <3>5. text.length # "long"
      BY <2>2, <3>3, <3>4, CommandTypes DEF text
    <3>6. k = l + 1 /\ q2[k].index = i
      <4>1. d = 1
        BY <1>3, <3>5
      <4>2. k = l + 1
        BY <3>1, <4>1
      <4>3. q2[k].index = i
        BY <1>6, <3>1
      <4>. QED  BY <4>2, <4>3
    <3>7. CASE j <= l
      <4>1. j \in r + 1 .. l /\ j \in 1 .. l
        BY <2>0, <3>7
      <4>. QED  BY <1>1, <1>5, <3>5, <3>6, <4>1 DEF text
    <3>8. CASE j > l
      BY <2>0, <3>6, <3>8
    <3>. QED  BY <2>0, <3>7, <3>8
  <2>. QED  BY <2>0, <2>1, <2>2
<1>11. AtEnd(q2, l + d)
  BY <1>7 DEF AtEnd
<1>12. Continues(q, q2, r, strings, {i})
  <2>1. WellFormed(q2, r)
    BY <1>5, <1>8, <1>9, <1>10, <1>11 DEF WellFormed
  <2>2. ASSUME NEW n \in 1 .. l + d
        PROVE  \/ n <= l /\ q2[n] = q[n]
               \/ n > r /\ q2[n].index \in {i} /\ q2[n].text = strings[q2[n].index]
    <3>1. CASE n <= l
      BY <1>5, <3>1
    <3>2. CASE n > l
      <4>1. n \in l + 1 .. l + d /\ n > r
        BY <1>1, <3>2
      <4>. QED  BY <1>6, <4>1 DEF text
    <3>3. n <= l \/ n > l
      OBVIOUS
    <3>. QED  BY <3>1, <3>2, <3>3, Zenon
  <2>3. Len(q2) >= Len(q) /\ \A n \in 1 .. Len(q) : q2[n].op = q[n].op /\ q2[n].index = q[n].index
    BY <1>1, <1>5
  <2>. QED  BY <1>1, <1>5, <2>1, <2>2, <2>3 DEF Continues
<1>13. Latest(q2, r, l + d, i, text)
  <2>1. l + d \in r + 1 .. l + d /\ l + d \in l + 1 .. l + d
    BY <1>1, <1>3
  <2>2. Completes(q2[l + d], i) /\ q2[l + d].text = text
    BY <1>6, <1>7, <2>1 DEF Completes
  <2>3. \A j \in (l + d) + 1 .. l + d : FALSE
    OBVIOUS
  <2>. QED  BY <2>1, <2>2, <2>3 DEF Latest
<1>. QED  BY <1>5, <1>12, <1>13 DEF text

\* What WithConfigstring does, whatever is in the queue.
LEMMA ConfigstringAdded ==
    ASSUME NEW q \in Seq(Command), NEW r, r = reliableSent, r \in 0 .. Len(q), WellFormed(q, r),
           NEW i \in Indexes, NEW strings, strings[i] \in Text,
           strings[i].length = "long" => MayBeLong(i),
           NEW q2, q2 = WithConfigstring(q, i, strings[i])
    PROVE  /\ Continues(q, q2, r, strings, {i})
           /\ Misorders(q, i, strings[i]) \/ Latest(q2, r, Len(q2), i, strings[i])
<1>. DEFINE found == Replaceable(q, i)
<1>1. found = {n \in r + 1 .. Len(q) : q[n].op = "cs" /\ q[n].index = i}
  BY DEF Replaceable
<1>. HIDE DEF found
<1>2. CASE strings[i].length # "long" /\ found # {}
  <2>1. found \in SUBSET Nat /\ found # {}
    BY <1>1, <1>2
  <2>2. PICK m \in found : m = Min(found)
    BY <2>1, LeastElement
  <2>3. Replaced(q, q2, m, Cs(i, strings[i]))
    BY <1>2, <2>2 DEF WithConfigstring, AddShort, found, Replaced
  <2>4. m \in r + 1 .. Len(q) /\ q[m].op = "cs" /\ q[m].index = i
    BY <1>1
  <2>5. /\ Continues(q, q2, r, strings, {i})
        /\ NoPieces(q, m, i) => Latest(q2, r, Len(q2), i, strings[i])
    BY <2>3, <2>4, ReplaceContinues
  <2>6. strings[i].length = "short"
    BY <1>2 DEF Text
  <2>7. ~Misorders(q, i, strings[i]) => NoPieces(q, m, i)
    BY <1>2, <2>2, <2>6, Zenon DEF Misorders, NoPieces, found
  <2>. QED  BY <2>5, <2>7
<1>3. CASE strings[i].length = "long" \/ found = {}
  <2>1. q2 = q \o Pieces(i, strings[i])
    <3>1. CASE strings[i].length = "long"
      BY <3>1 DEF WithConfigstring, Pieces
    <3>2. CASE strings[i].length # "long"
      <4>1. q2 = Append(q, Cs(i, strings[i]))
        BY <1>3, <3>2 DEF WithConfigstring, AddShort, found
      <4>2. Cs(i, strings[i]) \in Command
        BY CommandTypes
      <4>3. Append(q, Cs(i, strings[i])) = q \o <<Cs(i, strings[i])>>
        BY <4>2, AppendIsConcat
      <4>. QED  BY <3>2, <4>1, <4>3 DEF Pieces
    <3>. QED  BY <3>1, <3>2
  <2>2. strings[i].length # "long" =>
                \A n \in r + 1 .. Len(q) : ~(q[n].op = "cs" /\ q[n].index = i)
    BY <1>1, <1>3
  <2>. QED  BY <2>1, <2>2, AppendContinues
<1>. QED  BY <1>2, <1>3

-----------------------------------------------------------------------------
\* What the commands give.

LEMMA LatestStays ==
    ASSUME NEW q \in Seq(Command), NEW q2, NEW r, NEW strings, NEW U, Continues(q, q2, r, strings, U),
           NEW i, i \notin U, NEW f \in Nat, NEW text, Latest(q, f, Len(q), i, text)
    PROVE  Latest(q2, f, Len(q2), i, text)
<1>1. PICK l \in Nat : l = Len(q)
  OBVIOUS
<1>2. PICK l2 \in Nat : l2 = Len(q2) /\ l <= l2
  BY <1>1 DEF Continues
<1>3. PICK k \in f + 1 .. l :
          /\ Completes(q[k], i) /\ q[k].text = text
          /\ \A j \in k + 1 .. l : ~Completes(q[j], i)
  BY <1>1 DEF Latest
<1>4. ASSUME NEW n \in 1 .. l2, Completes(q2[n], i)
      PROVE  n <= l /\ q2[n] = q[n]
  <2>1. q2[n].index \notin U
    BY <1>4 DEF Completes
  <2>. QED  BY <1>1, <1>2, <2>1 DEF Continues
<1>5. k \in 1 .. l /\ k \in f + 1 .. l2 /\ k \in 1 .. l2
  BY <1>2
<1>6. q2[k].op = q[k].op /\ q2[k].index = q[k].index
  BY <1>1, <1>5 DEF Continues
<1>7. Completes(q2[k], i) /\ q2[k] = q[k]
  BY <1>3, <1>4, <1>5, <1>6 DEF Completes
<1>8. ASSUME NEW j \in k + 1 .. l2, Completes(q2[j], i) PROVE FALSE
  <2>1. j \in 1 .. l2
    BY <1>5
  <2>2. j <= l /\ q2[j] = q[j]
    BY <1>4, <1>8, <2>1
  <2>3. j \in k + 1 .. l
    BY <2>2
  <2>. QED  BY <1>3, <1>8, <2>2, <2>3
<1>. QED  BY <1>2, <1>3, <1>5, <1>7, <1>8 DEF Latest

LEMMA GivesStays ==
    ASSUME NEW q \in Seq(Command), NEW q2, NEW r, NEW strings, NEW U, Continues(q, q2, r, strings, U),
           NEW i, i \notin U, NEW f \in Nat, NEW old, NEW new, Gives(q, f, Len(q), i, old, new)
    PROVE  Gives(q2, f, Len(q2), i, old, new)
<1>1. CASE Latest(q, f, Len(q), i, new)
  BY <1>1, LatestStays DEF Gives
<1>2. CASE old = new /\ \A k \in f + 1 .. Len(q) : ~Completes(q[k], i)
  <2>1. PICK l \in Nat : l = Len(q)
    OBVIOUS
  <2>2. PICK l2 \in Nat : l2 = Len(q2) /\ l <= l2
    BY <2>1 DEF Continues
  <2>3. ASSUME NEW n \in f + 1 .. l2, Completes(q2[n], i) PROVE FALSE
    <3>1. n \in 1 .. l2
      OBVIOUS
    <3>2. q2[n].index \notin U
      BY <2>3 DEF Completes
    <3>3. n <= l /\ q2[n] = q[n]
      BY <2>1, <2>2, <3>1, <3>2 DEF Continues
    <3>4. n \in f + 1 .. l
      BY <3>3
    <3>. QED  BY <1>2, <2>1, <2>3, <3>3, <3>4
  <2>. QED  BY <1>2, <2>2, <2>3 DEF Gives
<1>. QED  BY <1>1, <1>2 DEF Gives

\* A text that was added behind r is what everybody gets who is not further than that.
LEMMA LatestGives ==
    ASSUME NEW q, NEW r \in Nat, NEW n \in Nat, NEW i, NEW text, Latest(q, r, n, i, text),
           NEW f \in 0 .. r, NEW old
    PROVE  Gives(q, f, n, i, old, text)
<1>1. PICK k \in r + 1 .. n :
          /\ Completes(q[k], i) /\ q[k].text = text
          /\ \A j \in k + 1 .. n : ~Completes(q[j], i)
  BY DEF Latest
<1>2. k \in f + 1 .. n
  OBVIOUS
<1>. QED  BY <1>1, <1>2 DEF Gives, Latest

\* Who executes a part of the commands still gets the same by the rest.
LEMMA GivesRest ==
    ASSUME NEW q, NEW f \in Nat, NEW m \in Nat, NEW n \in Nat, f <= m, m <= n,
           NEW i, NEW old, NEW between, NEW new,
           Gives(q, f, m, i, old, between), Gives(q, f, n, i, old, new)
    PROVE  Gives(q, m, n, i, between, new)
<1>1. CASE old = new /\ \A k \in f + 1 .. n : ~Completes(q[k], i)
  <2>1. ~Latest(q, f, m, i, between)
    <3>1. \A k \in f + 1 .. m : k \in f + 1 .. n
      OBVIOUS
    <3>. QED  BY <1>1, <3>1 DEF Latest
  <2>2. \A k \in m + 1 .. n : k \in f + 1 .. n
    OBVIOUS
  <2>. QED  BY <1>1, <2>1, <2>2 DEF Gives
<1>2. CASE Latest(q, f, n, i, new)
  <2>1. PICK k \in f + 1 .. n :
            /\ Completes(q[k], i) /\ q[k].text = new
            /\ \A j \in k + 1 .. n : ~Completes(q[j], i)
    BY <1>2 DEF Latest
  <2>2. CASE k > m
    <3>1. k \in m + 1 .. n
      BY <2>2
    <3>. QED  BY <2>1, <3>1 DEF Gives, Latest
  <2>3. CASE k <= m
    <3>1. k \in f + 1 .. m
      BY <2>3
    <3>2. PICK h \in f + 1 .. m :
              /\ Completes(q[h], i) /\ q[h].text = between
              /\ \A j \in h + 1 .. m : ~Completes(q[j], i)
      BY <2>1, <3>1 DEF Gives, Latest
    <3>3. h = k
      <4>1. CASE h < k
        <5>1. k \in h + 1 .. m
          BY <3>1, <4>1
        <5>. QED  BY <2>1, <3>2, <5>1
      <4>2. CASE k < h
        <5>1. h \in k + 1 .. n
          BY <4>2
        <5>. QED  BY <2>1, <3>2, <5>1
      <4>3. h < k \/ k < h \/ h = k
        OBVIOUS
      <4>. QED  BY <4>1, <4>2, <4>3, Zenon
    <3>4. between = new
      BY <2>1, <3>2, <3>3
    <3>5. ASSUME NEW j \in m + 1 .. n PROVE ~Completes(q[j], i)
      <4>1. j \in k + 1 .. n
        BY <2>3
      <4>. QED  BY <2>1, <4>1
    <3>. QED  BY <3>4, <3>5 DEF Gives
  <2>4. k <= m \/ k > m
    OBVIOUS
  <2>. QED  BY <2>2, <2>3, <2>4, Zenon
<1>. QED  BY <1>1, <1>2 DEF Gives

-----------------------------------------------------------------------------
\* SV_UpdateConfigstrings adds the texts one after the other.

\* g adds the texts of any set of indexes below m.
AddsTo(g, q, m) ==
    g = [s \in SUBSET (0 .. m - 1) |->
            IF s = {} THEN q ELSE WithConfigstring(g[s \ {Max(s)}], Max(s), configstrings[Max(s)])]

LEMMA AddsExtend ==
    ASSUME NEW q, NEW m \in Nat, NEW g, AddsTo(g, q, m)
    PROVE  \E h : AddsTo(h, q, m + 1)
<1>. DEFINE h == [s \in SUBSET (0 .. (m + 1) - 1) |->
                    IF m \in s THEN WithConfigstring(g[s \ {m}], m, configstrings[m]) ELSE g[s]]
            v(s) == IF s = {} THEN q ELSE WithConfigstring(h[s \ {Max(s)}], Max(s), configstrings[Max(s)])
<1>1. ASSUME NEW s \in SUBSET (0 .. (m + 1) - 1)
      PROVE  h[s] = v(s)
  <2>1. CASE m \in s
    <3>1. Max(s) = m
      <4>1. s \in SUBSET Nat /\ s # {} /\ m \in Nat /\ \A y \in s : y <= m
        BY <2>1
      <4>2. Max(s) \in s /\ \A y \in s : y <= Max(s)
        BY <4>1, GreatestElement
      <4>. HIDE DEF h, v
      <4>3. PICK x \in 0 .. (m + 1) - 1 : x = Max(s)
        BY <4>2
      <4>4. m <= x
        BY <2>1, <4>2, <4>3
      <4>. QED  BY <4>3, <4>4
    <3>2. s \ {m} \in SUBSET (0 .. m - 1) /\ s \ {m} \in SUBSET (0 .. (m + 1) - 1) /\ m \notin s \ {m}
      OBVIOUS
    <3>3. h[s \ {m}] = g[s \ {m}]
      BY <3>2
    <3>4. h[s] = WithConfigstring(g[s \ {m}], m, configstrings[m])
      BY <2>1, Zenon
    <3>5. s # {}
      BY <2>1
    <3>. HIDE DEF h
    <3>. QED  BY <3>1, <3>3, <3>4, <3>5, Zenon
  <2>2. CASE m \notin s /\ s # {}
    <3>1. s \in SUBSET (0 .. m - 1)
      BY <2>2
    <3>. HIDE DEF h
    <3>2. s \ {Max(s)} \in SUBSET (0 .. m - 1) /\ s \ {Max(s)} \in SUBSET (0 .. (m + 1) - 1) /\ m \notin s \ {Max(s)}
      BY <2>2, <3>1
    <3>3. h[s \ {Max(s)}] = g[s \ {Max(s)}]
      BY <3>2, Zenon DEF h
    <3>4. h[s] = g[s]
      BY <2>2, Zenon DEF h
    <3>5. g[s] = WithConfigstring(g[s \ {Max(s)}], Max(s), configstrings[Max(s)])
      BY <2>2, <3>1, Zenon DEF AddsTo
    <3>. QED  BY <2>2, <3>3, <3>4, <3>5, Zenon
  <2>3. CASE s = {}
    <3>1. s \in SUBSET (0 .. m - 1) /\ m \notin s
      BY <2>3
    <3>2. h[s] = g[s]
      BY <3>1, Zenon
    <3>3. g[s] = q
      BY <2>3, <3>1, Zenon DEF AddsTo
    <3>. HIDE DEF h
    <3>. QED  BY <2>3, <3>2, <3>3, Zenon
  <2>. QED  BY <2>1, <2>2, <2>3
<1>2. h = [s \in SUBSET (0 .. (m + 1) - 1) |-> h[s]]
  BY Zenon
<1>3. [s \in SUBSET (0 .. (m + 1) - 1) |-> h[s]] = [s \in SUBSET (0 .. (m + 1) - 1) |-> v(s)]
  <2>. HIDE DEF h, v
  <2>. QED  BY <1>1, Zenon
<1>4. AddsTo(h, q, m + 1)
  <2>. HIDE DEF h
  <2>. QED  BY <1>2, <1>3, Zenon DEF AddsTo
<1>. QED  BY <1>4

LEMMA AddsExist ==
    ASSUME NEW q, NEW n \in Nat
    PROVE  \E g : AddsTo(g, q, n)
<1>. DEFINE Bad == {m \in Nat : ~ \E g : AddsTo(g, q, m)}
<1>. SUFFICES ASSUME Bad # {} PROVE FALSE
  OBVIOUS
<1>1. Min(Bad) \in Bad /\ \A y \in Bad : Min(Bad) <= y
  <2>. Bad \in SUBSET Nat
    OBVIOUS
  <2>. HIDE DEF Bad
  <2>. QED  BY LeastElement
<1>2. PICK m \in Bad : \A y \in Bad : m <= y
  BY <1>1
<1>3. CASE m = 0
  <2>. DEFINE g == [s \in SUBSET (0 .. 0 - 1) |-> q]
              v(s) == IF s = {} THEN q ELSE WithConfigstring(g[s \ {Max(s)}], Max(s), configstrings[Max(s)])
  <2>1. \A s \in SUBSET (0 .. 0 - 1) : s = {}
    OBVIOUS
  <2>2. g = [s \in SUBSET (0 .. 0 - 1) |-> v(s)]
    <3>1. \A s \in SUBSET (0 .. 0 - 1) : v(s) = q
      BY <2>1, Zenon
    <3>. HIDE DEF v
    <3>. QED  BY <3>1, Zenon
  <2>3. AddsTo(g, q, 0)
    <3>. HIDE DEF g
    <3>. QED  BY <2>2, Zenon DEF AddsTo
  <2>. QED  BY <1>2, <1>3, <2>3, Zenon
<1>4. CASE m # 0
  <2>1. m - 1 \in Nat /\ ~(m <= m - 1) /\ (m - 1) + 1 = m
    BY <1>2, <1>4
  <2>2. PICK g : AddsTo(g, q, m - 1)
    BY <1>2, <2>1
  <2>3. \E h : AddsTo(h, q, (m - 1) + 1)
    BY <2>1, <2>2, AddsExtend, Zenon
  <2>. QED  BY <1>2, <2>1, <2>3, Zenon
<1>. QED  BY <1>3, <1>4

\* The queues t[0], t[1], ... hold the texts of the indexes below 0, 1, ...
Adds(t, q, S, b) ==
    /\ t[0] = q
    /\ \A n \in 0 .. b :
          t[n + 1] = IF n \in S THEN WithConfigstring(t[n], n, configstrings[n]) ELSE t[n]

LEMMA AddSteps ==
    ASSUME NEW q, NEW b \in Nat, NEW S \in SUBSET (0 .. b)
    PROVE  \E t : Adds(t, q, S, b) /\ WithConfigstrings(q, S) = t[b + 1]
<1>. DEFINE Iterates(g) ==
                g = [s \in SUBSET S |->
                        IF s = {} THEN q ELSE WithConfigstring(g[s \ {Max(s)}], Max(s), configstrings[Max(s)])]
            below(n) == {i \in S : i < n}
<1>0. \A i \in S : i \in Nat /\ i <= b
  OBVIOUS
<1>1. \E g : Iterates(g)
  <2>1. PICK h : AddsTo(h, q, b + 1)
    BY AddsExist
  <2>. DEFINE g == [s \in SUBSET S |-> h[s]]
              v(s) == IF s = {} THEN q ELSE WithConfigstring(g[s \ {Max(s)}], Max(s), configstrings[Max(s)])
  <2>2. ASSUME NEW s \in SUBSET S PROVE h[s] = v(s)
    <3>0. s \ {Max(s)} \in SUBSET S
      OBVIOUS
    <3>a. \A i \in s : i \in 0 .. (b + 1) - 1
      BY <1>0
    <3>1. s \in SUBSET (0 .. (b + 1) - 1) /\ s \ {Max(s)} \in SUBSET S
      BY <3>0, <3>a, Zenon
    <3>2. g[s \ {Max(s)}] = h[s \ {Max(s)}]
      BY <3>1, Zenon
    <3>3. h[s] = IF s = {} THEN q ELSE WithConfigstring(h[s \ {Max(s)}], Max(s), configstrings[Max(s)])
      BY <2>1, <3>1, Zenon DEF AddsTo
    <3>. HIDE DEF g
    <3>. QED  BY <3>2, <3>3, Zenon
  <2>3. g = [s \in SUBSET S |-> v(s)]
    <3>. HIDE DEF v
    <3>. QED  BY <2>2, Zenon
  <2>. HIDE DEF g
  <2>. QED  BY <2>3, Zenon
<1>2. PICK g : Iterates(g) /\ WithConfigstrings(q, S) = g[S]
  <2>. DEFINE c == CHOOSE g : Iterates(g)
  <2>1. Iterates(c)
    BY <1>1, Zenon
  <2>2. WithConfigstrings(q, S) = c[S]
    BY Zenon DEF WithConfigstrings, MapThenFoldSet
  <2>. HIDE DEF c
  <2>. QED  BY <2>1, <2>2, Zenon
<1>. DEFINE t == [n \in 0 .. b + 1 |-> g[below(n)]]
<1>3. t[0] = q
  <2>0. \A i \in S : ~(i < 0)
    BY <1>0
  <2>a. 0 \in 0 .. b + 1
    OBVIOUS
  <2>1. 0 \in 0 .. b + 1 /\ below(0) = {} /\ {} \in SUBSET S
    BY <2>0, <2>a, Zenon
  <2>2. g[{}] = q
    BY <1>2, <2>1, Zenon
  <2>. HIDE DEF below
  <2>. QED  BY <2>1, <2>2, Zenon
<1>4. ASSUME NEW n \in 0 .. b
      PROVE  t[n + 1] = IF n \in S THEN WithConfigstring(t[n], n, configstrings[n]) ELSE t[n]
  <2>1. n \in 0 .. b + 1 /\ n + 1 \in 0 .. b + 1
    OBVIOUS
  <2>2. t[n + 1] = g[below(n + 1)] /\ t[n] = g[below(n)]
    <3>. HIDE DEF below
    <3>. QED  BY <2>1, Zenon
  <2>3. CASE n \in S
    <3>. DEFINE s == below(n + 1)
    <3>0. \A i \in S : i < n + 1 <=> i < n \/ i = n
      BY <1>0
    <3>a. ~(n < n) /\ n < n + 1
      OBVIOUS
    <3>b. s \in SUBSET S /\ n \in s /\ s \ {n} = below(n)
      BY <2>3, <3>0, <3>a, Zenon
    <3>c. \A y \in s : y <= n
      BY <1>0, <3>0
    <3>1. s \in SUBSET S /\ n \in s /\ s \ {n} = below(n) /\ \A y \in s : y <= n
      BY <3>b, <3>c, Zenon
    <3>2. Max(s) = n
      <4>1. s \in SUBSET Nat /\ s # {}
        BY <1>0, <3>1, Zenon
      <4>. HIDE DEF s
      <4>2. Max(s) \in s /\ \A y \in s : y <= Max(s)
        BY <3>1, <4>1, GreatestElement
      <4>3. PICK x \in Nat : x = Max(s)
        BY <4>1, <4>2
      <4>4. n <= x /\ x <= n
        BY <3>1, <4>2, <4>3
      <4>. QED  BY <4>3, <4>4
    <3>. HIDE DEF s
    <3>3. g[s] = WithConfigstring(g[s \ {n}], n, configstrings[n])
      <4>1. s # {}
        BY <3>1
      <4>2. g[s] = WithConfigstring(g[s \ {Max(s)}], Max(s), configstrings[Max(s)])
        BY <1>2, <3>1, <4>1, Zenon
      <4>. QED  BY <3>2, <4>2, Zenon
    <3>4. t[n + 1] = g[s]
      BY <2>2, Zenon DEF s
    <3>. HIDE DEF t, below
    <3>. QED  BY <2>2, <2>3, <3>1, <3>3, <3>4, Zenon
  <2>4. CASE n \notin S
    <3>0. \A i \in S : i < n + 1 <=> i < n
      BY <1>0, <2>4
    <3>1. below(n + 1) = below(n)
      BY <3>0, Zenon
    <3>. HIDE DEF t, below
    <3>. QED  BY <2>2, <2>4, <3>1, Zenon
  <2>. QED  BY <2>3, <2>4, Zenon
<1>5. t[b + 1] = g[S]
  <2>0. \A i \in S : i < b + 1
    BY <1>0
  <2>a. b + 1 \in 0 .. b + 1
    OBVIOUS
  <2>1. b + 1 \in 0 .. b + 1 /\ below(b + 1) = S
    BY <2>0, <2>a, Zenon
  <2>. HIDE DEF below
  <2>. QED  BY <2>1, Zenon
<1>. HIDE DEF t
<1>6. Adds(t, q, S, b)
  BY <1>3, <1>4, Zenon DEF Adds
<1>. QED  BY <1>2, <1>5, <1>6, Zenon

\* What a client is owed is added behind all that was sent.
LEMMA ConfigstringsAdded ==
    ASSUME ServerTypes, CommandsInv, NEW q2, q2 = WithConfigstrings(commands, csUpdated)
    PROVE  /\ Continues(commands, q2, reliableSent, configstrings, csUpdated)
           /\ \A i \in csUpdated : Latest(q2, reliableSent, Len(q2), i, configstrings[i])
<1>1. PICK b \in Nat : csUpdated \in SUBSET (0 .. b)
  <2>1. PICK b \in Nat : \A i \in csUpdated : i <= b
    BY DEF ServerTypes, SettingTypes
  <2>2. csUpdated \in SUBSET Nat
    BY Constants DEF ServerTypes, SettingTypes
  <2>. QED  BY <2>1, <2>2
<1>a. \A i \in csUpdated : i \in Nat /\ i <= b
  BY <1>1
<1>2. PICK t : Adds(t, commands, csUpdated, b) /\ q2 = t[b + 1]
  BY <1>1, AddSteps
<1>3. PICK r \in Nat : r = reliableSent /\ r <= Len(commands) /\ (csUpdated # {} => r = Len(commands))
  BY DEF ServerTypes, SettingTypes, CommandsInv, Quiet
<1>4. commands \in Seq(Command) /\ WellFormed(commands, r)
  BY <1>3 DEF ServerTypes, SettingTypes, CommandsInv
<1>. DEFINE below(n) == {i \in csUpdated : i < n}
            Added(n) == /\ Continues(commands, t[n], r, configstrings, below(n))
                        /\ \A i \in below(n) : Latest(t[n], r, Len(t[n]), i, configstrings[i])
<1>5. Added(0)
  <2>0. \A i \in csUpdated : ~(i < 0)
    BY <1>a
  <2>1. below(0) = {}
    BY <2>0, Zenon
  <2>2. t[0] = commands
    BY <1>2 DEF Adds
  <2>3. Continues(commands, t[0], r, configstrings, below(0))
    BY <1>4, <2>2, ContinuesSame
  <2>. HIDE DEF below
  <2>. QED  BY <2>1, <2>3, Zenon
<1>6. ASSUME NEW n \in 0 .. b, Added(n) PROVE Added(n + 1)
  <2>1. CASE n \notin csUpdated
    <3>0. \A i \in csUpdated : i < n + 1 <=> i < n
      BY <1>a, <2>1
    <3>1. below(n + 1) = below(n)
      BY <3>0, Zenon
    <3>2. t[n + 1] = t[n]
      BY <1>2, <2>1 DEF Adds
    <3>. HIDE DEF below
    <3>. QED  BY <1>6, <3>1, <3>2, Zenon
  <2>2. CASE n \in csUpdated
    <3>0. (\A i \in csUpdated : i < n + 1 <=> i < n \/ i = n) /\ ~(n < n) /\ n < n + 1
      BY <1>a
    <3>1. below(n + 1) = below(n) \union {n} /\ n \notin below(n)
      BY <2>2, <3>0, Zenon
    <3>. HIDE DEF below
    <3>2. t[n + 1] = WithConfigstring(t[n], n, configstrings[n])
      BY <1>2, <2>2, Zenon DEF Adds
    <3>3. t[n] \in Seq(Command) /\ WellFormed(t[n], r) /\ Len(t[n]) >= r
      BY <1>3, <1>6 DEF Continues
    <3>4. PICK l \in Nat : l = Len(t[n]) /\ r \in 0 .. l
      BY <3>3
    <3>5. \A k \in r + 1 .. l : t[n][k].index # n
      <4>. SUFFICES ASSUME NEW k \in r + 1 .. l PROVE t[n][k].index # n
        OBVIOUS
      <4>1. k \in 1 .. l /\ ~(k <= r)
        OBVIOUS
      <4>a. r = Len(commands)
        BY <1>3, <2>2
      <4>2. t[n][k].index \in below(n)
        BY <4>a, <1>6, <3>4, <4>1 DEF Continues
      <4>. QED  BY <3>1, <4>2
    <3>6. n \in Indexes /\ configstrings[n] \in Text /\ (configstrings[n].length = "long" => MayBeLong(n))
      BY <2>2 DEF ServerTypes, SettingTypes
    <3>7. /\ Continues(t[n], t[n + 1], r, configstrings, {n})
          /\ Latest(t[n + 1], r, Len(t[n + 1]), n, configstrings[n])
      <4>1. ~Misorders(t[n], n, configstrings[n])
        <5>1. Replaceable(t[n], n) = {}
          BY <1>3, <3>4, <3>5 DEF Replaceable
        <5>. QED  BY <5>1 DEF Misorders
      <4>. QED  BY <1>3, <3>2, <3>3, <3>4, <3>6, <4>1, ConfigstringAdded
    <3>8. Continues(commands, t[n + 1], r, configstrings, below(n + 1))
      BY <1>4, <1>6, <3>1, <3>7, ContinuesTwice
    <3>9. ASSUME NEW i \in below(n) PROVE Latest(t[n + 1], r, Len(t[n + 1]), i, configstrings[i])
      <4>1. Latest(t[n], r, Len(t[n]), i, configstrings[i]) /\ i \notin {n}
        BY <1>6, <3>1
      <4>. QED  BY <3>3, <3>7, <4>1, LatestStays
    <3>. QED  BY <3>1, <3>7, <3>8, <3>9
  <2>. QED  BY <2>1, <2>2, Zenon
<1>7. Added(b + 1)
  <2>. DEFINE Bad == {n \in 0 .. b + 1 : ~Added(n)}
  <2>. SUFFICES ASSUME Bad # {} PROVE FALSE
    <3>1. b + 1 \in 0 .. b + 1
      OBVIOUS
    <3>. HIDE DEF Added
    <3>. QED  BY <3>1, Zenon
  <2>1. Bad \in SUBSET Nat
    <3>. HIDE DEF Added
    <3>. QED  OBVIOUS
  <2>2. PICK m \in Bad : \A y \in Bad : m <= y
    <3>. HIDE DEF Bad
    <3>. QED  BY <2>1, LeastElement
  <2>. HIDE DEF Added
  <2>3. m \in 0 .. b + 1 /\ ~Added(m)
    BY <2>2
  <2>4. m # 0
    BY <1>5, <2>3
  <2>5. m - 1 \in 0 .. b /\ ~(m <= m - 1) /\ (m - 1) + 1 = m /\ m - 1 \in 0 .. b + 1
    BY <2>3, <2>4
  <2>6. Added(m - 1)
    BY <2>2, <2>5
  <2>7. Added((m - 1) + 1)
    BY <1>6, <2>5, <2>6, Zenon
  <2>. QED  BY <2>3, <2>5, <2>7, Zenon
<1>8. below(b + 1) = csUpdated
  <2>1. \A i \in csUpdated : i < b + 1
    BY <1>a
  <2>. QED  BY <2>1, Zenon
<1>. HIDE DEF below
<1>. QED  BY <1>2, <1>3, <1>7, <1>8, Zenon

-----------------------------------------------------------------------------
\* CG_ExecuteNewServerCommands executes the commands one after the other.

\* g folds the commands with the numbers of any subset of 1 .. m.
ExecutesTo(g, w, cs, m) ==
    g = [s \in SUBSET (1 .. m) |->
            IF s = {} THEN w ELSE Execute(g[s \ {Max(s)}], cs[Max(s)])]

LEMMA ExecutionExtends ==
    ASSUME NEW w, NEW cs, NEW m \in Nat, NEW g, ExecutesTo(g, w, cs, m)
    PROVE  \E h : ExecutesTo(h, w, cs, m + 1)
<1>. DEFINE h == [s \in SUBSET (1 .. m + 1) |->
                    IF m + 1 \in s THEN Execute(g[s \ {m + 1}], cs[m + 1]) ELSE g[s]]
            v(s) == IF s = {} THEN w ELSE Execute(h[s \ {Max(s)}], cs[Max(s)])
<1>1. ASSUME NEW s \in SUBSET (1 .. m + 1)
      PROVE  h[s] = v(s)
  <2>1. CASE m + 1 \in s
    <3>1. Max(s) = m + 1
      <4>1. s \in SUBSET Nat /\ s # {} /\ m + 1 \in Nat /\ \A y \in s : y <= m + 1
        BY <2>1
      <4>2. Max(s) \in s /\ \A y \in s : y <= Max(s)
        BY <4>1, GreatestElement
      <4>. HIDE DEF h, v
      <4>3. PICK x \in 1 .. m + 1 : x = Max(s)
        BY <4>2
      <4>4. m + 1 <= x
        BY <2>1, <4>2, <4>3
      <4>. QED  BY <4>3, <4>4
    <3>2. s \ {m + 1} \in SUBSET (1 .. m) /\ s \ {m + 1} \in SUBSET (1 .. m + 1) /\ m + 1 \notin s \ {m + 1}
      OBVIOUS
    <3>3. h[s \ {m + 1}] = g[s \ {m + 1}]
      BY <3>2
    <3>4. h[s] = Execute(g[s \ {m + 1}], cs[m + 1])
      BY <2>1, Zenon
    <3>5. s # {}
      BY <2>1
    <3>. HIDE DEF h
    <3>. QED  BY <3>1, <3>3, <3>4, <3>5, Zenon
  <2>2. CASE m + 1 \notin s /\ s # {}
    <3>1. s \in SUBSET (1 .. m)
      BY <2>2
    <3>. HIDE DEF h
    <3>2. s \ {Max(s)} \in SUBSET (1 .. m) /\ s \ {Max(s)} \in SUBSET (1 .. m + 1) /\ m + 1 \notin s \ {Max(s)}
      BY <2>2, <3>1
    <3>3. h[s \ {Max(s)}] = g[s \ {Max(s)}]
      BY <3>2, Zenon DEF h
    <3>4. h[s] = g[s]
      BY <2>2, Zenon DEF h
    <3>5. g[s] = Execute(g[s \ {Max(s)}], cs[Max(s)])
      BY <2>2, <3>1, Zenon DEF ExecutesTo
    <3>. QED  BY <2>2, <3>3, <3>4, <3>5, Zenon
  <2>3. CASE s = {}
    <3>1. s \in SUBSET (1 .. m) /\ m + 1 \notin s
      BY <2>3
    <3>2. h[s] = g[s]
      BY <3>1, Zenon
    <3>3. g[s] = w
      BY <2>3, <3>1, Zenon DEF ExecutesTo
    <3>. HIDE DEF h
    <3>. QED  BY <2>3, <3>2, <3>3, Zenon
  <2>. QED  BY <2>1, <2>2, <2>3
<1>2. h = [s \in SUBSET (1 .. m + 1) |-> h[s]]
  BY Zenon
<1>3. [s \in SUBSET (1 .. m + 1) |-> h[s]] = [s \in SUBSET (1 .. m + 1) |-> v(s)]
  <2>. HIDE DEF h, v
  <2>. QED  BY <1>1, Zenon
<1>4. ExecutesTo(h, w, cs, m + 1)
  <2>. HIDE DEF h
  <2>. QED  BY <1>2, <1>3, Zenon DEF ExecutesTo
<1>. QED  BY <1>4

LEMMA ExecutionExists ==
    ASSUME NEW w, NEW cs, NEW n \in Nat
    PROVE  \E g : ExecutesTo(g, w, cs, n)
<1>. DEFINE Bad == {m \in Nat : ~ \E g : ExecutesTo(g, w, cs, m)}
<1>. SUFFICES ASSUME Bad # {} PROVE FALSE
  OBVIOUS
<1>1. Min(Bad) \in Bad /\ \A y \in Bad : Min(Bad) <= y
  <2>. Bad \in SUBSET Nat
    OBVIOUS
  <2>. HIDE DEF Bad
  <2>. QED  BY LeastElement
<1>2. PICK m \in Bad : \A y \in Bad : m <= y
  BY <1>1
<1>3. CASE m = 0
  <2>. DEFINE g == [s \in SUBSET (1 .. 0) |-> w]
              v(s) == IF s = {} THEN w ELSE Execute(g[s \ {Max(s)}], cs[Max(s)])
  <2>1. \A s \in SUBSET (1 .. 0) : s = {}
    OBVIOUS
  <2>2. g = [s \in SUBSET (1 .. 0) |-> v(s)]
    <3>1. \A s \in SUBSET (1 .. 0) : v(s) = w
      BY <2>1, Zenon
    <3>. HIDE DEF v
    <3>. QED  BY <3>1, Zenon
  <2>3. ExecutesTo(g, w, cs, 0)
    <3>. HIDE DEF g
    <3>. QED  BY <2>2, Zenon DEF ExecutesTo
  <2>. QED  BY <1>2, <1>3, <2>3, Zenon
<1>4. CASE m # 0
  <2>1. m - 1 \in Nat /\ ~(m <= m - 1) /\ (m - 1) + 1 = m
    BY <1>2, <1>4
  <2>2. PICK g : ExecutesTo(g, w, cs, m - 1)
    BY <1>2, <2>1
  <2>3. \E h : ExecutesTo(h, w, cs, (m - 1) + 1)
    BY <2>1, <2>2, ExecutionExtends, Zenon
  <2>. QED  BY <1>2, <2>1, <2>3, Zenon
<1>. QED  BY <1>3, <1>4

LEMMA ExecutionIs ==
    ASSUME NEW w, NEW cs, NEW n \in Nat, DOMAIN cs = 1 .. n
    PROVE  \E g : ExecutesTo(g, w, cs, n) /\ FoldLeft(Execute, w, cs) = g[1 .. n]
<1>. DEFINE g == CHOOSE g : ExecutesTo(g, w, cs, n)
<1>1. ExecutesTo(g, w, cs, n)
  BY ExecutionExists, Zenon
<1>2. FoldLeft(Execute, w, cs) = g[1 .. n]
  BY Zenon DEF FoldLeft, MapThenFoldSet, ExecutesTo
<1>. QED  BY <1>1, <1>2, Zenon

\* Executing a run of commands goes through the states t[0], t[1], ...
Runs(t, w, cs, n) ==
    /\ t[0] = w
    /\ \A i \in 0 .. n - 1 : t[i + 1] = Execute(t[i], cs[i + 1])

LEMMA ExecutionSteps ==
    ASSUME NEW w, NEW cs, NEW n \in Nat, DOMAIN cs = 1 .. n
    PROVE  \E t : Runs(t, w, cs, n) /\ FoldLeft(Execute, w, cs) = t[n]
<1>1. PICK g : ExecutesTo(g, w, cs, n) /\ FoldLeft(Execute, w, cs) = g[1 .. n]
  BY ExecutionIs, Zenon
<1>. DEFINE t == [i \in 0 .. n |-> g[1 .. i]]
<1>2. t[0] = w
  <2>1. 0 \in 0 .. n /\ 1 .. 0 = {} /\ {} \in SUBSET (1 .. n)
    OBVIOUS
  <2>2. g[{}] = w
    BY <1>1, <2>1, Zenon DEF ExecutesTo
  <2>. QED  BY <2>1, <2>2, Zenon
<1>3. ASSUME NEW i \in 0 .. n - 1
      PROVE  t[i + 1] = Execute(t[i], cs[i + 1])
  <2>. DEFINE s == 1 .. i + 1
  <2>1. /\ i \in 0 .. n /\ i + 1 \in 0 .. n
        /\ s \in SUBSET (1 .. n) /\ s # {} /\ s \ {i + 1} = 1 .. i
    <3>1. i \in 0 .. n /\ i + 1 \in 0 .. n
      OBVIOUS
    <3>2. s \in SUBSET (1 .. n)
      OBVIOUS
    <3>3. i + 1 \in s
      OBVIOUS
    <3>4. s \ {i + 1} = 1 .. i
      OBVIOUS
    <3>. QED  BY <3>1, <3>2, <3>3, <3>4
  <2>2. Max(s) = i + 1
    BY MaxOfInterval
  <2>3. g[s] = Execute(g[s \ {Max(s)}], cs[Max(s)])
    <3>. HIDE DEF s
    <3>. QED  BY <1>1, <2>1, Zenon DEF ExecutesTo
  <2>4. t[i + 1] = g[s] /\ t[i] = g[1 .. i]
    BY <2>1, Zenon
  <2>. HIDE DEF s, t
  <2>. QED  BY <2>1, <2>2, <2>3, <2>4, Zenon
<1>4. t[n] = g[1 .. n]
  <2>1. n \in 0 .. n
    OBVIOUS
  <2>. QED  BY <2>1, Zenon
<1>. HIDE DEF t
<1>5. Runs(t, w, cs, n)
  BY <1>2, <1>3, Zenon DEF Runs
<1>. QED  BY <1>1, <1>4, <1>5, Zenon

-----------------------------------------------------------------------------
\* What executing them makes of the strings.

Buffer(i, pieces) == [index |-> i, pieces |-> pieces]

Worlds == [strings : [Indexes -> Text \union {Garbled}], serverId : Nat, buffer : Buffers]

\* x is what has become of w when the commands behind a, up to n, are executed: the texts are
\* the last ones, and the buffer holds the pieces so far of the group that goes on.
Reached(q, a, n, w, x) ==
    /\ x \in Worlds /\ x.serverId = x.strings[CS_SYSTEMINFO].id
    /\ \A i \in Indexes : Gives(q, a, n, i, w.strings[i], x.strings[i])
    /\ \A s \in a + 1 .. n : \A i \in Indexes, text \in Text :
          GroupAt(q, s, i, text) /\ n < s + Chunks - 1 =>
              x.buffer = Buffer(i, [k \in 1 .. n - s + 1 |-> text])

LEMMA GivesNext ==
    ASSUME NEW q, NEW a \in Nat, NEW n \in Nat, a <= n, NEW i, NEW old, NEW new, Gives(q, a, n, i, old, new)
    PROVE  /\ Completes(q[n + 1], i) => Gives(q, a, n + 1, i, old, q[n + 1].text)
           /\ ~Completes(q[n + 1], i) => Gives(q, a, n + 1, i, old, new)
<1>1. ASSUME Completes(q[n + 1], i) PROVE Gives(q, a, n + 1, i, old, q[n + 1].text)
  <2>1. n + 1 \in a + 1 .. n + 1 /\ \A j \in (n + 1) + 1 .. n + 1 : FALSE
    OBVIOUS
  <2>. QED  BY <1>1, <2>1 DEF Gives, Latest
<1>2. ASSUME ~Completes(q[n + 1], i) PROVE Gives(q, a, n + 1, i, old, new)
  <2>1. CASE old = new /\ \A k \in a + 1 .. n : ~Completes(q[k], i)
    <3>1. \A k \in a + 1 .. n + 1 : k \in a + 1 .. n \/ k = n + 1
      OBVIOUS
    <3>. QED  BY <1>2, <2>1, <3>1 DEF Gives
  <2>2. CASE Latest(q, a, n, i, new)
    <3>1. PICK k \in a + 1 .. n :
              /\ Completes(q[k], i) /\ q[k].text = new
              /\ \A j \in k + 1 .. n : ~Completes(q[j], i)
      BY <2>2 DEF Latest
    <3>2. k \in a + 1 .. n + 1 /\ \A j \in k + 1 .. n + 1 : j \in k + 1 .. n \/ j = n + 1
      OBVIOUS
    <3>. QED  BY <1>2, <3>1, <3>2 DEF Gives, Latest
  <2>. QED  BY <2>1, <2>2 DEF Gives
<1>. QED  BY <1>1, <1>2

LEMMA ModifiedWorld ==
    ASSUME NEW x \in Worlds, x.serverId = x.strings[CS_SYSTEMINFO].id,
           NEW i \in Indexes, NEW text \in Text
    PROVE  /\ Modified(x, i, text) \in Worlds
           /\ Modified(x, i, text).serverId = Modified(x, i, text).strings[CS_SYSTEMINFO].id
           /\ Modified(x, i, text).strings = [x.strings EXCEPT ![i] = text]
           /\ Modified(x, i, text).buffer = x.buffer
<1>1. /\ Modified(x, i, text).strings = [x.strings EXCEPT ![i] = text]
      /\ Modified(x, i, text).serverId = IF i = CS_SYSTEMINFO THEN text.id ELSE x.serverId
      /\ Modified(x, i, text).buffer = x.buffer
  BY DEF Modified, Worlds
<1>2. Modified(x, i, text) = [strings |-> [x.strings EXCEPT ![i] = text],
                              serverId |-> IF i = CS_SYSTEMINFO THEN text.id ELSE x.serverId,
                              buffer |-> x.buffer]
  <2>. DEFINE e == Modified(x, i, text)
  <2>1. e = [x EXCEPT !.strings = [x.strings EXCEPT ![i] = text],
                      !.serverId = IF i = CS_SYSTEMINFO THEN text.id ELSE x.serverId]
    BY DEF Modified
  <2>2. x = [strings |-> x.strings, serverId |-> x.serverId, buffer |-> x.buffer]
    BY DEF Worlds
  <2>. DEFINE ss == [x.strings EXCEPT ![i] = text]
              id == IF i = CS_SYSTEMINFO THEN text.id ELSE x.serverId
  <2>. HIDE DEF ss, id, e
  <2>3. e = [x EXCEPT !.strings = ss, !.serverId = id]
    BY <2>1 DEF ss, id
  <2>4. e = [strings |-> ss, serverId |-> id, buffer |-> x.buffer]
    BY <2>2, <2>3
  <2>. QED  BY <2>4 DEF ss, id, e
<1>3. [x.strings EXCEPT ![i] = text] \in [Indexes -> Text \union {Garbled}]
  BY DEF Worlds
<1>4. text.id \in Nat /\ x.serverId \in Nat /\ x.buffer \in Buffers
  BY DEF Worlds, Text
<1>5. Modified(x, i, text) \in Worlds
  BY <1>2, <1>3, <1>4 DEF Worlds
<1>6. [x.strings EXCEPT ![i] = text][CS_SYSTEMINFO].id = IF i = CS_SYSTEMINFO THEN text.id ELSE x.serverId
  BY Constants DEF Worlds
<1>. QED  BY <1>1, <1>5, <1>6

LEMMA PieceAdded ==
    ASSUME NEW i, NEW p, NEW b, b = Buffer(i, p), NEW d, d.op # "bcs0",
           NEW after, after = Collected(b, d)
    PROVE  after = Buffer(i, Append(p, d.text))
<1>1. after = [b EXCEPT !.pieces = Append(@, d.text)]
  BY DEF Collected
<1>. QED  BY <1>1 DEF Buffer

LEMMA ExecuteOne ==
    ASSUME NEW q \in Seq(Command), Grouped(q), LongOnly(q),
           NEW a \in 0 .. Len(q), AtEnd(q, a), NEW n \in a .. Len(q) - 1,
           NEW w, NEW x, Reached(q, a, n, w, x), NEW y, y = Execute(x, q[n + 1])
    PROVE  Reached(q, a, n + 1, w, y)
<1>1. PICK l \in Nat : l = Len(q)
  OBVIOUS
<1>2. PICK c \in Nat : c = Chunks /\ c >= 2
  BY Constants
<1>3. a \in Nat /\ n \in Nat /\ a <= n /\ n + 1 \in 1 .. l
  BY <1>1
<1>. DEFINE d == q[n + 1]
<1>4. d \in Command /\ d.index \in Indexes /\ d.text \in Text
  <2>1. d \in Command
    BY <1>1, <1>3
  <2>. QED  BY <2>1 DEF Command
<1>5. x \in Worlds /\ x.serverId = x.strings[CS_SYSTEMINFO].id
  BY DEF Reached
<1>. HIDE DEF d
\* the buffer
<1>6. ASSUME NEW s \in a + 1 .. n + 1, NEW i \in Indexes, NEW text \in Text,
             GroupAt(q, s, i, text), n + 1 < s + c - 1
      PROVE  y.buffer = Buffer(i, [k \in 1 .. (n + 1) - s + 1 |-> text])
  <2>1. PICK k \in 1 .. c : k = (n + 1) - s + 1 /\ k < c /\ s + k - 1 = n + 1
    BY <1>2, <1>3, <1>6
  <2>2. d = Bcs(i, text, k)
    BY <1>2, <1>6, <2>1 DEF GroupAt, d
  <2>3. d.index = i /\ d.text = text /\ d.op # "cs" /\ d.op # "bcs2" /\ (d.op = "bcs0" <=> k = 1)
    BY <1>2, <2>1, <2>2, CommandTypes
  <2>4. y.buffer = Collected(x.buffer, d)
    BY <1>5, <2>3 DEF Execute, d, Worlds
  <2>5. CASE k = 1
    <3>1. y.buffer = Buffer(i, <<text>>)
      BY <2>3, <2>4, <2>5 DEF Collected, Buffer
    <3>2. <<text>> = [j \in 1 .. k |-> text]
      BY <2>5
    <3>. QED  BY <2>1, <3>1, <3>2
  <2>6. CASE k # 1
    <3>1. s \in a + 1 .. n /\ n < s + c - 1
      BY <1>3, <1>6, <2>1, <2>6
    <3>2. x.buffer = Buffer(i, [j \in 1 .. n - s + 1 |-> text])
      BY <1>2, <1>6, <3>1 DEF Reached
    <3>3. n - s + 1 = k - 1 /\ k - 1 \in Nat /\ (k - 1) + 1 = k
      BY <1>3, <2>1
    <3>4. Append([j \in 1 .. k - 1 |-> text], text) = [j \in 1 .. k |-> text]
      <4>. DEFINE p == [j \in 1 .. k - 1 |-> text]
      <4>1. p \in Seq(Text) /\ Len(p) = k - 1 /\ \A j \in 1 .. k - 1 : p[j] = text
        BY <3>3
      <4>2. /\ Append(p, text) \in Seq(Text) /\ Len(Append(p, text)) = k
            /\ \A j \in 1 .. k : Append(p, text)[j] = text
        <5>. HIDE DEF p
        <5>1. /\ Append(p, text) \in Seq(Text) /\ Len(Append(p, text)) = Len(p) + 1
              /\ \A j \in 1 .. Len(p) : Append(p, text)[j] = p[j]
              /\ Append(p, text)[Len(p) + 1] = text
          BY <4>1, AppendProperties
        <5>2. \A j \in 1 .. k : j \in 1 .. k - 1 \/ j = k
          OBVIOUS
        <5>. QED  BY <3>3, <4>1, <5>1, <5>2
      <4>3. [j \in 1 .. k |-> text] \in Seq(Text) /\ Len([j \in 1 .. k |-> text]) = k
        OBVIOUS
      <4>. HIDE DEF p
      <4>. QED  BY <4>2, <4>3 DEF p
    <3>7. y.buffer = Buffer(i, Append([j \in 1 .. k - 1 |-> text], text))
      <4>. DEFINE p == [j \in 1 .. k - 1 |-> text]
      <4>1. x.buffer = Buffer(i, p)
        BY <3>2, <3>3, Zenon
      <4>. HIDE DEF p
      <4>2. x.buffer = Buffer(i, p) /\ d.op # "bcs0" /\ d.text = text
        BY <2>3, <2>6, <4>1
      <4>4. y.buffer = Buffer(i, Append(p, text))
        BY <2>4, <4>2, PieceAdded
      <4>. QED  BY <4>4 DEF p
    <3>. QED  BY <2>1, <3>4, <3>7
  <2>. QED  BY <2>5, <2>6
\* the strings
<1>7. /\ y \in Worlds /\ y.serverId = y.strings[CS_SYSTEMINFO].id
      /\ y.strings = IF d.op \in {"cs", "bcs2"} THEN [x.strings EXCEPT ![d.index] = d.text] ELSE x.strings
  <2>1. CASE d.op = "cs"
    <3>1. y = Modified(x, d.index, d.text)
      BY <2>1 DEF Execute, d
    <3>. QED  BY <1>4, <1>5, <2>1, <3>1, ModifiedWorld
  <2>2. CASE d.op # "cs"
    <3>1. PICK s \in 1 .. l : s <= n + 1 /\ n + 1 < s + c /\ GroupAt(q, s, d.index, d.text)
      BY <1>1, <1>2, <1>3, <2>2 DEF Grouped, d
    <3>2. PICK k \in 1 .. c : k = (n + 1) - s + 1 /\ s + k - 1 = n + 1
      BY <1>2, <1>3, <3>1
    <3>3. d = Bcs(d.index, d.text, k)
      BY <1>2, <3>1, <3>2 DEF GroupAt, d
    <3>4. (d.op = "bcs0" <=> k = 1) /\ (d.op = "bcs2" <=> k = c)
      BY <1>2, <1>4, <3>3, CommandTypes
    <3>. DEFINE buffer == Collected(x.buffer, d)
                collected == [x EXCEPT !.buffer = buffer]
    <3>5. buffer \in Buffers
      <4>1. x.buffer \in Buffers
        BY <1>5 DEF Worlds
      <4>2. <<d.text>> \in Seq(Text) /\ Append(x.buffer.pieces, d.text) \in Seq(Text)
        BY <1>4, <4>1 DEF Buffers
      <4>. QED  BY <1>4, <4>1, <4>2 DEF Collected, Buffers
    <3>6. /\ collected \in Worlds /\ collected.serverId = collected.strings[CS_SYSTEMINFO].id
          /\ collected.strings = x.strings /\ collected.buffer = buffer
      <4>. HIDE DEF buffer
      <4>. QED  BY <1>5, <3>5 DEF Worlds
    <3>7. CASE d.op # "bcs2"
      <4>1. y = collected
        BY <2>2, <3>7 DEF Execute, d
      <4>. QED  BY <2>2, <3>6, <3>7, <4>1
    <3>8. CASE d.op = "bcs2"
      <4>1. y = Modified(collected, buffer.index, Joined(buffer.pieces))
        BY <3>8 DEF Execute, d
      <4>2. k = c /\ s <= n /\ n < s + c - 1 /\ n - s + 1 = c - 1
        BY <1>2, <1>3, <3>2, <3>4, <3>8
      <4>3. s > a
        <5>. SUFFICES ASSUME s <= a PROVE FALSE
          BY <1>3
        <5>1. PICK h \in 1 .. c : h = a - s + 1 /\ h < c /\ s + h - 1 = a /\ a # 0
          BY <1>2, <1>3, <4>2
        <5>2. q[a] = Bcs(d.index, d.text, h)
          BY <1>2, <3>1, <5>1 DEF GroupAt
        <5>3. q[a].op # "cs" /\ q[a].op # "bcs2"
          BY <1>2, <1>4, <5>1, <5>2, CommandTypes
        <5>. QED  BY <5>1, <5>3 DEF AtEnd
      <4>4. x.buffer = Buffer(d.index, [j \in 1 .. n - s + 1 |-> d.text])
        <5>1. s \in a + 1 .. n
          BY <1>3, <4>2, <4>3
        <5>. QED  BY <1>2, <1>4, <3>1, <4>2, <5>1 DEF Reached
      <4>5. Append([j \in 1 .. c - 1 |-> d.text], d.text) = [j \in 1 .. c |-> d.text]
        <5>. DEFINE p == [j \in 1 .. c - 1 |-> d.text]
        <5>1. p \in Seq(Text) /\ Len(p) = c - 1 /\ \A j \in 1 .. c - 1 : p[j] = d.text
          BY <1>2, <1>4
        <5>2. /\ Append(p, d.text) \in Seq(Text) /\ Len(Append(p, d.text)) = c
              /\ \A j \in 1 .. c : Append(p, d.text)[j] = d.text
          <6>. HIDE DEF p
          <6>1. /\ Append(p, d.text) \in Seq(Text) /\ Len(Append(p, d.text)) = Len(p) + 1
                /\ \A j \in 1 .. Len(p) : Append(p, d.text)[j] = p[j]
                /\ Append(p, d.text)[Len(p) + 1] = d.text
            BY <1>4, <5>1, AppendProperties
          <6>2. \A j \in 1 .. c : j \in 1 .. c - 1 \/ j = c
            OBVIOUS
          <6>3. (c - 1) + 1 = c
            OBVIOUS
          <6>. QED  BY <5>1, <6>1, <6>2, <6>3
        <5>3. [j \in 1 .. c |-> d.text] \in Seq(Text) /\ Len([j \in 1 .. c |-> d.text]) = c
          BY <1>4
        <5>. HIDE DEF p
        <5>. QED  BY <5>2, <5>3 DEF p
      <4>7. buffer = Buffer(d.index, [j \in 1 .. c |-> d.text])
        <5>. DEFINE p == [j \in 1 .. c - 1 |-> d.text]
        <5>1. x.buffer = Buffer(d.index, p)
          BY <4>2, <4>4, Zenon
        <5>2. Append(p, d.text) = [j \in 1 .. c |-> d.text]
          BY <4>5, Zenon
        <5>. HIDE DEF p, buffer
        <5>3. x.buffer = Buffer(d.index, p) /\ d.op # "bcs0"
          BY <1>2, <3>4, <4>2, <5>1
        <5>4. buffer = Collected(x.buffer, d)
          BY DEF buffer
        <5>5. buffer = Buffer(d.index, Append(p, d.text))
          BY <5>3, <5>4, PieceAdded
        <5>. QED  BY <5>2, <5>5, Zenon
      <4>8. Joined([j \in 1 .. c |-> d.text]) = d.text
        BY <1>2 DEF Joined
      <4>9. y = Modified(collected, d.index, d.text)
        <5>1. buffer.index = d.index /\ buffer.pieces = [j \in 1 .. c |-> d.text]
          BY <4>7 DEF Buffer
        <5>. HIDE DEF buffer, collected
        <5>. QED  BY <4>1, <4>8, <5>1
      <4>. HIDE DEF collected, buffer
      <4>. QED  BY <1>4, <3>6, <3>8, <4>9, ModifiedWorld
    <3>. QED  BY <3>7, <3>8
  <2>. QED  BY <2>1, <2>2
<1>8. ASSUME NEW i \in Indexes PROVE Gives(q, a, n + 1, i, w.strings[i], y.strings[i])
  <2>1. Gives(q, a, n, i, w.strings[i], x.strings[i])
    BY DEF Reached
  <2>2. CASE Completes(d, i)
    <3>1. y.strings[i] = d.text
      BY <1>5, <1>7, <2>2 DEF Completes, Worlds
    <3>. QED  BY <1>3, <2>1, <2>2, <3>1, GivesNext DEF d
  <2>3. CASE ~Completes(d, i)
    <3>1. y.strings[i] = x.strings[i]
      BY <1>4, <1>5, <1>7, <2>3 DEF Completes, Worlds
    <3>. QED  BY <1>3, <2>1, <2>3, <3>1, GivesNext DEF d
  <2>. QED  BY <2>2, <2>3
<1>. QED  BY <1>2, <1>6, <1>7, <1>8 DEF Reached

\* t goes through the commands behind a.
LEMMA Pass ==
    ASSUME NEW q \in Seq(Command), Grouped(q), LongOnly(q),
           NEW a \in 0 .. Len(q), AtEnd(q, a), NEW b \in a .. Len(q),
           NEW w \in Worlds, w.serverId = w.strings[CS_SYSTEMINFO].id,
           NEW t, t[0] = w, \A j \in 0 .. b - a - 1 : t[j + 1] = Execute(t[j], q[a + j + 1])
    PROVE  Reached(q, a, b, w, t[b - a])
<1>1. PICK l \in Nat : l = Len(q)
  OBVIOUS
<1>2. a \in Nat /\ b \in Nat /\ a <= b /\ b <= l
  BY <1>1
<1>3. Reached(q, a, a, w, t[0])
  <2>1. \A i \in Indexes : Gives(q, a, a, i, w.strings[i], w.strings[i])
    BY <1>2 DEF Gives
  <2>2. \A s \in a + 1 .. a : FALSE
    BY <1>2
  <2>. QED  BY <2>1, <2>2 DEF Reached
<1>4. ASSUME NEW j \in 0 .. b - a - 1, Reached(q, a, a + j, w, t[j])
      PROVE  Reached(q, a, a + (j + 1), w, t[j + 1])
  <2>1. a + j \in a .. Len(q) - 1 /\ a + (j + 1) = (a + j) + 1 /\ a + j + 1 = (a + j) + 1
    BY <1>1, <1>2
  <2>2. t[j + 1] = Execute(t[j], q[(a + j) + 1])
    BY <2>1
  <2>3. Reached(q, a, (a + j) + 1, w, t[j + 1])
    BY <1>4, <2>1, <2>2, ExecuteOne
  <2>. QED  BY <2>1, <2>3
<1>. DEFINE Bad == {j \in 0 .. b - a : ~Reached(q, a, a + j, w, t[j])}
<1>5. Bad = {}
  <2>. SUFFICES ASSUME Bad # {} PROVE FALSE
    OBVIOUS
  <2>1. Bad \in SUBSET Nat
    OBVIOUS
  <2>2. PICK m \in Bad : \A y \in Bad : m <= y
    <3>. HIDE DEF Bad
    <3>. QED  BY <2>1, LeastElement
  <2>3. m \in 0 .. b - a /\ ~Reached(q, a, a + m, w, t[m])
    BY <2>2
  <2>4. m # 0
    <3>1. a + 0 = a
      BY <1>2
    <3>. QED  BY <1>3, <2>3, <3>1
  <2>5. m - 1 \in 0 .. b - a - 1 /\ ~(m <= m - 1) /\ (m - 1) + 1 = m /\ m - 1 \in 0 .. b - a
    BY <1>2, <2>3, <2>4
  <2>6. Reached(q, a, a + (m - 1), w, t[m - 1])
    BY <2>2, <2>5
  <2>7. Reached(q, a, a + ((m - 1) + 1), w, t[(m - 1) + 1])
    BY <1>4, <2>5, <2>6, Zenon
  <2>. QED  BY <2>3, <2>5, <2>7, Zenon
<1>6. b - a \in 0 .. b - a /\ a + (b - a) = b
  BY <1>2
<1>7. Reached(q, a, a + (b - a), w, t[b - a])
  BY <1>5, <1>6, Zenon
<1>. QED  BY <1>6, <1>7, Zenon

\* The second pass gives no other texts than the first.
LEMMA Executed ==
    ASSUME NEW q \in Seq(Command), Grouped(q), LongOnly(q),
           NEW a \in 0 .. Len(q), AtEnd(q, a), NEW b \in a .. Len(q),
           NEW w \in Worlds, w.serverId = w.strings[CS_SYSTEMINFO].id,
           NEW after, after = FoldLeft(Execute, w, SubSeq(q, a + 1, b) \o SubSeq(q, a + 1, b))
    PROVE  /\ after \in Worlds /\ after.serverId = after.strings[CS_SYSTEMINFO].id
           /\ \A i \in Indexes : Gives(q, a, b, i, w.strings[i], after.strings[i])
<1>1. PICK l \in Nat : l = Len(q)
  OBVIOUS
<1>2. PICK n \in Nat : n = b - a /\ a \in Nat /\ b \in Nat /\ a <= b /\ b <= l
  BY <1>1
<1>. DEFINE new == SubSeq(q, a + 1, b)
            cs == new \o new
<1>3. new \in Seq(Command) /\ Len(new) = n /\ \A k \in 1 .. n : new[k] = q[a + k]
  <2>1. \A k \in 1 .. n : (a + 1) + k - 1 = a + k
    BY <1>2
  <2>2. \A k \in a + 1 .. b : q[k] \in Command
    BY <1>1, <1>2
  <2>3. /\ new \in Seq(Command)
        /\ Len(new) = IF a + 1 <= b THEN b - (a + 1) + 1 ELSE 0
        /\ \A k \in 1 .. b - (a + 1) + 1 : new[k] = q[(a + 1) + k - 1]
    BY <1>2, <2>2, SubSeqProperties
  <2>4. b - (a + 1) + 1 = n /\ (IF a + 1 <= b THEN b - (a + 1) + 1 ELSE 0) = n
    BY <1>2
  <2>. HIDE DEF new
  <2>. QED  BY <2>1, <2>3, <2>4
<1>4. /\ DOMAIN cs = 1 .. n + n
      /\ \A k \in 1 .. n : cs[k] = q[a + k] /\ cs[n + k] = q[a + k]
  <2>. HIDE DEF new
  <2>1. /\ cs \in Seq(Command) /\ Len(cs) = n + n
        /\ \A k \in 1 .. n + n : cs[k] = IF k <= n THEN new[k] ELSE new[k - n]
    BY <1>3, ConcatProperties
  <2>2. \A k \in 1 .. n : k \in 1 .. n + n /\ k <= n /\ n + k \in 1 .. n + n /\ ~(n + k <= n) /\ (n + k) - n = k
    OBVIOUS
  <2>3. DOMAIN cs = 1 .. n + n
    <3>. HIDE DEF cs
    <3>. QED  BY <2>1
  <2>. HIDE DEF cs
  <2>. QED  BY <1>3, <2>1, <2>2, <2>3
<1>5. after = FoldLeft(Execute, w, cs)
  OBVIOUS
<1>. HIDE DEF cs, new
<1>6. PICK t : Runs(t, w, cs, n + n) /\ after = t[n + n]
  <2>1. n + n \in Nat
    OBVIOUS
  <2>a. PICK m \in Nat : m = n + n
    BY <2>1
  <2>b. DOMAIN cs = 1 .. m
    BY <1>4, <2>a
  <2>c. \E t : Runs(t, w, cs, m) /\ FoldLeft(Execute, w, cs) = t[m]
    BY <2>b, ExecutionSteps, Zenon
  <2>2. PICK t : Runs(t, w, cs, n + n) /\ FoldLeft(Execute, w, cs) = t[n + n]
    BY <2>a, <2>c, Zenon
  <2>. QED  BY <1>5, <2>2, Zenon
<1>7. Reached(q, a, b, w, t[n])
  <2>1. t[0] = w
    BY <1>6 DEF Runs
  <2>2. ASSUME NEW j \in 0 .. b - a - 1 PROVE t[j + 1] = Execute(t[j], q[a + j + 1])
    <3>1. j \in 0 .. (n + n) - 1 /\ j + 1 \in 1 .. n /\ a + (j + 1) = a + j + 1
      BY <1>2
    <3>2. t[j + 1] = Execute(t[j], cs[j + 1])
      BY <1>6, <3>1, Zenon DEF Runs
    <3>. QED  BY <1>4, <3>1, <3>2
  <2>3. Reached(q, a, b, w, t[b - a])
    BY <2>1, <2>2, Pass
  <2>. QED  BY <1>2, <2>3
<1>8. Reached(q, a, b, t[n], t[n + n])
  <2>. DEFINE u == [j \in 0 .. n |-> t[n + j]]
  <2>0. t[n] \in Worlds /\ t[n].serverId = t[n].strings[CS_SYSTEMINFO].id
    BY <1>7 DEF Reached
  <2>1. u[0] = t[n] /\ u[n] = t[n + n]
    <3>1. 0 \in 0 .. n /\ n \in 0 .. n /\ n + 0 = n
      OBVIOUS
    <3>. QED  BY <3>1
  <2>2. ASSUME NEW j \in 0 .. b - a - 1 PROVE u[j + 1] = Execute(u[j], q[a + j + 1])
    <3>1. /\ n + j \in 0 .. (n + n) - 1 /\ j + 1 \in 1 .. n /\ j \in 0 .. n /\ j + 1 \in 0 .. n
          /\ a + (j + 1) = a + j + 1 /\ (n + j) + 1 = n + (j + 1)
      BY <1>2
    <3>2. t[(n + j) + 1] = Execute(t[n + j], cs[(n + j) + 1])
      BY <1>6, <3>1, Zenon DEF Runs
    <3>3. cs[n + (j + 1)] = q[a + (j + 1)]
      BY <1>4, <3>1
    <3>4. u[j] = t[n + j] /\ u[j + 1] = t[n + (j + 1)]
      BY <3>1, Zenon
    <3>. HIDE DEF u
    <3>. QED  BY <3>1, <3>2, <3>3, <3>4
  <2>. HIDE DEF u
  <2>3. Reached(q, a, b, t[n], u[b - a])
    BY <2>0, <2>1, <2>2, Pass
  <2>. QED  BY <1>2, <2>1, <2>3
<1>9. ASSUME NEW i \in Indexes PROVE Gives(q, a, b, i, w.strings[i], after.strings[i])
  <2>1. Gives(q, a, b, i, w.strings[i], t[n].strings[i])
    BY <1>7 DEF Reached
  <2>2. Gives(q, a, b, i, t[n].strings[i], t[n + n].strings[i])
    BY <1>8 DEF Reached
  <2>. QED  BY <1>6, <2>1, <2>2 DEF Gives
<1>. QED  BY <1>6, <1>8, <1>9 DEF Reached

-----------------------------------------------------------------------------
\* The channels.

\* The same message, but perhaps for when it was sent.
SameMessage(m, n) ==
    /\ m.kind = n.kind
    /\ Full(n) => m.upto = n.upto /\ m.active = n.active /\ m.strings = n.strings /\ m.map = n.map

SamePacket(m, n) == m.serverId = n.serverId /\ m.map = n.map

LEMMA ServerMessages ==
    ASSUME NEW m \in ServerMessage
    PROVE  /\ [m EXCEPT !.later = FALSE] \in ServerMessage
           /\ SameMessage([m EXCEPT !.later = FALSE], m) /\ SameMessage(m, m)
           /\ m.later \in BOOLEAN
           /\ Full(m) => /\ m.kind \in {"snapshot", "gamestate"} /\ m.upto \in Nat /\ m.map \in Nat
                         /\ m.strings \in [Indexes -> Text] /\ m.active \in BOOLEAN
<1>1. CASE m \in [kind : {"nop"}, later : BOOLEAN]
  BY <1>1 DEF ServerMessage, SameMessage, Full
<1>2. CASE m \in [kind : {"snapshot", "gamestate"}, upto : Nat, active : BOOLEAN,
                  strings : [Indexes -> Text], map : Nat, later : BOOLEAN]
  BY <1>2 DEF ServerMessage, SameMessage, Full
<1>. QED  BY <1>1, <1>2 DEF ServerMessage

LEMMA NotLaterElements ==
    /\ \A c \in Seq(ServerMessage) :
          /\ NotLater(c) \in Seq(ServerMessage) /\ Len(NotLater(c)) = Len(c)
          /\ \A k \in 1 .. Len(c) : SameMessage(NotLater(c)[k], c[k])
    /\ \A c \in Seq(ClientPacket) :
          /\ NotLater(c) \in Seq(ClientPacket) /\ Len(NotLater(c)) = Len(c)
          /\ \A k \in 1 .. Len(c) : SamePacket(NotLater(c)[k], c[k])
<1>1. ASSUME NEW c \in Seq(ServerMessage)
      PROVE  /\ NotLater(c) \in Seq(ServerMessage) /\ Len(NotLater(c)) = Len(c)
             /\ \A k \in 1 .. Len(c) : SameMessage(NotLater(c)[k], c[k])
  <2>1. /\ Len(c) \in Nat /\ DOMAIN c = 1 .. Len(c)
        /\ \A k \in 1 .. Len(c) : c[k] \in ServerMessage
    OBVIOUS
  <2>2. NotLater(c) = [k \in 1 .. Len(c) |-> [c[k] EXCEPT !.later = FALSE]]
    BY <2>1 DEF NotLater
  <2>3. /\ NotLater(c) \in [1 .. Len(c) -> ServerMessage]
        /\ \A k \in 1 .. Len(c) : SameMessage(NotLater(c)[k], c[k])
    <3>1. ASSUME NEW k \in 1 .. Len(c)
          PROVE  NotLater(c)[k] \in ServerMessage /\ SameMessage(NotLater(c)[k], c[k])
      <4>1. PICK m \in ServerMessage : m = c[k]
        BY <2>1
      <4>2. NotLater(c)[k] = [m EXCEPT !.later = FALSE]
        BY <2>2, <4>1
      <4>3. [m EXCEPT !.later = FALSE] \in ServerMessage /\ SameMessage([m EXCEPT !.later = FALSE], m)
        BY ServerMessages
      <4>. QED  BY <4>1, <4>2, <4>3, Zenon
    <3>. QED  BY <2>2, <3>1
  <2>4. NotLater(c) \in Seq(ServerMessage) /\ Len(NotLater(c)) = Len(c)
    BY <2>1, <2>3
  <2>. QED  BY <2>3, <2>4
<1>2. ASSUME NEW c \in Seq(ClientPacket)
      PROVE  /\ NotLater(c) \in Seq(ClientPacket) /\ Len(NotLater(c)) = Len(c)
             /\ \A k \in 1 .. Len(c) : SamePacket(NotLater(c)[k], c[k])
  <2>1. /\ Len(c) \in Nat /\ DOMAIN c = 1 .. Len(c)
        /\ \A k \in 1 .. Len(c) : c[k] \in ClientPacket
    OBVIOUS
  <2>2. ASSUME NEW m \in ClientPacket
        PROVE  [m EXCEPT !.later = FALSE] \in ClientPacket
               /\ SamePacket([m EXCEPT !.later = FALSE], m)
    BY DEF ClientPacket, SamePacket
  <2>3. NotLater(c) = [k \in 1 .. Len(c) |-> [c[k] EXCEPT !.later = FALSE]]
    BY <2>1 DEF NotLater
  <2>4. /\ NotLater(c) \in [1 .. Len(c) -> ClientPacket]
        /\ \A k \in 1 .. Len(c) : SamePacket(NotLater(c)[k], c[k])
    BY <2>1, <2>2, <2>3
  <2>5. NotLater(c) \in Seq(ClientPacket) /\ Len(NotLater(c)) = Len(c)
    BY <2>1, <2>4
  <2>. QED  BY <2>4, <2>5
<1>. QED  BY <1>1, <1>2

\* A message goes behind those in flight, and perhaps the oldest is lost.
MessageAdded(after, c, m) ==
    \A k \in 1 .. Len(after) : after[k] = m \/ \E j \in 1 .. Len(c) : after[k] = c[j]

LEMMA PacketSent ==
    ASSUME NEW c \in Seq(ClientPacket), NEW m \in ClientPacket, NEW after, after = Send(c, m)
    PROVE  after \in Seq(ClientPacket) /\ MessageAdded(after, c, m)
<1>1. after = IF Len(c) < MaxInFlight THEN Append(c, m) ELSE Append(Tail(c), m)
  BY DEF Send
<1>2. MaxInFlight \in Nat \ {0}
  BY Constants
<1>3. PICK l \in Nat : l = Len(c)
  OBVIOUS
<1>4. /\ after \in Seq(ClientPacket)
      /\ \E d \in {0, 1} :
            /\ Len(after) = Len(c) - d + 1
            /\ \A k \in 1 .. Len(c) - d : after[k] = c[k + d]
            /\ after[Len(c) - d + 1] = m
  BY <1>1, <1>2, BoundedAppend
<1>5. PICK d \in {0, 1} :
            /\ Len(after) = l - d + 1
            /\ \A k \in 1 .. l - d : after[k] = c[k + d]
            /\ after[l - d + 1] = m
  BY <1>3, <1>4, Zenon
<1>6. ASSUME NEW k \in 1 .. Len(after) PROVE after[k] = m \/ \E j \in 1 .. Len(c) : after[k] = c[j]
  <2>1. k = l - d + 1 \/ (k \in 1 .. l - d /\ k + d \in 1 .. l)
    BY <1>5
  <2>. QED  BY <1>3, <1>5, <2>1
<1>. QED  BY <1>4, <1>6 DEF MessageAdded

Sent(after, c, m) ==
    \E d \in {0, 1} :
        /\ Len(after) = Len(c) - d + 1
        /\ \A k \in 1 .. Len(c) - d : SameMessage(after[k], c[k + d])
        /\ after[Len(c) - d + 1] = m

LEMMA MessageSent ==
    ASSUME NEW c \in Seq(ServerMessage), NEW c1, c1 = c \/ c1 = NotLater(c),
           NEW m \in ServerMessage, NEW after, after = Send(c1, m)
    PROVE  after \in Seq(ServerMessage) /\ Sent(after, c, m)
<1>1. PICK l \in Nat : l = Len(c)
  OBVIOUS
<1>2. /\ c1 \in Seq(ServerMessage) /\ Len(c1) = l
      /\ \A k \in 1 .. l : SameMessage(c1[k], c[k])
  <2>1. CASE c1 = c
    <3>1. \A k \in 1 .. l : c[k] \in ServerMessage
      BY <1>1
    <3>. QED  BY <1>1, <2>1, <3>1, ServerMessages
  <2>2. CASE c1 = NotLater(c)
    BY <1>1, <2>2, NotLaterElements
  <2>. QED  BY <2>1, <2>2
<1>3. /\ after \in Seq(ServerMessage)
      /\ \E d \in {0, 1} :
            /\ Len(after) = Len(c1) - d + 1
            /\ \A k \in 1 .. Len(c1) - d : after[k] = c1[k + d]
            /\ after[Len(c1) - d + 1] = m
  <2>1. after = IF Len(c1) < MaxInFlight THEN Append(c1, m) ELSE Append(Tail(c1), m)
    BY DEF Send
  <2>2. MaxInFlight \in Nat \ {0}
    BY Constants
  <2>. QED  BY <1>2, <2>1, <2>2, BoundedAppend
<1>4. PICK d \in {0, 1} :
          /\ Len(after) = l - d + 1
          /\ \A k \in 1 .. l - d : after[k] = c1[k + d]
          /\ after[l - d + 1] = m
  BY <1>2, <1>3, Zenon
<1>5. ASSUME NEW k \in 1 .. l - d PROVE SameMessage(after[k], c[k + d])
  <2>1. k + d \in 1 .. l
    OBVIOUS
  <2>. QED  BY <1>2, <1>4, <2>1
<1>. QED  BY <1>1, <1>3, <1>4, <1>5 DEF Sent

-----------------------------------------------------------------------------
\* The server issues commands.

LEMMA QueueStep ==
    ASSUME Consistent, NEW U, Continues(commands, commands', reliableSent, configstrings', U),
           UNCHANGED <<reliableSent, snap, cgSequence, toClient>>
    PROVE  /\ commands' \in Seq(Command) /\ reliableSent' \in 0 .. Len(commands')
           /\ WellFormed(commands', reliableSent')
           /\ AtEnd(commands', snap'.num) /\ AtEnd(commands', cgSequence')
           /\ \A k \in 1 .. Len(toClient') :
                 Full(toClient'[k]) => AtEnd(commands', toClient'[k].upto)
<1>1. PICK l \in Nat, r \in Nat : l = Len(commands) /\ r = reliableSent /\ r <= l
  BY DEF Consistent, ServerTypes
<1>2. PICK q2 : q2 = commands'
  OBVIOUS
<1>3. /\ q2 \in Seq(Command) /\ Len(q2) >= l /\ WellFormed(q2, r)
      /\ \A n \in 1 .. l : q2[n].op = commands[n].op
  BY <1>1, <1>2 DEF Continues
<1>4. ASSUME NEW n \in 0 .. r, AtEnd(commands, n) PROVE AtEnd(q2, n)
  <2>1. n = 0 \/ n \in 1 .. l
    BY <1>1
  <2>. QED  BY <1>3, <1>4, <2>1 DEF AtEnd
<1>5. snap.num \in 0 .. r /\ cgSequence \in 0 .. r
  BY <1>1 DEF Consistent, ClientTypes
<1>6. ASSUME NEW k \in 1 .. Len(toClient), Full(toClient[k]) PROVE AtEnd(q2, toClient[k].upto)
  <2>1. toClient[k].upto \in Nat /\ toClient[k].upto <= r
    <3>1. toClient[k] \in ServerMessage
      BY DEF Consistent, ChannelTypes
    <3>. QED  BY <1>1, <1>6, <3>1, ServerMessages DEF Consistent, InOrder
  <2>. QED  BY <1>4, <1>6, <2>1 DEF Consistent, CommandsInv
<1>7. AtEnd(q2, snap.num) /\ AtEnd(q2, cgSequence)
  BY <1>4, <1>5 DEF Consistent, CommandsInv
<1>8. r \in 0 .. Len(q2)
  BY <1>1, <1>3
<1>. QED  BY <1>1, <1>2, <1>3, <1>6, <1>7, <1>8

LEMMA QueueIds ==
    ASSUME Consistent, NEW U, Continues(commands, commands', reliableSent, configstrings', U),
           NEW E \in Nat, NEW C \in Nat, NEW D \in Nat, MapServer(E, C, D),
           serverId' \in Nat, serverId <= serverId', configstrings'[CS_SYSTEMINFO].id \in E .. serverId'
    PROVE  IdsOfMaps(commands, E, C, D)'
<1>0. PICK e \in Nat, e2 \in Nat : e = serverId /\ e2 = serverId' /\ e <= e2
  BY DEF Consistent, ServerTypes, SettingTypes
<1>1. PICK l \in Nat, r \in Nat : l = Len(commands) /\ r = reliableSent /\ r <= l
  BY DEF Consistent, ServerTypes
<1>2. PICK q2 : q2 = commands'
  OBVIOUS
<1>a. PICK id \in E .. e2 : id = configstrings'[CS_SYSTEMINFO].id
  BY <1>0
<1>3. C <= r /\ D <= l
  BY <1>1 DEF MapServer
<1>4. /\ q2 \in Seq(Command)
      /\ \A n \in 1 .. Len(q2) : \/ n <= l /\ q2[n] = commands[n]
                                 \/ n > r /\ q2[n].text = configstrings'[q2[n].index]
  BY <1>1, <1>2 DEF Continues
<1>5. ASSUME NEW n \in 1 .. Len(q2), q2[n].index = CS_SYSTEMINFO
      PROVE  /\ q2[n].text.id <= e2
             /\ n <= C => q2[n].text.id < E
             /\ n > D => q2[n].text.id >= E
  <2>1. CASE n <= l /\ q2[n] = commands[n]
    <3>1. n \in 1 .. l
      BY <2>1
    <3>2. commands[n] \in Command
      BY <1>1, <3>1 DEF Consistent, ServerTypes
    <3>3. PICK x \in Nat : x = commands[n].text.id
      BY <3>2 DEF Command, Text
    <3>4. x <= e /\ (n <= C => x < E) /\ (n > D => x >= E)
      BY <1>0, <1>1, <1>5, <2>1, <3>1, <3>3 DEF MapServer, IdsOfMaps
    <3>5. x <= e2
      BY <1>0, <3>4
    <3>. QED  BY <2>1, <3>3, <3>4, <3>5
  <2>2. CASE n > r /\ q2[n].text = configstrings'[q2[n].index]
    <3>1. q2[n].text.id = id /\ ~(n <= C)
      BY <1>1, <1>a, <1>3, <1>5, <2>2
    <3>. QED  BY <3>1
  <2>. QED  BY <1>4, <2>1, <2>2
<1>. QED  BY <1>0, <1>2, <1>5 DEF IdsOfMaps

\* The rest does not mind greater numbers at the server.
LEMMA ClientStays ==
    ASSUME Consistent, UNCHANGED <<clientVars, clMap>>,
           serverId' \in Nat, serverId <= serverId', reliableSent' \in Nat, reliableSent <= reliableSent',
           map' \in Nat, map <= map'
    PROVE  ClientTypes'
<1>1. ClientTypes /\ serverId \in Nat /\ reliableSent \in Nat /\ map \in Nat
  BY DEF Consistent, ServerTypes, SettingTypes
<1>2. /\ clServerId \in 0 .. serverId' /\ clMap \in 0 .. map' /\ snap.num \in 0 .. reliableSent'
  BY <1>1 DEF ClientTypes
<1>. QED  BY <1>1, <1>2 DEF ClientTypes, clientVars

LEMMA ServerStep ==
    ASSUME Consistent, NEW U, Continues(commands, commands', reliableSent, configstrings', U),
           UNCHANGED <<reliableSent, clientVars, toClient, map, clMap>>,
           SettingTypes', serverId <= serverId', restartedServerId <= restartedServerId',
           \/ configstrings'[CS_SYSTEMINFO] = configstrings[CS_SYSTEMINFO]
           \/ configstrings'[CS_SYSTEMINFO].id = serverId',
           toServer' \in Seq(ClientPacket), \A E \in Nat : MapToServer(E) => MapToServer(E)',
           Quiet', state' \in {"FREE", "CONNECTED"} => state \in {"FREE", "CONNECTED"},
           MovesOfThisMap'
    PROVE  Consistent'
<1>1. /\ serverId \in Nat /\ serverId' \in Nat /\ reliableSent \in Nat /\ map \in Nat
      /\ restartedServerId \in 1 .. serverId /\ restartedServerId' \in 1 .. serverId'
  BY DEF Consistent, ServerTypes, SettingTypes
<1>2. ServerTypes'
  BY QueueStep DEF ServerTypes, clientVars
<1>3. ClientTypes'
  BY <1>1, ClientStays
<1>4. ChannelTypes'
  BY DEF Consistent, ChannelTypes
<1>5. InOrder'
  BY DEF Consistent, InOrder, clientVars
<1>6. CommandsInv'
  <2>. UNCHANGED <<reliableSent, snap, cgSequence, toClient>>
    BY DEF clientVars
  <2>. QED  BY QueueStep DEF CommandsInv
<1>7. MapsInv'
  <2>1. PICK E \in Nat, C \in Nat, D \in Nat : MapInv(E, C, D)
    BY DEF Consistent, MapsInv
  <2>2. configstrings'[CS_SYSTEMINFO].id \in E .. serverId'
    <3>1. configstrings[CS_SYSTEMINFO].id \in E .. serverId /\ E \in 1 .. restartedServerId
      BY <2>1 DEF MapInv, MapServer
    <3>. QED  BY <1>1, <3>1
  <2>3. IdsOfMaps(commands, E, C, D)'
    BY <1>1, <2>1, <2>2, QueueIds DEF MapInv
  <2>4. MapServer(E, C, D)'
    <3>1. E \in 1 .. restartedServerId /\ C \in 0 .. reliableSent /\ D \in C .. Len(commands)
      BY <2>1 DEF MapInv, MapServer
    <3>2. E \in 1 .. restartedServerId'
      BY <1>1, <3>1
    <3>3. D \in C .. Len(commands')
      <4>1. PICK l \in Nat, l2 \in Nat : l = Len(commands) /\ l2 = Len(commands')
        BY <1>2 DEF ServerTypes, Consistent
      <4>2. l2 >= l
        BY <4>1 DEF Continues
      <4>. QED  BY <3>1, <4>1, <4>2
    <3>. QED  BY <2>2, <2>3, <3>1, <3>2, <3>3 DEF MapServer
  <2>5. MapClient(E, C, D)'
    BY <2>1 DEF MapInv, MapClient, clientVars
  <2>6. MapToClient(E, C, D)'
    <3>. SUFFICES ASSUME NEW k \in 1 .. Len(toClient), toClient[k].kind = "gamestate"
                  PROVE  toClient[k].strings[CS_SYSTEMINFO].id <= serverId'
      BY <2>1 DEF MapInv, MapToClient, clientVars
    <3>1. toClient[k].strings[CS_SYSTEMINFO].id <= serverId
      BY <2>1 DEF MapInv, MapToClient, Full
    <3>2. toClient[k].strings[CS_SYSTEMINFO].id \in Nat
      <4>1. toClient[k] \in ServerMessage
        BY DEF Consistent, ChannelTypes
      <4>2. toClient[k].strings \in [Indexes -> Text]
        BY <4>1, ServerMessages DEF Full
      <4>. QED  BY <4>2, Constants DEF Text
    <3>. QED  BY <1>1, <3>1, <3>2, SMTT(30)
  <2>. QED  BY <2>1, <2>4, <2>5, <2>6 DEF MapInv, MapsInv
<1>8. MapGiven'
  BY DEF Consistent, MapGiven
<1>. QED  BY <1>2, <1>3, <1>4, <1>5, <1>6, <1>7, <1>8 DEF Consistent

LEMMA Unchanged ==
    ASSUME Consistent, UNCHANGED <<commands, configstrings>>
    PROVE  Continues(commands, commands', reliableSent, configstrings', {})
BY ContinuesSame DEF Consistent, ServerTypes, CommandsInv

LEMMA SettingAdds ==
    ASSUME Consistent, NEW i \in Indexes, NEW text \in Text,
           text.length = "long" => MayBeLong(i), SetConfigstring(i, text)
    PROVE  /\ Continues(commands, commands', reliableSent, configstrings', {i})
           /\ configstrings' \in [Indexes -> Text] /\ configstrings'[i] = text
           /\ \A j \in Indexes : j # i => configstrings'[j] = configstrings[j]
           /\ state = "ACTIVE" => \/ i \in misordered'
                                  \/ Latest(commands', reliableSent, Len(commands'), i, text)
           /\ misordered \subseteq misordered' \union {i}
<1>1. /\ configstrings' \in [Indexes -> Text] /\ configstrings'[i] = text
      /\ \A j \in Indexes : j # i => configstrings'[j] = configstrings[j]
  BY DEF Consistent, ServerTypes, SettingTypes, SetConfigstring
<1>2. CASE state = "ACTIVE"
  <2>1. PICK r \in Nat, q2 \in {commands'}, strings \in {configstrings'} :
                r = reliableSent /\ q2 = commands' /\ strings = configstrings'
    BY DEF Consistent, ServerTypes
  <2>2. q2 = WithConfigstring(commands, i, strings[i])
    BY <1>1, <1>2, <2>1 DEF SetConfigstring, Broadcast
  <2>3. commands \in Seq(Command) /\ r \in 0 .. Len(commands) /\ WellFormed(commands, r)
    BY <2>1 DEF Consistent, ServerTypes, CommandsInv
  <2>4. strings[i] = text
    BY <1>1, <2>1
  <2>5. /\ Continues(commands, q2, r, strings, {i})
        /\ Misorders(commands, i, text) \/ Latest(q2, r, Len(q2), i, strings[i])
    BY <2>1, <2>2, <2>3, <2>4, ConfigstringAdded
  <2>6. misordered' = IF Misorders(commands, i, text) THEN misordered \union {i}
                      ELSE misordered \ {i}
    BY <1>2 DEF SetConfigstring, Broadcast
  <2>. QED  BY <1>1, <2>1, <2>4, <2>5, <2>6
<1>3. CASE state # "ACTIVE"
  <2>1. commands' = commands /\ misordered' = misordered
    BY <1>3 DEF SetConfigstring, Broadcast
  <2>2. Continues(commands, commands', reliableSent, configstrings', {i})
    BY <2>1, ContinuesSame DEF Consistent, ServerTypes, CommandsInv
  <2>. QED  BY <1>1, <1>3, <2>1, <2>2
<1>. QED  BY <1>2, <1>3

LEMMA SettingStep ==
    ASSUME Consistent, NEW i \in Indexes, NEW text \in Text,
           text.length = "long" => MayBeLong(i), i = CS_SYSTEMINFO => text.id = serverId,
           SetConfigstring(i, text), sets' \in Nat
    PROVE  Consistent'
<1>1. Continues(commands, commands', reliableSent, configstrings', {i})
  BY SettingAdds
<1>2. UNCHANGED <<state, serverId, restartedServerId, serverIdAcknowledge, reliableSent,
                  clientVars, toClient, toServer, map, clMap, strays, overtaken>>
  BY DEF SetConfigstring
<1>3. SettingTypes'
  <2>1. csUpdated' \subseteq Indexes /\ \E b \in Nat : \A j \in csUpdated' : j <= b
    <3>1. csUpdated' \subseteq csUpdated \union {i}
      BY DEF SetConfigstring, Broadcast, RememberUpdate
    <3>2. csUpdated \subseteq Indexes /\ \E b \in Nat : \A j \in csUpdated : j <= b
      BY DEF Consistent, ServerTypes, SettingTypes
    <3>3. PICK b \in Nat : \A j \in csUpdated : j <= b
      BY <3>2
    <3>4. \A j \in csUpdated' : j \in Nat /\ j <= b + i
      <4>1. Indexes \in SUBSET Nat
        BY Constants
      <4>. QED  BY <3>1, <3>2, <3>3, <4>1
    <3>5. b + i \in Nat
      BY Constants
    <3>. QED  BY <3>1, <3>2, <3>4, <3>5
  <2>2. configstrings' \in [Indexes -> Text] /\ \A j \in Indexes : configstrings'[j].length = "long" => MayBeLong(j)
    <3>1. \A j \in Indexes : configstrings[j].length = "long" => MayBeLong(j)
      BY DEF Consistent, ServerTypes, SettingTypes
    <3>. QED  BY <3>1, SettingAdds
  <2>. QED  BY <1>2, <2>1, <2>2 DEF Consistent, ServerTypes, SettingTypes
<1>4. \/ configstrings'[CS_SYSTEMINFO] = configstrings[CS_SYSTEMINFO]
      \/ configstrings'[CS_SYSTEMINFO].id = serverId'
  BY <1>2, SettingAdds, Constants
<1>5. Quiet'
  <2>1. Quiet /\ (state = "ACTIVE" => commands' = WithConfigstring(commands, i, text) /\ csUpdated' = csUpdated)
              /\ (state # "ACTIVE" => commands' = commands)
              /\ (state # "PRIMED" => csUpdated' = csUpdated)
    BY DEF Consistent, CommandsInv, SetConfigstring, Broadcast, RememberUpdate
  <2>. QED  BY <1>2, <2>1 DEF Quiet
<1>6. toServer' \in Seq(ClientPacket) /\ \A E \in Nat : MapToServer(E) => MapToServer(E)'
  BY <1>2 DEF Consistent, ChannelTypes, MapToServer
<1>7. MovesOfThisMap'
  BY <1>2 DEF Consistent, MovesOfThisMap
<1>8. serverId <= serverId' /\ restartedServerId <= restartedServerId'
  BY <1>2 DEF Consistent, ServerTypes, SettingTypes
<1>. QED  BY <1>1, <1>2, <1>3, <1>4, <1>5, <1>6, <1>7, <1>8, ServerStep

\* The client enters the world, and is told what it missed.
LEMMA Entering ==
    ASSUME Consistent, EnterWorld, UNCHANGED configstrings
    PROVE  /\ Continues(commands, commands', reliableSent, configstrings', csUpdated)
           /\ \A i \in csUpdated : Latest(commands', reliableSent, Len(commands'), i, configstrings[i])
           /\ Quiet' /\ state' = "ACTIVE" /\ csUpdated' = {}
<1>1. PICK q2 : q2 = commands' /\ q2 = WithConfigstrings(commands, csUpdated)
  BY DEF EnterWorld
<1>2. ServerTypes /\ CommandsInv
  BY DEF Consistent
<1>3. /\ Continues(commands, q2, reliableSent, configstrings, csUpdated)
      /\ \A i \in csUpdated : Latest(q2, reliableSent, Len(q2), i, configstrings[i])
  BY <1>1, <1>2, ConfigstringsAdded
<1>4. Quiet' /\ state' = "ACTIVE" /\ csUpdated' = {}
  BY DEF EnterWorld, Quiet
<1>. QED  BY <1>1, <1>3, <1>4

LEMMA RestartStep ==
    ASSUME Consistent, RestartMap, SV_SpawnServer
    PROVE  Consistent'
<1>1. /\ UNCHANGED <<serverIdAcknowledge, reliableSent, clientVars, toClient, toServer, clMap, sets,
                     strays, map, configstrings>>
      /\ serverId' = serverId + 1 /\ restartedServerId' = serverId /\ serverId < MaxServerId
      /\ overtaken' \in BOOLEAN
  BY DEF RestartMap, SV_SpawnServer, IdBeforeRestart, Consistent, ServerTypes, SettingTypes
<1>2. /\ serverId \in Nat /\ serverId >= 1 /\ MaxServerId \in Nat
      /\ restartedServerId \in 1 .. serverId /\ serverIdAcknowledge \in 0 .. serverId
  BY BoundsAssumption DEF Consistent, ServerTypes, SettingTypes
<1>3. \E U : Continues(commands, commands', reliableSent, configstrings', U)
  BY <1>1, Entering, Unchanged DEF RestartMap
<1>4. /\ Quiet' /\ csUpdated' \in {csUpdated, {}} /\ state' \in {state, "ACTIVE"}
      /\ state' \in {"FREE", "CONNECTED"} => state \in {"FREE", "CONNECTED"}
  <2>1. CASE state # "FREE" /\ EnterWorld
    BY <1>1, <2>1, Entering
  <2>2. CASE state = "FREE" /\ UNCHANGED <<state, commands, csUpdated>>
    BY <1>1, <2>2 DEF Consistent, CommandsInv, Quiet
  <2>. QED  BY <2>1, <2>2 DEF RestartMap
<1>5. SettingTypes'
  <2>1. /\ serverId' \in 1 .. MaxServerId /\ restartedServerId' \in 1 .. serverId'
        /\ serverIdAcknowledge' \in 0 .. serverId'
    BY <1>1, <1>2
  <2>. QED  BY <1>1, <1>4, <2>1 DEF Consistent, ServerTypes, SettingTypes
<1>6. \A E \in Nat : MapToServer(E) => MapToServer(E)'
  <2>1. ASSUME NEW k \in 1 .. Len(toServer) PROVE toServer[k].serverId \in Nat
    <3>1. toServer[k] \in ClientPacket
      BY DEF Consistent, ChannelTypes
    <3>. QED  BY <3>1 DEF ClientPacket
  <2>. QED  BY <1>1, <1>2, <2>1 DEF MapToServer
<1>7. toServer' \in Seq(ClientPacket) /\ MovesOfThisMap'
  BY <1>1 DEF Consistent, ChannelTypes, MovesOfThisMap
<1>8. /\ serverId <= serverId' /\ restartedServerId <= restartedServerId'
      /\ configstrings'[CS_SYSTEMINFO] = configstrings[CS_SYSTEMINFO]
  BY <1>1, <1>2
<1>. QED  BY <1>1, <1>3, <1>4, <1>5, <1>6, <1>7, <1>8, ServerStep

LEMMA ConnectStep ==
    ASSUME Consistent, SV_DirectConnect
    PROVE  Consistent'
<1>1. /\ UNCHANGED <<serverId, restartedServerId, serverIdAcknowledge, configstrings, csUpdated,
                     commands, reliableSent, clientVars, toClient, toServer, map, clMap,
                     sets, strays, overtaken>>
      /\ state = "FREE" /\ state' = "CONNECTED"
  BY DEF SV_DirectConnect
<1>2. Continues(commands, commands', reliableSent, configstrings', {})
  BY <1>1, Unchanged
<1>3. SettingTypes'
  BY <1>1 DEF Consistent, ServerTypes, SettingTypes
<1>4. Quiet' /\ toServer' \in Seq(ClientPacket) /\ MovesOfThisMap'
  BY <1>1 DEF Consistent, CommandsInv, Quiet, ChannelTypes, MovesOfThisMap
<1>5. \A E \in Nat : MapToServer(E) => MapToServer(E)'
  BY <1>1 DEF MapToServer
<1>6. serverId <= serverId' /\ restartedServerId <= restartedServerId'
  BY <1>1 DEF Consistent, ServerTypes, SettingTypes
<1>. QED  BY <1>1, <1>2, <1>3, <1>4, <1>5, <1>6, ServerStep

\* With a new map, everything there is becomes of an older one.
LEMMA LoadStep ==
    ASSUME Consistent, LoadMap, SV_SpawnServer
    PROVE  Consistent'
<1>1. /\ UNCHANGED <<serverIdAcknowledge, reliableSent, clientVars, toClient, toServer, clMap, sets,
                     strays, csUpdated, commands>>
      /\ serverId' = serverId + 1 /\ restartedServerId' = serverId + 1 /\ serverId < MaxServerId
      /\ map' = map + 1 /\ overtaken' = FALSE
      /\ configstrings' = [Blank EXCEPT ![CS_SYSTEMINFO] = SystemInfo(serverId + 1)]
      /\ state' = StateOnNewMap
  BY DEF LoadMap, SV_SpawnServer
<1>2. PICK e \in Nat, w \in Nat : e = serverId /\ w = map /\ e >= 1 /\ e < MaxServerId
  BY <1>1, BoundsAssumption DEF Consistent, ServerTypes, SettingTypes
<1>3. PICK l \in Nat, r \in Nat : l = Len(commands) /\ r = reliableSent /\ r <= l
  BY DEF Consistent, ServerTypes
<1>4. /\ configstrings' \in [Indexes -> Text] /\ configstrings'[CS_SYSTEMINFO].id = e + 1
      /\ \A i \in Indexes : configstrings'[i].length = "short"
  <2>1. /\ e + 1 \in Nat /\ SystemInfo(e + 1) \in Text /\ SystemInfo(e + 1).id = e + 1
        /\ SystemInfo(e + 1).length = "short" /\ Empty \in Text /\ Empty.length = "short"
    BY Constants DEF SystemInfo, Empty
  <2>. QED  BY <1>1, <1>2, <2>1, Constants DEF Blank
<1>5. state \in {"FREE", "CONNECTED", "PRIMED", "ACTIVE"} /\ state' \in {"FREE", "CONNECTED"}
  BY <1>1 DEF StateOnNewMap, Consistent, ServerTypes, SettingTypes
<1>6. ServerTypes'
  <2>1. /\ serverId' \in 1 .. MaxServerId /\ restartedServerId' \in 1 .. serverId'
        /\ serverIdAcknowledge' \in 0 .. serverId' /\ map' \in Nat
    <3>1. serverIdAcknowledge \in 0 .. e /\ MaxServerId \in Nat
      BY <1>2, BoundsAssumption DEF Consistent, ServerTypes, SettingTypes
    <3>. QED  BY <1>1, <1>2, <3>1
  <2>2. \A i \in Indexes : configstrings'[i].length = "long" => MayBeLong(i)
    BY <1>4
  <2>3. csUpdated' \subseteq Indexes /\ (\E b \in Nat : \A i \in csUpdated' : i <= b) /\ sets' \in Nat
    BY <1>1 DEF Consistent, ServerTypes, SettingTypes
  <2>4. SettingTypes'
    BY <1>1, <1>4, <1>5, <2>1, <2>2, <2>3 DEF SettingTypes
  <2>. QED  BY <1>1, <2>4 DEF Consistent, ServerTypes
<1>7. ClientTypes'
  BY <1>1, <1>2, <1>3, ClientStays
<1>8. ChannelTypes' /\ MovesOfThisMap'
  BY <1>1 DEF Consistent, ChannelTypes, MovesOfThisMap
<1>9. ASSUME NEW k \in 1 .. Len(toClient), Full(toClient[k])
      PROVE  /\ toClient[k].upto \in Nat /\ toClient[k].map \in Nat
             /\ toClient[k].upto <= r /\ toClient[k].map <= w /\ toClient[k].map < w + 1
  <2>1. toClient[k] \in ServerMessage
    BY DEF Consistent, ChannelTypes
  <2>2. toClient[k].upto \in Nat /\ toClient[k].map \in Nat
    BY <1>9, <2>1, ServerMessages
  <2>3. toClient[k].upto <= r /\ toClient[k].map <= w
    BY <1>2, <1>3, <1>9 DEF Consistent, InOrder
  <2>. QED  BY <2>2, <2>3
<1>10. InOrder'
  <2>1. \A k \in 1 .. Len(toClient) : Full(toClient[k]) => toClient[k].map <= map'
    BY <1>1, <1>2, <1>9
  <2>. QED  BY <1>1, <2>1 DEF Consistent, InOrder, clientVars
<1>11. CommandsInv'
  <2>1. Quiet'
    BY <1>1, <1>5 DEF Consistent, CommandsInv, Quiet
  <2>. QED  BY <1>1, <2>1 DEF Consistent, CommandsInv, clientVars
<1>12. clMap \in Nat /\ clMap <= w /\ clServerId \in Nat /\ clServerId <= e /\ snap.num \in Nat /\ snap.num <= r
  BY <1>2, <1>3 DEF Consistent, ClientTypes
<1>13. MapsInv'
  <2>1. PICK E \in Nat, C \in Nat, D \in Nat : MapInv(E, C, D)
    BY DEF Consistent, MapsInv
  <2>2. MapServer(e + 1, r, l)'
    <3>1. ASSUME NEW n \in 1 .. Len(commands), commands[n].index = CS_SYSTEMINFO
          PROVE  /\ commands[n].text.id <= e + 1
                 /\ n <= r => commands[n].text.id < e + 1
                 /\ ~(n > l)
      <4>1. commands[n] \in Command
        BY DEF Consistent, ServerTypes
      <4>2. PICK x \in Nat : x = commands[n].text.id
        BY <4>1 DEF Command, Text
      <4>3. x <= e
        BY <1>2, <2>1, <3>1, <4>2 DEF MapInv, MapServer, IdsOfMaps
      <4>. QED  BY <1>3, <4>2, <4>3
    <3>2. IdsOfMaps(commands, e + 1, r, l)'
      BY <1>1, <1>2, <3>1 DEF IdsOfMaps
    <3>. QED  BY <1>1, <1>2, <1>3, <1>4, <3>2 DEF MapServer
  <2>3. MapClient(e + 1, r, l)'
    <3>1. clServerId = clStrings[CS_SYSTEMINFO].id /\ snap.map = clMap
      BY <2>1 DEF MapInv, MapClient
    <3>2. ~(clServerId >= e + 1) /\ clMap # w + 1
      BY <1>12
    <3>. QED  BY <1>1, <1>2, <1>3, <1>12, <3>1, <3>2 DEF MapClient, clientVars
  <2>4. MapToClient(e + 1, r, l)'
    <3>. SUFFICES ASSUME NEW k \in 1 .. Len(toClient), Full(toClient[k])
                  PROVE  /\ toClient[k].upto <= r /\ toClient[k].map # w + 1
                         /\ toClient[k].kind = "snapshot" => toClient[k].map = clMap
                         /\ toClient[k].kind = "gamestate" =>
                                /\ toClient[k].strings[CS_SYSTEMINFO].id <= e + 1
                                /\ ~(toClient[k].strings[CS_SYSTEMINFO].id >= e + 1)
      BY <1>1, <1>2 DEF MapToClient, clientVars
    <3>1. toClient[k].upto <= r /\ toClient[k].map # w + 1
      BY <1>9
    <3>2. toClient[k].kind = "snapshot" => toClient[k].map = clMap
      BY <2>1 DEF MapInv, MapToClient
    <3>3. CASE toClient[k].kind = "gamestate"
      <4>1. toClient[k].strings[CS_SYSTEMINFO].id <= e
        BY <1>2, <2>1, <3>3 DEF MapInv, MapToClient
      <4>2. toClient[k] \in ServerMessage
        BY DEF Consistent, ChannelTypes
      <4>3. toClient[k].strings[CS_SYSTEMINFO] \in Text
        BY <4>2, ServerMessages, Constants
      <4>4. PICK x \in Nat : x = toClient[k].strings[CS_SYSTEMINFO].id
        BY <4>3 DEF Text
      <4>. QED  BY <3>1, <3>2, <4>1, <4>4
    <3>. QED  BY <3>1, <3>2, <3>3
  <2>5. MapToServer(e + 1)'
    <3>1. ASSUME NEW k \in 1 .. Len(toServer)
          PROVE  /\ toServer[k].serverId <= e + 1 /\ ~(toServer[k].serverId >= e + 1)
                 /\ toServer[k].map <= clMap /\ toServer[k].map # w + 1
      <4>1. toServer[k] \in ClientPacket
        BY DEF Consistent, ChannelTypes
      <4>2. toServer[k].serverId \in Nat /\ toServer[k].map \in Nat
        BY <4>1 DEF ClientPacket
      <4>3. toServer[k].serverId <= e /\ toServer[k].map <= clMap
        BY <1>2, <2>1 DEF MapInv, MapToServer
      <4>. QED  BY <1>12, <4>2, <4>3
    <3>2. ~(serverIdAcknowledge >= e + 1)
      BY <1>2 DEF Consistent, ServerTypes, SettingTypes
    <3>. QED  BY <1>1, <1>2, <3>1, <3>2 DEF MapToServer
  <2>6. e + 1 \in Nat
    OBVIOUS
  <2>. QED  BY <2>2, <2>3, <2>4, <2>5, <2>6 DEF MapInv, MapsInv
<1>14. MapGiven'
  <2>1. \A k \in 1 .. Len(toClient) : toClient[k].kind = "gamestate" => toClient[k].map < w + 1
    BY <1>9 DEF Full
  <2>. QED  BY <1>1, <1>2, <1>12, <2>1 DEF MapGiven
<1>. QED  BY <1>6, <1>7, <1>8, <1>10, <1>11, <1>13, <1>14 DEF Consistent

-----------------------------------------------------------------------------
\* The server sends.

\* What is said of every message in flight holds when it did, and holds of the message sent.
LEMMA MessageStep ==
    ASSUME Consistent, NEW m \in ServerMessage, NEW c1, c1 = toClient \/ c1 = NotLater(toClient),
           toClient' = Send(c1, m),
           UNCHANGED <<serverId, restartedServerId, configstrings, csUpdated, commands, clServerId,
                       clStrings, bigConfigString, snap, cgSequence, map, clMap, sets, strays>>,
           clLater' \in BOOLEAN, overtaken' \in BOOLEAN,
           state' \in {"FREE", "CONNECTED", "PRIMED", "ACTIVE"}, serverIdAcknowledge' \in 0 .. serverId,
           reliableSent' = Len(commands) \/ reliableSent' = reliableSent,
           Full(m) => reliableSent' = Len(commands) /\ m.upto = Len(commands) /\ m.map = map,
           m.kind = "snapshot" => clMap = map,
           m.kind = "gamestate" => m.strings = configstrings,
           state' \in {"FREE", "CONNECTED"} => state' = state /\ m.kind # "gamestate",
           toServer' \in Seq(ClientPacket), \A E \in Nat : MapToServer(E) => MapToServer(E)',
           Quiet'
    PROVE  Consistent'
<1>1. PICK l \in Nat, r \in Nat, w \in Nat : l = Len(commands) /\ r = reliableSent /\ r <= l /\ w = map
  BY DEF Consistent, ServerTypes, SettingTypes
<1>2. PICK r2 \in Nat : r2 = reliableSent' /\ r <= r2 /\ r2 <= l
  BY <1>1
<1>3. toClient' \in Seq(ServerMessage) /\ Sent(toClient', toClient, m)
  <2>1. toClient \in Seq(ServerMessage)
    BY DEF Consistent, ChannelTypes
  <2>2. PICK c, after : c = toClient /\ after = toClient'
    OBVIOUS
  <2>3. c \in Seq(ServerMessage) /\ (c1 = c \/ c1 = NotLater(c)) /\ after = Send(c1, m)
    BY <2>1, <2>2
  <2>4. after \in Seq(ServerMessage) /\ Sent(after, c, m)
    BY <2>3, MessageSent
  <2>. QED  BY <2>2, <2>4, Zenon
<1>4. PICK p \in Nat, c2 \in {toClient'} : p = Len(toClient) /\ c2 = toClient'
  BY DEF Consistent, ChannelTypes
<1>5. PICK d \in {0, 1} : /\ Len(c2) = p - d + 1
                          /\ \A k \in 1 .. p - d : SameMessage(c2[k], toClient[k + d])
                          /\ c2[p - d + 1] = m
  BY <1>3, <1>4, Zenon DEF Sent
<1>6. PICK p2 \in Nat : p2 = p - d + 1 /\ p2 = Len(c2)
  <2>1. Len(c2) \in Nat
    BY <1>3, <1>4
  <2>. QED  BY <1>5, <2>1
<1>7. ASSUME NEW k \in 1 .. p2
      PROVE  \/ k = p2 /\ c2[k] = m
             \/ k < p2 /\ k + d \in 1 .. p /\ SameMessage(c2[k], toClient[k + d])
  <2>1. k = p2 \/ (k < p2 /\ k \in 1 .. p - d /\ k + d \in 1 .. p)
    BY <1>6
  <2>. QED  BY <1>5, <1>6, <2>1
<1>8. ASSUME NEW k \in 1 .. p, Full(toClient[k])
      PROVE  /\ toClient[k].upto \in Nat /\ toClient[k].map \in Nat
             /\ snap.num <= toClient[k].upto /\ toClient[k].upto <= r
             /\ clMap <= toClient[k].map /\ toClient[k].map <= w
  <2>1. toClient[k] \in ServerMessage
    BY <1>4 DEF Consistent, ChannelTypes
  <2>. QED  BY <1>1, <1>4, <1>8, <2>1, ServerMessages DEF Consistent, InOrder
<1>9. /\ snap.num \in Nat /\ snap.num <= r /\ clMap \in Nat /\ clMap <= w
  BY <1>1 DEF Consistent, ClientTypes
<1>10. ServerTypes'
  <2>1. SettingTypes'
    BY DEF Consistent, ServerTypes, SettingTypes
  <2>. QED  BY <1>1, <1>2, <2>1 DEF Consistent, ServerTypes
<1>11. ClientTypes'
  <2>1. snap.num \in 0 .. r2
    BY <1>2, <1>9
  <2>. QED  BY <1>2, <2>1 DEF Consistent, ClientTypes
<1>12. ChannelTypes'
  BY <1>3 DEF ChannelTypes
<1>13. InOrder'
  <2>1. ASSUME NEW k \in 1 .. p2, Full(c2[k])
        PROVE  /\ snap.num <= c2[k].upto /\ c2[k].upto <= r2
               /\ clMap <= c2[k].map /\ c2[k].map <= w
    <3>1. CASE c2[k] = m
      BY <1>1, <1>2, <1>9, <2>1, <3>1
    <3>2. CASE k + d \in 1 .. p /\ SameMessage(c2[k], toClient[k + d])
      <4>1. Full(toClient[k + d]) /\ c2[k].upto = toClient[k + d].upto /\ c2[k].map = toClient[k + d].map
        BY <2>1, <3>2 DEF SameMessage, Full
      <4>. QED  BY <1>2, <1>8, <3>2, <4>1, SMTT(30)
    <3>. QED  BY <1>7, <3>1, <3>2
  <2>2. ASSUME NEW j \in 1 .. p2, NEW k \in 1 .. p2, Full(c2[j]), Full(c2[k]), j <= k
        PROVE  c2[j].upto <= c2[k].upto /\ c2[j].map <= c2[k].map
    <3>1. CASE c2[k] = m
      <4>1. c2[k].upto = l /\ c2[k].map = w
        BY <1>1, <2>2, <3>1
      <4>2. CASE c2[j] = m
        BY <1>1, <2>2, <3>1, <4>2
      <4>3. CASE j + d \in 1 .. p /\ SameMessage(c2[j], toClient[j + d])
        <5>1. Full(toClient[j + d]) /\ c2[j].upto = toClient[j + d].upto /\ c2[j].map = toClient[j + d].map
          BY <2>2, <4>3 DEF SameMessage, Full
        <5>. QED  BY <1>1, <1>8, <4>1, <4>3, <5>1
      <4>. QED  BY <1>7, <4>2, <4>3
    <3>2. CASE k < p2 /\ k + d \in 1 .. p /\ SameMessage(c2[k], toClient[k + d])
      <4>1. j + d \in 1 .. p /\ SameMessage(c2[j], toClient[j + d]) /\ j + d <= k + d
        BY <1>7, <2>2, <3>2
      <4>2. /\ Full(toClient[j + d]) /\ c2[j].upto = toClient[j + d].upto /\ c2[j].map = toClient[j + d].map
            /\ Full(toClient[k + d]) /\ c2[k].upto = toClient[k + d].upto /\ c2[k].map = toClient[k + d].map
        BY <2>2, <3>2, <4>1 DEF SameMessage, Full
      <4>. QED  BY <1>4, <3>2, <4>1, <4>2 DEF Consistent, InOrder
    <3>. QED  BY <1>7, <3>1, <3>2
  <2>. QED  BY <1>1, <1>2, <1>4, <1>6, <2>1, <2>2 DEF InOrder
<1>14. CommandsInv'
  <2>1. WellFormed(commands, r2)
    <3>1. WellFormed(commands, r)
      BY <1>1 DEF Consistent, CommandsInv
    <3>2. \A k \in r2 + 1 .. l : k \in r + 1 .. l
      <4>1. r <= r2
        BY <1>2
      <4>. QED  BY <4>1
    <3>. QED  BY <1>1, <3>1, <3>2 DEF WellFormed, PendingOnce
  <2>2. ASSUME NEW k \in 1 .. p2, Full(c2[k]) PROVE AtEnd(commands, c2[k].upto)
    <3>1. CASE c2[k] = m
      BY <1>1, <2>2, <3>1 DEF Consistent, CommandsInv, WellFormed
    <3>2. CASE k + d \in 1 .. p /\ SameMessage(c2[k], toClient[k + d])
      <4>1. Full(toClient[k + d]) /\ c2[k].upto = toClient[k + d].upto
        BY <2>2, <3>2 DEF SameMessage, Full
      <4>. QED  BY <1>4, <3>2, <4>1 DEF Consistent, CommandsInv
    <3>. QED  BY <1>7, <3>1, <3>2
  <2>. QED  BY <1>2, <1>4, <1>6, <2>1, <2>2 DEF Consistent, CommandsInv
<1>15. MapsInv'
  <2>1. PICK E \in Nat, C \in Nat, D \in Nat : MapInv(E, C, D)
    BY DEF Consistent, MapsInv
  <2>2. MapServer(E, C, D)'
    <3>1. C \in 0 .. r2
      BY <1>1, <1>2, <2>1 DEF MapInv, MapServer
    <3>. QED  BY <1>2, <2>1, <3>1 DEF MapInv, MapServer, IdsOfMaps
  <2>3. MapClient(E, C, D)'
    BY <2>1 DEF MapInv, MapClient
  <2>4. MapToClient(E, C, D)'
    <3>. SUFFICES ASSUME NEW k \in 1 .. p2, Full(c2[k])
                  PROVE  /\ c2[k].map < w => c2[k].upto <= C
                         /\ c2[k].map = w => c2[k].upto >= D
                         /\ c2[k].kind = "snapshot" => c2[k].map = clMap
                         /\ c2[k].kind = "gamestate" =>
                                /\ c2[k].strings[CS_SYSTEMINFO].id <= serverId
                                /\ c2[k].strings[CS_SYSTEMINFO].id >= E <=> c2[k].map = w
      BY <1>1, <1>4, <1>6 DEF MapToClient
    <3>1. CASE c2[k] = m
      <4>1. c2[k].map = w /\ c2[k].upto = l /\ ~(w < w)
        BY <1>1, <3>1
      <4>2. l >= D
        BY <1>1, <2>1 DEF MapInv, MapServer
      <4>3. configstrings[CS_SYSTEMINFO].id \in E .. serverId /\ serverId \in Nat
        BY <2>1 DEF MapInv, MapServer, Consistent, ServerTypes, SettingTypes
      <4>. QED  BY <1>1, <3>1, <4>1, <4>2, <4>3
    <3>2. CASE k + d \in 1 .. p /\ SameMessage(c2[k], toClient[k + d])
      <4>1. /\ Full(toClient[k + d]) /\ c2[k].upto = toClient[k + d].upto /\ c2[k].map = toClient[k + d].map
            /\ c2[k].strings = toClient[k + d].strings /\ c2[k].kind = toClient[k + d].kind
        BY <3>2 DEF SameMessage, Full
      <4>. QED  BY <1>1, <1>4, <2>1, <3>2, <4>1 DEF MapInv, MapToClient
    <3>. QED  BY <1>7, <3>1, <3>2
  <2>5. MapToServer(E)'
    BY <2>1 DEF MapInv
  <2>. QED  BY <2>1, <2>2, <2>3, <2>4, <2>5 DEF MapInv, MapsInv
<1>16. MapGiven'
  <2>. SUFFICES ASSUME state' \in {"FREE", "CONNECTED"}
                PROVE  clMap < map /\ \A k \in 1 .. p2 : c2[k].kind = "gamestate" => c2[k].map < map
    BY <1>4, <1>6 DEF MapGiven
  <2>1. clMap < map /\ \A k \in 1 .. p : toClient[k].kind = "gamestate" => toClient[k].map < map
    BY <1>4 DEF Consistent, MapGiven
  <2>2. ASSUME NEW k \in 1 .. p2, c2[k].kind = "gamestate" PROVE c2[k].map < map
    <3>1. k + d \in 1 .. p /\ SameMessage(c2[k], toClient[k + d])
      BY <1>7, <2>2
    <3>2. toClient[k + d].kind = "gamestate" /\ c2[k].map = toClient[k + d].map
      BY <2>2, <3>1 DEF SameMessage, Full
    <3>. QED  BY <2>1, <3>1, <3>2
  <2>. QED  BY <2>1, <2>2
<1>17. MovesOfThisMap'
  BY DEF Consistent, MovesOfThisMap
<1>. QED  BY <1>10, <1>11, <1>12, <1>13, <1>14, <1>15, <1>16, <1>17 DEF Consistent

LEMMA Messages ==
    ASSUME Consistent
    PROVE  /\ Message("snapshot") \in ServerMessage /\ Message("gamestate") \in ServerMessage
           /\ [Message("snapshot") EXCEPT !.strings = Blank] \in ServerMessage
           /\ [Message("gamestate") EXCEPT !.later = FALSE] \in ServerMessage
           /\ Nop \in ServerMessage
<1>1. /\ Len(commands) \in Nat /\ configstrings \in [Indexes -> Text] /\ map \in Nat
      /\ Blank \in [Indexes -> Text] /\ (state = "ACTIVE") \in BOOLEAN
  BY Constants DEF Consistent, ServerTypes, SettingTypes, Blank
<1>2. Nop \in ServerMessage
  BY DEF Nop, ServerMessage
<1>3. Message("snapshot") \in ServerMessage /\ Message("gamestate") \in ServerMessage
  BY <1>1 DEF Message, ServerMessage
<1>4. [Message("snapshot") EXCEPT !.strings = Blank] \in ServerMessage
  BY <1>1 DEF Message, ServerMessage
<1>5. [Message("gamestate") EXCEPT !.later = FALSE] \in ServerMessage
  BY <1>1 DEF Message, ServerMessage
<1>. QED  BY <1>2, <1>3, <1>4, <1>5

LEMMA SnapshotStep ==
    ASSUME Consistent, SV_SendClientSnapshot
    PROVE  Consistent'
<1>1. /\ UNCHANGED <<state, serverId, restartedServerId, serverIdAcknowledge, configstrings,
                     csUpdated, commands, clServerId, clStrings, bigConfigString, snap, cgSequence,
                     clLater, toServer, map, clMap, sets, strays, overtaken>>
      /\ reliableSent' = Len(commands) \/ reliableSent' = reliableSent
  BY DEF SV_SendClientSnapshot, clientVars
<1>2. /\ clLater' \in BOOLEAN /\ overtaken' \in BOOLEAN /\ toServer' \in Seq(ClientPacket)
      /\ state' \in {"FREE", "CONNECTED", "PRIMED", "ACTIVE"} /\ serverIdAcknowledge' \in 0 .. serverId
  BY <1>1 DEF Consistent, ServerTypes, SettingTypes, ClientTypes, ChannelTypes
<1>3. Quiet' /\ \A E \in Nat : MapToServer(E) => MapToServer(E)'
  BY <1>1 DEF Consistent, CommandsInv, Quiet, MapToServer
<1>4. CASE WorldAcknowledged /\ toClient' = Send(toClient, [Message("snapshot") EXCEPT !.strings = Blank])
           /\ reliableSent' = Len(commands)
  <2>. DEFINE m == [Message("snapshot") EXCEPT !.strings = Blank]
  <2>1. clMap = map
    <3>1. PICK E \in Nat, C \in Nat, D \in Nat : MapInv(E, C, D)
      BY DEF Consistent, MapsInv
    <3>2. serverIdAcknowledge \in {serverId, restartedServerId}
      BY <1>4 DEF WorldAcknowledged
    <3>3. E <= restartedServerId /\ restartedServerId <= serverId /\ E \in Nat /\ restartedServerId \in Nat /\ serverId \in Nat
      BY <3>1 DEF MapInv, MapServer, Consistent, ServerTypes, SettingTypes
    <3>. QED  BY <3>1, <3>2, <3>3 DEF MapInv, MapToServer
  <2>2. m \in ServerMessage
    BY Messages
  <2>3. m.kind = "snapshot" /\ m.upto = Len(commands) /\ m.map = map
    BY DEF Message
  <2>4. toClient' = Send(toClient, m)
    BY <1>4
  <2>. HIDE DEF m
  <2>. QED  BY <1>1, <1>2, <1>3, <1>4, <2>1, <2>2, <2>3, <2>4, MessageStep
<1>5. CASE ~WorldAcknowledged /\ toClient' = Send(toClient, Nop) /\ reliableSent' = reliableSent
  <2>1. Nop \in ServerMessage
    BY Messages
  <2>2. Nop.kind = "nop" /\ ~Full(Nop)
    BY DEF Nop, Full
  <2>. QED  BY <1>1, <1>2, <1>3, <1>5, <2>1, <2>2, MessageStep
<1>. QED  BY <1>4, <1>5 DEF SV_SendClientSnapshot

\* The client tells of the map that it has loaded.
LEMMA PacketStep ==
    ASSUME Consistent, CL_WritePacket
    PROVE  Consistent'
<1>1. PICK move \in BOOLEAN : WritePacket(move)
  BY DEF CL_WritePacket
<1>. DEFINE m == [serverId |-> clServerId, move |-> move, map |-> clMap, later |-> clLater]
<1>2. /\ UNCHANGED <<serverVars, clientVars, toClient, map, clMap, sets, strays, overtaken>>
      /\ toServer' = Send(toServer, m)
  BY <1>1 DEF WritePacket
<1>3. m \in ClientPacket /\ m.serverId = clServerId /\ m.map = clMap
  BY DEF Consistent, ClientTypes, ServerTypes, SettingTypes, ClientPacket
<1>. HIDE DEF m
<1>4. /\ toServer' \in Seq(ClientPacket)
      /\ \A k \in 1 .. Len(toServer') : toServer'[k] = m \/ \E j \in 1 .. Len(toServer) : toServer'[k] = toServer[j]
  <2>1. toServer \in Seq(ClientPacket)
    BY DEF Consistent, ChannelTypes
  <2>2. PICK c, after : c = toServer /\ after = toServer'
    OBVIOUS
  <2>3. after \in Seq(ClientPacket) /\ MessageAdded(after, c, m)
    <3>1. c \in Seq(ClientPacket) /\ m \in ClientPacket /\ after = Send(c, m)
      BY <1>2, <1>3, <2>1, <2>2
    <3>. QED  BY <3>1, PacketSent
  <2>. QED  BY <2>2, <2>3 DEF MessageAdded
<1>5. ServerTypes' /\ ClientTypes' /\ ChannelTypes'
  BY <1>2, <1>4 DEF Consistent, ServerTypes, SettingTypes, ClientTypes, ChannelTypes, serverVars, clientVars
<1>6. InOrder' /\ MapGiven' /\ MovesOfThisMap'
  BY <1>2 DEF Consistent, InOrder, MapGiven, MovesOfThisMap, serverVars, clientVars
<1>7. CommandsInv'
  BY <1>2 DEF Consistent, CommandsInv, Quiet, serverVars, clientVars
<1>8. MapsInv'
  <2>1. PICK E \in Nat, C \in Nat, D \in Nat : MapInv(E, C, D)
    BY DEF Consistent, MapsInv
  <2>2. MapServer(E, C, D)' /\ MapClient(E, C, D)' /\ MapToClient(E, C, D)'
    BY <1>2, <2>1 DEF MapInv, MapServer, IdsOfMaps, MapClient, MapToClient, serverVars, clientVars
  <2>3. MapToServer(E)'
    <3>1. ASSUME NEW k \in 1 .. Len(toServer')
          PROVE  /\ toServer'[k].serverId <= serverId /\ toServer'[k].map <= clMap
                 /\ toServer'[k].serverId >= E <=> toServer'[k].map = map
      <4>1. CASE toServer'[k] = m
        <5>1. clServerId <= serverId /\ clMap <= clMap
          BY DEF Consistent, ClientTypes, ServerTypes, SettingTypes
        <5>. QED  BY <1>3, <2>1, <4>1, <5>1 DEF MapInv, MapClient
      <4>2. CASE \E j \in 1 .. Len(toServer) : toServer'[k] = toServer[j]
        BY <2>1, <4>2 DEF MapInv, MapToServer
      <4>. QED  BY <1>4, <4>1, <4>2
    <3>2. serverIdAcknowledge >= E => clMap = map
      BY <2>1 DEF MapInv, MapToServer
    <3>. QED  BY <1>2, <3>1, <3>2 DEF MapToServer, serverVars
  <2>. QED  BY <2>1, <2>2, <2>3 DEF MapInv, MapsInv
<1>. QED  BY <1>5, <1>6, <1>7, <1>8 DEF Consistent

-----------------------------------------------------------------------------
\* The client receives.

LEMMA GamestateStep ==
    ASSUME Consistent, NEW k \in 1 .. Len(toClient), NEW m, m = toClient[k], ParseGamestate(m),
           clLater' \in BOOLEAN, toClient' = After(toClient, k),
           UNCHANGED <<serverVars, bigConfigString, toServer, map, sets, strays, overtaken>>
    PROVE  Consistent'
<1>1. /\ m.kind = "gamestate" /\ clStrings' = m.strings /\ clServerId' = m.strings[CS_SYSTEMINFO].id
      /\ clMap' = m.map /\ snap' = [num |-> m.upto, active |-> FALSE, map |-> m.map]
      /\ cgSequence' = m.upto
  BY DEF ParseGamestate, Mark, FirstToExecute
<1>2. PICK l \in Nat, r \in Nat, w \in Nat : l = Len(commands) /\ r = reliableSent /\ r <= l /\ w = map
  BY DEF Consistent, ServerTypes, SettingTypes
<1>3. m \in ServerMessage /\ Full(m)
  BY <1>1 DEF Consistent, ChannelTypes, Full
<1>4. PICK u \in Nat, n \in Nat, strings \in [Indexes -> Text] : u = m.upto /\ n = m.map /\ strings = m.strings
  BY <1>3, ServerMessages
<1>5. snap.num <= u /\ u <= r /\ clMap <= n /\ n <= w
  BY <1>2, <1>3, <1>4 DEF Consistent, InOrder
<1>6. PICK p \in Nat : p = Len(toClient)
  BY DEF Consistent, ChannelTypes
<1>7. /\ toClient' \in Seq(ServerMessage) /\ Len(toClient') = p - k
      /\ \A j \in 1 .. p - k : toClient'[j] = toClient[j + k]
  <2>1. toClient \in Seq(ServerMessage) /\ k \in 0 .. Len(toClient)
    BY <1>6 DEF Consistent, ChannelTypes
  <2>. QED  BY <1>6, <2>1, SuffixElements DEF After
<1>8. \A j \in 1 .. p - k : j + k \in 1 .. p /\ k <= j + k
  BY <1>6
<1>9. PICK E \in Nat, C \in Nat, D \in Nat : MapInv(E, C, D)
  BY DEF Consistent, MapsInv
<1>10. PICK id \in Nat, e \in Nat : /\ id = strings[CS_SYSTEMINFO].id /\ e = serverId
                                    /\ id <= e /\ (id >= E <=> n = w)
  <2>1. strings[CS_SYSTEMINFO].id \in Nat /\ serverId \in Nat
    BY Constants DEF Text, Consistent, ServerTypes, SettingTypes
  <2>2. /\ strings[CS_SYSTEMINFO].id <= serverId
        /\ strings[CS_SYSTEMINFO].id >= E <=> n = w
    BY <1>1, <1>2, <1>3, <1>4, <1>9 DEF MapInv, MapToClient
  <2>. QED  BY <2>1, <2>2
<1>11. ServerTypes' /\ MovesOfThisMap' /\ ChannelTypes'
  BY <1>7 DEF Consistent, ServerTypes, SettingTypes, ChannelTypes, MovesOfThisMap, serverVars
<1>12. ClientTypes'
  <2>1. clServerId' \in 0 .. serverId' /\ clStrings' \in [Indexes -> Text \union {Garbled}]
    BY <1>1, <1>4, <1>10 DEF serverVars
  <2>2. snap' \in [num : Nat, active : BOOLEAN, map : Nat] /\ snap'.num \in 0 .. reliableSent'
    BY <1>1, <1>2, <1>4, <1>5 DEF serverVars
  <2>3. cgSequence' \in 0 .. snap'.num /\ clMap' \in 0 .. map'
    BY <1>1, <1>2, <1>4, <1>5
  <2>. QED  BY <2>1, <2>2, <2>3 DEF Consistent, ClientTypes
<1>13. ASSUME NEW j \in 1 .. p - k, Full(toClient'[j])
       PROVE  /\ j + k \in 1 .. p /\ toClient'[j] = toClient[j + k]
              /\ u <= toClient'[j].upto /\ toClient'[j].upto <= r
              /\ n <= toClient'[j].map /\ toClient'[j].map <= w
              /\ toClient'[j].map \in Nat
  <2>1. toClient'[j] = toClient[j + k] /\ j + k \in 1 .. p /\ k <= j + k
    BY <1>7, <1>8
  <2>2. toClient[j + k].map \in Nat
    <3>1. toClient[j + k] \in ServerMessage
      BY <1>6, <2>1 DEF Consistent, ChannelTypes
    <3>. QED  BY <1>13, <2>1, <3>1, ServerMessages
  <2>. QED  BY <1>2, <1>3, <1>4, <1>6, <1>13, <2>1, <2>2 DEF Consistent, InOrder
<1>14. InOrder'
  <2>1. ASSUME NEW i \in 1 .. p - k, NEW j \in 1 .. p - k, Full(toClient'[i]), Full(toClient'[j]), i <= j
        PROVE  toClient'[i].upto <= toClient'[j].upto /\ toClient'[i].map <= toClient'[j].map
    <3>1. /\ toClient'[i] = toClient[i + k] /\ toClient'[j] = toClient[j + k]
          /\ i + k \in 1 .. p /\ j + k \in 1 .. p /\ i + k <= j + k
      BY <1>7, <1>8, <2>1
    <3>. QED  BY <1>6, <2>1, <3>1 DEF Consistent, InOrder
  <2>2. snap'.num = u /\ clMap' = n /\ reliableSent' = r /\ map' = w
    BY <1>1, <1>2, <1>4 DEF serverVars
  <2>. QED  BY <1>7, <1>13, <2>1, <2>2 DEF InOrder
<1>15. CommandsInv'
  <2>1. AtEnd(commands, u)
    BY <1>3, <1>4 DEF Consistent, CommandsInv
  <2>2. ASSUME NEW j \in 1 .. p - k, Full(toClient'[j]) PROVE AtEnd(commands, toClient'[j].upto)
    BY <1>6, <1>13, <2>2 DEF Consistent, CommandsInv
  <2>3. snap'.num = u /\ cgSequence' = u
    BY <1>1, <1>4
  <2>. QED  BY <1>7, <2>1, <2>2, <2>3 DEF Consistent, CommandsInv, Quiet, serverVars
<1>16. MapServer(E, C, D)'
  BY <1>9 DEF MapInv, MapServer, IdsOfMaps, serverVars
<1>17. MapClient(E, C, D)'
  <2>1. n < w => u <= C
    BY <1>2, <1>3, <1>4, <1>9 DEF MapInv, MapToClient
  <2>2. n = w => u >= D
    BY <1>2, <1>3, <1>4, <1>9 DEF MapInv, MapToClient
  <2>3. clServerId' = id /\ clStrings'[CS_SYSTEMINFO].id = id /\ clMap' = n /\ snap'.map = n /\ snap'.num = u
        /\ cgSequence' = u /\ map' = w
    BY <1>1, <1>2, <1>4, <1>10
  <2>. QED  BY <1>10, <2>1, <2>2, <2>3 DEF MapClient
<1>18. MapToClient(E, C, D)'
  <2>1. ASSUME NEW j \in 1 .. p - k, Full(toClient'[j])
        PROVE  /\ toClient'[j].map < w => toClient'[j].upto <= C
               /\ toClient'[j].map = w => toClient'[j].upto >= D
               /\ toClient'[j].kind = "gamestate" =>
                    /\ toClient'[j].strings[CS_SYSTEMINFO].id <= e
                    /\ toClient'[j].strings[CS_SYSTEMINFO].id >= E <=> toClient'[j].map = w
               /\ toClient'[j].kind = "snapshot" => toClient'[j].map = n
    <3>1. PICK x : x = toClient'[j] /\ x = toClient[j + k]
      BY <1>13, <2>1
    <3>2. j + k \in 1 .. p /\ Full(toClient[j + k]) /\ n <= x.map /\ x.map <= w /\ x.map \in Nat
      BY <1>13, <2>1, <3>1
    <3>3. /\ x.map < w => x.upto <= C
          /\ x.map = w => x.upto >= D
          /\ x.kind = "snapshot" => x.map = clMap
          /\ x.kind = "gamestate" => /\ x.strings[CS_SYSTEMINFO].id <= e
                                     /\ x.strings[CS_SYSTEMINFO].id >= E <=> x.map = w
      BY <1>2, <1>6, <1>9, <1>10, <3>1, <3>2 DEF MapInv, MapToClient
    <3>4. x.kind = "snapshot" => x.map = n
      BY <1>5, <3>2, <3>3
    <3>. QED  BY <3>1, <3>3, <3>4
  <2>2. map' = w /\ clMap' = n /\ serverId' = e
    BY <1>1, <1>2, <1>4, <1>10 DEF serverVars
  <2>. QED  BY <1>7, <2>1, <2>2 DEF MapToClient
<1>19. MapToServer(E)'
  <2>1. ASSUME NEW j \in 1 .. Len(toServer) PROVE toServer[j].map <= n
    <3>1. toServer[j] \in ClientPacket
      BY DEF Consistent, ChannelTypes
    <3>2. toServer[j].map \in Nat
      BY <3>1 DEF ClientPacket
    <3>3. clMap \in Nat
      BY <1>2 DEF Consistent, ClientTypes
    <3>4. toServer[j].map <= clMap
      BY <1>9 DEF MapInv, MapToServer
    <3>. QED  BY <1>5, <3>2, <3>3, <3>4
  <2>2. serverIdAcknowledge >= E => n = w
    <3>1. serverIdAcknowledge >= E => clMap = w
      BY <1>2, <1>9 DEF MapInv, MapToServer
    <3>. QED  BY <1>5, <3>1
  <2>. QED  BY <1>1, <1>2, <1>4, <1>9, <2>1, <2>2 DEF MapInv, MapToServer, serverVars
<1>20. MapGiven'
  <2>. SUFFICES ASSUME state \in {"FREE", "CONNECTED"}
                PROVE  clMap' < map /\ \A j \in 1 .. p - k : toClient'[j].kind = "gamestate" => toClient'[j].map < map
    BY <1>7 DEF MapGiven, serverVars
  <2>1. \A j \in 1 .. p : toClient[j].kind = "gamestate" => toClient[j].map < map
    BY <1>6 DEF Consistent, MapGiven
  <2>. QED  BY <1>1, <1>6, <1>7, <1>8, <2>1
<1>. QED  BY <1>9, <1>11, <1>12, <1>14, <1>15, <1>16, <1>17, <1>18, <1>19, <1>20 DEF Consistent, MapsInv, MapInv

\* The messages that are left stay as they are.
LEMMA FewerMessages ==
    ASSUME Consistent, NEW k \in 1 .. Len(toClient), toClient' = After(toClient, k)
    PROVE  /\ toClient' \in Seq(ServerMessage) /\ Len(toClient') = Len(toClient) - k
           /\ \A j \in 1 .. Len(toClient') :
                 j + k \in 1 .. Len(toClient) /\ k <= j + k /\ toClient'[j] = toClient[j + k]
<1>1. PICK p \in Nat : p = Len(toClient)
  BY DEF Consistent, ChannelTypes
<1>2. toClient \in Seq(ServerMessage) /\ k \in 0 .. Len(toClient)
  BY <1>1 DEF Consistent, ChannelTypes
<1>3. /\ toClient' \in Seq(ServerMessage) /\ Len(toClient') = p - k
      /\ \A j \in 1 .. p - k : toClient'[j] = toClient[j + k]
  BY <1>1, <1>2, SuffixElements DEF After
<1>4. \A j \in 1 .. p - k : j + k \in 1 .. p /\ k <= j + k
  BY <1>1
<1>. QED  BY <1>1, <1>3, <1>4

\* A snapshot, and a message without one.
LEMMA SnapshotParsed ==
    ASSUME Consistent, NEW k \in 1 .. Len(toClient), NEW m, m = toClient[k],
           ParseSnapshot(m) \/ ParseNop(m),
           clLater' \in BOOLEAN, toClient' = After(toClient, k),
           UNCHANGED <<serverVars, bigConfigString, toServer, map, sets, strays, overtaken>>
    PROVE  Consistent'
<1>1. UNCHANGED <<clStrings, clServerId, clMap, cgSequence>>
  BY DEF ParseSnapshot, ParseNop
<1>2. PICK l \in Nat, r \in Nat, w \in Nat : l = Len(commands) /\ r = reliableSent /\ r <= l /\ w = map
  BY DEF Consistent, ServerTypes, SettingTypes
<1>3. PICK E \in Nat, C \in Nat, D \in Nat : MapInv(E, C, D)
  BY DEF Consistent, MapsInv
<1>4. PICK v \in Nat : v = snap.num /\ v <= r /\ cgSequence \in Nat /\ cgSequence <= v
  BY <1>2 DEF Consistent, ClientTypes
\* the new snapshot
<1>5. /\ snap' \in [num : Nat, active : BOOLEAN, map : Nat] /\ snap'.map = snap.map
      /\ snap'.num \in Nat /\ v <= snap'.num /\ snap'.num <= r
      /\ AtEnd(commands, snap'.num)
      /\ clMap < w => snap'.num <= C
      /\ \A j \in k .. Len(toClient) : Full(toClient[j]) => snap'.num <= toClient[j].upto
  <2>1. CASE ParseNop(m)
    <3>1. snap' = snap
      BY <2>1 DEF ParseNop
    <3>2. \A j \in k .. Len(toClient) : j \in 1 .. Len(toClient)
      OBVIOUS
    <3>3. \A j \in k .. Len(toClient) : Full(toClient[j]) => snap.num <= toClient[j].upto
      BY <3>2 DEF Consistent, InOrder
    <3>4. AtEnd(commands, snap.num) /\ (clMap < w => snap.num <= C)
      BY <1>2, <1>3 DEF Consistent, CommandsInv, MapInv, MapClient
    <3>5. snap \in [num : Nat, active : BOOLEAN, map : Nat]
      BY DEF Consistent, ClientTypes
    <3>. QED  BY <1>4, <3>1, <3>3, <3>4, <3>5
  <2>2. CASE ParseSnapshot(m)
    <3>1. m.kind = "snapshot" /\ snap' = [num |-> m.upto, active |-> m.active, map |-> m.map]
      BY <2>2 DEF ParseSnapshot
    <3>2. m \in ServerMessage /\ Full(m)
      BY <3>1 DEF Consistent, ChannelTypes, Full
    <3>3. m.upto \in Nat /\ m.map \in Nat /\ m.active \in BOOLEAN
      BY <3>2, ServerMessages
    <3>4. m.map = clMap /\ snap.map = clMap /\ (m.map < w => m.upto <= C)
      BY <1>2, <1>3, <3>1, <3>2 DEF MapInv, MapClient, MapToClient
    <3>5. v <= m.upto /\ m.upto <= r /\ AtEnd(commands, m.upto)
      BY <1>2, <1>4, <3>2 DEF Consistent, InOrder, CommandsInv
    <3>6. \A j \in k .. Len(toClient) : j \in 1 .. Len(toClient) /\ k <= j
      OBVIOUS
    <3>7. \A j \in k .. Len(toClient) : Full(toClient[j]) => m.upto <= toClient[j].upto
      BY <3>2, <3>6 DEF Consistent, InOrder
    <3>. QED  BY <3>1, <3>3, <3>4, <3>5, <3>7
  <2>. QED  BY <2>1, <2>2
<1>6. /\ toClient' \in Seq(ServerMessage)
      /\ \A j \in 1 .. Len(toClient') :
            j + k \in 1 .. Len(toClient) /\ k <= j + k /\ toClient'[j] = toClient[j + k]
  BY FewerMessages
<1>7. \A j \in 1 .. Len(toClient') : j + k \in k .. Len(toClient)
  BY <1>6
<1>8. ServerTypes' /\ MovesOfThisMap' /\ ChannelTypes'
  BY <1>6 DEF Consistent, ServerTypes, SettingTypes, ChannelTypes, MovesOfThisMap, serverVars
<1>9. ClientTypes'
  <2>1. snap'.num \in 0 .. reliableSent /\ cgSequence \in 0 .. snap'.num
    BY <1>2, <1>4, <1>5
  <2>. QED  BY <1>1, <1>5, <2>1 DEF Consistent, ClientTypes, serverVars
<1>10. InOrder'
  <2>1. ASSUME NEW j \in 1 .. Len(toClient'), Full(toClient'[j])
        PROVE  /\ snap'.num <= toClient'[j].upto /\ toClient'[j].upto <= r
               /\ clMap <= toClient'[j].map /\ toClient'[j].map <= w
    BY <1>2, <1>5, <1>6, <1>7, <2>1 DEF Consistent, InOrder
  <2>2. ASSUME NEW i \in 1 .. Len(toClient'), NEW j \in 1 .. Len(toClient'),
               Full(toClient'[i]), Full(toClient'[j]), i <= j
        PROVE  toClient'[i].upto <= toClient'[j].upto /\ toClient'[i].map <= toClient'[j].map
    <3>1. /\ toClient'[i] = toClient[i + k] /\ toClient'[j] = toClient[j + k]
          /\ i + k \in 1 .. Len(toClient) /\ j + k \in 1 .. Len(toClient) /\ i + k <= j + k
      BY <1>6, <2>2
    <3>. QED  BY <2>2, <3>1 DEF Consistent, InOrder
  <2>. QED  BY <1>1, <1>2, <2>1, <2>2 DEF InOrder, serverVars
<1>11. CommandsInv'
  <2>1. \A j \in 1 .. Len(toClient') : Full(toClient'[j]) => AtEnd(commands, toClient'[j].upto)
    BY <1>6 DEF Consistent, CommandsInv
  <2>. QED  BY <1>1, <1>5, <2>1 DEF Consistent, CommandsInv, Quiet, serverVars
<1>12. MapsInv'
  <2>1. MapServer(E, C, D)' /\ MapToServer(E)'
    BY <1>1, <1>3 DEF MapInv, MapServer, IdsOfMaps, MapToServer, serverVars
  <2>2. MapClient(E, C, D)'
    BY <1>1, <1>2, <1>3, <1>5 DEF MapInv, MapClient
  <2>3. MapToClient(E, C, D)'
    BY <1>1, <1>3, <1>6 DEF MapInv, MapToClient, serverVars
  <2>. QED  BY <2>1, <2>2, <2>3 DEF MapsInv, MapInv
<1>13. MapGiven'
  BY <1>1, <1>6 DEF Consistent, MapGiven, serverVars
<1>. QED  BY <1>8, <1>9, <1>10, <1>11, <1>12, <1>13 DEF Consistent

LEMMA ParseStep ==
    ASSUME Consistent, CL_ParseServerMessage
    PROVE  Consistent'
<1>1. PICK k \in 1 .. Len(toClient) :
          /\ ParseGamestate(toClient[k]) \/ ParseSnapshot(toClient[k]) \/ ParseNop(toClient[k])
          /\ clLater' = toClient[k].later
          /\ toClient' = After(toClient, k)
          /\ UNCHANGED <<serverVars, bigConfigString, toServer, map, sets, strays, overtaken>>
  BY DEF CL_ParseServerMessage, Parse
<1>2. toClient[k] \in ServerMessage
  BY DEF Consistent, ChannelTypes
<1>3. clLater' \in BOOLEAN
  BY <1>1, <1>2, ServerMessages
<1>4. CASE ParseGamestate(toClient[k])
  BY <1>1, <1>3, <1>4, GamestateStep
<1>5. CASE ParseSnapshot(toClient[k]) \/ ParseNop(toClient[k])
  BY <1>1, <1>3, <1>5, SnapshotParsed
<1>. QED  BY <1>1, <1>4, <1>5

-----------------------------------------------------------------------------
\* cgame executes the commands it has been made known.

World == [strings |-> clStrings, serverId |-> clServerId, buffer |-> bigConfigString]

LEMMA ExecutionGives ==
    ASSUME Consistent, CG_ExecuteNewServerCommands
    PROVE  /\ clStrings' \in [Indexes -> Text \union {Garbled}] /\ bigConfigString' \in Buffers
           /\ clServerId' \in Nat /\ clServerId' = clStrings'[CS_SYSTEMINFO].id
           /\ cgSequence' = snap.num
           /\ cgSequence \in Nat /\ snap.num \in cgSequence .. Len(commands) /\ commands \in Seq(Command)
           /\ \A i \in Indexes : Gives(commands, cgSequence, snap.num, i, clStrings[i], clStrings'[i])
<1>1. PICK l \in Nat : l = Len(commands)
  BY DEF Consistent, ServerTypes
<1>2. PICK a \in Nat, b \in Nat, q \in {commands} : a = cgSequence /\ b = snap.num /\ q = commands
  BY DEF Consistent, ClientTypes
<1>3. a <= b /\ b <= l
  <2>1. PICK r \in Nat : r = reliableSent /\ r <= l
    BY <1>1 DEF Consistent, ServerTypes
  <2>2. a <= b /\ b <= r
    BY <1>2, <2>1 DEF Consistent, ClientTypes
  <2>. QED  BY <2>1, <2>2
<1>4. q \in Seq(Command) /\ Grouped(q) /\ LongOnly(q) /\ AtEnd(q, a) /\ a \in 0 .. Len(q) /\ b \in a .. Len(q)
  BY <1>1, <1>2, <1>3 DEF Consistent, ServerTypes, CommandsInv, WellFormed
<1>5. PICK w : w = World
  OBVIOUS
<1>6. w \in Worlds /\ w.strings = clStrings /\ w.serverId = clServerId /\ w.buffer = bigConfigString
  BY <1>5 DEF World, Worlds, Consistent, ServerTypes, SettingTypes, ClientTypes
<1>7. w.serverId = w.strings[CS_SYSTEMINFO].id
  BY <1>6 DEF Consistent, MapsInv, MapInv, MapClient
<1>8. PICK after : after = FoldLeft(Execute, w, SubSeq(q, a + 1, b) \o SubSeq(q, a + 1, b))
  OBVIOUS
<1>9. /\ clStrings' = after.strings /\ clServerId' = after.serverId /\ bigConfigString' = after.buffer
      /\ cgSequence' = b
  <2>1. after = FoldLeft(Execute, [strings |-> clStrings, serverId |-> clServerId,
                                   buffer |-> bigConfigString],
                         SubSeq(commands, cgSequence + 1, snap.num) \o SubSeq(commands, cgSequence + 1, snap.num))
    BY <1>2, <1>5, <1>8, Zenon DEF World
  <2>. QED  BY <1>2, <2>1, Zenon DEF CG_ExecuteNewServerCommands
<1>10. /\ after \in Worlds /\ after.serverId = after.strings[CS_SYSTEMINFO].id
       /\ \A i \in Indexes : Gives(q, a, b, i, w.strings[i], after.strings[i])
  BY <1>4, <1>6, <1>7, <1>8, Executed, Zenon
<1>11. /\ clStrings' \in [Indexes -> Text \union {Garbled}] /\ bigConfigString' \in Buffers
       /\ clServerId' \in Nat /\ clServerId' = clStrings'[CS_SYSTEMINFO].id
  BY <1>9, <1>10 DEF Worlds
<1>. QED  BY <1>1, <1>2, <1>3, <1>4, <1>6, <1>9, <1>10, <1>11

LEMMA ExecuteStep ==
    ASSUME Consistent, CG_ExecuteNewServerCommands
    PROVE  Consistent'
<1>1. UNCHANGED <<serverVars, snap, clLater, toClient, toServer, map, clMap, sets, strays, overtaken>>
  BY DEF CG_ExecuteNewServerCommands
<1>2. PICK a \in Nat, b \in Nat, r \in Nat, e \in Nat, w \in Nat :
          a = cgSequence /\ b = snap.num /\ r = reliableSent /\ e = serverId /\ w = map
  <2>1. cgSequence \in Nat /\ snap.num \in Nat
    BY DEF Consistent, ClientTypes
  <2>2. reliableSent \in Nat /\ serverId \in Nat /\ map \in Nat
    BY DEF Consistent, ServerTypes, SettingTypes
  <2>. QED  BY <2>1, <2>2
<1>3. a <= b /\ b <= r /\ b <= Len(commands)
  BY <1>2, ExecutionGives DEF Consistent, ClientTypes
<1>4. PICK E \in Nat, C \in Nat, D \in Nat : MapInv(E, C, D)
  BY DEF Consistent, MapsInv
<1>5. PICK id \in Nat, id2 \in Nat : id = clServerId /\ id2 = clServerId' /\ id <= e
  <2>1. clServerId \in Nat /\ clServerId <= e
    BY <1>2 DEF Consistent, ClientTypes
  <2>2. clServerId' \in Nat
    BY ExecutionGives
  <2>. QED  BY <2>1, <2>2
\* the server id is the one in the last new system info, which is of the client's map
<1>6. id2 <= e /\ (id2 >= E <=> clMap = w)
  <2>1. id = clStrings[CS_SYSTEMINFO].id /\ id2 = clStrings'[CS_SYSTEMINFO].id
    BY <1>4, <1>5, ExecutionGives DEF MapInv, MapClient
  <2>2. Gives(commands, a, b, CS_SYSTEMINFO, clStrings[CS_SYSTEMINFO], clStrings'[CS_SYSTEMINFO])
    BY <1>2, ExecutionGives, Constants
  <2>3. CASE clStrings[CS_SYSTEMINFO] = clStrings'[CS_SYSTEMINFO]
    BY <1>2, <1>4, <1>5, <2>1, <2>3 DEF MapInv, MapClient
  <2>4. CASE Latest(commands, a, b, CS_SYSTEMINFO, clStrings'[CS_SYSTEMINFO])
    <3>1. PICK n \in a + 1 .. b : commands[n].index = CS_SYSTEMINFO /\ commands[n].text = clStrings'[CS_SYSTEMINFO]
      BY <2>4 DEF Latest, Completes
    <3>2. PICK l \in Nat : l = Len(commands)
      BY DEF Consistent, ServerTypes
    <3>3. n \in 1 .. l /\ n > a /\ n <= b
      BY <1>3, <3>2
    <3>4. id2 <= e /\ (n <= C => id2 < E) /\ (n > D => id2 >= E)
      BY <1>2, <1>4, <2>1, <3>1, <3>2, <3>3 DEF MapInv, MapServer, IdsOfMaps
    <3>5. clMap < w => b <= C
      BY <1>2, <1>4 DEF MapInv, MapClient
    <3>6. clMap = w => a >= D
      BY <1>2, <1>4 DEF MapInv, MapClient
    <3>7. clMap < w \/ clMap = w
      BY <1>2 DEF Consistent, ClientTypes
    <3>8. CASE clMap = w
      <4>1. n > D
        BY <3>3, <3>6, <3>8
      <4>. QED  BY <3>4, <3>8, <4>1
    <3>9. CASE clMap < w
      <4>1. n <= C /\ clMap # w
        BY <1>2, <3>3, <3>5, <3>9 DEF Consistent, ClientTypes
      <4>. QED  BY <3>4, <4>1
    <3>. QED  BY <3>7, <3>8, <3>9
  <2>. QED  BY <2>2, <2>3, <2>4 DEF Gives
<1>7. ServerTypes' /\ ChannelTypes' /\ MovesOfThisMap'
  BY <1>1 DEF Consistent, ServerTypes, SettingTypes, ChannelTypes, MovesOfThisMap, serverVars
<1>8. ClientTypes'
  <2>1. clServerId' \in 0 .. serverId' /\ cgSequence' \in 0 .. snap'.num
    BY <1>1, <1>2, <1>5, <1>6, ExecutionGives DEF serverVars
  <2>. QED  BY <1>1, <2>1, ExecutionGives DEF Consistent, ClientTypes, serverVars
<1>9. InOrder' /\ MapGiven'
  BY <1>1 DEF Consistent, InOrder, MapGiven, serverVars
<1>10. CommandsInv'
  BY <1>1, ExecutionGives DEF Consistent, CommandsInv, Quiet, serverVars
<1>11. MapServer(E, C, D)' /\ MapToClient(E, C, D)' /\ MapToServer(E)'
  BY <1>1, <1>4 DEF MapInv, MapServer, IdsOfMaps, MapToClient, MapToServer, serverVars
<1>12. MapClient(E, C, D)'
  <2>1. clMap = w => b >= D
    BY <1>2, <1>3, <1>4 DEF MapInv, MapClient, MapServer
  <2>. QED  BY <1>1, <1>2, <1>4, <1>5, <1>6, <2>1, ExecutionGives DEF MapInv, MapClient
<1>. QED  BY <1>4, <1>7, <1>8, <1>9, <1>10, <1>11, <1>12 DEF Consistent, MapsInv, MapInv

-----------------------------------------------------------------------------
\* The server receives.

\* What the packet says of the client's map becomes what the server has acknowledged.
LEMMA PacketReceived ==
    ASSUME Consistent, NEW k \in 1 .. Len(toServer), NEW rest, rest = After(toServer, k),
           serverIdAcknowledge' = toServer[k].serverId,
           toServer' = rest \/ toServer' = NotLater(rest), UNCHANGED <<serverId, map, clMap>>
    PROVE  /\ toServer' \in Seq(ClientPacket) /\ serverIdAcknowledge' \in 0 .. serverId
           /\ \A E \in Nat : MapToServer(E) => MapToServer(E)'
<1>1. PICK p \in Nat, w \in Nat, c \in Nat, e \in Nat :
          p = Len(toServer) /\ w = map /\ c = clMap /\ c <= w /\ e = serverId
  <2>1. Len(toServer) \in Nat /\ map \in Nat /\ serverId \in Nat
    BY DEF Consistent, ChannelTypes, ServerTypes, SettingTypes
  <2>2. clMap \in Nat /\ clMap <= map
    BY <2>1 DEF Consistent, ClientTypes
  <2>. QED  BY <2>1, <2>2
<1>2. /\ rest \in Seq(ClientPacket) /\ Len(rest) = p - k
      /\ \A j \in 1 .. p - k : rest[j] = toServer[j + k]
  <2>1. toServer \in Seq(ClientPacket) /\ k \in 0 .. Len(toServer)
    BY <1>1 DEF Consistent, ChannelTypes
  <2>. QED  BY <1>1, <2>1, SuffixElements DEF After
<1>3. \A j \in 1 .. p - k : j + k \in 1 .. p
  BY <1>1
<1>4. /\ toServer' \in Seq(ClientPacket) /\ Len(toServer') = p - k
      /\ \A j \in 1 .. p - k : SamePacket(toServer'[j], toServer[j + k])
  <2>1. CASE toServer' = rest
    BY <1>2, <2>1 DEF SamePacket
  <2>2. CASE toServer' = NotLater(rest)
    <3>1. /\ NotLater(rest) \in Seq(ClientPacket) /\ Len(NotLater(rest)) = Len(rest)
          /\ \A j \in 1 .. Len(rest) : SamePacket(NotLater(rest)[j], rest[j])
      BY <1>2, NotLaterElements
    <3>2. ASSUME NEW j \in 1 .. p - k PROVE SamePacket(NotLater(rest)[j], toServer[j + k])
      <4>1. rest[j] = toServer[j + k] /\ j \in 1 .. Len(rest)
        BY <1>2
      <4>. QED  BY <3>1, <4>1
    <3>. QED  BY <1>2, <2>2, <3>1, <3>2
  <2>. QED  BY <2>1, <2>2
<1>5. toServer[k] \in ClientPacket
  BY DEF Consistent, ChannelTypes
<1>6. PICK id \in Nat, n \in Nat : id = toServer[k].serverId /\ n = toServer[k].map
  BY <1>5 DEF ClientPacket
<1>7. id <= e
  BY <1>1, <1>6 DEF Consistent, MapsInv, MapInv, MapToServer
<1>8. ASSUME NEW E \in Nat, MapToServer(E) PROVE MapToServer(E)'
  <2>1. id >= E => c = w
    <3>1. n <= c /\ (id >= E <=> n = w)
      BY <1>1, <1>6, <1>8 DEF MapToServer
    <3>. QED  BY <1>1, <3>1
  <2>2. ASSUME NEW j \in 1 .. p - k
        PROVE  /\ toServer'[j].serverId <= serverId /\ toServer'[j].map <= clMap
               /\ toServer'[j].serverId >= E <=> toServer'[j].map = map
    <3>1. j + k \in 1 .. Len(toServer) /\ SamePacket(toServer'[j], toServer[j + k])
      BY <1>1, <1>3, <1>4
    <3>. QED  BY <1>8, <3>1 DEF MapToServer, SamePacket
  <2>. QED  BY <1>1, <1>4, <1>6, <2>1, <2>2 DEF MapToServer
<1>. QED  BY <1>1, <1>4, <1>6, <1>7, <1>8

LEMMA ReceiveStep ==
    ASSUME Consistent, SV_ExecuteClientMessage
    PROVE  Consistent'
<1>1. PICK k \in 1 .. Len(toServer) : ReceivePacket(k)
  BY DEF SV_ExecuteClientMessage, Receive
<1>2. PICK m, rest : m = toServer[k] /\ rest = After(toServer, k)
  OBVIOUS
<1>3. /\ serverIdAcknowledge' = m.serverId
      /\ ResendGameState(m, rest) \/ IgnorePacket(m, rest) \/ ExecuteMove(m, rest)
      /\ UNCHANGED <<serverId, restartedServerId, configstrings, clServerId, clStrings,
                     bigConfigString, snap, cgSequence, map, clMap, sets>>
  BY <1>1, <1>2 DEF ReceivePacket
<1>4. toServer' = rest \/ toServer' = NotLater(rest)
  BY <1>3 DEF ResendGameState, IgnorePacket, ExecuteMove
<1>5. /\ toServer' \in Seq(ClientPacket) /\ serverIdAcknowledge' \in 0 .. serverId
      /\ \A E \in Nat : MapToServer(E) => MapToServer(E)'
  BY <1>2, <1>3, <1>4, PacketReceived
<1>6. /\ serverId <= serverId' /\ restartedServerId <= restartedServerId'
      /\ configstrings'[CS_SYSTEMINFO] = configstrings[CS_SYSTEMINFO]
      /\ state \in {"FREE", "CONNECTED", "PRIMED", "ACTIVE"} /\ overtaken \in BOOLEAN
  BY <1>3 DEF Consistent, ServerTypes, SettingTypes
<1>7. CASE ResendGameState(m, rest)
  <2>. DEFINE g == [Message("gamestate") EXCEPT !.later = FALSE]
  <2>1. /\ state' = "PRIMED" /\ reliableSent' = Len(commands) /\ toClient' = Send(NotLater(toClient), g)
        /\ clLater' = FALSE /\ UNCHANGED <<commands, csUpdated, strays>>
    BY <1>7 DEF ResendGameState
  <2>2. g \in ServerMessage
    BY Messages
  <2>3. /\ g.kind = "gamestate" /\ g.upto = Len(commands) /\ g.map = map /\ g.strings = configstrings
    BY DEF Message
  <2>4. overtaken' \in BOOLEAN
    BY <1>6, <1>7 DEF ResendGameState
  <2>5. Quiet'
    BY <2>1 DEF Quiet
  <2>. HIDE DEF g
  <2>. QED  BY <1>3, <1>5, <2>1, <2>2, <2>3, <2>4, <2>5, MessageStep
<1>8. CASE IgnorePacket(m, rest)
  <2>1. UNCHANGED <<state, reliableSent, commands, csUpdated, toClient, clLater, strays, overtaken>>
    BY <1>8 DEF IgnorePacket
  <2>2. Continues(commands, commands', reliableSent, configstrings', {})
    BY <1>3, <2>1, Unchanged
  <2>3. SettingTypes'
    BY <1>3, <1>5, <2>1 DEF Consistent, ServerTypes, SettingTypes
  <2>4. Quiet' /\ MovesOfThisMap'
    BY <2>1 DEF Consistent, CommandsInv, Quiet, MovesOfThisMap
  <2>5. UNCHANGED clientVars
    BY <1>3, <2>1 DEF clientVars
  <2>. QED  BY <1>3, <1>5, <1>6, <2>1, <2>2, <2>3, <2>4, <2>5, ServerStep
<1>9. CASE ExecuteMove(m, rest)
  <2>1. /\ UNCHANGED <<reliableSent, toClient, clLater, overtaken>>
        /\ EnterWorld \/ UNCHANGED <<state, commands, csUpdated>>
        /\ m.serverId = serverId
    BY <1>9 DEF ExecuteMove, OfOtherMap
  <2>2. \E U : Continues(commands, commands', reliableSent, configstrings', U)
    BY <1>3, <2>1, Entering, Unchanged
  <2>3. /\ Quiet' /\ csUpdated' \in {csUpdated, {}} /\ state' \in {state, "ACTIVE"}
        /\ state' \in {"FREE", "CONNECTED"} => state \in {"FREE", "CONNECTED"}
    <3>1. CASE EnterWorld
      BY <1>3, <3>1, Entering
    <3>2. CASE UNCHANGED <<state, commands, csUpdated>>
      BY <2>1, <3>2 DEF Consistent, CommandsInv, Quiet
    <3>. QED  BY <2>1, <3>1, <3>2
  <2>4. SettingTypes'
    BY <1>3, <1>5, <2>1, <2>3 DEF Consistent, ServerTypes, SettingTypes
  <2>5. MovesOfThisMap'
    <3>1. PICK E \in Nat, C \in Nat, D \in Nat : MapInv(E, C, D)
      BY DEF Consistent, MapsInv
    <3>2. E <= serverId
      <4>1. E \in 1 .. restartedServerId /\ restartedServerId \in 1 .. serverId
        BY <3>1 DEF MapInv, MapServer, Consistent, ServerTypes, SettingTypes
      <4>2. serverId \in Nat
        BY DEF Consistent, ServerTypes, SettingTypes
      <4>. QED  BY <4>1, <4>2
    <3>3. m.map = map
      BY <1>2, <2>1, <3>1, <3>2 DEF MapInv, MapToServer
    <3>4. strays' = strays
      BY <1>9, <3>3 DEF ExecuteMove
    <3>. QED  BY <3>4 DEF Consistent, MovesOfThisMap
  <2>6. UNCHANGED clientVars
    BY <1>3, <2>1 DEF clientVars
  <2>. QED  BY <1>3, <1>5, <1>6, <2>1, <2>2, <2>3, <2>4, <2>5, <2>6, ServerStep
<1>. QED  BY <1>3, <1>7, <1>8, <1>9

-----------------------------------------------------------------------------
\* The invariant holds.

LEMMA ConsistentInit == Init => Consistent
<1>. SUFFICES ASSUME Init PROVE Consistent
  OBVIOUS
<1>1. SystemInfo(1) \in Text /\ SystemInfo(1).id = 1 /\ SystemInfo(1).length = "short"
      /\ Empty \in Text /\ Empty.length = "short" /\ Empty.id = 0 /\ MaxServerId \in Nat \ {0}
  BY Constants, BoundsAssumption DEF SystemInfo, Empty
<1>2. /\ configstrings \in [Indexes -> Text] /\ configstrings[CS_SYSTEMINFO].id = 1
      /\ \A i \in Indexes : configstrings[i].length = "short"
      /\ clStrings \in [Indexes -> Text \union {Garbled}] /\ clStrings[CS_SYSTEMINFO].id = 0
  BY <1>1, Constants DEF Init, Blank
<1>3. ServerTypes
  <2>1. /\ csUpdated \subseteq Indexes /\ \E b \in Nat : \A i \in csUpdated : i <= b
    BY DEF Init
  <2>2. /\ commands \in Seq(Command) /\ reliableSent \in 0 .. Len(commands)
    BY DEF Init
  <2>3. /\ state \in {"FREE", "CONNECTED", "PRIMED", "ACTIVE"}
        /\ serverId \in 1 .. MaxServerId /\ restartedServerId \in 1 .. serverId
        /\ serverIdAcknowledge \in 0 .. serverId
        /\ map \in Nat /\ sets \in Nat /\ overtaken \in BOOLEAN
    <3>1. state = "FREE" /\ serverId = 1 /\ restartedServerId = 1 /\ serverIdAcknowledge = 0
          /\ map = 1 /\ sets = 0
      BY DEF Init
    <3>2. overtaken \in BOOLEAN
      BY DEF Init
    <3>3. serverId \in 1 .. MaxServerId /\ restartedServerId \in 1 .. serverId
      BY <1>1, <3>1
    <3>. QED  BY <3>1, <3>2, <3>3
  <2>4. \A i \in Indexes : configstrings[i].length = "long" => MayBeLong(i)
    BY <1>2
  <2>. QED  BY <1>2, <2>1, <2>2, <2>3, <2>4 DEF ServerTypes, SettingTypes
<1>4. ClientTypes
  <2>1. bigConfigString \in Buffers
    BY Constants DEF Init, NoBuffer, Buffers
  <2>. QED  BY <1>2, <2>1 DEF Init, ClientTypes
<1>5. toClient = <<>> /\ toServer = <<>> /\ commands = <<>> /\ Len(<<>>) = 0
      /\ \A k \in 1 .. 0 : FALSE
  BY DEF Init
<1>6. ChannelTypes /\ InOrder
  BY <1>5 DEF ChannelTypes, InOrder
<1>7. CommandsInv
  <2>1. reliableSent = 0 /\ snap.num = 0 /\ cgSequence = 0 /\ csUpdated = {} /\ state = "FREE"
    BY DEF Init
  <2>2. \A k \in 0 + 1 .. 0 : FALSE
    OBVIOUS
  <2>3. WellFormed(<<>>, 0)
    BY <1>5, <2>2 DEF WellFormed, Grouped, LongOnly, PendingOnce, AtEnd
  <2>. QED  BY <1>5, <2>1, <2>3 DEF CommandsInv, Quiet, AtEnd
<1>8. MapsInv
  <2>1. MapServer(1, 0, 0)
    BY <1>2, <1>5 DEF Init, MapServer, IdsOfMaps
  <2>2. MapClient(1, 0, 0)
    BY <1>2 DEF Init, MapClient
  <2>3. MapToClient(1, 0, 0) /\ MapToServer(1)
    BY <1>5 DEF Init, MapToClient, MapToServer
  <2>. QED  BY <2>1, <2>2, <2>3 DEF MapsInv, MapInv
<1>9. MapGiven /\ MovesOfThisMap
  BY <1>5 DEF Init, MapGiven, MovesOfThisMap
<1>. QED  BY <1>3, <1>4, <1>6, <1>7, <1>8, <1>9 DEF Consistent

LEMMA ConsistentStep == Consistent /\ [Next]_vars => Consistent'
<1>. SUFFICES ASSUME Consistent, [Next]_vars PROVE Consistent'
  OBVIOUS
<1>1. CASE SV_SetConfigstring
  <2>1. PICK i \in DOMAIN Lengths : \E length \in Lengths[i] :
                SetConfigstring(i, [length |-> length, id |-> sets + 1])
    BY <1>1 DEF SV_SetConfigstring
  <2>2. PICK length \in Lengths[i] : SetConfigstring(i, [length |-> length, id |-> sets + 1])
    BY <2>1
  <2>3. sets \in Nat /\ sets' = sets + 1
    BY <1>1 DEF SV_SetConfigstring, Consistent, ServerTypes, SettingTypes
  <2>4. i \in Indexes /\ i # CS_SYSTEMINFO /\ length \in {"short", "long"} /\ (length = "long" => MayBeLong(i))
    BY LengthsAssumption DEF Indexes, CS_SYSTEMINFO, MayBeLong
  <2>5. [length |-> length, id |-> sets + 1] \in Text
    BY <2>3, <2>4 DEF Text
  <2>. QED  BY <2>2, <2>3, <2>4, <2>5, SettingStep
<1>2. CASE SV_Frame
  <2>1. serverId \in Nat /\ sets' \in Nat
    BY <1>2 DEF SV_Frame, Consistent, ServerTypes, SettingTypes
  <2>2. SystemInfo(serverId) \in Text /\ SystemInfo(serverId).length = "short"
        /\ SystemInfo(serverId).id = serverId
    BY <2>1 DEF SystemInfo, Text
  <2>3. SetConfigstring(CS_SYSTEMINFO, SystemInfo(serverId)) /\ CS_SYSTEMINFO \in Indexes
    BY <1>2, Constants DEF SV_Frame
  <2>. QED  BY <2>1, <2>2, <2>3, SettingStep
<1>3. CASE SV_DirectConnect
  BY <1>3, ConnectStep
<1>4. CASE SV_SpawnServer
  BY <1>4, LoadStep, RestartStep DEF SV_SpawnServer
<1>5. CASE SV_SendClientSnapshot
  BY <1>5, SnapshotStep
<1>6. CASE CL_WritePacket
  BY <1>6, PacketStep
<1>7. CASE CL_ParseServerMessage
  BY <1>7, ParseStep
<1>8. CASE CG_ExecuteNewServerCommands
  BY <1>8, ExecuteStep
<1>9. CASE SV_ExecuteClientMessage
  BY <1>9, ReceiveStep
<1>10. CASE UNCHANGED vars
  <2>. USE <1>10 DEF vars, serverVars, clientVars, Consistent
  <2>1. ServerTypes' /\ ClientTypes' /\ ChannelTypes'
    BY DEF ServerTypes, SettingTypes, ClientTypes, ChannelTypes
  <2>2. InOrder' /\ MapGiven' /\ MovesOfThisMap'
    BY DEF InOrder, MapGiven, MovesOfThisMap
  <2>3. CommandsInv'
    BY DEF CommandsInv, Quiet
  <2>4. ASSUME NEW E \in Nat, NEW C \in Nat, NEW D \in Nat, MapInv(E, C, D) PROVE MapInv(E, C, D)'
    <3>1. MapServer(E, C, D)' /\ MapClient(E, C, D)'
      BY <2>4 DEF MapInv, MapServer, IdsOfMaps, MapClient
    <3>2. MapToClient(E, C, D)' /\ MapToServer(E)'
      BY <2>4 DEF MapInv, MapToClient, MapToServer
    <3>. QED  BY <3>1, <3>2 DEF MapInv
  <2>. QED  BY <2>1, <2>2, <2>3, <2>4 DEF MapsInv
<1>. QED  BY <1>1, <1>2, <1>3, <1>4, <1>5, <1>6, <1>7, <1>8, <1>9, <1>10 DEF Next

\* In every state the types are right, the numbers of commands and the maps that messages, client
\* and server know of are in order, and server ids tell the maps apart.
THEOREM ConfigstringsInvariant == Spec => []Consistent
BY ConsistentInit, ConsistentStep, PTL DEF Spec

LEMMA ConsistentTypes == Consistent => TypeOK
<1>. SUFFICES ASSUME Consistent PROVE TypeOK
  OBVIOUS
<1>1. PICK l \in Nat, r \in Nat : l = Len(commands) /\ r = reliableSent /\ r <= l
  BY DEF Consistent, ServerTypes
<1>2. snap.num \in 0 .. l /\ cgSequence \in 0 .. snap.num
  BY <1>1 DEF Consistent, ClientTypes
<1>3. SettingTypes /\ reliableSent \in 0 .. Len(commands)
  BY DEF Consistent, ServerTypes
<1>4. /\ clServerId \in 0 .. serverId /\ clStrings \in [Indexes -> Text \union {Garbled}]
      /\ clMap \in 0 .. map /\ clLater \in BOOLEAN
  BY DEF Consistent, ClientTypes
<1>. QED  BY <1>1, <1>2, <1>3, <1>4 DEF TypeOK, SettingTypes

\* The values of all variables are of their types: what the client knows and has executed never
\* gets ahead of what was issued, nor its map and server id of the server's.
THEOREM TypeCorrect == Spec => []TypeOK
BY ConfigstringsInvariant, ConsistentTypes, PTL

\* A snapshot of one map never reaches a client that has loaded another.
THEOREM SnapshotsStayInMap == Spec => []SnapshotsOfThisMap
<1>1. Consistent => SnapshotsOfThisMap
  BY DEF Consistent, MapsInv, MapInv, MapClient, SnapshotsOfThisMap
<1>. QED  BY <1>1, ConfigstringsInvariant, PTL

\* Moves made in one map are never executed in another.
THEOREM MovesStayInMap == Spec => []MovesOfThisMap
<1>1. Consistent => MovesOfThisMap
  BY DEF Consistent
<1>. QED  BY <1>1, ConfigstringsInvariant, PTL

-----------------------------------------------------------------------------
\* The client will agree.

LEMMA AgreementKept ==
    ASSUME Consistent, AgreementInv, UNCHANGED <<clMap, map, clStrings, cgSequence, toClient>>,
           \A strings : \A n \in 0 .. reliableSent : WillAgree(strings, n) => WillAgree(strings, n)'
    PROVE  AgreementInv'
<1>1. PICK r \in Nat : r = reliableSent
  BY DEF Consistent, ServerTypes
<1>2. ASSUME clMap = map PROVE WillAgree(clStrings, cgSequence)'
  <2>1. cgSequence \in 0 .. reliableSent
    BY <1>1 DEF Consistent, ClientTypes
  <2>a. PICK n \in 0 .. reliableSent : n = cgSequence
    BY <2>1
  <2>b. PICK strings : strings = clStrings
    OBVIOUS
  <2>2. strings = clStrings /\ n = cgSequence
    BY <2>a, <2>b
  <2>3. WillAgree(strings, n)'
    BY <1>2, <2>2 DEF AgreementInv
  <2>4. clStrings' = strings /\ cgSequence' = n
    BY <2>2
  <2>. QED  BY <2>3, <2>4 DEF WillAgree
<1>3. ASSUME NEW k \in 1 .. Len(toClient), toClient[k].kind = "gamestate", toClient[k].map = map
      PROVE  WillAgree(toClient[k].strings, toClient[k].upto)'
  <2>1. Full(toClient[k]) /\ toClient[k] \in ServerMessage
    BY <1>3 DEF Full, Consistent, ChannelTypes
  <2>2. toClient[k].upto \in Nat /\ toClient[k].upto <= reliableSent
    BY <2>1, ServerMessages DEF Consistent, InOrder
  <2>a. PICK n \in 0 .. reliableSent : n = toClient[k].upto
    BY <1>1, <2>2
  <2>b. PICK strings : strings = toClient[k].strings
    OBVIOUS
  <2>3. strings = toClient[k].strings /\ n = toClient[k].upto
    BY <2>a, <2>b
  <2>4. WillAgree(strings, n)'
    BY <1>3, <2>3 DEF AgreementInv
  <2>5. toClient'[k].strings = strings /\ toClient'[k].upto = n
    BY <2>3
  <2>. QED  BY <2>4, <2>5 DEF WillAgree
<1>. QED  BY <1>2, <1>3 DEF AgreementInv

LEMMA NothingGiven ==
    ASSUME Consistent', state' \in {"FREE", "CONNECTED"}
    PROVE  AgreementInv'
<1>1. /\ clMap' < map' /\ clMap' \in Nat /\ map' \in Nat
      /\ \A k \in 1 .. Len(toClient') : toClient'[k].kind = "gamestate" => toClient'[k].map < map'
  BY DEF Consistent, MapGiven, ClientTypes, ServerTypes, SettingTypes
<1>2. ASSUME NEW k \in 1 .. Len(toClient'), toClient'[k].kind = "gamestate" PROVE toClient'[k].map # map'
  <2>1. toClient'[k] \in ServerMessage
    BY DEF Consistent, ChannelTypes
  <2>2. toClient'[k].map \in Nat /\ toClient'[k].map < map'
    BY <1>1, <1>2, <2>1, ServerMessages DEF Full
  <2>. QED  BY <1>1, <2>2
<1>. QED  BY <1>1, <1>2 DEF AgreementInv

LEMMA AgreesWhenSet ==
    ASSUME Consistent, state \in {"PRIMED", "ACTIVE"}, NEW i \in Indexes, NEW text \in Text,
           text.length = "long" => MayBeLong(i), SetConfigstring(i, text),
           NEW strings, NEW n \in 0 .. reliableSent, WillAgree(strings, n)
    PROVE  WillAgree(strings, n)'
<1>1. PICK r \in Nat : r = reliableSent /\ n \in 0 .. r /\ n \in Nat
  BY DEF Consistent, ServerTypes
<1>2. state' = state
  BY DEF SetConfigstring
<1>3. ASSUME NEW j \in Indexes, j # i
      PROVE  \/ state' = "PRIMED" /\ j \in csUpdated'
             \/ j \in misordered'
             \/ Gives(commands', n, Len(commands'), j, strings[j], configstrings'[j])
  <2>1. CASE state = "PRIMED" /\ j \in csUpdated
    BY <1>2, <2>1 DEF SetConfigstring, Broadcast, RememberUpdate
  <2>2. CASE Gives(commands, n, Len(commands), j, strings[j], configstrings[j])
    <3>1. PICK q \in Seq(Command), q2 \in {commands'}, cs \in {configstrings'} :
                  q = commands /\ q2 = commands' /\ cs = configstrings'
      BY DEF Consistent, ServerTypes
    <3>2. Continues(q, q2, r, cs, {i}) /\ j \notin {i}
      BY <1>1, <1>3, <3>1, SettingAdds
    <3>3. Gives(q, n, Len(q), j, strings[j], cs[j])
      BY <1>3, <2>2, <3>1, SettingAdds
    <3>4. Gives(q2, n, Len(q2), j, strings[j], cs[j])
      BY <1>1, <3>2, <3>3, GivesStays
    <3>. QED  BY <3>1, <3>4
  <2>3. CASE j \in misordered
    BY <1>3, <2>3, SettingAdds
  <2>. QED  BY <2>1, <2>2, <2>3 DEF WillAgree
<1>4. \/ state' = "PRIMED" /\ i \in csUpdated'
      \/ i \in misordered'
      \/ Gives(commands', n, Len(commands'), i, strings[i], configstrings'[i])
  <2>1. CASE state = "PRIMED"
    BY <1>2, <2>1 DEF SetConfigstring, Broadcast, RememberUpdate
  <2>2. CASE state = "ACTIVE"
    <3>. SUFFICES ASSUME i \notin misordered'
                  PROVE  Gives(commands', n, Len(commands'), i, strings[i], configstrings'[i])
      OBVIOUS
    <3>2. Latest(commands', reliableSent, Len(commands'), i, text) /\ configstrings'[i] = text
      BY <2>2, SettingAdds
    <3>3. Len(commands') \in Nat
      BY SettingAdds DEF Continues
    <3>4. PICK l2 \in Nat, q2 \in {commands'} : l2 = Len(commands') /\ q2 = commands'
      BY <3>3
    <3>5. Latest(q2, r, l2, i, text)
      BY <1>1, <3>2, <3>4
    <3>6. Gives(q2, n, l2, i, strings[i], text)
      BY <1>1, <3>5, LatestGives
    <3>. QED  BY <3>2, <3>4, <3>6
  <2>. QED  BY <2>1, <2>2
<1>. QED  BY <1>3, <1>4 DEF WillAgree

LEMMA AgreesOnEntering ==
    ASSUME Consistent, EnterWorld, UNCHANGED <<configstrings, misordered>>,
           NEW strings, NEW n \in 0 .. reliableSent, WillAgree(strings, n)
    PROVE  WillAgree(strings, n)'
<1>1. PICK r \in Nat : r = reliableSent /\ n \in 0 .. r /\ n \in Nat
  BY DEF Consistent, ServerTypes
<1>2. PICK q \in Seq(Command), q2 \in {commands'}, cs \in {configstrings}, U \in {csUpdated} :
              q = commands /\ q2 = commands' /\ cs = configstrings /\ U = csUpdated
  BY DEF Consistent, ServerTypes
<1>3. Continues(q, q2, r, cs, U) /\ \A i \in U : Latest(q2, r, Len(q2), i, cs[i])
  BY <1>1, <1>2, Entering
<1>4. PICK l2 \in Nat : l2 = Len(q2)
  BY <1>3 DEF Continues
<1>5. ASSUME NEW i \in Indexes, i \notin misordered PROVE Gives(q2, n, Len(q2), i, strings[i], cs[i])
  <2>1. CASE i \in U
    <3>1. Latest(q2, r, l2, i, cs[i])
      BY <1>3, <1>4, <2>1
    <3>. QED  BY <1>1, <1>4, <3>1, LatestGives
  <2>2. CASE i \notin U
    <3>1. Gives(q, n, Len(q), i, strings[i], cs[i])
      BY <1>2, <1>5, <2>2 DEF WillAgree
    <3>. QED  BY <1>1, <1>3, <2>2, <3>1, GivesStays
  <2>. QED  BY <2>1, <2>2
<1>. QED  BY <1>2, <1>5 DEF WillAgree

LEMMA AgreementSame ==
    ASSUME AgreementInv, UNCHANGED <<state, csUpdated, commands, configstrings, map, clMap,
                                     clStrings, cgSequence, toClient, misordered>>
    PROVE  AgreementInv'
BY DEF AgreementInv, WillAgree

\* A new game state has the strings of the server, and makes all commands known.
LEMMA AgreementSent ==
    ASSUME Consistent, AgreementInv,
           NEW m \in ServerMessage, NEW c1, c1 = toClient \/ c1 = NotLater(toClient),
           toClient' = Send(c1, m),
           UNCHANGED <<csUpdated, commands, configstrings, map, clMap, clStrings, cgSequence,
                       misordered>>,
           state' = state \/ state' = "PRIMED",
           m.kind = "gamestate" => m.upto = Len(commands) /\ m.strings = configstrings
    PROVE  AgreementInv'
<1>1. toClient' \in Seq(ServerMessage) /\ Sent(toClient', toClient, m)
  <2>1. toClient \in Seq(ServerMessage)
    BY DEF Consistent, ChannelTypes
  <2>2. PICK c, after : c = toClient /\ after = toClient'
    OBVIOUS
  <2>3. c \in Seq(ServerMessage) /\ (c1 = c \/ c1 = NotLater(c)) /\ after = Send(c1, m)
    BY <2>1, <2>2
  <2>4. after \in Seq(ServerMessage) /\ Sent(after, c, m)
    BY <2>3, MessageSent
  <2>. QED  BY <2>2, <2>4, Zenon
<1>2. PICK p \in Nat : p = Len(toClient)
  BY DEF Consistent, ChannelTypes
<1>3. PICK d \in {0, 1} : /\ Len(toClient') = p - d + 1
                          /\ \A k \in 1 .. p - d : SameMessage(toClient'[k], toClient[k + d])
                          /\ toClient'[p - d + 1] = m
  BY <1>1, <1>2, Zenon DEF Sent
<1>4. ASSUME NEW strings, NEW n, WillAgree(strings, n) PROVE WillAgree(strings, n)'
  BY <1>4 DEF WillAgree
<1>5. ASSUME clMap = map PROVE WillAgree(clStrings, cgSequence)'
  BY <1>5 DEF AgreementInv, WillAgree
<1>6. ASSUME NEW k \in 1 .. Len(toClient'), toClient'[k].kind = "gamestate", toClient'[k].map = map
      PROVE  WillAgree(toClient[k].strings, toClient[k].upto)'
  <2>1. k = p - d + 1 \/ (k \in 1 .. p - d /\ k + d \in 1 .. p)
    BY <1>3
  <2>2. CASE k = p - d + 1
    <3>1. toClient'[k].upto = Len(commands) /\ toClient'[k].strings = configstrings
      BY <1>3, <1>6, <2>2
    <3>2. PICK l \in Nat : l = Len(commands)
      BY DEF Consistent, ServerTypes
    <3>3. \A j \in l + 1 .. l : FALSE
      BY <3>2
    <3>. QED  BY <3>1, <3>2, <3>3 DEF WillAgree, Gives
  <2>3. CASE k \in 1 .. p - d /\ k + d \in 1 .. p
    <3>1. SameMessage(toClient'[k], toClient[k + d])
      BY <1>3, <2>3
    <3>2. /\ toClient[k + d].kind = "gamestate" /\ toClient[k + d].map = map
          /\ toClient'[k].strings = toClient[k + d].strings /\ toClient'[k].upto = toClient[k + d].upto
      BY <1>6, <3>1 DEF SameMessage, Full
    <3>3. PICK strings, n : strings = toClient'[k].strings /\ n = toClient'[k].upto
      OBVIOUS
    <3>4. WillAgree(strings, n)
      BY <1>2, <2>3, <3>2, <3>3 DEF AgreementInv
    <3>5. WillAgree(strings, n)'
      BY <1>4, <3>4
    <3>. QED  BY <3>3, <3>5 DEF WillAgree
  <2>. QED  BY <2>1, <2>2, <2>3
<1>. QED  BY <1>5, <1>6 DEF AgreementInv

\* The client takes over what the game state said.
LEMMA AgreementParsed ==
    ASSUME Consistent, AgreementInv, CL_ParseServerMessage
    PROVE  AgreementInv'
<1>1. PICK k \in 1 .. Len(toClient) :
          /\ ParseGamestate(toClient[k]) \/ ParseSnapshot(toClient[k]) \/ ParseNop(toClient[k])
          /\ toClient' = After(toClient, k)
          /\ UNCHANGED <<serverVars, map, misordered>>
  BY DEF CL_ParseServerMessage, Parse
<1>2. \A j \in 1 .. Len(toClient') : j + k \in 1 .. Len(toClient) /\ toClient'[j] = toClient[j + k]
  BY <1>1, FewerMessages
<1>3. ASSUME NEW strings, NEW n, WillAgree(strings, n) PROVE WillAgree(strings, n)'
  BY <1>1, <1>3 DEF WillAgree, serverVars
<1>4. ASSUME clMap' = map PROVE WillAgree(clStrings, cgSequence)'
  <2>1. CASE ParseGamestate(toClient[k])
    <3>1. /\ toClient[k].kind = "gamestate" /\ toClient[k].map = map
          /\ clStrings' = toClient[k].strings /\ cgSequence' = toClient[k].upto
      BY <1>4, <2>1 DEF ParseGamestate, Mark, FirstToExecute
    <3>2. PICK strings, n : strings = clStrings' /\ n = cgSequence'
      OBVIOUS
    <3>3. WillAgree(strings, n)
      BY <3>1, <3>2 DEF AgreementInv
    <3>4. WillAgree(strings, n)'
      BY <1>3, <3>3
    <3>. QED  BY <3>2, <3>4 DEF WillAgree
  <2>2. CASE ParseSnapshot(toClient[k]) \/ ParseNop(toClient[k])
    <3>1. UNCHANGED <<clStrings, cgSequence, clMap>>
      BY <2>2 DEF ParseSnapshot, ParseNop
    <3>2. PICK strings, n : strings = clStrings /\ n = cgSequence
      OBVIOUS
    <3>3. WillAgree(strings, n)
      BY <1>4, <3>1, <3>2 DEF AgreementInv
    <3>4. WillAgree(strings, n)'
      BY <1>3, <3>3
    <3>. QED  BY <3>1, <3>2, <3>4 DEF WillAgree
  <2>. QED  BY <1>1, <2>1, <2>2
<1>5. ASSUME NEW j \in 1 .. Len(toClient'), toClient'[j].kind = "gamestate", toClient'[j].map = map
      PROVE  WillAgree(toClient[j].strings, toClient[j].upto)'
  <2>1. j + k \in 1 .. Len(toClient) /\ toClient'[j] = toClient[j + k]
    BY <1>2
  <2>2. PICK strings, n : strings = toClient'[j].strings /\ n = toClient'[j].upto
    OBVIOUS
  <2>3. WillAgree(strings, n)
    BY <1>5, <2>1, <2>2 DEF AgreementInv
  <2>4. WillAgree(strings, n)'
    BY <1>3, <2>3
  <2>. QED  BY <2>2, <2>4 DEF WillAgree
<1>. QED  BY <1>1, <1>4, <1>5 DEF AgreementInv

\* What was executed is behind the client; the rest gives what the whole gave.
LEMMA AgreementExecuted ==
    ASSUME Consistent, AgreementInv, CG_ExecuteNewServerCommands
    PROVE  AgreementInv'
<1>1. UNCHANGED <<serverVars, toClient, map, clMap, misordered>>
  BY DEF CG_ExecuteNewServerCommands
<1>2. PICK q, old, new, cs : q = commands /\ old = clStrings /\ new = clStrings' /\ cs = configstrings
  OBVIOUS
<1>3. PICK l \in Nat : l = Len(q)
  BY <1>2 DEF Consistent, ServerTypes
<1>4. PICK f \in Nat : f = cgSequence
  BY ExecutionGives
<1>5. PICK m \in Nat : m = snap.num /\ f <= m /\ m <= l
  BY <1>2, <1>3, <1>4, ExecutionGives
<1>6. ASSUME clMap = map, NEW i \in Indexes, Gives(q, f, l, i, old[i], cs[i])
      PROVE  Gives(q, m, l, i, new[i], cs[i])
  <2>1. Gives(q, f, m, i, old[i], new[i])
    BY <1>2, <1>4, <1>5, ExecutionGives
  <2>. QED  BY <1>5, <1>6, <2>1, GivesRest
<1>7. ASSUME clMap = map PROVE WillAgree(clStrings, cgSequence)'
  <2>1. WillAgree(clStrings, cgSequence)
    BY <1>7 DEF AgreementInv
  <2>2. cgSequence' = m
    BY <1>5, ExecutionGives
  <2>3. ASSUME NEW i \in Indexes
        PROVE  \/ state = "PRIMED" /\ i \in csUpdated
               \/ i \in misordered
               \/ Gives(q, m, l, i, new[i], cs[i])
    <3>1. \/ state = "PRIMED" /\ i \in csUpdated
          \/ i \in misordered
          \/ Gives(q, f, l, i, old[i], cs[i])
      BY <1>2, <1>3, <1>4, <2>1 DEF WillAgree
    <3>. QED  BY <1>6, <1>7, <3>1
  <2>. QED  BY <1>1, <1>2, <1>3, <2>2, <2>3 DEF WillAgree, serverVars
<1>8. ASSUME NEW k \in 1 .. Len(toClient), toClient[k].kind = "gamestate", toClient[k].map = map
      PROVE  WillAgree(toClient[k].strings, toClient[k].upto)'
  BY <1>1, <1>8 DEF AgreementInv, WillAgree, serverVars
<1>. QED  BY <1>1, <1>7, <1>8 DEF AgreementInv

LEMMA AgreementSetting ==
    ASSUME Consistent, Consistent', AgreementInv, NEW i \in Indexes, NEW text \in Text,
           text.length = "long" => MayBeLong(i), SetConfigstring(i, text)
    PROVE  AgreementInv'
<1>1. UNCHANGED <<state, reliableSent, clMap, map, clStrings, cgSequence, toClient>>
  BY DEF SetConfigstring, clientVars
<1>2. CASE state \in {"FREE", "CONNECTED"}
  BY <1>1, <1>2, NothingGiven
<1>3. CASE state \in {"PRIMED", "ACTIVE"}
  <2>1. ASSUME NEW strings, NEW n \in 0 .. reliableSent, WillAgree(strings, n)
        PROVE  WillAgree(strings, n)'
    BY <1>3, <2>1, AgreesWhenSet
  <2>. QED  BY <1>1, <2>1, AgreementKept
<1>4. state \in {"FREE", "CONNECTED", "PRIMED", "ACTIVE"}
  BY DEF Consistent, ServerTypes, SettingTypes
<1>. QED  BY <1>2, <1>3, <1>4

LEMMA AgreementEntered ==
    ASSUME Consistent, AgreementInv, EnterWorld,
           UNCHANGED <<configstrings, clMap, map, clStrings, cgSequence, toClient, misordered>>
    PROVE  AgreementInv'
<1>1. ASSUME NEW strings, NEW n \in 0 .. reliableSent, WillAgree(strings, n)
      PROVE  WillAgree(strings, n)'
  BY <1>1, AgreesOnEntering
<1>. QED  BY <1>1, AgreementKept

LEMMA AgreementReceived ==
    ASSUME Consistent, AgreementInv, SV_ExecuteClientMessage
    PROVE  AgreementInv'
<1>1. PICK k \in 1 .. Len(toServer) : ReceivePacket(k)
  BY DEF SV_ExecuteClientMessage, Receive
<1>2. PICK m, rest : m = toServer[k] /\ rest = After(toServer, k)
  OBVIOUS
<1>3. /\ ResendGameState(m, rest) \/ IgnorePacket(m, rest) \/ ExecuteMove(m, rest)
      /\ UNCHANGED <<configstrings, clStrings, cgSequence, map, clMap, misordered>>
  BY <1>1, <1>2 DEF ReceivePacket
<1>4. CASE ResendGameState(m, rest)
  <2>. DEFINE g == [Message("gamestate") EXCEPT !.later = FALSE]
  <2>1. /\ state' = "PRIMED" /\ toClient' = Send(NotLater(toClient), g)
        /\ UNCHANGED <<commands, csUpdated>>
    BY <1>4 DEF ResendGameState
  <2>2. g \in ServerMessage
    BY Messages
  <2>3. g.upto = Len(commands) /\ g.strings = configstrings
    BY DEF Message
  <2>. HIDE DEF g
  <2>. QED  BY <1>3, <2>1, <2>2, <2>3, AgreementSent
<1>5. CASE IgnorePacket(m, rest)
  <2>1. UNCHANGED <<state, commands, csUpdated, toClient>>
    BY <1>5 DEF IgnorePacket
  <2>. QED  BY <1>3, <2>1, AgreementSame
<1>6. CASE ExecuteMove(m, rest)
  <2>1. toClient' = toClient /\ (EnterWorld \/ UNCHANGED <<state, commands, csUpdated>>)
    BY <1>6 DEF ExecuteMove
  <2>2. CASE EnterWorld
    BY <1>3, <2>1, <2>2, AgreementEntered
  <2>3. CASE UNCHANGED <<state, commands, csUpdated>>
    BY <1>3, <2>1, <2>3, AgreementSame
  <2>. QED  BY <2>1, <2>2, <2>3
<1>. QED  BY <1>3, <1>4, <1>5, <1>6

LEMMA AgreementSnapshot ==
    ASSUME Consistent, AgreementInv, SV_SendClientSnapshot
    PROVE  AgreementInv'
<1>1. UNCHANGED <<state, csUpdated, commands, configstrings, map, clMap, clStrings, cgSequence,
                  misordered>>
  BY DEF SV_SendClientSnapshot, clientVars
<1>2. PICK m \in ServerMessage : toClient' = Send(toClient, m) /\ m.kind # "gamestate"
  <2>1. CASE toClient' = Send(toClient, [Message("snapshot") EXCEPT !.strings = Blank])
    <3>1. [Message("snapshot") EXCEPT !.strings = Blank].kind = "snapshot"
      BY DEF Message
    <3>. QED  BY <2>1, <3>1, Messages
  <2>2. CASE toClient' = Send(toClient, Nop)
    <3>1. Nop.kind = "nop"
      BY DEF Nop
    <3>. QED  BY <2>2, <3>1, Messages
  <2>. QED  BY <2>1, <2>2 DEF SV_SendClientSnapshot
<1>. QED  BY <1>1, <1>2, AgreementSent

LEMMA AgreementSpawned ==
    ASSUME Consistent, Consistent', AgreementInv, SV_SpawnServer
    PROVE  AgreementInv'
<1>1. UNCHANGED <<clMap, clStrings, cgSequence, toClient>>
  BY DEF SV_SpawnServer, clientVars
<1>2. CASE LoadMap
  <2>1. state' \in {"FREE", "CONNECTED"}
    BY <1>2 DEF LoadMap, StateOnNewMap
  <2>. QED  BY <2>1, NothingGiven
<1>3. CASE RestartMap
  <2>1. /\ UNCHANGED <<map, configstrings, misordered>>
        /\ EnterWorld \/ UNCHANGED <<state, commands, csUpdated>>
    BY <1>3 DEF RestartMap
  <2>2. CASE EnterWorld
    BY <1>1, <2>1, <2>2, AgreementEntered
  <2>3. CASE UNCHANGED <<state, commands, csUpdated>>
    BY <1>1, <2>1, <2>3, AgreementSame
  <2>. QED  BY <2>1, <2>2, <2>3
<1>. QED  BY <1>2, <1>3 DEF SV_SpawnServer

LEMMA AgreementStep ==
    Consistent /\ Consistent' /\ AgreementInv /\ [Next]_vars => AgreementInv'
<1>. SUFFICES ASSUME Consistent, Consistent', AgreementInv, [Next]_vars PROVE AgreementInv'
  OBVIOUS
<1>1. CASE SV_SetConfigstring
  <2>1. PICK i \in DOMAIN Lengths : \E length \in Lengths[i] :
                SetConfigstring(i, [length |-> length, id |-> sets + 1])
    BY <1>1 DEF SV_SetConfigstring
  <2>2. PICK length \in Lengths[i] : SetConfigstring(i, [length |-> length, id |-> sets + 1])
    BY <2>1
  <2>3. sets + 1 \in Nat
    BY DEF Consistent, ServerTypes, SettingTypes
  <2>4. i \in Indexes /\ length \in {"short", "long"} /\ (length = "long" => MayBeLong(i))
    BY LengthsAssumption DEF Indexes, MayBeLong
  <2>5. PICK text \in {[length |-> length, id |-> sets + 1]} : text.length = length
    OBVIOUS
  <2>6. text \in Text
    BY <2>3, <2>4 DEF Text
  <2>. QED  BY <2>2, <2>4, <2>5, <2>6, AgreementSetting
<1>2. CASE SV_Frame
  <2>1. SystemInfo(serverId) \in Text /\ SystemInfo(serverId).length = "short"
    BY DEF SystemInfo, Text, Consistent, ServerTypes, SettingTypes
  <2>. QED  BY <1>2, <2>1, Constants, AgreementSetting DEF SV_Frame
<1>3. CASE SV_DirectConnect
  BY <1>3, NothingGiven DEF SV_DirectConnect
<1>4. CASE SV_SpawnServer
  BY <1>4, AgreementSpawned
<1>5. CASE SV_SendClientSnapshot
  BY <1>5, AgreementSnapshot
<1>6. CASE CL_WritePacket
  BY <1>6, AgreementSame DEF CL_WritePacket, WritePacket, serverVars, clientVars
<1>7. CASE CL_ParseServerMessage
  BY <1>7, AgreementParsed
<1>8. CASE CG_ExecuteNewServerCommands
  BY <1>8, AgreementExecuted
<1>9. CASE SV_ExecuteClientMessage
  BY <1>9, AgreementReceived
<1>10. CASE UNCHANGED vars
  BY <1>10, AgreementSame DEF vars, serverVars, clientVars
<1>. QED  BY <1>1, <1>2, <1>3, <1>4, <1>5, <1>6, <1>7, <1>8, <1>9, <1>10 DEF Next

LEMMA AgreementGives == Consistent /\ AgreementInv => ClientAgrees
<1>. SUFFICES ASSUME Consistent, AgreementInv, InWorld, cgSequence = Len(commands),
                     NEW i \in Indexes \ misordered
              PROVE  clStrings[i] = configstrings[i]
  BY DEF ClientAgrees
<1>1. PICK l \in Nat : l = Len(commands)
  BY DEF Consistent, ServerTypes
<1>2. \A k \in l + 1 .. l : FALSE
  BY <1>1
<1>3. Gives(commands, l, l, i, clStrings[i], configstrings[i])
  BY <1>1 DEF AgreementInv, InWorld, WillAgree
<1>. QED  BY <1>2, <1>3 DEF Gives, Latest

\* A client in the world of the current map that has executed every command has the server's
\* configstrings, whatever order the sets, maps, restarts, losses and resent game states come in:
\* but for an index whose last text, a short one, took the place of another before the pieces of
\* a long one.
THEOREM ClientFollows == Spec => []ClientAgrees
<1>1. Init => AgreementInv
  BY DEF Init, AgreementInv
<1>2. Consistent /\ Consistent' /\ AgreementInv /\ [Next]_vars => AgreementInv'
  BY AgreementStep
<1>3. Spec => []AgreementInv
  BY <1>1, <1>2, ConfigstringsInvariant, PTL DEF Spec
<1>. QED  BY <1>3, AgreementGives, ConfigstringsInvariant, PTL
=============================================================================
