------------------------ MODULE SnapshotDeltaProofs ------------------------
(***************************************************************************)
(* Proofs about SnapshotDelta, for all views, ring sizes and bounds: what  *)
(* cgame reads is what the server built, and the source of a difference is *)
(* a frame the client has kept.                                            *)
(***************************************************************************)
EXTENDS SnapshotDelta, RingLemmas

Frame == [first : Nat, count : Nat]
Entity == [number : Int, value : Nat]
Snapshot ==
    [valid : BOOLEAN, messageNum : Nat, first : Nat, count : Nat, built : Views \union {Nothing},
     garbled : BOOLEAN]
Changes == UNION {[D -> Nat] : D \in SUBSET Nat}
SnapshotMessage ==
    [kind : {"snapshot"}, number : Nat, serverId : Nat, deltaNum : Nat, built : Views,
     changes : Changes, removed : SUBSET Nat]
PlainMessage == [kind : {"gamestate", "nop"}, number : Nat, serverId : Nat]
ToClient == SnapshotMessage \union PlainMessage
Packet == [serverId : Nat, acknowledge : Nat, move : {"none", "moveNoDelta", "move"}]

TypesInv ==
    /\ state \in {"CONNECTED", "PRIMED", "ACTIVE"}
    /\ serverId \in Nat /\ restartedServerId \in Nat /\ serverIdAcknowledge \in Nat
    /\ gamestateMessageNum \in Nat
    /\ outgoingSequence \in 1 .. MaxSequence
    /\ deltaMessage \in Nat
    /\ frames \in [Slots -> Frame]
    /\ snapshotEntities \in [0 .. numSnapshotEntities - 1 -> Entity]
    /\ nextSnapshotEntities \in Nat
    /\ clServerId \in Nat /\ serverMessageSequence \in Nat
    /\ snap \in Snapshot
    /\ snapshots \in [Slots -> Snapshot]
    /\ parseEntities \in [0 .. MAX_PARSE_ENTITIES - 1 -> Entity]
    /\ parseEntitiesNum \in Nat
    /\ toClient \in Seq(ToClient)
    /\ toServer \in Seq(Packet)

\* Numbers and maps grow along the wire, from what the client has seen to what the server
\* gives out next, and nothing is decoded behind a game state that has not arrived.
Ordered(channel, number, map, sequence, newest) ==
    /\ \A k \in 1 .. Len(channel) :
          /\ number < channel[k].number /\ channel[k].number < sequence
          /\ map <= channel[k].serverId /\ channel[k].serverId <= newest
    /\ \A k, l \in 1 .. Len(channel) : k < l =>
          /\ channel[k].number < channel[l].number
          /\ channel[k].serverId <= channel[l].serverId
          /\ channel[k].kind = "gamestate" => channel[l].kind # "snapshot"

\* E is the map that was loaded last: the maps since then are restarts of it.
OrderInv(E) ==
    /\ E <= restartedServerId /\ restartedServerId <= serverId
    /\ state # "ACTIVE" => restartedServerId = E
    /\ clServerId <= serverId /\ serverIdAcknowledge <= clServerId
    /\ serverMessageSequence < outgoingSequence /\ gamestateMessageNum < outgoingSequence
    /\ deltaMessage < outgoingSequence
    /\ Ordered(toClient, serverMessageSequence, clServerId, outgoingSequence, serverId)
    /\ \A k \in 1 .. Len(toServer) :
          toServer[k].acknowledge <= serverMessageSequence /\ toServer[k].serverId <= clServerId

\* A client that has not got the map's game state is sent nothing that needs it, and the
\* game state is under way once.
GameStatesInv(E) ==
    /\ \A k \in 1 .. Len(toClient) :
          toClient[k].kind = "gamestate" /\ E <= toClient[k].serverId =>
              toClient[k].number = gamestateMessageNum /\ clServerId < E
    /\ \A k \in 1 .. Len(toServer) :
          toServer[k].serverId < E /\ gamestateMessageNum < toServer[k].acknowledge => clServerId < E
    /\ \A k \in 1 .. Len(toClient) :
          toClient[k].kind = "snapshot" /\ E <= toClient[k].serverId => E <= clServerId

\* The server has frame n as it was built, or knows that it has not.
RecordedIn(n, view, sequence, fs, ring, next) ==
    sequence - n < PACKET_BACKUP =>
        LET frame == fs[n % PACKET_BACKUP]
        IN  /\ frame.count = Count(view)
            /\ frame.first + frame.count <= next
            /\ next - frame.first <= numSnapshotEntities => Entities(ring, frame) = view
Recorded(n, view) ==
    RecordedIn(n, view, outgoingSequence, frames, snapshotEntities, nextSnapshotEntities)

\* Both ends have frame n, unless it is too old to be a source.
Named(n) ==
    /\ 0 < n /\ n <= snap.messageNum
    /\ outgoingSequence - n < PACKET_BACKUP =>
          /\ snapshots[n % PACKET_BACKUP].valid
          /\ snapshots[n % PACKET_BACKUP].messageNum = n
          /\ Recorded(n, snapshots[n % PACKET_BACKUP].built)

\* What the client names, and what it will name, of the map that was loaded last.
NamesInv(E) ==
    /\ E <= clServerId /\ snap.valid => Named(snap.messageNum)
    /\ state = "ACTIVE" /\ 0 < deltaMessage => E <= clServerId /\ Named(deltaMessage)
    /\ \A k \in 1 .. Len(toServer) :
          E <= toServer[k].serverId /\ toServer[k].move = "move" => Named(toServer[k].acknowledge)
NamedInv(E) ==
    /\ NamesInv(E)
    /\ \A k \in 1 .. Len(toClient) :
          toClient[k].kind = "snapshot" /\ E <= toClient[k].serverId =>
              Recorded(toClient[k].number, toClient[k].built)

\* A snapshot on its way is a difference to a frame that the client has.
SourceNumber(m) == m.number - m.deltaNum
SourceView(m) == IF m.deltaNum = 0 THEN Nothing ELSE Source(m).built
Sound(m) ==
    /\ m.deltaNum # 0 =>
          /\ m.deltaNum < PACKET_BACKUP
          /\ SourceNumber(m) <= snap.messageNum
          /\ SourceKept(m)
    /\ m.changes = Difference(SourceView(m), m.built).changes
    /\ m.removed = Difference(SourceView(m), m.built).removed

WireInv == \A k \in 1 .. Len(toClient) : toClient[k].kind = "snapshot" => Sound(toClient[k])

\* What the client holds is what the server built, unless it has rolled off the ring or its
\* source was lost while it was read.
Held(s) ==
    /\ s.built \in Views
    /\ s.first + s.count <= parseEntitiesNum
    /\ ~s.garbled /\ parseEntitiesNum - s.first <= MAX_PARSE_ENTITIES =>
          Entities(parseEntities, s) = s.built

ClientInv ==
    /\ snap.messageNum <= serverMessageSequence
    /\ snap.valid => snap = snapshots[snap.messageNum % PACKET_BACKUP]
    /\ \A i \in Slots : snapshots[i].valid => Held(snapshots[i])

MapInv(E) == OrderInv(E) /\ GameStatesInv(E) /\ NamedInv(E)
DeltaInv == TypesInv /\ WireInv /\ ClientInv /\ \E E \in 1 .. serverId : MapInv(E)

-----------------------------------------------------------------------------
\* Contents of snapshots, and the entities of a ring.

Contents == {v \in Changes : IsFiniteSet(DOMAIN v)}

Below(D, n) == {k \in D : k < n}
Rank(D, n) == Cardinality(Below(D, n))

\* The ranks of n numbers are 0 to n - 1.
LEMMA Ranks ==
    ASSUME NEW D \in SUBSET Nat, IsFiniteSet(D)
    PROVE  /\ Cardinality(D) \in Nat
           /\ \A n \in D : Rank(D, n) \in 0 .. Cardinality(D) - 1
           /\ \A n, m \in D : n # m => Rank(D, n) # Rank(D, m)
           /\ \A j \in 0 .. Cardinality(D) - 1 : \E n \in D : Rank(D, n) = j
<1>. DEFINE N == Cardinality(D)
            f == [n \in D |-> Rank(D, n)]
<1>1. N \in Nat
  BY FS_CardinalityType
<1>. HIDE DEF f, N
<1>2. ASSUME NEW n \in D PROVE IsFiniteSet(Below(D, n)) /\ Rank(D, n) \in Nat /\ Rank(D, n) < N
  <2>1. Below(D, n) \in SUBSET D /\ n \notin Below(D, n)
    BY DEF Below
  <2>2. IsFiniteSet(Below(D, n)) /\ Cardinality(Below(D, n)) <= N /\ (N = Cardinality(Below(D, n)) => D = Below(D, n))
    BY <2>1, FS_Subset DEF N
  <2>3. Cardinality(Below(D, n)) \in Nat
    BY <2>2, FS_CardinalityType
  <2>4. N # Cardinality(Below(D, n))
    BY <2>1, <2>2
  <2>5. Rank(D, n) = Cardinality(Below(D, n))
    BY DEF Rank
  <2>. QED  BY <1>1, <2>2, <2>3, <2>4, <2>5
<1>3. ASSUME NEW n \in D, NEW m \in D, n < m PROVE Rank(D, n) < Rank(D, m)
  <2>0. n \in Nat /\ m \in Nat /\ D \subseteq Nat
    OBVIOUS
  <2>1. /\ \A k \in Below(D, n) : k \in Below(D, m)
        /\ n \in Below(D, m) /\ n \notin Below(D, n)
    BY <1>3, <2>0 DEF Below
  <2>2. /\ Cardinality(Below(D, n)) <= Cardinality(Below(D, m))
        /\ Cardinality(Below(D, m)) = Cardinality(Below(D, n)) => Below(D, m) = Below(D, n)
    BY <1>2, <2>1, FS_Subset
  <2>3. Cardinality(Below(D, n)) # Cardinality(Below(D, m))
    BY <2>1, <2>2
  <2>4. Rank(D, n) = Cardinality(Below(D, n)) /\ Rank(D, m) = Cardinality(Below(D, m))
    BY DEF Rank
  <2>. QED  BY <1>2, <2>2, <2>3, <2>4
<1>4. ASSUME NEW n \in D, NEW m \in D, n # m PROVE Rank(D, n) # Rank(D, m)
  <2>1. n < m \/ m < n
    BY <1>4
  <2>. QED  BY <1>2, <1>3, <2>1
<1>5. f \in Injection(D, 0 .. N - 1)
  <2>1. f \in [D -> 0 .. N - 1]
    BY <1>1, <1>2 DEF f
  <2>2. \A n, m \in D : f[n] = f[m] => n = m
    BY <1>4 DEF f
  <2>. QED  BY <2>1, <2>2, Zenon DEF Injection, IsInjective
<1>6. IsFiniteSet(0 .. N - 1) /\ Cardinality(0 .. N - 1) = N
  <2>1. IsFiniteSet(0 .. N - 1) /\ Cardinality(0 .. N - 1) = IF 0 > N - 1 THEN 0 ELSE (N - 1) - 0 + 1
    BY <1>1, FS_Interval
  <2>. QED  BY <1>1, <2>1
<1>7. f \in Surjection(D, 0 .. N - 1)
  BY <1>5, <1>6, FS_Injection DEF N
<1>8. \A j \in 0 .. N - 1 : \E n \in D : f[n] = j
  BY <1>7, Zenon DEF Surjection
<1>. QED  BY <1>1, <1>2, <1>4, <1>8 DEF f, N

\* One round through a ring leads back to the same slot.
LEMMA OneRound ==
    ASSUME NEW n \in Nat \ {0}, NEW i \in Int, NEW j \in Int, j = i + n
    PROVE  j % n = i % n
<1>1. PICK q \in Int : q = 1
  OBVIOUS
<1>2. (i + n * q) % n = i % n
  BY SameSlot
<1>3. n * q = n
  BY <1>1
<1>. QED  BY <1>2, <1>3

\* A difference modulo Values leads to the value it was made for.
LEMMA DifferenceModulo ==
    ASSUME NEW a \in 0 .. Values - 1, NEW b \in 0 .. Values - 1
    PROVE  (a + ((b - a) % Values)) % Values = b
<1>. Values \in Nat \ {0}
  BY ValuesAssumption
<1>0. ASSUME NEW i \in 0 .. Values - 1 PROVE i % Values = i /\ (i + Values) % Values = i
  <2>1. i % Values = i
    OBVIOUS
  <2>2. PICK j \in Int : j = i + Values
    OBVIOUS
  <2>3. Values \in Nat \ {0} /\ i \in Int /\ j \in Int /\ j = i + Values
    BY <2>2
  <2>4. j % Values = i % Values
    BY <2>3, OneRound
  <2>. QED  BY <2>1, <2>2, <2>4
<1>1. CASE a <= b
  <2>1. b - a \in 0 .. Values - 1
    BY <1>1
  <2>2. (b - a) % Values = b - a
    BY <1>0, <2>1
  <2>3. a + (b - a) = b
    OBVIOUS
  <2>. QED  BY <1>0, <2>2, <2>3
<1>2. CASE b < a
  <2>1. PICK c \in 0 .. Values - 1 : c = b - a + Values
    BY <1>2
  <2>2. PICK d \in Int : d = b - a
    OBVIOUS
  <2>3. c \in Int /\ c = d + Values
    BY <2>1, <2>2
  <2>4. c % Values = d % Values
    BY <2>3, OneRound
  <2>5. (b - a) % Values = b - a + Values
    BY <1>0, <2>1, <2>2, <2>4
  <2>6. a + (b - a + Values) = b + Values
    OBVIOUS
  <2>. QED  BY <1>0, <2>5, <2>6
<1>. QED  BY <1>1, <1>2

\* A difference to a view, put on top of that view, is the view it was made for.
LEMMA DifferencePatched ==
    ASSUME NEW old \in Views \union {Nothing}, NEW new \in Views, NEW m,
           m.changes = Difference(old, new).changes, m.removed = Difference(old, new).removed
    PROVE  Patched(old, m) = new
<1>. DEFINE before(n) == IF n \in DOMAIN old THEN old[n] ELSE Baseline
            sent == {n \in DOMAIN new : n \notin DOMAIN old \/ old[n] # new[n]}
            change(n) == IF n \in DOMAIN m.changes THEN m.changes[n] ELSE 0
<1>0. Values \in Nat \ {0}
  BY ValuesAssumption
<1>1. new \in [DOMAIN new -> 0 .. Values - 1]
  BY ViewsAssumption
<1>2. old \in [DOMAIN old -> 0 .. Values - 1]
  <2>1. CASE old = Nothing
    BY <2>1 DEF Nothing
  <2>2. CASE old \in Views
    BY <2>2, ViewsAssumption
  <2>. QED  BY <2>1, <2>2
<1>3. m.changes = [n \in sent |-> (new[n] - before(n)) % Values]
  BY DEF Difference
<1>4. m.removed = DOMAIN old \ DOMAIN new
  BY DEF Difference
<1>5. DOMAIN m.changes = sent
  BY <1>3
<1>6. (DOMAIN old \union DOMAIN m.changes) \ m.removed = DOMAIN new
  BY <1>4, <1>5
<1>7. ASSUME NEW n \in DOMAIN new PROVE (before(n) + change(n)) % Values = new[n]
  <2>0. before(n) \in 0 .. Values - 1 /\ new[n] \in 0 .. Values - 1
    BY <1>0, <1>1, <1>2 DEF Baseline
  <2>1. CASE n \in sent
    <3>1. change(n) = (new[n] - before(n)) % Values
      BY <1>3, <1>5, <2>1
    <3>. QED  BY <2>0, <3>1, DifferenceModulo
  <2>2. CASE n \notin sent
    <3>1. change(n) = 0 /\ before(n) = new[n]
      BY <1>5, <2>2
    <3>2. PICK a \in 0 .. Values - 1 : a = new[n]
      BY <2>0
    <3>3. (a + 0) % Values = a
      BY <1>0
    <3>. QED  BY <3>1, <3>2, <3>3
  <2>. QED  BY <2>1, <2>2
<1>8. Patched(old, m) =
        [n \in (DOMAIN old \union DOMAIN m.changes) \ m.removed |-> (before(n) + change(n)) % Values]
  BY DEF Patched
<1>9. Patched(old, m) = [n \in DOMAIN new |-> (before(n) + change(n)) % Values]
  BY <1>6, <1>8
<1>10. Patched(old, m) = [n \in DOMAIN new |-> new[n]]
  BY <1>7, <1>9
<1>. QED  BY <1>1, <1>10

LEMMA ViewContents ==
    /\ \A view \in Views : view \in Contents /\ Count(view) \in Nat
    /\ Nothing \in Contents /\ Count(Nothing) = 0
<1>0. Values \in Nat \ {0}
  BY ValuesAssumption
<1>1. ASSUME NEW view \in Views PROVE view \in Contents /\ Count(view) \in Nat
  <2>1. DOMAIN view \in SUBSET Nat /\ IsFiniteSet(DOMAIN view) /\ view \in [DOMAIN view -> 0 .. Values - 1]
    BY ViewsAssumption
  <2>2. view \in [DOMAIN view -> Nat]
    BY <1>0, <2>1
  <2>. QED  BY <2>1, <2>2, FS_CardinalityType DEF Contents, Changes, Count
<1>2. Nothing \in Contents /\ Count(Nothing) = 0
  <2>1. DOMAIN Nothing = {} /\ Nothing \in [{} -> Nat]
    BY DEF Nothing
  <2>. QED  BY <2>1, FS_EmptySet DEF Contents, Changes, Count
<1>. QED  BY <1>1, <1>2

\* The size of a ring.
LEMMA RingSize ==
    ASSUME NEW size \in Nat \ {0}, NEW ring \in [0 .. size - 1 -> Entity]
    PROVE  DOMAIN ring = 0 .. size - 1 /\ Cardinality(DOMAIN ring) = size
<1>1. Cardinality(0 .. size - 1) = IF 0 > size - 1 THEN 0 ELSE (size - 1) - 0 + 1
  BY FS_Interval
<1>. QED  BY <1>1

\* The entities read from a ring depend on the slots of the frame alone.
EntriesAt(ring, size, first, count) == {ring[i % size] : i \in first .. first + count - 1}
ViewOf(entries) == [n \in {e.number : e \in entries} |-> (CHOOSE e \in entries : e.number = n).value]

LEMMA EntitiesOf ==
    ASSUME NEW size \in Nat \ {0}, NEW ring \in [0 .. size - 1 -> Entity], NEW frame
    PROVE  Entities(ring, frame) = ViewOf(EntriesAt(ring, size, frame.first, frame.count))
<1>1. Entities(ring, frame) =
        ViewOf(EntriesAt(ring, Cardinality(DOMAIN ring), frame.first, frame.count))
  BY Zenon DEF Entities, ViewOf, EntriesAt
<1>2. Cardinality(DOMAIN ring) = size
  BY RingSize
<1>. QED  BY <1>1, <1>2

-----------------------------------------------------------------------------
\* Writing to a ring.

Place(size, next, view, n) == (next + Rank(DOMAIN view, n)) % size

WrittenSlot(ring, size, next, view, i) ==
    IF \E n \in DOMAIN view : Place(size, next, view, n) = i
    THEN LET n == CHOOSE n \in DOMAIN view : Place(size, next, view, n) = i
         IN  [number |-> n, value |-> view[n]]
    ELSE ring[i]

\* What after holds when the entities of view were written to ring from next on.
Overwritten(ring, size, next, view, after) ==
    /\ after \in [0 .. size - 1 -> Entity]
    /\ \A i \in 0 .. size - 1 :
          \/ /\ \A n \in DOMAIN view : Place(size, next, view, n) # i
             /\ after[i] = ring[i]
          \/ \E n \in DOMAIN view :
                /\ Place(size, next, view, n) = i
                /\ after[i] = [number |-> n, value |-> view[n]]

LEMMA WrittenAt ==
    ASSUME NEW size \in Nat \ {0}, NEW ring \in [0 .. size - 1 -> Entity],
           NEW next \in Nat, NEW view \in Contents
    PROVE  Overwritten(ring, size, next, view, Written(ring, next, view))
<1>. DEFINE D == DOMAIN view
            at(i) == WrittenSlot(ring, size, next, view, i)
<1>0. view \in [D -> Nat] /\ D \subseteq Nat
  BY DEF Contents, Changes
<1>1. DOMAIN ring = 0 .. size - 1 /\ Cardinality(DOMAIN ring) = size
  BY RingSize
<1>2. Written(ring, next, view) = [i \in 0 .. size - 1 |-> at(i)]
  <2>1. Written(ring, next, view) =
          [i \in DOMAIN ring |-> WrittenSlot(ring, Cardinality(DOMAIN ring), next, view, i)]
    BY Zenon DEF Written, WrittenSlot, Place, Rank, Below
  <2>. QED  BY <1>1, <2>1
<1>3. ASSUME NEW i \in 0 .. size - 1
      PROVE  /\ at(i) \in Entity
             /\ \/ (\A n \in D : Place(size, next, view, n) # i) /\ at(i) = ring[i]
                \/ \E n \in D : Place(size, next, view, n) = i /\ at(i) = [number |-> n, value |-> view[n]]
  <2>1. CASE \E n \in D : Place(size, next, view, n) = i
    <3>1. PICK n \in D : n = CHOOSE k \in D : Place(size, next, view, k) = i
      BY <2>1, Zenon
    <3>2. Place(size, next, view, n) = i
      BY <2>1, <3>1, Zenon
    <3>3. at(i) = [number |-> n, value |-> view[n]]
      BY <2>1, <3>1, Zenon DEF WrittenSlot
    <3>4. n \in Nat /\ view[n] \in Nat
      BY <1>0
    <3>5. at(i) \in Entity
      BY <3>3, <3>4 DEF Entity
    <3>. QED  BY <3>2, <3>3, <3>5, Zenon
  <2>2. CASE ~ \E n \in D : Place(size, next, view, n) = i
    <3>1. at(i) = ring[i]
      BY <2>2, Zenon DEF WrittenSlot
    <3>2. ring[i] \in Entity
      OBVIOUS
    <3>. QED  BY <2>2, <3>1, <3>2, Zenon
  <2>. QED  BY <2>1, <2>2, Zenon
<1>. HIDE DEF at
<1>4. \A i \in 0 .. size - 1 : Written(ring, next, view)[i] = at(i)
  BY <1>2
<1>5. Written(ring, next, view) \in [0 .. size - 1 -> Entity]
  BY <1>2, <1>3
<1>. QED  BY <1>3, <1>4, <1>5, Zenon DEF Overwritten

\* Two places less than a round apart are the same slot only if they are the same place.
LEMMA SamePlace ==
    ASSUME NEW n \in Nat \ {0}, NEW i \in Int, NEW j \in Int, i < j + n, j < i + n, i % n = j % n
    PROVE  i = j
<1>1. CASE i < j
  BY <1>1, DifferentSlots
<1>2. CASE j < i
  BY <1>2, DifferentSlots
<1>. QED  BY <1>1, <1>2

\* A frame that is not too old keeps its entities when others are written to the ring.
LEMMA OlderFrameKept ==
    ASSUME NEW size \in Nat \ {0}, NEW ring \in [0 .. size - 1 -> Entity],
           NEW next \in Nat, NEW view \in Contents,
           NEW frame, NEW first \in Nat, NEW count \in Nat, frame.first = first, frame.count = count,
           first + count <= next, next + Count(view) - first <= size
    PROVE  Entities(Written(ring, next, view), frame) = Entities(ring, frame)
<1>. DEFINE after == Written(ring, next, view)
            D == DOMAIN view
<1>0. D \in SUBSET Nat /\ IsFiniteSet(D)
  BY DEF Contents, Changes
<1>1. Cardinality(D) \in Nat /\ Count(view) = Cardinality(D) /\ \A n \in D : Rank(D, n) \in 0 .. Cardinality(D) - 1
  BY <1>0, Ranks DEF Count
<1>2. /\ after \in [0 .. size - 1 -> Entity]
      /\ \A i \in 0 .. size - 1 :
            \/ /\ \A n \in D : Place(size, next, view, n) # i
               /\ after[i] = ring[i]
            \/ \E n \in D :
                  /\ Place(size, next, view, n) = i
                  /\ after[i] = [number |-> n, value |-> view[n]]
  <2>1. Overwritten(ring, size, next, view, Written(ring, next, view))
    BY WrittenAt
  <2>. QED  BY <2>1, Zenon DEF Overwritten
<1>. HIDE DEF after
<1>3. ASSUME NEW i \in first .. first + count - 1 PROVE after[i % size] = ring[i % size]
  <2>0. i \in Int
    OBVIOUS
  <2>1. i % size \in 0 .. size - 1
    BY <2>0, Division
  <2>2. ASSUME NEW n \in D PROVE Place(size, next, view, n) # i % size
    <3>1. PICK j \in Int : j = next + Rank(D, n)
      BY <1>1
    <3>2. i < j /\ j < i + size
      BY <1>1, <3>1
    <3>3. i % size # j % size
      BY <2>0, <3>2, DifferentSlots
    <3>. QED  BY <3>1, <3>3 DEF Place
  <2>. QED  BY <2>1, <2>2, <1>2
<1>4. EntriesAt(after, size, first, count) = EntriesAt(ring, size, first, count)
  BY <1>3 DEF EntriesAt
<1>5. /\ Entities(after, frame) = ViewOf(EntriesAt(after, size, frame.first, frame.count))
      /\ Entities(ring, frame) = ViewOf(EntriesAt(ring, size, frame.first, frame.count))
  BY <1>2, EntitiesOf
<1>. QED  BY <1>4, <1>5 DEF after

\* The same when nothing is known of what is written.
LEMMA OlderFrameNotLost ==
    ASSUME NEW size \in Nat \ {0}, NEW ring \in [0 .. size - 1 -> Entity],
           NEW next \in Nat, NEW lost \in Nat
    PROVE  /\ LostWritten(ring, next, lost) \in [0 .. size - 1 -> Entity]
           /\ \A frame \in Snapshot :
                frame.first + frame.count <= next /\ next + lost - frame.first <= size =>
                    Entities(LostWritten(ring, next, lost), frame) = Entities(ring, frame)
<1>. DEFINE after == LostWritten(ring, next, lost)
<1>1. after = [i \in 0 .. size - 1 |->
                 IF \E k \in next .. next + lost - 1 : k % size = i THEN LostEntity ELSE ring[i]]
  BY RingSize DEF LostWritten
<1>2. after \in [0 .. size - 1 -> Entity]
  <2>1. LostEntity \in Entity
    BY DEF LostEntity, Entity
  <2>. HIDE DEF after
  <2>. QED  BY <1>1, <2>1
<1>. HIDE DEF after
<1>3. ASSUME NEW frame \in Snapshot, NEW first \in Nat, NEW count \in Nat,
             first = frame.first, count = frame.count,
             first + count <= next, next + lost - first <= size
      PROVE  Entities(after, frame) = Entities(ring, frame)
  <2>1. ASSUME NEW i \in first .. first + count - 1 PROVE after[i % size] = ring[i % size]
    <3>1. i \in Int /\ i % size \in 0 .. size - 1
      BY Division
    <3>2. ASSUME NEW k \in next .. next + lost - 1 PROVE k % size # i % size
      <4>1. k \in Int /\ i < k /\ k < i + size
        BY <1>3, SMTT(30)
      <4>. QED  BY <3>1, <4>1, DifferentSlots
    <3>. QED  BY <1>1, <3>1, <3>2
  <2>2. EntriesAt(after, size, first, count) = EntriesAt(ring, size, first, count)
    BY <2>1 DEF EntriesAt
  <2>3. /\ Entities(after, frame) = ViewOf(EntriesAt(after, size, frame.first, frame.count))
        /\ Entities(ring, frame) = ViewOf(EntriesAt(ring, size, frame.first, frame.count))
    BY <1>2, EntitiesOf
  <2>. QED  BY <1>3, <2>2, <2>3
<1>. QED  BY <1>2, <1>3 DEF after, Snapshot

\* A view that fits into the ring can be read from where it was written.
LEMMA NewFrameKept ==
    ASSUME NEW size \in Nat \ {0}, NEW ring \in [0 .. size - 1 -> Entity],
           NEW next \in Nat, NEW view \in Contents,
           NEW frame, frame.first = next, frame.count = Count(view), Count(view) <= size
    PROVE  Entities(Written(ring, next, view), frame) = view
<1>. DEFINE after == Written(ring, next, view)
            D == DOMAIN view
            count == Cardinality(D)
            entity(n) == [number |-> n, value |-> view[n]]
            entries == {entity(n) : n \in D}
<1>0. D \in SUBSET Nat /\ IsFiniteSet(D) /\ view \in [D -> Nat]
  BY DEF Contents, Changes
<1>1. /\ count \in Nat /\ Count(view) = count
      /\ \A n \in D : Rank(D, n) \in 0 .. count - 1
      /\ \A n, m \in D : n # m => Rank(D, n) # Rank(D, m)
      /\ \A j \in 0 .. count - 1 : \E n \in D : Rank(D, n) = j
  BY <1>0, Ranks DEF Count
<1>2. /\ after \in [0 .. size - 1 -> Entity]
      /\ \A i \in 0 .. size - 1 :
            \/ /\ \A n \in D : Place(size, next, view, n) # i
               /\ after[i] = ring[i]
            \/ \E n \in D :
                  /\ Place(size, next, view, n) = i
                  /\ after[i] = [number |-> n, value |-> view[n]]
  <2>1. Overwritten(ring, size, next, view, Written(ring, next, view))
    BY WrittenAt
  <2>. QED  BY <2>1, Zenon DEF Overwritten
<1>. HIDE DEF after
<1>3. ASSUME NEW n \in D, NEW i \in next .. next + count - 1, i = next + Rank(D, n)
      PROVE  after[i % size] = entity(n)
  <2>1. i \in Int /\ i % size \in 0 .. size - 1
    BY <1>1, Division
  <2>2. Place(size, next, view, n) = i % size
    BY <1>3 DEF Place
  <2>3. PICK m \in D : Place(size, next, view, m) = i % size /\ after[i % size] = entity(m)
    BY <2>1, <2>2, <1>2
  <2>4. PICK j \in Int : j = next + Rank(D, m)
    BY <1>1
  <2>5. j % size = i % size
    BY <2>3, <2>4 DEF Place
  <2>6. i < j + size /\ j < i + size
    BY <1>1, <2>4
  <2>7. i = j
    BY <2>1, <2>5, <2>6, SamePlace
  <2>8. m = n
    BY <1>1, <1>3, <2>4, <2>7
  <2>. QED  BY <2>3, <2>8
<1>4. EntriesAt(after, size, next, count) = entries
  <2>. HIDE DEF count, entity
  <2>1. ASSUME NEW i \in next .. next + count - 1 PROVE after[i % size] \in entries
    <3>1. PICK n \in D : Rank(D, n) = i - next
      BY <1>1
    <3>2. i = next + Rank(D, n)
      BY <1>1, <3>1
    <3>. QED  BY <1>3, <3>2
  <2>2. ASSUME NEW n \in D PROVE entity(n) \in EntriesAt(after, size, next, count)
    <3>1. PICK i \in next .. next + count - 1 : i = next + Rank(D, n)
      BY <1>1
    <3>2. after[i % size] = entity(n)
      BY <1>3, <3>1
    <3>. QED  BY <3>2 DEF EntriesAt
  <2>3. \A e \in EntriesAt(after, size, next, count) : e \in entries
    BY <2>1 DEF EntriesAt
  <2>4. \A e \in entries : e \in EntriesAt(after, size, next, count)
    BY <2>2
  <2>. QED  BY <2>3, <2>4
<1>5. {e.number : e \in entries} = D
  <2>1. ASSUME NEW n \in D PROVE entity(n) \in entries /\ entity(n).number = n
    OBVIOUS
  <2>2. ASSUME NEW e \in entries PROVE e.number \in D
    OBVIOUS
  <2>. HIDE DEF entries, entity
  <2>. QED  BY <2>1, <2>2
<1>6. ASSUME NEW n \in D PROVE (CHOOSE e \in entries : e.number = n).value = view[n]
  <2>1. entity(n) \in entries /\ entity(n).number = n
    OBVIOUS
  <2>2. PICK e \in entries : e = CHOOSE x \in entries : x.number = n
    BY <2>1
  <2>3. e.number = n
    BY <2>1, <2>2
  <2>4. e = entity(n)
    BY <2>3
  <2>. QED  BY <2>2, <2>4
<1>7. ViewOf(entries) = [n \in {e.number : e \in entries} |-> (CHOOSE e \in entries : e.number = n).value]
  BY Zenon DEF ViewOf
<1>. HIDE DEF entries, count
<1>8. ViewOf(entries) = [n \in D |-> view[n]]
  BY <1>5, <1>6, <1>7
<1>9. Entities(after, frame) = ViewOf(EntriesAt(after, size, frame.first, frame.count))
  BY <1>2, EntitiesOf
<1>. QED  BY <1>0, <1>1, <1>4, <1>8, <1>9 DEF after

-----------------------------------------------------------------------------
\* One step of the server's ring and frames.

LEMMA SlotOf ==
    ASSUME NEW n \in Int
    PROVE  n % PACKET_BACKUP \in Slots
<1>1. PACKET_BACKUP \in Nat \ {0}
  BY BackupAssumption
<1>2. n % PACKET_BACKUP \in 0 .. PACKET_BACKUP - 1
  BY <1>1, Division
<1>. QED  BY <1>2 DEF Slots

\* Number n keeps its frame when something is built, and when its successor is sent.
LEMMA RecordedKept ==
    ASSUME NEW n \in Nat, NEW sequence \in Nat, n < sequence, NEW fs \in [Slots -> Frame],
           NEW ring \in [0 .. numSnapshotEntities - 1 -> Entity], NEW next \in Nat,
           NEW view, NEW new \in Contents, Count(new) \in Nat,
           RecordedIn(n, view, sequence, fs, ring, next)
    PROVE  /\ RecordedIn(n, view, sequence, fs, Written(ring, next, new), next + Count(new))
           /\ \A f \in Frame :
                 RecordedIn(n, view, sequence + 1, [fs EXCEPT ![sequence % PACKET_BACKUP] = f],
                            Written(ring, next, new), next + Count(new))
<1>. DEFINE after == Written(ring, next, new)
            slot == n % PACKET_BACKUP
<1>0. PACKET_BACKUP \in Nat \ {0} /\ numSnapshotEntities \in Nat \ {0}
  BY BackupAssumption, RingAssumption
<1>1. slot \in Slots
  BY SlotOf
<1>2. CASE ~(sequence - n < PACKET_BACKUP)
  <2>1. ~(sequence + 1 - n < PACKET_BACKUP)
    BY <1>0, <1>2
  <2>. QED  BY <1>2, <2>1 DEF RecordedIn
<1>3. CASE sequence - n < PACKET_BACKUP
  <2>1. PICK frame \in Frame : frame = fs[slot]
    BY <1>1
  <2>2. /\ frame.first \in Nat /\ frame.count \in Nat
        /\ frame.count = Count(view)
        /\ frame.first + frame.count <= next
        /\ next - frame.first <= numSnapshotEntities => Entities(ring, frame) = view
    BY <1>3, <2>1, Zenon DEF RecordedIn, Frame
  <2>3. ASSUME next + Count(new) - frame.first <= numSnapshotEntities
        PROVE  Entities(after, frame) = view
    <3>1. next - frame.first <= numSnapshotEntities
      BY <1>0, <2>2, <2>3
    <3>2. Entities(after, frame) = Entities(ring, frame)
      BY SMTT(30), <1>0, <2>2, <2>3, OlderFrameKept
    <3>. QED  BY <2>2, <3>1, <3>2
  <2>4. frame.first + frame.count <= next + Count(new)
    BY <2>2
  <2>5. ASSUME NEW f \in Frame, sequence + 1 - n < PACKET_BACKUP
        PROVE  [fs EXCEPT ![sequence % PACKET_BACKUP] = f][slot] = frame
    <3>1. n % PACKET_BACKUP # sequence % PACKET_BACKUP
      <4>1. n \in Int /\ sequence \in Int /\ sequence < n + PACKET_BACKUP
        BY <1>0, <2>5
      <4>. QED  BY <1>0, <4>1, DifferentSlots
    <3>. QED  BY <1>1, <2>1, <3>1
  <2>. HIDE DEF after
  <2>6. RecordedIn(n, view, sequence, fs, after, next + Count(new))
    BY <2>1, <2>2, <2>3, <2>4 DEF RecordedIn
  <2>7. ASSUME NEW f \in Frame
        PROVE  RecordedIn(n, view, sequence + 1, [fs EXCEPT ![sequence % PACKET_BACKUP] = f],
                          after, next + Count(new))
    BY SMTT(30), <2>2, <2>3, <2>4, <2>5 DEF RecordedIn
  <2>. QED  BY <2>6, <2>7 DEF after
<1>. QED  BY <1>2, <1>3

\* The number that is sent has the frame that was built for it.
LEMMA RecordedNew ==
    ASSUME NEW sequence \in Nat, NEW fs \in [Slots -> Frame],
           NEW ring \in [0 .. numSnapshotEntities - 1 -> Entity], NEW next \in Nat, NEW new \in Views,
           NEW after, after = [fs EXCEPT ![sequence % PACKET_BACKUP] = [first |-> next, count |-> Count(new)]]
    PROVE  RecordedIn(sequence, new, sequence + 1, after, Written(ring, next, new), next + Count(new))
<1>. DEFINE frame == [first |-> next, count |-> Count(new)]
<1>0. PACKET_BACKUP \in Nat \ {0} /\ numSnapshotEntities \in Nat \ {0} /\ Count(new) <= numSnapshotEntities
  BY BackupAssumption, RingAssumption
<1>1. sequence % PACKET_BACKUP \in Slots
  BY SlotOf
<1>2. after[sequence % PACKET_BACKUP] = frame
  BY <1>1
<1>3. new \in Contents /\ Count(new) \in Nat
  BY ViewContents
<1>4. Entities(Written(ring, next, new), frame) = new
  BY <1>0, <1>3, NewFrameKept
<1>. QED  BY <1>2, <1>3, <1>4 DEF RecordedIn

\* A game state takes a number, too, but no frame.
LEMMA RecordedLater ==
    ASSUME NEW n \in Nat, NEW sequence \in Nat, NEW fs, NEW ring, NEW next, NEW view,
           RecordedIn(n, view, sequence, fs, ring, next)
    PROVE  RecordedIn(n, view, sequence + 1, fs, ring, next)
<1>0. PACKET_BACKUP \in Nat
  BY BackupAssumption
<1>1. sequence + 1 - n < PACKET_BACKUP => sequence - n < PACKET_BACKUP
  BY <1>0
<1>. QED  BY <1>1 DEF RecordedIn

-----------------------------------------------------------------------------
\* The two channels.

LEMMA MessageFields ==
    ASSUME NEW m \in ToClient
    PROVE  /\ m.number \in Nat /\ m.serverId \in Nat
           /\ m.kind \in {"gamestate", "nop", "snapshot"}
           /\ m.kind = "snapshot" => m \in SnapshotMessage
<1>1. CASE m \in SnapshotMessage
  BY <1>1 DEF SnapshotMessage
<1>2. CASE m \in PlainMessage
  BY <1>2 DEF PlainMessage
<1>. QED  BY <1>1, <1>2 DEF ToClient

LEMMA Sent ==
    ASSUME NEW S, NEW channel \in Seq(S), NEW m \in S
    PROVE  /\ Send(channel, m) \in Seq(S)
           /\ \E d \in {0, 1} :
                 /\ Len(Send(channel, m)) = Len(channel) - d + 1
                 /\ \A k \in 1 .. Len(channel) - d : Send(channel, m)[k] = channel[k + d]
                 /\ Send(channel, m)[Len(channel) - d + 1] = m
<1>1. MaxInFlight \in Nat \ {0}
  BY BoundsAssumption
<1>2. PICK after : after = Send(channel, m)
  OBVIOUS
<1>3. after = IF Len(channel) < MaxInFlight THEN Append(channel, m) ELSE Append(Tail(channel), m)
  BY <1>2 DEF Send
<1>4. after \in Seq(S) /\ \E d \in {0, 1} :
                 /\ Len(after) = Len(channel) - d + 1
                 /\ \A k \in 1 .. Len(channel) - d : after[k] = channel[k + d]
                 /\ after[Len(channel) - d + 1] = m
  BY <1>1, <1>3, BoundedAppend
<1>. QED  BY <1>2, <1>4

\* What is in a channel after a message was sent was in it before, or is that message.
LEMMA SentType ==
    ASSUME NEW S, NEW channel \in Seq(S), NEW m \in S, NEW after, after = Send(channel, m)
    PROVE  after \in Seq(S)
BY Sent

LEMMA SentFrom ==
    ASSUME NEW S, NEW channel \in Seq(S), NEW m \in S, NEW after, after = Send(channel, m),
           NEW k \in 1 .. Len(after), after[k] # m
    PROVE  \E j \in 1 .. Len(channel) : after[k] = channel[j]
<1>1. after \in Seq(S)
  BY Sent
<1>2. PICK d \in {0, 1} :
         /\ Len(after) = Len(channel) - d + 1
         /\ \A i \in 1 .. Len(channel) - d : after[i] = channel[i + d]
         /\ after[Len(channel) - d + 1] = m
  BY ZenonT(30), Sent
<1>3. Len(channel) \in Nat
  OBVIOUS
<1>4. k \in 1 .. Len(channel) - d /\ k + d \in 1 .. Len(channel)
  BY <1>2, <1>3
<1>. QED  BY <1>2, <1>4

LEMMA RestFrom ==
    ASSUME NEW S, NEW channel \in Seq(S), NEW k \in 1 .. Len(channel)
    PROVE  /\ After(channel, k) \in Seq(S)
           /\ \A i \in 1 .. Len(After(channel, k)) :
                 \E j \in k + 1 .. Len(channel) : After(channel, k)[i] = channel[j]
<1>1. /\ After(channel, k) \in Seq(S) /\ Len(After(channel, k)) = Len(channel) - k
      /\ \A i \in 1 .. Len(channel) - k : After(channel, k)[i] = channel[i + k]
  <2>1. k \in 0 .. Len(channel)
    OBVIOUS
  <2>. QED  BY <2>1, SuffixElements DEF After
<1>2. ASSUME NEW i \in 1 .. Len(After(channel, k))
      PROVE  \E j \in k + 1 .. Len(channel) : After(channel, k)[i] = channel[j]
  <2>1. i + k \in k + 1 .. Len(channel) /\ i \in 1 .. Len(channel) - k
    BY <1>1
  <2>. QED  BY <1>1, <2>1
<1>. QED  BY <1>1, <1>2

LEMMA OrderedSent ==
    ASSUME NEW channel \in Seq(ToClient), NEW number \in Nat, NEW map \in Nat, NEW sequence \in Nat,
           NEW newest \in Nat, Ordered(channel, number, map, sequence, newest),
           number < sequence, map <= newest,
           NEW m \in ToClient, m.number = sequence, m.serverId = newest,
           m.kind = "snapshot" => \A k \in 1 .. Len(channel) : channel[k].kind # "gamestate"
    PROVE  Ordered(Send(channel, m), number, map, sequence + 1, newest)
<1>1. Send(channel, m) \in Seq(ToClient)
  BY Sent
<1>2. PICK d \in {0, 1} :
         /\ Len(Send(channel, m)) = Len(channel) - d + 1
         /\ \A k \in 1 .. Len(channel) - d : Send(channel, m)[k] = channel[k + d]
         /\ Send(channel, m)[Len(channel) - d + 1] = m
  BY Sent
<1>. DEFINE after == Send(channel, m)
            last == Len(channel) - d + 1
<1>3. Len(channel) \in Nat /\ last \in Nat
  <2>1. Len(channel) \in Nat /\ Len(after) \in Nat
    BY <1>1
  <2>. QED  BY <1>2, <2>1
<1>4. \A k \in 1 .. Len(after) :
         \/ k = last /\ after[k] = m
         \/ k < last /\ k + d \in 1 .. Len(channel) /\ after[k] = channel[k + d]
  <2>1. Len(after) = last /\ after[last] = m
    BY <1>2
  <2>2. \A k \in 1 .. Len(channel) - d : after[k] = channel[k + d]
    BY <1>2
  <2>. HIDE DEF after
  <2>3. ASSUME NEW k \in 1 .. last, k # last
        PROVE  k < last /\ k + d \in 1 .. Len(channel) /\ after[k] = channel[k + d]
    <3>1. k < last /\ k \in 1 .. Len(channel) - d /\ k + d \in 1 .. Len(channel)
      BY <1>3, <2>3
    <3>. QED  BY <2>2, <3>1
  <2>. QED  BY <2>1, <2>3
<1>5. \A k \in 1 .. Len(channel) : channel[k].number \in Nat /\ channel[k].serverId \in Nat
  BY MessageFields
<1>. HIDE DEF after, last
<1>6. ASSUME NEW k \in 1 .. Len(after)
      PROVE  /\ number < after[k].number /\ after[k].number < sequence + 1
             /\ map <= after[k].serverId /\ after[k].serverId <= newest
  <2>1. CASE after[k] = m
    BY <2>1
  <2>2. CASE k + d \in 1 .. Len(channel) /\ after[k] = channel[k + d]
    BY <1>5, <2>2 DEF Ordered
  <2>. QED  BY <1>4, <2>1, <2>2
<1>7. ASSUME NEW k \in 1 .. Len(after), NEW l \in 1 .. Len(after), k < l
      PROVE  /\ after[k].number < after[l].number
             /\ after[k].serverId <= after[l].serverId
             /\ after[k].kind = "gamestate" => after[l].kind # "snapshot"
  <2>1. k < last /\ k + d \in 1 .. Len(channel) /\ after[k] = channel[k + d]
    BY <1>3, <1>4, <1>7
  <2>2. CASE after[l] = m
    BY <2>1, <2>2 DEF Ordered
  <2>3. CASE l + d \in 1 .. Len(channel) /\ after[l] = channel[l + d]
    <3>1. k + d < l + d
      BY <1>2, <1>7
    <3>. QED  BY <2>1, <2>3, <3>1 DEF Ordered
  <2>. QED  BY <1>4, <2>2, <2>3
<1>8. Ordered(after, number, map, sequence + 1, newest)
  BY <1>6, <1>7 DEF Ordered
<1>. QED  BY <1>8 DEF after

\* Receiving message k discards those before it.
LEMMA OrderedRest ==
    ASSUME NEW channel \in Seq(ToClient), NEW number \in Nat, NEW map \in Nat, NEW sequence \in Nat,
           NEW newest \in Nat, Ordered(channel, number, map, sequence, newest),
           NEW k \in 1 .. Len(channel), NEW learned \in Nat, learned <= channel[k].serverId
    PROVE  Ordered(After(channel, k), channel[k].number, learned, sequence, newest)
<1>1. /\ After(channel, k) \in Seq(ToClient) /\ Len(After(channel, k)) = Len(channel) - k
      /\ \A i \in 1 .. Len(channel) - k : After(channel, k)[i] = channel[i + k]
  <2>1. k \in 0 .. Len(channel)
    OBVIOUS
  <2>. QED  BY <2>1, SuffixElements DEF After
<1>. DEFINE rest == After(channel, k)
<1>2. \A i \in 1 .. Len(channel) : channel[i].number \in Nat /\ channel[i].serverId \in Nat
  BY MessageFields
<1>3. \A i \in 1 .. Len(rest) : i + k \in 1 .. Len(channel) /\ k < i + k /\ rest[i] = channel[i + k]
  BY <1>1
<1>. HIDE DEF rest
<1>4. ASSUME NEW i \in 1 .. Len(rest)
      PROVE  /\ channel[k].number < rest[i].number /\ rest[i].number < sequence
             /\ learned <= rest[i].serverId /\ rest[i].serverId <= newest
  <2>1. /\ channel[k].number < channel[i + k].number /\ channel[i + k].number < sequence
        /\ channel[k].serverId <= channel[i + k].serverId /\ channel[i + k].serverId <= newest
    BY <1>3 DEF Ordered
  <2>2. PICK message : message = channel[i + k]
    OBVIOUS
  <2>3. rest[i] = message /\ message.serverId \in Nat /\ channel[k].serverId \in Nat
    BY <1>2, <1>3, <2>2
  <2>4. learned <= message.serverId
    BY SMTT(30), <2>1, <2>2, <2>3
  <2>. QED  BY <2>1, <2>2, <2>3, <2>4
<1>5. ASSUME NEW i \in 1 .. Len(rest), NEW l \in 1 .. Len(rest), i < l
      PROVE  /\ rest[i].number < rest[l].number
             /\ rest[i].serverId <= rest[l].serverId
             /\ rest[i].kind = "gamestate" => rest[l].kind # "snapshot"
  <2>1. i + k < l + k
    BY <1>5
  <2>. QED  BY <1>3, <2>1 DEF Ordered
<1>6. Ordered(rest, channel[k].number, learned, sequence, newest)
  BY <1>4, <1>5 DEF Ordered
<1>. QED  BY <1>6 DEF rest

-----------------------------------------------------------------------------
\* The inductive invariant, and what an action that leaves a part alone keeps of it.

Inv(E) == TypesInv /\ WireInv /\ ClientInv /\ MapInv(E)

LEMMA Positive ==
    /\ PACKET_BACKUP \in Nat \ {0} /\ Margin \in Nat
    /\ numSnapshotEntities \in Nat \ {0} /\ MAX_PARSE_ENTITIES \in Nat \ {0}
    /\ ParseMargin \in Nat \ {0} /\ ParseMargin < MAX_PARSE_ENTITIES
    /\ MaxSequence \in Nat \ {0, 1}
BY BackupAssumption, RingAssumption, BoundsAssumption

LEMMA ClientKept ==
    ASSUME UNCHANGED <<serverMessageSequence, snap, snapshots, parseEntities, parseEntitiesNum>>
    PROVE  /\ ClientInv => ClientInv'
           /\ \A m : Sound(m) => Sound(m)'
<1>1. \A s : Held(s) => Held(s)'
  BY DEF Held
<1>2. ClientInv => ClientInv'
  BY <1>1 DEF ClientInv
<1>3. \A m : Sound(m) => Sound(m)'
  BY DEF Sound, SourceNumber, SourceView, SourceKept, Source
<1>. QED  BY <1>2, <1>3

\* What the server must have kept so that what is named stays named.
KeepsFrames ==
    \A n \in Nat : n < outgoingSequence => \A view : Recorded(n, view) => Recorded(n, view)'

LEMMA NamedKept ==
    ASSUME TypesInv, UNCHANGED <<snap, snapshots>>, KeepsFrames,
           outgoingSequence' = outgoingSequence \/ outgoingSequence' = outgoingSequence + 1
    PROVE  \A n \in Nat : n < outgoingSequence /\ Named(n) => Named(n)'
<1>. SUFFICES ASSUME NEW n \in Nat, n < outgoingSequence, Named(n) PROVE Named(n)'
  OBVIOUS
<1>1. outgoingSequence \in Nat
  BY Positive DEF TypesInv
<1>2. (outgoingSequence - n < PACKET_BACKUP)' => outgoingSequence - n < PACKET_BACKUP
  BY <1>1, Positive
<1>3. \A view : Recorded(n, view) => Recorded(n, view)'
  BY DEF KeepsFrames
<1>4. PICK s : s = snapshots[n % PACKET_BACKUP]
  OBVIOUS
<1>5. snapshots[n % PACKET_BACKUP]' = s
  BY <1>4
<1>6. (outgoingSequence - n < PACKET_BACKUP)' => s.valid /\ s.messageNum = n /\ Recorded(n, s.built)
  BY <1>2, <1>4 DEF Named
<1>7. (outgoingSequence - n < PACKET_BACKUP)' => s.valid /\ s.messageNum = n /\ Recorded(n, s.built)'
  BY <1>3, <1>6
<1>8. 0 < n /\ n <= snap.messageNum /\ snap' = snap
  BY DEF Named
<1>. QED  BY <1>5, <1>7, <1>8 DEF Named

LEMMA FramesKept ==
    ASSUME UNCHANGED <<outgoingSequence, frames, snapshotEntities, nextSnapshotEntities>>
    PROVE  KeepsFrames
BY DEF KeepsFrames, Recorded

LEMMA FramesKeptLater ==
    ASSUME TypesInv, outgoingSequence' = outgoingSequence + 1,
           UNCHANGED <<frames, snapshotEntities, nextSnapshotEntities>>
    PROVE  KeepsFrames
<1>. SUFFICES ASSUME NEW n \in Nat, NEW view, Recorded(n, view) PROVE Recorded(n, view)'
  BY DEF KeepsFrames
<1>1. outgoingSequence \in Nat
  BY Positive DEF TypesInv
<1>2. RecordedIn(n, view, outgoingSequence + 1, frames, snapshotEntities, nextSnapshotEntities)
  BY <1>1, RecordedLater DEF Recorded
<1>. QED  BY <1>2 DEF Recorded

LEMMA FramesKeptWritten ==
    ASSUME TypesInv, NEW new \in Views,
           snapshotEntities' = Written(snapshotEntities, nextSnapshotEntities, new),
           nextSnapshotEntities' = nextSnapshotEntities + Count(new),
           \/ UNCHANGED <<outgoingSequence, frames>>
           \/ /\ outgoingSequence' = outgoingSequence + 1
              /\ \E f \in Frame : frames' = [frames EXCEPT ![outgoingSequence % PACKET_BACKUP] = f]
    PROVE  KeepsFrames
<1>. SUFFICES ASSUME NEW n \in Nat, n < outgoingSequence, NEW view, Recorded(n, view)
              PROVE  Recorded(n, view)'
  BY DEF KeepsFrames
<1>1. /\ outgoingSequence \in Nat /\ nextSnapshotEntities \in Nat /\ frames \in [Slots -> Frame]
      /\ snapshotEntities \in [0 .. numSnapshotEntities - 1 -> Entity]
  BY Positive DEF TypesInv
<1>2. new \in Contents /\ Count(new) \in Nat
  BY ViewContents
<1>3. RecordedIn(n, view, outgoingSequence, frames, snapshotEntities, nextSnapshotEntities)
  BY DEF Recorded
<1>4. /\ RecordedIn(n, view, outgoingSequence, frames,
                    Written(snapshotEntities, nextSnapshotEntities, new), nextSnapshotEntities + Count(new))
      /\ \A f \in Frame :
            RecordedIn(n, view, outgoingSequence + 1, [frames EXCEPT ![outgoingSequence % PACKET_BACKUP] = f],
                       Written(snapshotEntities, nextSnapshotEntities, new), nextSnapshotEntities + Count(new))
  BY <1>1, <1>2, <1>3, RecordedKept
<1>5. CASE UNCHANGED <<outgoingSequence, frames>>
  BY <1>4, <1>5 DEF Recorded
<1>6. CASE /\ outgoingSequence' = outgoingSequence + 1
           /\ \E f \in Frame : frames' = [frames EXCEPT ![outgoingSequence % PACKET_BACKUP] = f]
  <2>1. PICK f \in Frame : frames' = [frames EXCEPT ![outgoingSequence % PACKET_BACKUP] = f]
    BY <1>6
  <2>2. RecordedIn(n, view, outgoingSequence', frames', snapshotEntities', nextSnapshotEntities')
    BY <1>4, <1>6, <2>1
  <2>. QED  BY <2>2 DEF Recorded
<1>. QED  BY <1>5, <1>6

\* What is named is older than what is sent next.
LEMMA NamedBefore ==
    ASSUME TypesInv, ClientInv, NEW E \in Nat, OrderInv(E), NEW n \in Nat, Named(n)
    PROVE  n <= serverMessageSequence /\ n < outgoingSequence
<1>1. n <= snap.messageNum /\ snap.messageNum <= serverMessageSequence /\ serverMessageSequence < outgoingSequence
  BY DEF Named, ClientInv, OrderInv
<1>2. snap.messageNum \in Nat /\ serverMessageSequence \in Nat /\ outgoingSequence \in Nat
  BY Positive DEF TypesInv, Snapshot
<1>. QED  BY <1>1, <1>2

\* Names stay, if what they name does.
LEMMA NamesKept ==
    ASSUME TypesInv, NEW E \in Nat, NamesInv(E), \A n \in Nat : Named(n) => Named(n)',
           UNCHANGED <<clServerId, snap, toServer>>,
           UNCHANGED <<state, deltaMessage>> \/ state' # "ACTIVE" \/ deltaMessage' = 0
    PROVE  NamesInv(E)'
<1>1. (E <= clServerId /\ snap.valid => Named(snap.messageNum))'
  <2>1. PICK n \in Nat : n = snap.messageNum
    BY DEF TypesInv, Snapshot
  <2>2. E <= clServerId /\ snap.valid => Named(n)'
    BY <2>1 DEF NamesInv
  <2>. QED  BY <2>1, <2>2
<1>2. (state = "ACTIVE" /\ 0 < deltaMessage => E <= clServerId /\ Named(deltaMessage))'
  <2>1. CASE state' # "ACTIVE" \/ deltaMessage' = 0
    BY <2>1
  <2>2. CASE UNCHANGED <<state, deltaMessage>>
    <3>1. PICK n \in Nat : n = deltaMessage
      BY DEF TypesInv
    <3>2. state = "ACTIVE" /\ 0 < n => E <= clServerId /\ Named(n)'
      BY <3>1 DEF NamesInv
    <3>. QED  BY <2>2, <3>1, <3>2
  <2>. QED  BY <2>1, <2>2
<1>3. ASSUME NEW k \in 1 .. Len(toServer), E <= toServer[k].serverId, toServer[k].move = "move"
      PROVE  \E n : n = toServer[k].acknowledge /\ Named(n)'
  <2>1. toServer[k] \in Packet
    BY DEF TypesInv
  <2>2. PICK n \in Nat : n = toServer[k].acknowledge
    BY <2>1 DEF Packet
  <2>3. Named(n)
    BY <1>3, <2>2 DEF NamesInv
  <2>. QED  BY <2>2, <2>3
<1>4. (\A k \in 1 .. Len(toServer) :
          E <= toServer[k].serverId /\ toServer[k].move = "move" => Named(toServer[k].acknowledge))'
  BY <1>3
<1>. QED  BY <1>1, <1>2, <1>4 DEF NamesInv

-----------------------------------------------------------------------------
\* The server sends a snapshot.

\* The source of a difference is a frame that both ends have.
LEMMA SourceFrame ==
    ASSUME NEW E \in Nat, Inv(E), NEW new \in Views,
           NEW last, last = LastFrame(nextSnapshotEntities + Count(new)), last # 0
    PROVE  /\ last \in Nat /\ last < PACKET_BACKUP /\ outgoingSequence - last = deltaMessage
           /\ deltaMessage <= snap.messageNum
           /\ snapshots[deltaMessage % PACKET_BACKUP].valid
           /\ snapshots[deltaMessage % PACKET_BACKUP].messageNum = deltaMessage
           /\ snapshots[deltaMessage % PACKET_BACKUP].built \in Views
           /\ Entities(Written(snapshotEntities, nextSnapshotEntities, new), frames[deltaMessage % PACKET_BACKUP])
                = snapshots[deltaMessage % PACKET_BACKUP].built
<1>. DEFINE next == nextSnapshotEntities + Count(new)
            ring == Written(snapshotEntities, nextSnapshotEntities, new)
            slot == deltaMessage % PACKET_BACKUP
<1>1. PICK sequence \in Nat, delta \in Nat : sequence = outgoingSequence /\ delta = deltaMessage
  BY Positive DEF Inv, TypesInv
<1>2. /\ ~(delta <= 0) /\ state = "ACTIVE" /\ ~(sequence - delta >= PACKET_BACKUP - Margin)
      /\ ~OutOfDateEntities(frames[slot], next)
      /\ last = sequence - delta
  BY <1>1 DEF LastFrame, OutOfDatePacket
<1>3. delta < sequence
  BY <1>1 DEF Inv, MapInv, OrderInv
<1>4. last \in Nat /\ last < PACKET_BACKUP /\ sequence - last = delta /\ 0 < delta
  BY <1>1, <1>2, <1>3, Positive
<1>5. Named(delta)
  BY <1>1, <1>2, <1>4 DEF Inv, MapInv, NamedInv, NamesInv
<1>6. PICK s \in Snapshot : s = snapshots[slot]
  BY <1>1, SlotOf DEF Inv, TypesInv
<1>7. PICK frame \in Frame : frame = frames[slot]
  BY <1>1, SlotOf DEF Inv, TypesInv
<1>8. sequence - delta < PACKET_BACKUP
  BY <1>2, <1>4
<1>9. s.valid /\ s.messageNum = delta /\ Recorded(delta, s.built) /\ delta <= snap.messageNum
  BY <1>1, <1>5, <1>6, <1>8 DEF Named
<1>10. s.built \in Views
  <2>1. slot \in Slots
    BY <1>1, SlotOf
  <2>. QED  BY <1>6, <1>9, <2>1 DEF Inv, ClientInv, Held
<1>11. RecordedIn(delta, s.built, sequence, frames, ring, next)
  <2>1. new \in Contents /\ Count(new) \in Nat
    BY ViewContents
  <2>2. /\ nextSnapshotEntities \in Nat /\ frames \in [Slots -> Frame]
        /\ snapshotEntities \in [0 .. numSnapshotEntities - 1 -> Entity]
    BY DEF Inv, TypesInv
  <2>3. RecordedIn(delta, s.built, sequence, frames, snapshotEntities, nextSnapshotEntities)
    BY <1>1, <1>9 DEF Recorded
  <2>. QED  BY <1>3, <2>1, <2>2, <2>3, RecordedKept
<1>12. next - frame.first <= numSnapshotEntities
  <2>1. next \in Nat /\ frame.first \in Nat
    BY ViewContents DEF Inv, TypesInv, Frame
  <2>2. ~(frame.first <= next - numSnapshotEntities)
    BY <1>2, <1>7 DEF OutOfDateEntities
  <2>. HIDE DEF next
  <2>. QED  BY <2>1, <2>2, Positive
<1>13. Entities(ring, frame) = s.built
  <2>. HIDE DEF ring, next
  <2>. QED  BY <1>1, <1>7, <1>8, <1>11, <1>12 DEF RecordedIn
<1>. QED  BY <1>1, <1>4, <1>6, <1>7, <1>9, <1>10, <1>13

LEMMA DifferenceTypes ==
    ASSUME NEW old \in Views \union {Nothing}, NEW new \in Views
    PROVE  Difference(old, new).changes \in Changes /\ Difference(old, new).removed \in SUBSET Nat
<1>. DEFINE before(n) == IF n \in DOMAIN old THEN old[n] ELSE Baseline
            sent == {n \in DOMAIN new : n \notin DOMAIN old \/ old[n] # new[n]}
            change(n) == (new[n] - before(n)) % Values
<1>0. Values \in Nat \ {0}
  BY ValuesAssumption
<1>1. /\ old \in [DOMAIN old -> Nat] /\ DOMAIN old \in SUBSET Nat
      /\ new \in [DOMAIN new -> Nat] /\ DOMAIN new \in SUBSET Nat
  <2>1. old \in Contents /\ new \in Contents
    BY ViewContents
  <2>. QED  BY <2>1 DEF Contents, Changes
<1>2. ASSUME NEW n \in sent PROVE change(n) \in Nat
  <2>1. PICK d \in Int : d = new[n] - before(n)
    BY <1>1 DEF Baseline
  <2>2. d % Values \in 0 .. Values - 1
    BY <1>0, Division
  <2>. QED  BY <1>0, <2>1, <2>2
<1>3. /\ Difference(old, new).changes = [n \in sent |-> change(n)]
      /\ Difference(old, new).removed = DOMAIN old \ DOMAIN new
  BY DEF Difference
<1>4. sent \in SUBSET Nat
  BY <1>1
<1>. HIDE DEF sent, change
<1>5. [n \in sent |-> change(n)] \in [sent -> Nat]
  BY <1>2
<1>6. [n \in sent |-> change(n)] \in Changes
  BY <1>4, <1>5 DEF Changes
<1>. QED  BY <1>1, <1>3, <1>6

\* What SV_SendClientSnapshot puts on the wire is a sound difference, or a nop.
LEMMA BuiltMessage ==
    ASSUME NEW E \in Nat, Inv(E), SV_SendClientSnapshot
    PROVE  \E new \in Views, m \in ToClient, f \in Frame :
              /\ toClient' = Send(toClient, m)
              /\ snapshotEntities' = Written(snapshotEntities, nextSnapshotEntities, new)
              /\ nextSnapshotEntities' = nextSnapshotEntities + Count(new)
              /\ frames' = [frames EXCEPT ![outgoingSequence % PACKET_BACKUP] = f]
              /\ m.number = outgoingSequence /\ m.serverId = serverId /\ m.kind # "gamestate"
              /\ m.kind = "snapshot" =>
                    /\ Sound(m) /\ serverIdAcknowledge \in {serverId, restartedServerId}
                    /\ Recorded(m.number, m.built)'
<1>. DEFINE next(new) == nextSnapshotEntities + Count(new)
            ring(new) == Written(snapshotEntities, nextSnapshotEntities, new)
            frame(new) == [first |-> nextSnapshotEntities, count |-> Count(new)]
<1>1. PICK new \in Views :
         /\ SendBuilt(new, ring(new), next(new))
         /\ snapshotEntities' = ring(new) /\ nextSnapshotEntities' = next(new)
  BY DEF SV_SendClientSnapshot
<1>2. frames' = [frames EXCEPT ![outgoingSequence % PACKET_BACKUP] = frame(new)]
  BY <1>1 DEF SendBuilt
<1>3. outgoingSequence' = outgoingSequence + 1
  BY DEF SV_SendClientSnapshot
<1>4. /\ outgoingSequence \in Nat /\ serverId \in Nat /\ nextSnapshotEntities \in Nat
      /\ frames \in [Slots -> Frame] /\ snapshots \in [Slots -> Snapshot]
      /\ snapshotEntities \in [0 .. numSnapshotEntities - 1 -> Entity] /\ deltaMessage \in Nat
  BY Positive DEF Inv, TypesInv
<1>5. frame(new) \in Frame
  BY <1>4, ViewContents DEF Frame
<1>6. RecordedIn(outgoingSequence, new, outgoingSequence', frames', snapshotEntities', nextSnapshotEntities')
  BY <1>1, <1>2, <1>3, <1>4, RecordedNew
<1>7. PICK last : last = LastFrame(next(new))
  OBVIOUS
<1>8. PICK old : old = IF last = 0 THEN Nothing
                       ELSE Entities(ring(new), frames[(outgoingSequence - last) % PACKET_BACKUP])
  OBVIOUS
<1>9. PICK difference : difference = Difference(old, new)
  OBVIOUS
<1>. DEFINE m == [kind |-> "snapshot", number |-> outgoingSequence, serverId |-> serverId,
                  deltaNum |-> last, built |-> new,
                  changes |-> difference.changes, removed |-> difference.removed]
<1>10. \/ serverIdAcknowledge \in {serverId, restartedServerId} /\ toClient' = Send(toClient, m)
       \/ toClient' = Send(toClient, Message("nop"))
  BY <1>1, <1>7, <1>8, <1>9 DEF SendBuilt
<1>11. CASE toClient' = Send(toClient, Message("nop"))
  <2>1. PICK n : n = Message("nop")
    OBVIOUS
  <2>2. n \in ToClient /\ n.number = outgoingSequence /\ n.serverId = serverId /\ n.kind = "nop"
    BY <1>4, <2>1 DEF Message, ToClient, PlainMessage
  <2>. QED  BY <1>1, <1>2, <1>5, <1>11, <2>1, <2>2
<1>12. CASE serverIdAcknowledge \in {serverId, restartedServerId} /\ toClient' = Send(toClient, m)
  <2>1. /\ last \in Nat
        /\ last # 0 =>
              /\ last < PACKET_BACKUP /\ outgoingSequence - last = deltaMessage
              /\ deltaMessage <= snap.messageNum
              /\ snapshots[deltaMessage % PACKET_BACKUP].valid
              /\ snapshots[deltaMessage % PACKET_BACKUP].messageNum = deltaMessage
              /\ snapshots[deltaMessage % PACKET_BACKUP].built \in Views
              /\ old = snapshots[deltaMessage % PACKET_BACKUP].built
    <3>1. CASE last = 0
      BY <3>1
    <3>2. CASE last # 0
      <4>1. /\ last \in Nat /\ last < PACKET_BACKUP /\ outgoingSequence - last = deltaMessage
            /\ deltaMessage <= snap.messageNum
            /\ snapshots[deltaMessage % PACKET_BACKUP].valid
            /\ snapshots[deltaMessage % PACKET_BACKUP].messageNum = deltaMessage
            /\ snapshots[deltaMessage % PACKET_BACKUP].built \in Views
            /\ Entities(ring(new), frames[deltaMessage % PACKET_BACKUP])
                = snapshots[deltaMessage % PACKET_BACKUP].built
        BY <1>7, <3>2, SourceFrame
      <4>2. old = Entities(ring(new), frames[(outgoingSequence - last) % PACKET_BACKUP])
        BY <1>8, <3>2
      <4>3. (outgoingSequence - last) % PACKET_BACKUP = deltaMessage % PACKET_BACKUP
        BY <4>1
      <4>4. old = snapshots[deltaMessage % PACKET_BACKUP].built
        BY <4>1, <4>2, <4>3
      <4>. QED  BY <3>2, <4>1, <4>4
    <3>. QED  BY <3>1, <3>2
  <2>2. old \in Views \union {Nothing}
    BY <1>8, <2>1
  <2>3. difference.changes \in Changes /\ difference.removed \in SUBSET Nat
    BY <1>9, <2>2, DifferenceTypes
  <2>4. PICK n : n = m
    OBVIOUS
  <2>5. /\ n.kind = "snapshot" /\ n.number = outgoingSequence /\ n.serverId = serverId
        /\ n.deltaNum = last /\ n.built = new
        /\ n.changes = difference.changes /\ n.removed = difference.removed
    BY <2>4
  <2>6. n \in ToClient
    BY <1>4, <2>1, <2>3, <2>4 DEF ToClient, SnapshotMessage
  <2>7. n.deltaNum # 0 => SourceNumber(n) = deltaMessage /\ Source(n) = snapshots[deltaMessage % PACKET_BACKUP]
    <3>1. n.number - n.deltaNum = outgoingSequence - last
      BY <2>5
    <3>. QED  BY <2>1, <2>5, <3>1 DEF SourceNumber, Source
  <2>8. SourceView(n) = old
    BY <1>8, <2>1, <2>5, <2>7 DEF SourceView
  <2>9. Sound(n)
    <3>1. n.deltaNum # 0 =>
            /\ n.deltaNum < PACKET_BACKUP
            /\ SourceNumber(n) <= snap.messageNum
            /\ Source(n).valid /\ Source(n).messageNum = n.number - n.deltaNum
      BY <2>1, <2>5, <2>7 DEF SourceNumber
    <3>2. /\ n.changes = Difference(SourceView(n), n.built).changes
          /\ n.removed = Difference(SourceView(n), n.built).removed
      BY <1>9, <2>5, <2>8
    <3>. QED  BY <3>1, <3>2 DEF Sound, SourceKept
  <2>10. Recorded(n.number, n.built)'
    <3>1. RecordedIn(n.number, n.built, outgoingSequence', frames', snapshotEntities', nextSnapshotEntities')
      BY <1>6, <2>5
    <3>. QED  BY <3>1 DEF Recorded
  <2>. HIDE DEF m
  <2>. QED  BY <1>1, <1>2, <1>5, <1>12, <2>4, <2>5, <2>6, <2>9, <2>10
<1>. QED  BY <1>10, <1>11, <1>12

LEMMA SendsSnapshot ==
    ASSUME NEW E \in Nat, Inv(E), SV_SendClientSnapshot
    PROVE  Inv(E)'
<1>. USE DEF Inv, MapInv
<1>1. PICK new \in Views, m \in ToClient, f \in Frame :
         /\ toClient' = Send(toClient, m)
         /\ snapshotEntities' = Written(snapshotEntities, nextSnapshotEntities, new)
         /\ nextSnapshotEntities' = nextSnapshotEntities + Count(new)
         /\ frames' = [frames EXCEPT ![outgoingSequence % PACKET_BACKUP] = f]
         /\ m.number = outgoingSequence /\ m.serverId = serverId /\ m.kind # "gamestate"
         /\ m.kind = "snapshot" =>
               /\ Sound(m) /\ serverIdAcknowledge \in {serverId, restartedServerId}
               /\ Recorded(m.number, m.built)'
  BY BuiltMessage
<1>2. /\ outgoingSequence' = outgoingSequence + 1 /\ outgoingSequence < MaxSequence
      /\ UNCHANGED <<state, mapVars, serverIdAcknowledge, gamestateMessageNum, deltaMessage, toServer>>
      /\ UNCHANGED clientVars
  BY DEF SV_SendClientSnapshot, SequenceLeft
<1>3. /\ toClient' \in Seq(ToClient)
      /\ \A k \in 1 .. Len(toClient') : toClient'[k] = m \/ \E j \in 1 .. Len(toClient) : toClient'[k] = toClient[j]
  <2>1. toClient \in Seq(ToClient)
    BY DEF TypesInv
  <2>2. toClient' = Send(toClient, m)
    BY <1>1
  <2>3. toClient' \in Seq(ToClient)
    BY <2>1, <2>2, SentType
  <2>4. ASSUME NEW k \in 1 .. Len(toClient'), toClient'[k] # m
        PROVE  \E j \in 1 .. Len(toClient) : toClient'[k] = toClient[j]
    BY SMTT(30), <2>1, <2>2, <2>4, SentFrom
  <2>. QED  BY <2>3, <2>4
<1>4. TypesInv'
  <2>1. outgoingSequence' \in 1 .. MaxSequence
    BY <1>2, Positive DEF TypesInv
  <2>2. frames' \in [Slots -> Frame]
    BY <1>1 DEF TypesInv
  <2>3. /\ snapshotEntities' \in [0 .. numSnapshotEntities - 1 -> Entity]
        /\ nextSnapshotEntities' \in Nat
    <3>1. /\ new \in Contents /\ Count(new) \in Nat /\ nextSnapshotEntities \in Nat
          /\ snapshotEntities \in [0 .. numSnapshotEntities - 1 -> Entity]
      BY ViewContents DEF TypesInv
    <3>2. Written(snapshotEntities, nextSnapshotEntities, new) \in [0 .. numSnapshotEntities - 1 -> Entity]
      BY <3>1, Positive, WrittenAt DEF Overwritten
    <3>. QED  BY <1>1, <3>1, <3>2
  <2>. QED  BY <1>2, <1>3, <2>1, <2>2, <2>3 DEF TypesInv, mapVars, clientVars
<1>5. ClientInv' /\ \A x : Sound(x) => Sound(x)'
  BY <1>2, ClientKept DEF clientVars
<1>6. WireInv'
  <2>1. m.kind = "snapshot" => Sound(m)'
    BY <1>1, <1>5
  <2>2. \A j \in 1 .. Len(toClient) : toClient[j].kind = "snapshot" => Sound(toClient[j])
    BY DEF WireInv
  <2>3. ASSUME NEW x, NEW k \in 1 .. Len(toClient'), x = toClient'[k], x.kind = "snapshot" PROVE Sound(x)'
    BY <1>3, <1>5, <2>1, <2>2, <2>3
  <2>4. \A k \in 1 .. Len(toClient') : toClient'[k].kind = "snapshot" =>
            \E x : x = toClient'[k] /\ Sound(x)'
    BY <2>3
  <2>. QED  BY <2>4 DEF WireInv
<1>7. E <= serverId /\ E <= restartedServerId /\ serverIdAcknowledge <= clServerId /\ clServerId <= serverId
  BY DEF OrderInv, TypesInv
<1>8. m.kind = "snapshot" => E <= clServerId
  BY <1>1, <1>7 DEF TypesInv
<1>9. OrderInv(E)'
  <2>1. m.kind = "snapshot" => \A k \in 1 .. Len(toClient) : toClient[k].kind # "gamestate"
    <3>. SUFFICES ASSUME m.kind = "snapshot", NEW k \in 1 .. Len(toClient), toClient[k].kind = "gamestate"
                  PROVE  FALSE
      OBVIOUS
    <3>1. clServerId <= toClient[k].serverId
      BY DEF OrderInv, Ordered
    <3>2. toClient[k].serverId \in Nat
      BY MessageFields DEF TypesInv
    <3>3. E <= toClient[k].serverId
      BY <1>8, <3>1, <3>2 DEF TypesInv
    <3>4. clServerId < E
      BY <3>3 DEF GameStatesInv
    <3>. QED  BY <1>8, <3>4 DEF TypesInv
  <2>2. /\ toClient \in Seq(ToClient) /\ serverMessageSequence \in Nat /\ clServerId \in Nat
        /\ outgoingSequence \in Nat /\ serverId \in Nat
    BY Positive DEF TypesInv
  <2>3. Ordered(toClient, serverMessageSequence, clServerId, outgoingSequence, serverId)
    BY DEF OrderInv
  <2>4. serverMessageSequence < outgoingSequence
    BY DEF OrderInv
  <2>5. Ordered(Send(toClient, m), serverMessageSequence, clServerId, outgoingSequence + 1, serverId)
    BY <1>1, <1>7, <2>1, <2>2, <2>3, <2>4, OrderedSent
  <2>6. /\ serverMessageSequence < outgoingSequence + 1 /\ gamestateMessageNum < outgoingSequence + 1
        /\ deltaMessage < outgoingSequence + 1
    BY <2>2 DEF OrderInv, TypesInv
  <2>. QED  BY <1>1, <1>2, <2>5, <2>6 DEF OrderInv, mapVars, clientVars
<1>10. GameStatesInv(E)'
  <2>1. \A k \in 1 .. Len(toClient') :
           toClient'[k].kind = "gamestate" /\ E <= toClient'[k].serverId =>
              toClient'[k].number = gamestateMessageNum /\ clServerId < E
    BY <1>1, <1>3 DEF GameStatesInv
  <2>2. \A k \in 1 .. Len(toClient') :
           toClient'[k].kind = "snapshot" /\ E <= toClient'[k].serverId => E <= clServerId
    BY <1>3, <1>8 DEF GameStatesInv
  <2>. QED  BY <1>2, <2>1, <2>2 DEF GameStatesInv, clientVars
<1>11. KeepsFrames
  BY <1>1, <1>2, FramesKeptWritten
<1>12. NamedInv(E)'
  <2>1. \A n \in Nat : Named(n) => Named(n)'
    BY <1>2, <1>11, NamedKept, NamedBefore DEF clientVars
  <2>2. ASSUME NEW k \in 1 .. Len(toClient'), toClient'[k].kind = "snapshot", E <= toClient'[k].serverId
        PROVE  Recorded(toClient[k].number, toClient[k].built)'
    <3>1. PICK x \in ToClient : x = toClient'[k]
      BY <1>3
    <3>2. CASE x = m
      <4>1. Recorded(x.number, x.built)'
        BY <1>1, <2>2, <3>1, <3>2
      <4>. QED  BY <3>1, <4>1
    <3>3. CASE \E j \in 1 .. Len(toClient) : x = toClient[j]
      <4>1. PICK j \in 1 .. Len(toClient) : x = toClient[j]
        BY <3>3
      <4>2. x.number \in Nat /\ x.number < outgoingSequence
        BY <4>1, MessageFields DEF OrderInv, Ordered
      <4>3. Recorded(x.number, x.built)
        BY <2>2, <3>1, <4>1 DEF NamedInv
      <4>4. Recorded(x.number, x.built)'
        BY <1>11, <4>2, <4>3 DEF KeepsFrames
      <4>. QED  BY <3>1, <4>4
    <3>. QED  BY <1>3, <3>1, <3>2, <3>3
  <2>3. NamesInv(E)'
    BY <1>2, <2>1, NamesKept DEF clientVars, NamedInv
  <2>. QED  BY <2>2, <2>3 DEF NamedInv
<1>. QED  BY <1>4, <1>5, <1>6, <1>9, <1>10, <1>12

-----------------------------------------------------------------------------
\* Other steps of the server.

LEMMA NamedInvKept ==
    ASSUME NEW E \in Nat, Inv(E), KeepsFrames, UNCHANGED <<toClient, snap, snapshots, clServerId, toServer>>,
           outgoingSequence' = outgoingSequence \/ outgoingSequence' = outgoingSequence + 1
    PROVE  /\ \A n \in Nat : Named(n) => Named(n)'
           /\ UNCHANGED <<state, deltaMessage>> \/ state' # "ACTIVE" \/ deltaMessage' = 0 => NamedInv(E)'
<1>. USE DEF Inv, MapInv
<1>1. \A n \in Nat : Named(n) => Named(n)'
  BY NamedKept, NamedBefore
<1>2. ASSUME NEW k \in 1 .. Len(toClient), toClient[k].kind = "snapshot", E <= toClient[k].serverId
      PROVE  Recorded(toClient[k].number, toClient[k].built)'
  <2>1. PICK m \in ToClient : m = toClient[k]
    BY DEF TypesInv
  <2>2. m.number \in Nat /\ m.number < outgoingSequence
    BY <2>1, MessageFields DEF OrderInv, Ordered
  <2>3. Recorded(m.number, m.built)
    BY <1>2, <2>1 DEF NamedInv
  <2>4. Recorded(m.number, m.built)'
    BY <2>2, <2>3 DEF KeepsFrames
  <2>5. toClient'[k] = m
    BY <2>1
  <2>. QED  BY <2>4, <2>5
<1>3. UNCHANGED <<state, deltaMessage>> \/ state' # "ACTIVE" \/ deltaMessage' = 0 => NamesInv(E)'
  BY <1>1, NamesKept DEF NamedInv
<1>. QED  BY <1>1, <1>2, <1>3 DEF NamedInv

LEMMA ServerStep ==
    ASSUME NEW E \in Nat, Inv(E), TypesInv', KeepsFrames,
           UNCHANGED <<state, mapVars, serverIdAcknowledge, gamestateMessageNum, outgoingSequence,
                       deltaMessage, clientVars, toClient, toServer>>
    PROVE  Inv(E)'
<1>. USE DEF Inv, MapInv, mapVars, clientVars
<1>1. ClientInv' /\ \A x : Sound(x) => Sound(x)'
  BY ClientKept
<1>2. WireInv'
  <2>1. ASSUME NEW k \in 1 .. Len(toClient), toClient[k].kind = "snapshot" PROVE Sound(toClient[k])'
    <3>1. PICK m : m = toClient[k]
      OBVIOUS
    <3>2. Sound(m)'
      BY <1>1, <2>1, <3>1 DEF WireInv
    <3>3. toClient'[k] = m
      BY <3>1
    <3>. QED  BY <3>2, <3>3
  <2>. QED  BY <2>1 DEF WireInv
<1>3. OrderInv(E)'
  BY DEF OrderInv
<1>4. GameStatesInv(E)'
  BY DEF GameStatesInv
<1>5. NamedInv(E)'
  BY NamedInvKept
<1>. QED  BY <1>1, <1>2, <1>3, <1>4, <1>5

LEMMA EndsFrame ==
    ASSUME NEW E \in Nat, Inv(E), SV_Frame
    PROVE  Inv(E)'
<1>1. UNCHANGED <<state, mapVars, serverIdAcknowledge, gamestateMessageNum, outgoingSequence,
                  deltaMessage, frames, ringVars, clientVars, toClient, toServer>>
  BY DEF SV_Frame
<1>2. TypesInv'
  BY <1>1 DEF Inv, TypesInv, mapVars, ringVars, clientVars
<1>3. KeepsFrames
  BY <1>1, FramesKept DEF ringVars
<1>. QED  BY <1>1, <1>2, <1>3, ServerStep

LEMMA BuildsForOthers ==
    ASSUME NEW E \in Nat, Inv(E), SV_BuildClientSnapshot
    PROVE  Inv(E)'
<1>1. UNCHANGED <<state, mapVars, serverIdAcknowledge, gamestateMessageNum,
                   outgoingSequence, deltaMessage, frames, clientVars, toClient, toServer>>
  BY DEF SV_BuildClientSnapshot
<1>2. PICK view \in Views :
          /\ snapshotEntities' = Written(snapshotEntities, nextSnapshotEntities, view)
          /\ nextSnapshotEntities' = nextSnapshotEntities + Count(view)
  BY DEF SV_BuildClientSnapshot
<1>3. view \in Contents /\ Count(view) \in Nat
  BY ViewContents
<1>4. /\ snapshotEntities' \in [0 .. numSnapshotEntities - 1 -> Entity]
      /\ nextSnapshotEntities' \in Nat
  <2>1. /\ snapshotEntities \in [0 .. numSnapshotEntities - 1 -> Entity]
        /\ nextSnapshotEntities \in Nat
    BY DEF Inv, TypesInv
  <2>2. Written(snapshotEntities, nextSnapshotEntities, view) \in [0 .. numSnapshotEntities - 1 -> Entity]
    BY <1>3, <2>1, Positive, WrittenAt DEF Overwritten
  <2>. QED  BY <1>2, <1>3, <2>1, <2>2
<1>5. TypesInv'
  BY <1>1, <1>4 DEF Inv, TypesInv, mapVars, clientVars
<1>6. KeepsFrames
  BY <1>1, <1>2, FramesKeptWritten DEF Inv
<1>. QED  BY <1>1, <1>5, <1>6, ServerStep

LEMMA RestartsMap ==
    ASSUME NEW E \in Nat, Inv(E), SV_SpawnServer, RestartMap
    PROVE  Inv(E)'
<1>. USE DEF Inv, MapInv, mapVars, clientVars, ringVars
<1>1. /\ serverId' = serverId + 1 /\ restartedServerId' = serverId
      /\ state' = "ACTIVE" /\ deltaMessage' = 0
      /\ UNCHANGED <<ringVars, serverIdAcknowledge, gamestateMessageNum, outgoingSequence, frames,
                     clientVars, toClient, toServer>>
  BY DEF SV_SpawnServer, RestartMap, EnterWorld
<1>2. TypesInv'
  BY <1>1 DEF TypesInv
<1>3. ClientInv' /\ \A x : Sound(x) => Sound(x)'
  BY <1>1, ClientKept
<1>4. WireInv'
  <2>1. ASSUME NEW k \in 1 .. Len(toClient), toClient[k].kind = "snapshot" PROVE Sound(toClient[k])'
    <3>1. PICK m : m = toClient[k]
      OBVIOUS
    <3>2. Sound(m)'
      BY <1>3, <2>1, <3>1 DEF WireInv
    <3>3. toClient'[k] = m
      BY <1>1, <3>1
    <3>. QED  BY <3>2, <3>3
  <2>. QED  BY <1>1, <2>1 DEF WireInv
<1>5. OrderInv(E)'
  <2>1. serverId \in Nat /\ clServerId \in Nat /\ restartedServerId \in Nat /\ outgoingSequence \in Nat
    BY Positive DEF TypesInv
  <2>2. \A k \in 1 .. Len(toClient) : toClient[k].serverId \in Nat
    BY MessageFields DEF TypesInv
  <2>3. \A k \in 1 .. Len(toClient) : toClient[k].serverId <= serverId + 1
    BY <2>1, <2>2 DEF OrderInv, Ordered
  <2>4. Ordered(toClient, serverMessageSequence, clServerId, outgoingSequence, serverId + 1)
    BY <2>3 DEF OrderInv, Ordered
  <2>5. E <= serverId /\ clServerId <= serverId + 1 /\ serverId <= serverId + 1
    BY <2>1 DEF OrderInv
  <2>6. 0 < outgoingSequence
    BY DEF TypesInv
  <2>. QED  BY <1>1, <2>4, <2>5, <2>6 DEF OrderInv
<1>6. GameStatesInv(E)'
  BY <1>1 DEF GameStatesInv
<1>7. NamedInv(E)'
  <2>1. KeepsFrames
    BY <1>1, FramesKept
  <2>. QED  BY <1>1, <2>1, NamedInvKept
<1>. QED  BY <1>2, <1>3, <1>4, <1>5, <1>6, <1>7

\* From then on, nothing that was sent or named before is about the map that was loaded.
LEMMA LoadsMap ==
    ASSUME NEW E \in Nat, Inv(E), SV_SpawnServer, LoadMap, NEW F \in Nat, F = serverId'
    PROVE  Inv(F)'
<1>. USE DEF Inv, MapInv, mapVars, clientVars, ringVars
<1>1. /\ serverId' = serverId + 1 /\ restartedServerId' = serverId + 1
      /\ state' = "CONNECTED" /\ UNCHANGED deltaMessage
      /\ snapshotEntities' = [i \in DOMAIN snapshotEntities |-> NoEntity] /\ nextSnapshotEntities' = 0
      /\ UNCHANGED <<serverIdAcknowledge, gamestateMessageNum, outgoingSequence, frames,
                     clientVars, toClient, toServer>>
  BY DEF SV_SpawnServer, LoadMap
<1>2. TypesInv'
  <2>1. snapshotEntities' \in [0 .. numSnapshotEntities - 1 -> Entity]
    BY <1>1 DEF TypesInv, NoEntity, Entity
  <2>. QED  BY <1>1, <2>1 DEF TypesInv
<1>3. ClientInv' /\ \A x : Sound(x) => Sound(x)'
  BY <1>1, ClientKept
<1>4. WireInv'
  <2>1. ASSUME NEW k \in 1 .. Len(toClient), toClient[k].kind = "snapshot" PROVE Sound(toClient[k])'
    <3>1. PICK m : m = toClient[k]
      OBVIOUS
    <3>2. Sound(m)'
      BY <1>3, <2>1, <3>1 DEF WireInv
    <3>3. toClient'[k] = m
      BY <1>1, <3>1
    <3>. QED  BY <3>2, <3>3
  <2>. QED  BY <1>1, <2>1 DEF WireInv
<1>5. /\ serverId \in Nat /\ clServerId \in Nat /\ F = serverId + 1 /\ clServerId < F
      /\ \A k \in 1 .. Len(toClient) : toClient[k].serverId \in Nat /\ toClient[k].serverId < F
      /\ \A k \in 1 .. Len(toServer) : toServer[k].serverId \in Nat /\ toServer[k].serverId < F
  <2>1. serverId \in Nat /\ clServerId \in Nat /\ F = serverId + 1
    BY <1>1 DEF TypesInv
  <2>2. \A k \in 1 .. Len(toClient) : toClient[k].serverId \in Nat /\ toClient[k].serverId <= serverId
    BY MessageFields DEF TypesInv, OrderInv, Ordered
  <2>3. \A k \in 1 .. Len(toServer) : toServer[k] \in Packet /\ toServer[k].serverId <= clServerId
    BY DEF TypesInv, OrderInv
  <2>4. \A k \in 1 .. Len(toServer) : toServer[k].serverId \in Nat
    BY <2>3 DEF Packet
  <2>5. clServerId <= serverId
    BY DEF OrderInv
  <2>. QED  BY <2>1, <2>2, <2>3, <2>4, <2>5
<1>6. OrderInv(F)'
  <2>1. \A k \in 1 .. Len(toClient) : toClient[k].serverId <= F
    BY <1>5
  <2>2. Ordered(toClient, serverMessageSequence, clServerId, outgoingSequence, F)
    BY <2>1 DEF OrderInv, Ordered
  <2>3. clServerId <= F /\ F <= F /\ serverId' = F /\ restartedServerId' = F
    BY <1>1, <1>5
  <2>. QED  BY <1>1, <2>2, <2>3 DEF OrderInv
<1>7. GameStatesInv(F)'
  BY <1>1, <1>5 DEF GameStatesInv
<1>8. NamedInv(F)'
  <2>1. /\ ~(F <= clServerId)
        /\ \A k \in 1 .. Len(toClient) : ~(F <= toClient[k].serverId)
        /\ \A k \in 1 .. Len(toServer) : ~(F <= toServer[k].serverId)
    BY <1>5
  <2>. QED  BY <1>1, <2>1 DEF NamedInv, NamesInv
<1>. QED  BY <1>2, <1>3, <1>4, <1>6, <1>7, <1>8

-----------------------------------------------------------------------------
\* The client sends.

LEMMA WritesPacket ==
    ASSUME NEW E \in Nat, Inv(E), CL_WritePacket
    PROVE  Inv(E)'
<1>. USE DEF Inv, MapInv, mapVars, serverVars, clientVars, ringVars
<1>1. PICK move \in Moves :
         toServer' = Send(toServer,
            [serverId |-> clServerId, acknowledge |-> serverMessageSequence, move |-> move])
  BY DEF CL_WritePacket
<1>2. UNCHANGED <<serverVars, clientVars, toClient>>
  BY DEF CL_WritePacket
<1>3. PICK p : p = [serverId |-> clServerId, acknowledge |-> serverMessageSequence, move |-> move]
  OBVIOUS
<1>4. /\ p \in Packet
      /\ p.serverId = clServerId /\ p.acknowledge = serverMessageSequence
      /\ p.move = "move" => snap.valid /\ serverMessageSequence = snap.messageNum
  BY <1>3 DEF Packet, Moves, HasLastMessage, TypesInv
<1>5. /\ toServer' \in Seq(Packet)
      /\ \A k \in 1 .. Len(toServer') : toServer'[k] = p \/ \E j \in 1 .. Len(toServer) : toServer'[k] = toServer[j]
  <2>1. toServer \in Seq(Packet)
    BY DEF TypesInv
  <2>2. toServer' = Send(toServer, p)
    BY <1>1, <1>3
  <2>3. toServer' \in Seq(Packet)
    BY <1>4, <2>1, <2>2, SentType
  <2>4. ASSUME NEW k \in 1 .. Len(toServer'), toServer'[k] # p
        PROVE  \E j \in 1 .. Len(toServer) : toServer'[k] = toServer[j]
    BY <1>4, <2>1, <2>2, <2>4, SentFrom
  <2>. QED  BY <2>3, <2>4
<1>6. TypesInv'
  BY <1>2, <1>5 DEF TypesInv
<1>7. ClientInv' /\ \A x : Sound(x) => Sound(x)'
  BY <1>2, ClientKept
<1>8. WireInv'
  <2>1. ASSUME NEW k \in 1 .. Len(toClient), toClient[k].kind = "snapshot" PROVE Sound(toClient[k])'
    <3>1. PICK m : m = toClient[k]
      OBVIOUS
    <3>2. Sound(m)'
      BY <1>7, <2>1, <3>1 DEF WireInv
    <3>3. toClient'[k] = m
      BY <1>2, <3>1
    <3>. QED  BY <3>2, <3>3
  <2>. QED  BY <1>2, <2>1 DEF WireInv
<1>9. OrderInv(E)'
  <2>1. \A k \in 1 .. Len(toServer') :
           toServer'[k].acknowledge <= serverMessageSequence /\ toServer'[k].serverId <= clServerId
    BY SMTT(30), <1>4, <1>5 DEF OrderInv, TypesInv
  <2>. QED  BY <1>2, <2>1 DEF OrderInv
<1>10. GameStatesInv(E)'
  <2>1. \A k \in 1 .. Len(toServer') :
           toServer'[k].serverId < E /\ gamestateMessageNum < toServer'[k].acknowledge => clServerId < E
    BY <1>4, <1>5 DEF GameStatesInv
  <2>. QED  BY <1>2, <2>1 DEF GameStatesInv
<1>11. KeepsFrames /\ \A n \in Nat : Named(n) => Named(n)'
  <2>1. KeepsFrames
    BY <1>2, FramesKept
  <2>. QED  BY <1>2, <2>1, NamedKept, NamedBefore
<1>12. ASSUME NEW k \in 1 .. Len(toServer'), E <= toServer'[k].serverId, toServer'[k].move = "move"
       PROVE  \E n : n = toServer'[k].acknowledge /\ Named(n)'
  <2>1. PICK q \in Packet : q = toServer'[k]
    BY <1>5
  <2>2. PICK n \in Nat : n = q.acknowledge
    BY <2>1 DEF Packet
  <2>3. CASE q = p
    <3>1. E <= clServerId /\ snap.valid /\ n = snap.messageNum
      BY <1>4, <1>12, <2>1, <2>2, <2>3
    <3>2. Named(n)
      BY <3>1 DEF NamedInv, NamesInv
    <3>. QED  BY <1>11, <2>1, <2>2, <3>2
  <2>4. CASE \E j \in 1 .. Len(toServer) : q = toServer[j]
    <3>1. Named(n)
      BY <1>12, <2>1, <2>2, <2>4 DEF NamedInv, NamesInv
    <3>. QED  BY <1>11, <2>1, <2>2, <3>1
  <2>. QED  BY <1>5, <2>1, <2>3, <2>4
<1>13. NamedInv(E)'
  <2>1. (E <= clServerId /\ snap.valid => Named(snap.messageNum))'
    <3>1. PICK n \in Nat : n = snap.messageNum
      BY DEF TypesInv, Snapshot
    <3>2. E <= clServerId /\ snap.valid => Named(n)'
      BY <1>11, <3>1 DEF NamedInv, NamesInv
    <3>. QED  BY <1>2, <3>1, <3>2
  <2>2. (state = "ACTIVE" /\ 0 < deltaMessage => E <= clServerId /\ Named(deltaMessage))'
    <3>1. PICK n \in Nat : n = deltaMessage
      BY DEF TypesInv
    <3>2. state = "ACTIVE" /\ 0 < n => E <= clServerId /\ Named(n)'
      BY <1>11, <3>1 DEF NamedInv, NamesInv
    <3>. QED  BY <1>2, <3>1, <3>2
  <2>3. (\A k \in 1 .. Len(toServer) :
          E <= toServer[k].serverId /\ toServer[k].move = "move" => Named(toServer[k].acknowledge))'
    BY <1>12
  <2>4. NamesInv(E)'
    BY <2>1, <2>2, <2>3 DEF NamesInv
  <2>5. ASSUME NEW k \in 1 .. Len(toClient), toClient[k].kind = "snapshot", E <= toClient[k].serverId
        PROVE  Recorded(toClient[k].number, toClient[k].built)'
    <3>1. Recorded(toClient[k].number, toClient[k].built)
      BY <2>5 DEF NamedInv
    <3>. QED  BY <1>2, <3>1 DEF Recorded
  <2>. QED  BY <1>2, <2>4, <2>5 DEF NamedInv
<1>. QED  BY <1>6, <1>7, <1>8, <1>9, <1>10, <1>13

-----------------------------------------------------------------------------
\* The server receives.

PacketsLeft ==
    /\ toServer' \in Seq(Packet)
    /\ \A k \in 1 .. Len(toServer') : \E j \in 1 .. Len(toServer) : toServer'[k] = toServer[j]
\* A message that is not a snapshot may have joined those under way.
SnapshotsLeft ==
    /\ toClient' \in Seq(ToClient)
    /\ \A k \in 1 .. Len(toClient') :
          toClient'[k].kind = "snapshot" => \E j \in 1 .. Len(toClient) : toClient'[k] = toClient[j]

LEMMA NamesLeft ==
    ASSUME TypesInv, NEW E \in Nat, NamesInv(E), \A n \in Nat : Named(n) => Named(n)', PacketsLeft,
           UNCHANGED <<clServerId, snap>>,
           \/ UNCHANGED <<state, deltaMessage>> \/ deltaMessage' = 0 \/ state' # "ACTIVE"
           \/ E <= clServerId /\ \E n \in Nat : n = deltaMessage' /\ Named(n)
    PROVE  NamesInv(E)'
<1>1. (E <= clServerId /\ snap.valid => Named(snap.messageNum))'
  <2>1. PICK n \in Nat : n = snap.messageNum
    BY DEF TypesInv, Snapshot
  <2>2. E <= clServerId /\ snap.valid => Named(n)'
    BY <2>1 DEF NamesInv
  <2>. QED  BY <2>1, <2>2
<1>2. (state = "ACTIVE" /\ 0 < deltaMessage => E <= clServerId /\ Named(deltaMessage))'
  <2>1. CASE deltaMessage' = 0 \/ state' # "ACTIVE"
    BY <2>1
  <2>2. CASE UNCHANGED <<state, deltaMessage>>
    <3>1. PICK n \in Nat : n = deltaMessage
      BY DEF TypesInv
    <3>2. state = "ACTIVE" /\ 0 < n => E <= clServerId /\ Named(n)'
      BY <3>1 DEF NamesInv
    <3>. QED  BY <2>2, <3>1, <3>2
  <2>3. CASE E <= clServerId /\ \E n \in Nat : n = deltaMessage' /\ Named(n)
    <3>1. PICK n \in Nat : n = deltaMessage' /\ Named(n)
      BY <2>3
    <3>2. E <= clServerId' /\ Named(n)'
      BY <2>3, <3>1
    <3>. QED  BY <3>1, <3>2
  <2>. QED  BY <2>1, <2>2, <2>3
<1>3. ASSUME NEW k \in 1 .. Len(toServer'), E <= toServer'[k].serverId, toServer'[k].move = "move"
      PROVE  \E n : n = toServer'[k].acknowledge /\ Named(n)'
  <2>1. PICK p \in Packet : p = toServer'[k]
    BY DEF PacketsLeft
  <2>2. PICK n \in Nat : n = p.acknowledge
    BY <2>1 DEF Packet
  <2>3. PICK j \in 1 .. Len(toServer) : p = toServer[j]
    BY <2>1 DEF PacketsLeft
  <2>4. Named(n)
    BY <1>3, <2>1, <2>2, <2>3 DEF NamesInv
  <2>. QED  BY <2>1, <2>2, <2>4
<1>4. (\A k \in 1 .. Len(toServer) :
          E <= toServer[k].serverId /\ toServer[k].move = "move" => Named(toServer[k].acknowledge))'
  BY <1>3
<1>. QED  BY <1>1, <1>2, <1>4 DEF NamesInv

LEMMA SnapshotsKept ==
    ASSUME NEW E \in Nat, Inv(E), KeepsFrames, SnapshotsLeft,
           UNCHANGED <<serverMessageSequence, snap, snapshots, parseEntities, parseEntitiesNum>>
    PROVE  /\ WireInv'
           /\ \A k \in 1 .. Len(toClient') :
                 toClient'[k].kind = "snapshot" /\ E <= toClient'[k].serverId =>
                     Recorded(toClient[k].number, toClient[k].built)'
<1>. USE DEF Inv, MapInv
<1>1. ASSUME NEW k \in 1 .. Len(toClient'), toClient'[k].kind = "snapshot"
      PROVE  \E m \in ToClient :
                /\ m = toClient'[k] /\ Sound(m)'
                /\ E <= m.serverId => Recorded(m.number, m.built)'
  <2>1. PICK m \in ToClient : m = toClient'[k]
    BY DEF SnapshotsLeft
  <2>2. PICK j \in 1 .. Len(toClient) : m = toClient[j]
    BY <1>1, <2>1 DEF SnapshotsLeft
  <2>3. Sound(m)
    BY <1>1, <2>1, <2>2 DEF WireInv
  <2>4. Sound(m)'
    BY <2>3, ClientKept
  <2>5. m.number \in Nat /\ m.number < outgoingSequence
    BY <2>2, MessageFields DEF OrderInv, Ordered
  <2>6. E <= m.serverId => Recorded(m.number, m.built)
    BY <1>1, <2>1, <2>2 DEF NamedInv
  <2>7. E <= m.serverId => Recorded(m.number, m.built)'
    BY <2>5, <2>6 DEF KeepsFrames
  <2>. QED  BY <2>1, <2>4, <2>7
<1>2. WireInv'
  BY <1>1 DEF WireInv
<1>. QED  BY <1>1, <1>2

\* A packet of the client is taken, with the messages before it that it did not name.
LEMMA TakesPacket ==
    ASSUME NEW E \in Nat, Inv(E), SV_ExecuteClientMessage
    PROVE  /\ PacketsLeft
           /\ \E m \in Packet :
                 /\ \E k \in 1 .. Len(toServer) : m = toServer[k]
                 /\ serverIdAcknowledge' = m.serverId
                 /\ ResendGameState(m) \/ IgnorePacket(m) \/ ExecuteMove(m)
                 /\ m.serverId \in Nat /\ m.serverId <= clServerId
                 /\ m.acknowledge \in Nat /\ m.acknowledge <= serverMessageSequence
<1>. USE DEF Inv, MapInv
<1>1. PICK k \in 1 .. Len(toServer) :
         /\ serverIdAcknowledge' = toServer[k].serverId
         /\ ResendGameState(toServer[k]) \/ IgnorePacket(toServer[k]) \/ ExecuteMove(toServer[k])
         /\ toServer' = After(toServer, k)
  BY DEF SV_ExecuteClientMessage
<1>2. toServer \in Seq(Packet)
  BY DEF TypesInv
<1>3. /\ After(toServer, k) \in Seq(Packet)
      /\ \A i \in 1 .. Len(After(toServer, k)) :
            \E j \in k + 1 .. Len(toServer) : After(toServer, k)[i] = toServer[j]
  BY <1>2, RestFrom
<1>4. PacketsLeft
  <2>1. \A j \in k + 1 .. Len(toServer) : j \in 1 .. Len(toServer)
    OBVIOUS
  <2>. QED  BY <1>1, <1>3, <2>1 DEF PacketsLeft
<1>5. PICK m \in Packet : m = toServer[k]
  BY <1>2
<1>6. m.serverId \in Nat /\ m.serverId <= clServerId /\ m.acknowledge \in Nat /\ m.acknowledge <= serverMessageSequence
  BY <1>5 DEF Packet, OrderInv
<1>. QED  BY <1>1, <1>4, <1>5, <1>6

\* The game state is sent again only when none is under way and the client has not got it.
LEMMA ResendsGameState ==
    ASSUME NEW E \in Nat, Inv(E), SV_ExecuteClientMessage, PacketsLeft,
           NEW m \in Packet, NEW k \in 1 .. Len(toServer), m = toServer[k],
           serverIdAcknowledge' = m.serverId, ResendGameState(m),
           m.serverId \in Nat, m.serverId <= clServerId,
           m.acknowledge \in Nat, m.acknowledge <= serverMessageSequence
    PROVE  Inv(E)'
<1>. USE DEF Inv, MapInv, mapVars, clientVars, ringVars
<1>1. /\ UNCHANGED <<mapVars, frames, ringVars, clientVars, deltaMessage>>
      /\ m.serverId # serverId /\ ~BeforeRestart(m)
      /\ state # "ACTIVE" /\ state' = "PRIMED"
      /\ m.acknowledge > gamestateMessageNum /\ outgoingSequence < MaxSequence
      /\ gamestateMessageNum' = outgoingSequence
      /\ toClient' = Send(toClient, Message("gamestate"))
      /\ outgoingSequence' = outgoingSequence + 1
  BY DEF SV_ExecuteClientMessage, ResendGameState, SequenceLeft
<1>2. PICK g : g = Message("gamestate")
  OBVIOUS
<1>3. /\ outgoingSequence \in Nat /\ serverId \in Nat /\ clServerId \in Nat /\ restartedServerId \in Nat
      /\ gamestateMessageNum \in Nat /\ serverMessageSequence \in Nat /\ deltaMessage \in Nat
      /\ toClient \in Seq(ToClient)
  BY Positive DEF TypesInv
<1>4. g \in ToClient /\ g.kind = "gamestate" /\ g.number = outgoingSequence /\ g.serverId = serverId
  BY <1>2, <1>3 DEF Message, ToClient, PlainMessage
<1>5. /\ toClient' \in Seq(ToClient)
      /\ \A i \in 1 .. Len(toClient') : toClient'[i] = g \/ \E j \in 1 .. Len(toClient) : toClient'[i] = toClient[j]
  <2>1. toClient' = Send(toClient, g)
    BY <1>1, <1>2
  <2>2. toClient' \in Seq(ToClient)
    BY <1>3, <1>4, <2>1, SentType
  <2>3. ASSUME NEW i \in 1 .. Len(toClient'), toClient'[i] # g
        PROVE  \E j \in 1 .. Len(toClient) : toClient'[i] = toClient[j]
    BY <1>3, <1>4, <2>1, <2>3, SentFrom
  <2>. QED  BY <2>2, <2>3
<1>6. SnapshotsLeft
  BY <1>4, <1>5 DEF SnapshotsLeft
<1>7. m.serverId < E /\ clServerId < E
  <2>1. restartedServerId = E /\ clServerId <= serverId
    BY <1>1 DEF OrderInv
  <2>2. m.serverId < E
    BY <1>1, <1>3, <2>1 DEF BeforeRestart
  <2>. QED  BY <1>1, <2>2 DEF GameStatesInv
<1>8. TypesInv'
  <2>1. outgoingSequence' \in 1 .. MaxSequence
    <3>1. PICK n \in Nat : n = outgoingSequence
      BY <1>3
    <3>2. n < MaxSequence /\ MaxSequence \in Nat
      BY <1>1, <3>1, Positive
    <3>3. n + 1 \in 1 .. MaxSequence
      BY <3>2
    <3>. QED  BY <1>1, <3>1, <3>3
  <2>2. gamestateMessageNum' \in Nat /\ state' \in {"CONNECTED", "PRIMED", "ACTIVE"} /\ serverIdAcknowledge' \in Nat
    BY <1>1, <1>3
  <2>3. toServer' \in Seq(Packet) /\ toClient' \in Seq(ToClient)
    BY <1>5 DEF PacketsLeft
  <2>4. UNCHANGED <<mapVars, frames, ringVars, clientVars, deltaMessage>>
    BY <1>1
  <2>. QED  BY <2>1, <2>2, <2>3, <2>4 DEF TypesInv
<1>9. ClientInv'
  BY <1>1, ClientKept
<1>10. KeepsFrames
  BY <1>1, FramesKeptLater
<1>11. OrderInv(E)'
  <2>1. Ordered(toClient, serverMessageSequence, clServerId, outgoingSequence, serverId)
    BY DEF OrderInv
  <2>2. serverMessageSequence < outgoingSequence /\ clServerId <= serverId
    BY DEF OrderInv
  <2>3. Ordered(Send(toClient, g), serverMessageSequence, clServerId, outgoingSequence + 1, serverId)
    BY <1>3, <1>4, <2>1, <2>2, OrderedSent
  <2>4. /\ serverMessageSequence < outgoingSequence + 1 /\ outgoingSequence < outgoingSequence + 1
        /\ deltaMessage < outgoingSequence + 1
    BY <1>3 DEF OrderInv
  <2>. QED  BY <1>1, <1>2, <2>3, <2>4 DEF OrderInv, PacketsLeft
<1>12. GameStatesInv(E)'
  <2>1. ASSUME NEW i \in 1 .. Len(toClient'), toClient'[i].kind = "gamestate", E <= toClient'[i].serverId
        PROVE  toClient'[i].number = outgoingSequence
    <3>1. ASSUME NEW j \in 1 .. Len(toClient), toClient'[i] = toClient[j] PROVE FALSE
      <4>1. toClient[j].number = gamestateMessageNum
        BY <2>1, <3>1 DEF GameStatesInv
      <4>2. serverMessageSequence < toClient[j].number
        BY DEF OrderInv, Ordered
      <4>. QED  BY <1>1, <1>3, <4>1, <4>2
    <3>. QED  BY <1>4, <1>5, <3>1
  <2>2. \A i \in 1 .. Len(toClient') :
           toClient'[i].kind = "snapshot" /\ E <= toClient'[i].serverId => E <= clServerId
    BY <1>6 DEF SnapshotsLeft, GameStatesInv
  <2>. QED  BY <1>1, <1>7, <2>1, <2>2 DEF GameStatesInv
<1>13. NamedInv(E)'
  <2>1. \A n \in Nat : Named(n) => Named(n)'
    BY <1>1, <1>10, NamedKept, NamedBefore
  <2>2. NamesInv(E)'
    BY <1>1, <2>1, NamesLeft DEF NamedInv
  <2>3. \A i \in 1 .. Len(toClient') :
                 toClient'[i].kind = "snapshot" /\ E <= toClient'[i].serverId =>
                     Recorded(toClient[i].number, toClient[i].built)'
    BY <1>1, <1>6, <1>10, SnapshotsKept
  <2>. QED  BY <2>2, <2>3 DEF NamedInv
<1>14. WireInv'
  BY <1>1, <1>6, <1>10, SnapshotsKept
<1>. QED  BY <1>8, <1>9, <1>11, <1>12, <1>13, <1>14

\* A move of the map that runs names what the client named when it sent it.
LEMMA TakesMove ==
    ASSUME NEW E \in Nat, Inv(E), SV_ExecuteClientMessage, PacketsLeft,
           NEW m \in Packet, NEW k \in 1 .. Len(toServer), m = toServer[k],
           serverIdAcknowledge' = m.serverId, IgnorePacket(m) \/ ExecuteMove(m),
           m.serverId \in Nat, m.serverId <= clServerId,
           m.acknowledge \in Nat, m.acknowledge <= serverMessageSequence
    PROVE  Inv(E)'
<1>. USE DEF Inv, MapInv, mapVars, clientVars, ringVars
<1>1. /\ UNCHANGED <<mapVars, frames, ringVars, clientVars>>
      /\ UNCHANGED <<gamestateMessageNum, toClient, outgoingSequence>>
  BY DEF SV_ExecuteClientMessage, IgnorePacket, ExecuteMove
<1>2. /\ outgoingSequence \in Nat /\ serverId \in Nat /\ clServerId \in Nat /\ restartedServerId \in Nat
      /\ serverMessageSequence \in Nat /\ deltaMessage \in Nat /\ toClient \in Seq(ToClient)
  BY Positive DEF TypesInv
<1>3. /\ state' = state \/ state' = "ACTIVE"
      /\ \/ UNCHANGED <<state, deltaMessage>> \/ deltaMessage' = 0
         \/ deltaMessage' = m.acknowledge /\ m.serverId = serverId /\ m.move = "move"
  BY DEF IgnorePacket, ExecuteMove, EnterWorld
<1>4. TypesInv'
  BY SMTT(30), <1>1, <1>2, <1>3 DEF TypesInv, PacketsLeft
<1>5. ClientInv'
  BY <1>1, ClientKept
<1>6. KeepsFrames
  BY <1>1, FramesKept
<1>7. SnapshotsLeft
  BY <1>1, <1>2 DEF SnapshotsLeft
<1>8. WireInv'
  BY <1>1, <1>6, <1>7, SnapshotsKept
<1>9. OrderInv(E)'
  <2>1. deltaMessage' < outgoingSequence
    BY <1>2, <1>3 DEF OrderInv, TypesInv
  <2>. QED  BY <1>1, <1>3, <2>1 DEF OrderInv, PacketsLeft
<1>10. GameStatesInv(E)'
  BY <1>1 DEF GameStatesInv, PacketsLeft
<1>11. NamedInv(E)'
  <2>1. \A n \in Nat : Named(n) => Named(n)'
    BY <1>1, <1>6, NamedKept, NamedBefore
  <2>2. \/ UNCHANGED <<state, deltaMessage>> \/ deltaMessage' = 0
        \/ E <= clServerId /\ \E n \in Nat : n = deltaMessage' /\ Named(n)
    <3>1. ASSUME m.serverId = serverId, m.move = "move" PROVE E <= clServerId /\ Named(m.acknowledge)
      <4>1. E <= serverId
        BY <1>2 DEF OrderInv
      <4>2. E <= clServerId
        BY <1>2, <3>1, <4>1
      <4>. QED  BY <3>1, <4>1, <4>2 DEF NamedInv, NamesInv
    <3>. QED  BY <1>3, <3>1
  <2>3. NamesInv(E)'
    BY <1>1, <2>1, <2>2, NamesLeft DEF NamedInv
  <2>4. \A i \in 1 .. Len(toClient') :
                 toClient'[i].kind = "snapshot" /\ E <= toClient'[i].serverId =>
                     Recorded(toClient[i].number, toClient[i].built)'
    BY <1>1, <1>6, <1>7, SnapshotsKept
  <2>. QED  BY <2>3, <2>4 DEF NamedInv
<1>. QED  BY <1>4, <1>5, <1>8, <1>9, <1>10, <1>11

LEMMA ExecutesMessage ==
    ASSUME NEW E \in Nat, Inv(E), SV_ExecuteClientMessage
    PROVE  Inv(E)'
<1>1. PacketsLeft
  BY TakesPacket
<1>2. PICK m \in Packet :
                 /\ \E k \in 1 .. Len(toServer) : m = toServer[k]
                 /\ serverIdAcknowledge' = m.serverId
                 /\ ResendGameState(m) \/ IgnorePacket(m) \/ ExecuteMove(m)
                 /\ m.serverId \in Nat /\ m.serverId <= clServerId
                 /\ m.acknowledge \in Nat /\ m.acknowledge <= serverMessageSequence
  BY TakesPacket
<1>3. CASE ResendGameState(m)
  BY <1>1, <1>2, <1>3, ResendsGameState
<1>4. CASE IgnorePacket(m) \/ ExecuteMove(m)
  BY <1>1, <1>2, <1>4, TakesMove
<1>. QED  BY <1>2, <1>3, <1>4

-----------------------------------------------------------------------------
\* The client receives: what every message does.

Receives(m) ==
    /\ \E k \in 1 .. Len(toClient) : m = toClient[k] /\ toClient' = After(toClient, k)
    /\ serverMessageSequence' = m.number
    /\ clServerId' \in {clServerId, m.serverId}
    /\ m.kind = "nop" => clServerId' = clServerId
    /\ UNCHANGED <<serverVars, toServer>>

LEMMA MessagesLeft ==
    ASSUME NEW E \in Nat, Inv(E), NEW m \in ToClient, Receives(m)
    PROVE  /\ toClient' \in Seq(ToClient)
           /\ \A i \in 1 .. Len(toClient') :
                 \E j \in 1 .. Len(toClient) :
                    /\ toClient'[i] = toClient[j]
                    /\ m.number < toClient[j].number
                    /\ m.kind = "gamestate" => toClient[j].kind # "snapshot"
           /\ m.number \in Nat /\ serverMessageSequence < m.number /\ m.number < outgoingSequence
           /\ m.serverId \in Nat /\ clServerId <= m.serverId /\ m.serverId <= serverId
           /\ clServerId <= clServerId' /\ clServerId' <= m.serverId /\ clServerId' \in Nat
           /\ Ordered(toClient', m.number, clServerId', outgoingSequence, serverId)
<1>. USE DEF Inv, MapInv
<1>1. PICK k \in 1 .. Len(toClient) : m = toClient[k] /\ toClient' = After(toClient, k)
  BY DEF Receives
<1>2. /\ toClient \in Seq(ToClient) /\ serverMessageSequence \in Nat /\ clServerId \in Nat
      /\ outgoingSequence \in Nat /\ serverId \in Nat
  BY Positive DEF TypesInv
<1>3. /\ toClient' \in Seq(ToClient)
      /\ \A i \in 1 .. Len(toClient') : \E j \in k + 1 .. Len(toClient) : toClient'[i] = toClient[j]
  BY <1>1, <1>2, RestFrom
<1>4. Ordered(toClient, serverMessageSequence, clServerId, outgoingSequence, serverId)
  BY DEF OrderInv
<1>5. /\ m.number \in Nat /\ serverMessageSequence < m.number /\ m.number < outgoingSequence
      /\ m.serverId \in Nat /\ clServerId <= m.serverId /\ m.serverId <= serverId
  BY <1>1, <1>4, MessageFields DEF Ordered
<1>6. clServerId <= clServerId' /\ clServerId' <= m.serverId /\ clServerId' \in Nat
  BY <1>2, <1>5 DEF Receives
<1>7. Ordered(After(toClient, k), toClient[k].number, clServerId', outgoingSequence, serverId)
  <2>1. PICK learned \in Nat : learned = clServerId' /\ learned <= toClient[k].serverId
    BY <1>1, <1>6
  <2>2. Ordered(After(toClient, k), toClient[k].number, learned, outgoingSequence, serverId)
    BY <1>2, <1>4, <2>1, OrderedRest
  <2>. QED  BY <2>1, <2>2
<1>8. ASSUME NEW j \in k + 1 .. Len(toClient)
      PROVE  /\ j \in 1 .. Len(toClient) /\ m.number < toClient[j].number
             /\ m.kind = "gamestate" => toClient[j].kind # "snapshot"
  <2>1. j \in 1 .. Len(toClient) /\ k < j
    OBVIOUS
  <2>. QED  BY <1>1, <1>4, <2>1 DEF Ordered
<1>. QED  BY <1>1, <1>3, <1>5, <1>6, <1>7, <1>8

LEMMA OrderReceived ==
    ASSUME NEW E \in Nat, Inv(E), NEW m \in ToClient, Receives(m)
    PROVE  OrderInv(E)'
<1>. USE DEF Inv, MapInv
<1>1. UNCHANGED <<state, serverId, restartedServerId, serverIdAcknowledge, gamestateMessageNum,
                  outgoingSequence, deltaMessage, toServer>>
  BY DEF Receives, serverVars, mapVars
<1>2. PICK map \in Nat, number \in Nat, sequence \in Nat :
         /\ map = clServerId' /\ number = m.number /\ sequence = outgoingSequence
         /\ clServerId <= map /\ map <= serverId /\ serverMessageSequence < number /\ number < sequence
         /\ Ordered(toClient', number, map, sequence, serverId)
  <2>1. clServerId \in Nat /\ serverId \in Nat /\ outgoingSequence \in Nat
    BY Positive DEF TypesInv
  <2>2. /\ m.number \in Nat /\ serverMessageSequence < m.number /\ m.number < outgoingSequence
        /\ m.serverId \in Nat /\ m.serverId <= serverId
        /\ clServerId <= clServerId' /\ clServerId' <= m.serverId /\ clServerId' \in Nat
        /\ Ordered(toClient', m.number, clServerId', outgoingSequence, serverId)
    BY MessagesLeft
  <2>3. clServerId' <= serverId
    BY <2>1, <2>2
  <2>. QED  BY <2>1, <2>2, <2>3
<1>3. serverMessageSequence' = number
  BY <1>2 DEF Receives
<1>4. serverIdAcknowledge <= map
  BY <1>2 DEF OrderInv, TypesInv
<1>5. \A k \in 1 .. Len(toServer) : toServer[k].acknowledge <= number /\ toServer[k].serverId <= map
  <2>1. ASSUME NEW k \in 1 .. Len(toServer)
        PROVE  toServer[k].acknowledge <= number /\ toServer[k].serverId <= map
    <3>1. PICK p \in Packet : p = toServer[k]
      BY DEF TypesInv
    <3>2. p.acknowledge \in Nat /\ p.serverId \in Nat /\ serverMessageSequence \in Nat /\ clServerId \in Nat
      BY DEF Packet, TypesInv
    <3>3. p.acknowledge <= serverMessageSequence /\ p.serverId <= clServerId
      BY <3>1 DEF OrderInv
    <3>4. p.acknowledge <= number /\ p.serverId <= map
      BY SMTT(30), <1>2, <3>2, <3>3
    <3>. QED  BY <3>1, <3>4
  <2>. QED  BY <2>1
<1>6. /\ E <= restartedServerId /\ restartedServerId <= serverId
      /\ state # "ACTIVE" => restartedServerId = E
      /\ gamestateMessageNum < outgoingSequence /\ deltaMessage < outgoingSequence
  BY DEF OrderInv
<1>. QED  BY <1>1, <1>2, <1>3, <1>4, <1>5, <1>6 DEF OrderInv

\* The client enters the map with its game state only, and only once.
LEMMA GameStatesReceived ==
    ASSUME NEW E \in Nat, Inv(E), NEW m \in ToClient, Receives(m)
    PROVE  /\ GameStatesInv(E)'
           /\ m.kind # "gamestate" => (E <= clServerId' => E <= clServerId)
           /\ m.kind = "gamestate" => clServerId < E
<1>. USE DEF Inv, MapInv
<1>1. UNCHANGED <<gamestateMessageNum, toServer>>
  BY DEF Receives, serverVars
<1>2. /\ \A i \in 1 .. Len(toClient') :
            \E j \in 1 .. Len(toClient) : toClient'[i] = toClient[j] /\ m.number < toClient[j].number
      /\ m.number \in Nat /\ serverMessageSequence < m.number
      /\ m.serverId \in Nat /\ clServerId <= m.serverId
      /\ clServerId <= clServerId' /\ clServerId' <= m.serverId /\ clServerId' \in Nat
  BY MessagesLeft
<1>3. PICK k \in 1 .. Len(toClient) : m = toClient[k]
  BY DEF Receives
<1>4. PICK map \in Nat, before \in Nat :
         map = clServerId' /\ before = clServerId /\ before <= map /\ map <= m.serverId
  BY <1>2 DEF TypesInv
<1>5. ASSUME m.kind # "gamestate", E <= map PROVE E <= before
  <2>1. m.kind \in {"nop", "snapshot"}
    BY <1>5, MessageFields
  <2>2. CASE m.kind = "nop"
    BY <1>4, <1>5, <2>2 DEF Receives
  <2>3. CASE m.kind = "snapshot"
    <3>1. E <= m.serverId
      BY <1>2, <1>4, <1>5
    <3>. QED  BY <1>3, <1>4, <2>3, <3>1 DEF GameStatesInv
  <2>. QED  BY <2>1, <2>2, <2>3
<1>6. ASSUME m.kind = "gamestate"
      PROVE  before < E /\ (E <= map => m.number = gamestateMessageNum)
  <2>1. E <= m.serverId => m.number = gamestateMessageNum /\ before < E
    BY <1>3, <1>4, <1>6 DEF GameStatesInv
  <2>. QED  BY <1>2, <1>4, <2>1
<1>7. ASSUME NEW i \in 1 .. Len(toClient'), toClient'[i].kind = "gamestate", E <= toClient'[i].serverId
      PROVE  toClient'[i].number = gamestateMessageNum /\ map < E
  <2>1. PICK j \in 1 .. Len(toClient) : toClient'[i] = toClient[j] /\ m.number < toClient[j].number
    BY <1>2
  <2>2. toClient[j].number = gamestateMessageNum /\ before < E
    BY <1>4, <1>7, <2>1 DEF GameStatesInv
  <2>3. ASSUME E <= map PROVE FALSE
    <3>1. m.kind = "gamestate"
      BY <1>5, <2>2, <2>3
    <3>2. m.number = gamestateMessageNum
      BY <1>6, <2>3, <3>1
    <3>. QED  BY <1>2, <2>1, <2>2, <3>2
  <2>. QED  BY <2>1, <2>2, <2>3
<1>8. ASSUME NEW l \in 1 .. Len(toServer), toServer[l].serverId < E, gamestateMessageNum < toServer[l].acknowledge
      PROVE  map < E
  <2>1. before < E
    BY <1>4, <1>8 DEF GameStatesInv
  <2>2. PICK p \in Packet : p = toServer[l]
    BY DEF TypesInv
  <2>3. p.acknowledge \in Nat /\ p.acknowledge <= serverMessageSequence /\ serverMessageSequence \in Nat
        /\ gamestateMessageNum \in Nat
    BY <2>2 DEF OrderInv, TypesInv, Packet
  <2>4. ASSUME E <= map PROVE FALSE
    <3>1. m.kind = "gamestate"
      BY <1>5, <2>1, <2>4
    <3>2. m.number = gamestateMessageNum
      BY <1>6, <2>4, <3>1
    <3>. QED  BY <1>2, <1>8, <2>2, <2>3, <3>2
  <2>. QED  BY <2>4
<1>9. ASSUME NEW i \in 1 .. Len(toClient'), toClient'[i].kind = "snapshot", E <= toClient'[i].serverId
      PROVE  E <= map
  <2>1. PICK j \in 1 .. Len(toClient) : toClient'[i] = toClient[j]
    BY <1>2
  <2>2. E <= before
    BY <1>4, <1>9, <2>1 DEF GameStatesInv
  <2>. QED  BY <1>4, <2>2
<1>10. GameStatesInv(E)'
  BY <1>1, <1>4, <1>7, <1>8, <1>9 DEF GameStatesInv
<1>. QED  BY <1>4, <1>5, <1>6, <1>10

\* What is named of the map stays named, if the client keeps it.
LEMMA NamesReceived ==
    ASSUME NEW E \in Nat, Inv(E), NEW m \in ToClient, Receives(m), m.kind # "gamestate",
           \A n \in Nat : Named(n) => Named(n)',
           snap' = snap \/ (E <= clServerId' => \E n \in Nat : n = snap'.messageNum /\ Named(n)')
    PROVE  NamedInv(E)'
<1>. USE DEF Inv, MapInv
<1>1. UNCHANGED <<state, outgoingSequence, deltaMessage, frames, snapshotEntities, nextSnapshotEntities, toServer>>
  BY DEF Receives, serverVars, ringVars
<1>2. (E <= clServerId' => E <= clServerId) /\ clServerId <= clServerId' /\ clServerId \in Nat /\ clServerId' \in Nat
  BY GameStatesReceived, MessagesLeft DEF TypesInv
<1>3. (E <= clServerId /\ snap.valid => Named(snap.messageNum))'
  <2>1. CASE snap' = snap
    <3>1. PICK n \in Nat : n = snap.messageNum
      BY DEF TypesInv, Snapshot
    <3>2. E <= clServerId' /\ snap.valid => Named(n)'
      BY <1>2, <3>1 DEF NamedInv, NamesInv
    <3>. QED  BY <2>1, <3>1, <3>2
  <2>2. CASE E <= clServerId' => \E n \in Nat : n = snap'.messageNum /\ Named(n)'
    BY <2>2
  <2>. QED  BY <2>1, <2>2
<1>4. (state = "ACTIVE" /\ 0 < deltaMessage => E <= clServerId /\ Named(deltaMessage))'
  <2>1. PICK n \in Nat : n = deltaMessage
    BY DEF TypesInv
  <2>2. state = "ACTIVE" /\ 0 < n => E <= clServerId /\ Named(n)'
    BY <2>1 DEF NamedInv, NamesInv
  <2>3. E <= clServerId => E <= clServerId'
    BY <1>2
  <2>. QED  BY <1>1, <2>1, <2>2, <2>3
<1>5. ASSUME NEW k \in 1 .. Len(toServer), E <= toServer[k].serverId, toServer[k].move = "move"
      PROVE  \E n : n = toServer[k].acknowledge /\ Named(n)'
  <2>1. toServer[k] \in Packet
    BY DEF TypesInv
  <2>2. PICK n \in Nat : n = toServer[k].acknowledge
    BY <2>1 DEF Packet
  <2>3. Named(n)
    BY <1>5, <2>2 DEF NamedInv, NamesInv
  <2>. QED  BY <2>2, <2>3
<1>6. (\A k \in 1 .. Len(toServer) :
          E <= toServer[k].serverId /\ toServer[k].move = "move" => Named(toServer[k].acknowledge))'
  BY <1>1, <1>5
<1>7. NamesInv(E)'
  BY <1>3, <1>4, <1>6 DEF NamesInv
<1>8. ASSUME NEW i \in 1 .. Len(toClient'), toClient'[i].kind = "snapshot", E <= toClient'[i].serverId
      PROVE  Recorded(toClient[i].number, toClient[i].built)'
  <2>1. PICK j \in 1 .. Len(toClient) : toClient'[i] = toClient[j]
    BY MessagesLeft
  <2>2. PICK x : x = toClient[j]
    OBVIOUS
  <2>3. Recorded(x.number, x.built)
    BY <1>8, <2>1, <2>2 DEF NamedInv
  <2>4. Recorded(x.number, x.built)'
    BY <1>1, <2>3 DEF Recorded
  <2>. QED  BY <2>1, <2>2, <2>4
<1>. QED  BY <1>7, <1>8 DEF NamedInv

LEMMA ReceivesGameState ==
    ASSUME NEW E \in Nat, Inv(E), NEW m \in ToClient, Receives(m), ParseGamestate(m)
    PROVE  Inv(E)'
<1>. USE DEF Inv, MapInv
<1>1. /\ m.kind = "gamestate" /\ snap' = NoSnap /\ snapshots' = [i \in Slots |-> NoSnap]
      /\ parseEntities' = [i \in DOMAIN parseEntities |-> NoEntity] /\ parseEntitiesNum' = 0
  BY DEF ParseGamestate
<1>2. /\ toClient' \in Seq(ToClient)
      /\ \A i \in 1 .. Len(toClient') : toClient'[i].kind # "snapshot"
      /\ clServerId' \in Nat /\ m.number \in Nat
  BY <1>1, MessagesLeft
<1>3. /\ UNCHANGED <<state, serverId, restartedServerId, serverIdAcknowledge, gamestateMessageNum,
                     outgoingSequence, deltaMessage, frames, snapshotEntities, nextSnapshotEntities, toServer>>
      /\ serverMessageSequence' = m.number
  BY DEF Receives, serverVars, mapVars, ringVars
<1>4. TypesInv'
  <2>1. NoSnap \in Snapshot /\ NoEntity \in Entity
    BY DEF NoSnap, Snapshot, NoEntity, Entity
  <2>2. parseEntities' \in [0 .. MAX_PARSE_ENTITIES - 1 -> Entity]
    BY <1>1, <2>1 DEF TypesInv
  <2>. QED  BY <1>1, <1>2, <1>3, <2>1, <2>2 DEF TypesInv
<1>5. WireInv'
  BY <1>2 DEF WireInv
<1>6. ClientInv'
  BY <1>1, <1>2, <1>3 DEF ClientInv, NoSnap
<1>7. OrderInv(E)' /\ GameStatesInv(E)' /\ clServerId < E
  BY <1>1, OrderReceived, GameStatesReceived
<1>8. NamedInv(E)'
  <2>1. ~(E <= clServerId)
    BY <1>7 DEF TypesInv
  <2>2. ASSUME NEW k \in 1 .. Len(toServer) PROVE ~(E <= toServer[k].serverId)
    <3>1. PICK p \in Packet : p = toServer[k]
      BY DEF TypesInv
    <3>2. p.serverId \in Nat /\ p.serverId <= clServerId /\ clServerId \in Nat
      BY <3>1 DEF OrderInv, TypesInv, Packet
    <3>3. ~(E <= p.serverId)
      BY <2>1, <3>2
    <3>. QED  BY <3>1, <3>3
  <2>3. ~(state = "ACTIVE" /\ 0 < deltaMessage)
    BY <2>1 DEF NamedInv, NamesInv
  <2>. QED  BY <1>1, <1>2, <1>3, <2>2, <2>3 DEF NamedInv, NamesInv, NoSnap
<1>. QED  BY <1>4, <1>5, <1>6, <1>7, <1>8

\* The changes of a sound message are those of the entities of a view.
LEMMA SoundChanges ==
    ASSUME NEW m \in SnapshotMessage, Sound(m)
    PROVE  Cardinality(DOMAIN m.changes) \in Nat
<1>1. m.built \in Views
  BY DEF SnapshotMessage
<1>2. DOMAIN m.changes \in SUBSET DOMAIN m.built
  <2>1. \A old, new : DOMAIN Difference(old, new).changes \in SUBSET DOMAIN new
    BY DEF Difference
  <2>2. m.changes = Difference(SourceView(m), m.built).changes
    BY DEF Sound
  <2>. QED  BY <2>1, <2>2
<1>3. IsFiniteSet(DOMAIN m.built)
  BY <1>1, ViewContents DEF Contents
<1>4. IsFiniteSet(DOMAIN m.changes)
  BY <1>2, <1>3, FS_Subset
<1>. QED  BY <1>4, FS_CardinalityType

\* The client keeps what it has when something is written to its ring behind it.
KeepsHeld ==
    /\ parseEntitiesNum' \in Nat
    /\ parseEntities' \in [0 .. MAX_PARSE_ENTITIES - 1 -> Entity]
    /\ \A s \in Snapshot : Held(s) => Held(s)'

LEMMA HeldLater ==
    ASSUME TypesInv, NEW next \in Nat, next = parseEntitiesNum, NEW count \in Nat, NEW after,
           after \in [0 .. MAX_PARSE_ENTITIES - 1 -> Entity],
           \A s \in Snapshot :
              s.first + s.count <= next /\ next + count - s.first <= MAX_PARSE_ENTITIES =>
                  Entities(after, s) = Entities(parseEntities, s),
           parseEntities' = after, parseEntitiesNum' = next + count
    PROVE  KeepsHeld
<1>1. ASSUME NEW s \in Snapshot, Held(s) PROVE Held(s)'
  <2>1. s.first \in Nat /\ s.count \in Nat
    BY DEF Snapshot
  <2>2. /\ s.built \in Views /\ s.first + s.count <= next
        /\ ~s.garbled /\ next - s.first <= MAX_PARSE_ENTITIES => Entities(parseEntities, s) = s.built
    BY <1>1 DEF Held
  <2>3. PICK last \in Nat : last = next + count /\ parseEntitiesNum' = last
    OBVIOUS
  <2>4. s.first + s.count <= last
    BY <2>1, <2>2, <2>3
  <2>5. ASSUME ~s.garbled, last - s.first <= MAX_PARSE_ENTITIES PROVE Entities(after, s) = s.built
    <3>1. next + count - s.first <= MAX_PARSE_ENTITIES /\ next - s.first <= MAX_PARSE_ENTITIES
      BY <2>1, <2>3, <2>5, Positive
    <3>. QED  BY <2>2, <2>5, <3>1
  <2>. QED  BY <2>2, <2>3, <2>4, <2>5 DEF Held
<1>. QED  BY <1>1 DEF KeepsHeld

LEMMA HeldWritten ==
    ASSUME TypesInv, NEW view \in Contents,
           parseEntities' = Written(parseEntities, parseEntitiesNum, view),
           parseEntitiesNum' = parseEntitiesNum + Count(view)
    PROVE  KeepsHeld
<1>1. parseEntities \in [0 .. MAX_PARSE_ENTITIES - 1 -> Entity]
  BY DEF TypesInv
<1>2. Count(view) \in Nat
  BY FS_CardinalityType DEF Contents, Count
<1>3. PICK next \in Nat, count \in Nat : next = parseEntitiesNum /\ count = Count(view)
  BY <1>2 DEF TypesInv
<1>4. PICK after : after = Written(parseEntities, next, view) /\ parseEntities' = after
  BY <1>3
<1>5. after \in [0 .. MAX_PARSE_ENTITIES - 1 -> Entity]
  BY <1>1, <1>4, Positive, WrittenAt DEF Overwritten
<1>6. \A s \in Snapshot :
         s.first + s.count <= next /\ next + count - s.first <= MAX_PARSE_ENTITIES =>
             Entities(after, s) = Entities(parseEntities, s)
  <2>. SUFFICES ASSUME NEW s \in Snapshot, s.first + s.count <= next,
                       next + count - s.first <= MAX_PARSE_ENTITIES
                PROVE  Entities(after, s) = Entities(parseEntities, s)
    OBVIOUS
  <2>1. PICK first \in Nat, size \in Nat : first = s.first /\ size = s.count
    BY DEF Snapshot
  <2>2. first + size <= next /\ next + Count(view) - first <= MAX_PARSE_ENTITIES
    BY <1>3, <2>1
  <2>3. MAX_PARSE_ENTITIES \in Nat \ {0}
    BY Positive
  <2>4. Entities(Written(parseEntities, next, view), s) = Entities(parseEntities, s)
    BY <1>1, <2>1, <2>2, <2>3, OlderFrameKept, SMTT(30)
  <2>. QED  BY <1>4, <2>4
<1>7. next = parseEntitiesNum /\ parseEntities' = after /\ parseEntitiesNum' = next + count
  BY <1>3, <1>4
<1>. QED  BY <1>5, <1>6, <1>7, HeldLater

LEMMA HeldLost ==
    ASSUME TypesInv, NEW m \in SnapshotMessage, Sound(m), LoseEntities(m)
    PROVE  KeepsHeld /\ parseEntitiesNum <= parseEntitiesNum'
<1>1. parseEntities \in [0 .. MAX_PARSE_ENTITIES - 1 -> Entity]
  BY DEF TypesInv
<1>2. PICK next \in Nat : next = parseEntitiesNum
  BY DEF TypesInv
<1>3. PICK changes \in Nat : changes = Cardinality(DOMAIN m.changes)
  BY SoundChanges
<1>4. Source(m).count \in Nat
  <2>1. m.number - m.deltaNum \in Int
    BY DEF SnapshotMessage
  <2>2. Source(m) \in Snapshot
    BY <2>1, SlotOf DEF Source, TypesInv
  <2>. QED  BY <2>2 DEF Snapshot
<1>5. PICK count \in Nat :
         /\ parseEntities' = LostWritten(parseEntities, next, count)
         /\ parseEntitiesNum' = next + count
  BY <1>2, <1>3, <1>4 DEF LoseEntities
<1>6. PICK after : after = LostWritten(parseEntities, next, count) /\ parseEntities' = after
  BY <1>5
<1>7. /\ after \in [0 .. MAX_PARSE_ENTITIES - 1 -> Entity]
      /\ \A s \in Snapshot :
            s.first + s.count <= next /\ next + count - s.first <= MAX_PARSE_ENTITIES =>
                Entities(after, s) = Entities(parseEntities, s)
  BY <1>1, <1>6, Positive, OlderFrameNotLost, SMTT(30)
<1>8. KeepsHeld
  BY <1>2, <1>5, <1>6, <1>7, HeldLater
<1>. QED  BY <1>2, <1>5, <1>8

\* The client keeps its frames: what is under way stays sound, and what is named, named.
LEMMA FramesUnchanged ==
    ASSUME NEW E \in Nat, Inv(E), NEW m \in ToClient, Receives(m), UNCHANGED <<snap, snapshots>>
    PROVE  WireInv' /\ \A n \in Nat : Named(n) => Named(n)'
<1>. USE DEF Inv, MapInv
<1>1. UNCHANGED <<outgoingSequence, frames, snapshotEntities, nextSnapshotEntities>>
  BY DEF Receives, serverVars, ringVars
<1>2. \A x : Sound(x) => Sound(x)'
  BY DEF Sound, SourceNumber, SourceView, SourceKept, Source
<1>3. WireInv'
  <2>1. ASSUME NEW i \in 1 .. Len(toClient'), toClient'[i].kind = "snapshot"
        PROVE  \E x : x = toClient'[i] /\ Sound(x)'
    <3>1. PICK j \in 1 .. Len(toClient) : toClient'[i] = toClient[j]
      BY MessagesLeft
    <3>2. PICK x : x = toClient[j]
      OBVIOUS
    <3>3. Sound(x)
      BY <2>1, <3>1, <3>2 DEF WireInv
    <3>. QED  BY <1>2, <3>1, <3>2, <3>3
  <2>. QED  BY <2>1 DEF WireInv
<1>4. \A n \in Nat : Named(n) => Named(n)'
  <2>1. KeepsFrames
    BY <1>1, FramesKept
  <2>. QED  BY <1>1, <2>1, NamedKept, NamedBefore
<1>. QED  BY <1>3, <1>4

LEMMA ReceivesNop ==
    ASSUME NEW E \in Nat, Inv(E), NEW m \in ToClient, Receives(m), ParseNop(m)
    PROVE  Inv(E)'
<1>. USE DEF Inv, MapInv
<1>1. m.kind = "nop" /\ UNCHANGED <<clServerId, snap, snapshots, parseEntities, parseEntitiesNum>>
  BY DEF ParseNop
<1>2. /\ UNCHANGED <<state, serverId, restartedServerId, serverIdAcknowledge, gamestateMessageNum,
                     outgoingSequence, deltaMessage, frames, snapshotEntities, nextSnapshotEntities, toServer>>
      /\ serverMessageSequence' = m.number
  BY DEF Receives, serverVars, mapVars, ringVars
<1>3. toClient' \in Seq(ToClient) /\ m.number \in Nat /\ serverMessageSequence < m.number
  BY MessagesLeft
<1>4. TypesInv'
  BY <1>1, <1>2, <1>3 DEF TypesInv
<1>5. ClientInv'
  <2>1. snap.messageNum \in Nat /\ serverMessageSequence \in Nat /\ snap.messageNum <= serverMessageSequence
    BY DEF ClientInv, TypesInv, Snapshot
  <2>2. snap.messageNum <= m.number
    BY <1>3, <2>1
  <2>3. \A s : Held(s) => Held(s)'
    BY <1>1 DEF Held
  <2>. QED  BY <1>1, <1>2, <2>2, <2>3 DEF ClientInv
<1>6. WireInv' /\ \A n \in Nat : Named(n) => Named(n)'
  BY <1>1, FramesUnchanged
<1>7. NamedInv(E)'
  BY <1>1, <1>6, NamesReceived
<1>. QED  BY <1>4, <1>5, <1>6, <1>7, OrderReceived, GameStatesReceived

LEMMA DumpsSnapshot ==
    ASSUME NEW E \in Nat, Inv(E), NEW m \in ToClient, Receives(m), m.kind = "snapshot", DumpSnapshot(m)
    PROVE  Inv(E)'
<1>. USE DEF Inv, MapInv
<1>1. UNCHANGED <<snap, snapshots>> /\ LoseEntities(m)
  BY DEF DumpSnapshot
<1>2. m \in SnapshotMessage /\ Sound(m)
  <2>1. PICK k \in 1 .. Len(toClient) : m = toClient[k]
    BY DEF Receives
  <2>. QED  BY <2>1, MessageFields DEF WireInv
<1>3. KeepsHeld
  BY <1>1, <1>2, HeldLost
<1>4. /\ UNCHANGED <<state, serverId, restartedServerId, serverIdAcknowledge, gamestateMessageNum,
                     outgoingSequence, deltaMessage, frames, snapshotEntities, nextSnapshotEntities, toServer>>
      /\ serverMessageSequence' = m.number
  BY DEF Receives, serverVars, mapVars, ringVars
<1>5. /\ toClient' \in Seq(ToClient) /\ m.number \in Nat /\ serverMessageSequence < m.number
      /\ clServerId' \in Nat
  BY MessagesLeft
<1>6. TypesInv'
  BY <1>1, <1>3, <1>4, <1>5 DEF TypesInv, KeepsHeld
<1>7. ClientInv'
  <2>1. snap.messageNum \in Nat /\ serverMessageSequence \in Nat /\ snap.messageNum <= serverMessageSequence
    BY DEF ClientInv, TypesInv, Snapshot
  <2>2. snap.messageNum <= m.number
    BY <1>5, <2>1
  <2>3. ASSUME NEW i \in Slots, snapshots[i].valid PROVE Held(snapshots[i])'
    <3>1. PICK s \in Snapshot : s = snapshots[i]
      BY DEF TypesInv
    <3>2. Held(s)'
      BY <1>3, <2>3, <3>1 DEF ClientInv, KeepsHeld
    <3>3. snapshots'[i] = s
      BY <1>1, <3>1
    <3>. QED  BY <3>2, <3>3
  <2>. QED  BY <1>1, <1>4, <2>2, <2>3 DEF ClientInv
<1>8. WireInv' /\ \A n \in Nat : Named(n) => Named(n)'
  BY <1>1, FramesUnchanged
<1>9. NamedInv(E)'
  BY <1>1, <1>8, NamesReceived
<1>. QED  BY <1>6, <1>7, <1>8, <1>9, OrderReceived, GameStatesReceived

-----------------------------------------------------------------------------
\* The client decodes a snapshot.

\* The frame new is kept beside those before it.
Kept(m, new) ==
    /\ snap' = new
    /\ snapshots' = [i \in Slots |->
            IF i = m.number % PACKET_BACKUP THEN new
            ELSE IF i \in Skipped(m) THEN [snapshots[i] EXCEPT !.valid = FALSE] ELSE snapshots[i]]

\* It is the message's, and what is held of it is what the server built.
Decoded(m, new) ==
    /\ new \in Snapshot
    /\ new.valid /\ new.messageNum = m.number /\ new.built = m.built
    /\ KeepsHeld
    /\ Held(new)'
    /\ Kept(m, new)

\* What comes out of the difference is what the server built.
LEMMA DecodesBuilt ==
    ASSUME NEW E \in Nat, Inv(E), NEW m \in SnapshotMessage, Sound(m), DecodeSnapshot(m)
    PROVE  View(m) = m.built
<1>. USE DEF Inv, MapInv
<1>1. PICK old : old = IF m.deltaNum = 0 THEN Nothing ELSE Entities(parseEntities, Source(m))
  OBVIOUS
<1>2. m.built \in Views /\ m.number \in Nat /\ m.deltaNum \in Nat
  BY DEF SnapshotMessage
<1>3. old = SourceView(m) /\ old \in Views \union {Nothing}
  <2>1. CASE m.deltaNum = 0
    BY <1>1, <2>1 DEF SourceView
  <2>2. CASE m.deltaNum # 0
    <3>1. SourceKept(m) /\ ~ParseEntitiesTooOld(m) /\ ~Source(m).garbled
      BY <2>2 DEF DecodeSnapshot, Decodable, SourceIntact
    <3>2. PICK i \in Slots : i = (m.number - m.deltaNum) % PACKET_BACKUP
      BY <1>2, SlotOf
    <3>3. Source(m) = snapshots[i]
      BY <3>2 DEF Source
    <3>4. PICK s \in Snapshot : s = Source(m)
      BY <3>3 DEF TypesInv
    <3>5. s.valid /\ ~s.garbled /\ Held(s)
      BY <3>1, <3>3, <3>4 DEF SourceKept, ClientInv
    <3>6. parseEntitiesNum - s.first <= MAX_PARSE_ENTITIES
      <4>1. PICK next \in Nat : next = parseEntitiesNum
        BY DEF TypesInv
      <4>2. s.first \in Nat
        BY <3>4 DEF Snapshot
      <4>3. ~(next - s.first > MAX_PARSE_ENTITIES - ParseMargin)
        BY <3>1, <3>4, <4>1 DEF ParseEntitiesTooOld
      <4>4. next - s.first <= MAX_PARSE_ENTITIES
        BY <4>2, <4>3, Positive
      <4>. QED  BY <4>1, <4>4
    <3>7. Entities(parseEntities, s) = s.built /\ s.built \in Views
      BY <3>5, <3>6 DEF Held
    <3>. QED  BY <1>1, <2>2, <3>4, <3>7 DEF SourceView
  <2>. QED  BY <2>1, <2>2
<1>4. Patched(old, m) = m.built
  <2>1. /\ m.changes = Difference(old, m.built).changes
        /\ m.removed = Difference(old, m.built).removed
    BY <1>3 DEF Sound
  <2>. QED  BY <1>2, <1>3, <2>1, DifferencePatched
<1>. QED  BY <1>1, <1>4, Zenon DEF View

LEMMA DecodesIntact ==
    ASSUME NEW E \in Nat, Inv(E), NEW m \in SnapshotMessage, Sound(m), DecodeSnapshot(m)
    PROVE  \E new : Decoded(m, new)
<1>. USE DEF Inv, MapInv
<1>1. PICK view \in Views, next \in Nat, number \in Nat, count \in Nat :
         view = m.built /\ next = parseEntitiesNum /\ number = m.number /\ count = Count(view)
  BY ViewContents DEF SnapshotMessage, TypesInv
<1>2. View(m) = view
  BY <1>1, DecodesBuilt
<1>3. parseEntities' = Written(parseEntities, next, view) /\ parseEntitiesNum' = next + count
  BY <1>1, <1>2 DEF DecodeSnapshot, KeepEntities
<1>4. PICK new :
         new = [valid |-> TRUE, messageNum |-> number, first |-> next,
                count |-> parseEntitiesNum' - next, built |-> view, garbled |-> FALSE]
  OBVIOUS
<1>5. Kept(m, new)
  BY <1>1, <1>4 DEF DecodeSnapshot, KeepSnapshot, Kept
<1>6. /\ new \in Snapshot /\ new.valid /\ new.messageNum = number /\ new.built = view
      /\ new.first = next /\ new.count = count
  <2>1. parseEntitiesNum' - next = count
    BY <1>3
  <2>. QED  BY <1>4, <2>1 DEF Snapshot
<1>7. view \in Contents /\ count <= MAX_PARSE_ENTITIES
  BY <1>1, ViewContents, RingAssumption
<1>8. KeepsHeld
  BY <1>1, <1>3, <1>7, HeldWritten
<1>9. Held(new)'
  <2>1. parseEntities \in [0 .. MAX_PARSE_ENTITIES - 1 -> Entity]
    BY DEF TypesInv
  <2>2. Entities(Written(parseEntities, next, view), new) = view
    BY <1>1, <1>6, <1>7, <2>1, Positive, NewFrameKept, SMTT(30)
  <2>3. Entities(parseEntities', new) = view
    BY <1>3, <2>2
  <2>4. new.first + new.count <= parseEntitiesNum'
    BY <1>3, <1>6
  <2>. QED  BY <1>6, <2>3, <2>4 DEF Held
<1>. QED  BY <1>1, <1>5, <1>6, <1>8, <1>9 DEF Decoded

LEMMA DecodesGarbled ==
    ASSUME NEW E \in Nat, Inv(E), NEW m \in SnapshotMessage, Sound(m), GarbleSnapshot(m)
    PROVE  \E new : Decoded(m, new)
<1>. USE DEF Inv, MapInv
<1>1. KeepsHeld /\ parseEntitiesNum <= parseEntitiesNum'
  BY HeldLost DEF GarbleSnapshot
<1>2. PICK view \in Views, next \in Nat, number \in Nat, last \in Nat :
         view = m.built /\ next = parseEntitiesNum /\ number = m.number
         /\ last = parseEntitiesNum' /\ next <= last
  BY <1>1 DEF SnapshotMessage, TypesInv, KeepsHeld
<1>3. PICK count \in Nat : count = last - next /\ next + count = last
  <2>1. next <= last
    BY <1>2
  <2>2. last - next \in Nat /\ next + (last - next) = last
    BY <2>1
  <2>. QED  BY <2>2
<1>4. PICK new :
         new = [valid |-> TRUE, messageNum |-> number, first |-> next,
                count |-> count, built |-> view, garbled |-> TRUE]
  OBVIOUS
<1>5. Kept(m, new)
  BY <1>2, <1>3, <1>4 DEF GarbleSnapshot, KeepSnapshot, Kept
<1>6. /\ new \in Snapshot /\ new.valid /\ new.messageNum = number /\ new.built = view
      /\ new.first = next /\ new.count = count /\ new.garbled
  BY <1>4 DEF Snapshot
<1>7. Held(new)'
  <2>1. new.first + new.count = last
    BY <1>3, <1>6
  <2>2. new.first + new.count <= parseEntitiesNum'
    BY <1>2, <2>1
  <2>. QED  BY <1>6, <2>2 DEF Held
<1>. QED  BY <1>1, <1>2, <1>5, <1>6, <1>7 DEF Decoded

\* Neither the new snapshot nor those that were lost take the slot of a frame that the
\* server may still use.
LEMMA SlotKept ==
    ASSUME NEW E \in Nat, Inv(E), NEW m \in SnapshotMessage, NEW new, Kept(m, new),
           serverMessageSequence < m.number,
           NEW n \in Int, n <= snap.messageNum, m.number < n + PACKET_BACKUP
    PROVE  snapshots'[n % PACKET_BACKUP] = snapshots[n % PACKET_BACKUP]
<1>. USE DEF Inv, MapInv
<1>1. PICK newest \in Nat, number \in Nat :
         newest = snap.messageNum /\ number = m.number /\ newest < number /\ n <= newest
         /\ number < n + PACKET_BACKUP
  <2>1. snap.messageNum \in Nat /\ m.number \in Nat /\ serverMessageSequence \in Nat
    BY DEF TypesInv, Snapshot, SnapshotMessage
  <2>2. snap.messageNum <= serverMessageSequence
    BY DEF ClientInv
  <2>. QED  BY <2>1, <2>2
<1>2. PICK slot \in Slots : slot = n % PACKET_BACKUP
  BY SlotOf
<1>3. slot # number % PACKET_BACKUP
  <2>1. n \in Int /\ number \in Int /\ n < number /\ number < n + PACKET_BACKUP /\ PACKET_BACKUP \in Nat \ {0}
    BY <1>1, Positive
  <2>. QED  BY <1>2, <2>1, DifferentSlots
<1>4. slot \notin Skipped(m)
  <2>1. PICK first \in Int : first = Max({newest + 1, number - (PACKET_BACKUP - 1)}) /\ newest + 1 <= first
    <3>1. PICK a \in Int, b \in Int : a = newest + 1 /\ b = number - (PACKET_BACKUP - 1)
      BY <1>1, Positive
    <3>2. Max({a, b}) = IF a >= b THEN a ELSE b
      BY MaxOfPair
    <3>. QED  BY <3>1, <3>2
  <2>2. ASSUME NEW j \in first .. number - 1 PROVE slot # j % PACKET_BACKUP
    <3>1. n \in Int /\ j \in Int /\ n < j /\ j < n + PACKET_BACKUP /\ PACKET_BACKUP \in Nat \ {0}
      BY <1>1, <2>1, Positive
    <3>. QED  BY <1>2, <3>1, DifferentSlots
  <2>3. Skipped(m) = {j % PACKET_BACKUP : j \in first .. number - 1}
    BY <1>1, <2>1 DEF Skipped
  <2>. QED  BY <2>2, <2>3
<1>5. snapshots' = [i \in Slots |->
                IF i = m.number % PACKET_BACKUP THEN new
                ELSE IF i \in Skipped(m) THEN [snapshots[i] EXCEPT !.valid = FALSE] ELSE snapshots[i]]
  BY DEF Kept
<1>6. snapshots'[slot] = snapshots[slot]
  BY <1>1, <1>2, <1>3, <1>4, <1>5
<1>. QED  BY <1>2, <1>6

LEMMA KeepsSnapshot ==
    ASSUME NEW E \in Nat, Inv(E), NEW m \in ToClient, Receives(m), m.kind = "snapshot",
           DecodeSnapshot(m) \/ GarbleSnapshot(m)
    PROVE  Inv(E)'
<1>. USE DEF Inv, MapInv
<1>1. m \in SnapshotMessage /\ Sound(m) /\ \E k \in 1 .. Len(toClient) : m = toClient[k]
  <2>1. PICK k \in 1 .. Len(toClient) : m = toClient[k]
    BY DEF Receives
  <2>. QED  BY <2>1, MessageFields DEF WireInv
<1>2. PICK view \in Views, new \in Snapshot :
         /\ view = m.built /\ Decoded(m, new)
         /\ snap' = new
         /\ snapshots' = [i \in Slots |->
                IF i = m.number % PACKET_BACKUP THEN new
                ELSE IF i \in Skipped(m) THEN [snapshots[i] EXCEPT !.valid = FALSE] ELSE snapshots[i]]
  <2>1. \E new : Decoded(m, new)
    BY <1>1, DecodesIntact, DecodesGarbled
  <2>. QED  BY <1>1, <2>1 DEF Decoded, Kept, SnapshotMessage
<1>3. /\ UNCHANGED <<state, serverId, restartedServerId, serverIdAcknowledge, gamestateMessageNum,
                     outgoingSequence, deltaMessage, frames, snapshotEntities, nextSnapshotEntities, toServer>>
      /\ serverMessageSequence' = m.number
  BY DEF Receives, serverVars, mapVars, ringVars
<1>4. /\ toClient' \in Seq(ToClient) /\ m.number \in Nat /\ serverMessageSequence < m.number
      /\ m.number < outgoingSequence
      /\ clServerId' \in Nat /\ m.serverId \in Nat /\ clServerId' <= m.serverId
  BY MessagesLeft
<1>5. PICK newest \in Nat, number \in Nat, sequence \in Nat :
         /\ newest = snap.messageNum /\ number = m.number /\ newest < number
         /\ sequence = outgoingSequence /\ number < sequence
  <2>1. snap.messageNum \in Nat /\ serverMessageSequence \in Nat /\ outgoingSequence \in Nat
    BY Positive DEF TypesInv, Snapshot
  <2>2. snap.messageNum <= serverMessageSequence
    BY DEF ClientInv
  <2>. QED  BY <1>4, <2>1, <2>2
<1>6. /\ new \in Snapshot
      /\ new.valid /\ new.messageNum = number /\ new.built = view
  BY <1>2, <1>5 DEF Decoded
<1>7. PICK slot \in Slots : slot = number % PACKET_BACKUP
  BY SlotOf
<1>8. snapshots'[slot] = new
  BY <1>2, <1>5, <1>7
<1>9. TypesInv'
  <2>1. parseEntitiesNum' \in Nat /\ parseEntities' \in [0 .. MAX_PARSE_ENTITIES - 1 -> Entity]
    BY <1>2 DEF Decoded, KeepsHeld
  <2>2. snapshots' \in [Slots -> Snapshot]
    <3>1. \A s \in Snapshot : [s EXCEPT !.valid = FALSE] \in Snapshot
      BY DEF Snapshot
    <3>2. \A i \in Slots : snapshots[i] \in Snapshot
      BY DEF TypesInv
    <3>. QED  BY <1>2, <1>6, <3>1, <3>2
  <2>. QED  BY <1>2, <1>3, <1>4, <1>6, <2>1, <2>2 DEF TypesInv
<1>10. ClientInv'
  <2>1. \A s \in Snapshot : Held(s) => Held(s)'
    BY <1>2 DEF Decoded, KeepsHeld
  <2>2. Held(new)'
    BY <1>2 DEF Decoded
  <2>3. ASSUME NEW i \in Slots, snapshots'[i].valid PROVE Held(snapshots[i])'
    <3>1. PICK s \in Snapshot : s = snapshots[i]
      BY DEF TypesInv
    <3>2. snapshots'[i] = new \/ snapshots'[i] = [s EXCEPT !.valid = FALSE] \/ snapshots'[i] = s
      BY <1>2, <3>1
    <3>3. CASE snapshots'[i] = new
      BY <2>2, <3>3
    <3>4. CASE snapshots'[i] = [s EXCEPT !.valid = FALSE]
      BY <2>3, <3>1, <3>4 DEF Snapshot
    <3>5. CASE snapshots'[i] = s
      <4>1. Held(s)
        BY <2>3, <3>1, <3>5 DEF ClientInv
      <4>2. Held(s)'
        BY <2>1, <4>1
      <4>. QED  BY <3>5, <4>2
    <3>. QED  BY <3>2, <3>3, <3>4, <3>5
  <2>4. snap' = new /\ serverMessageSequence' = number /\ snapshots'[number % PACKET_BACKUP] = new
    BY <1>2, <1>3, <1>5, <1>7, <1>8
  <2>. QED  BY <1>6, <2>3, <2>4 DEF ClientInv
<1>11. ASSUME NEW n \in Int, n <= newest, number < n + PACKET_BACKUP
       PROVE  snapshots'[n % PACKET_BACKUP] = snapshots[n % PACKET_BACKUP]
  BY <1>1, <1>2, <1>4, <1>5, <1>11, SlotKept DEF Decoded
<1>12. WireInv'
  <2>1. ASSUME NEW i \in 1 .. Len(toClient'), toClient'[i].kind = "snapshot"
        PROVE  \E x : x = toClient'[i] /\ Sound(x)'
    <3>1. PICK j \in 1 .. Len(toClient) : toClient'[i] = toClient[j] /\ number < toClient[j].number
      BY <1>5, MessagesLeft
    <3>2. PICK x \in ToClient : x = toClient[j]
      BY DEF TypesInv
    <3>3. x \in SnapshotMessage /\ Sound(x)
      BY <2>1, <3>1, <3>2, MessageFields DEF WireInv
    <3>4. x.number \in Nat /\ x.deltaNum \in Nat
      BY <3>3 DEF SnapshotMessage
    <3>5. PICK n \in Int : n = x.number - x.deltaNum
      BY <3>4
    <3>6. x.deltaNum # 0 => Source(x)' = Source(x) /\ SourceNumber(x) <= number
      <4>1. SUFFICES ASSUME x.deltaNum # 0 PROVE Source(x)' = Source(x) /\ n <= number
        BY <3>5 DEF SourceNumber
      <4>2. x.deltaNum < PACKET_BACKUP /\ n <= newest
        BY <1>5, <3>3, <3>5, <4>1 DEF Sound, SourceNumber
      <4>3. number < n + PACKET_BACKUP /\ n <= number
        <5>1. number < x.number /\ newest < number
          BY <1>5, <3>1, <3>2
        <5>. QED  BY SMTT(30), <3>4, <3>5, <4>2, <5>1, Positive
      <4>4. snapshots'[n % PACKET_BACKUP] = snapshots[n % PACKET_BACKUP]
        BY <1>11, <4>2, <4>3
      <4>. QED  BY <3>5, <4>3, <4>4 DEF Source
    <3>7. SourceView(x)' = SourceView(x)
      BY <3>6 DEF SourceView
    <3>8. snap'.messageNum = number
      BY <1>2, <1>6
    <3>9. Sound(x)'
      BY <3>3, <3>6, <3>7, <3>8 DEF Sound, SourceKept, SourceNumber
    <3>. QED  BY <3>1, <3>2, <3>9
  <2>. QED  BY <2>1 DEF WireInv
<1>13. ASSUME NEW n \in Nat, Named(n) PROVE Named(n)'
  <2>1. 0 < n /\ n <= newest
    BY <1>5, <1>13 DEF Named
  <2>2. n <= snap'.messageNum
    BY <1>2, <1>5, <1>6, <2>1
  <2>3. ASSUME sequence - n < PACKET_BACKUP
        PROVE  \E s : /\ s = snapshots'[n % PACKET_BACKUP] /\ s.valid /\ s.messageNum = n
                      /\ Recorded(n, s.built)'
    <3>1. PICK s : s = snapshots[n % PACKET_BACKUP]
      OBVIOUS
    <3>2. s.valid /\ s.messageNum = n /\ Recorded(n, s.built)
      BY <1>5, <1>13, <2>3, <3>1 DEF Named
    <3>3. Recorded(n, s.built)'
      BY <1>3, <3>2 DEF Recorded
    <3>4. number < n + PACKET_BACKUP
      BY <1>5, <2>3, Positive
    <3>5. snapshots'[n % PACKET_BACKUP] = s
      BY <1>11, <2>1, <3>1, <3>4
    <3>. QED  BY <3>2, <3>3, <3>5
  <2>4. outgoingSequence' = sequence
    BY <1>3, <1>5
  <2>. QED  BY <2>1, <2>2, <2>3, <2>4 DEF Named
<1>14. ASSUME E <= clServerId' PROVE Named(number)'
  <2>1. E <= m.serverId
    BY <1>4, <1>14
  <2>2. Recorded(number, view)
    BY <1>1, <1>2, <1>5, <2>1 DEF NamedInv
  <2>3. Recorded(number, view)'
    BY <1>3, <2>2 DEF Recorded
  <2>4. PICK s : s = new /\ snapshots'[number % PACKET_BACKUP] = s
    BY <1>7, <1>8
  <2>5. s.valid /\ s.messageNum = number /\ Recorded(number, s.built)'
    BY <1>6, <2>3, <2>4
  <2>6. 0 < number /\ number <= snap'.messageNum
    BY <1>2, <1>5, <1>6
  <2>. QED  BY <2>4, <2>5, <2>6 DEF Named
<1>15. NamedInv(E)'
  <2>1. E <= clServerId' => \E n \in Nat : n = snap'.messageNum /\ Named(n)'
    BY <1>2, <1>6, <1>14
  <2>. QED  BY <1>13, <2>1, NamesReceived
<1>. QED  BY <1>9, <1>10, <1>12, <1>15, OrderReceived, GameStatesReceived

LEMMA ReceivesMessage ==
    ASSUME NEW E \in Nat, Inv(E), CL_ParseServerMessage
    PROVE  Inv(E)'
<1>1. PICK k \in 1 .. Len(toClient) :
         /\ ParseGamestate(toClient[k]) \/ ParseSnapshot(toClient[k]) \/ ParseNop(toClient[k])
         /\ serverMessageSequence' = toClient[k].number
         /\ toClient' = After(toClient, k)
  BY DEF CL_ParseServerMessage
<1>2. PICK m \in ToClient : m = toClient[k]
  BY DEF Inv, TypesInv
<1>3. Receives(m)
  <2>1. UNCHANGED <<serverVars, toServer>>
    BY DEF CL_ParseServerMessage
  <2>2. clServerId' \in {clServerId, m.serverId} /\ (m.kind = "nop" => clServerId' = clServerId)
    BY <1>1, <1>2 DEF ParseGamestate, ParseSnapshot, ParseNop, LearnServerId
  <2>. QED  BY <1>1, <1>2, <2>1, <2>2 DEF Receives
<1>4. CASE ParseGamestate(m)
  BY <1>3, <1>4, ReceivesGameState
<1>5. CASE ParseNop(m)
  BY <1>3, <1>5, ReceivesNop
<1>6. CASE m.kind = "snapshot" /\ (DecodeSnapshot(m) \/ GarbleSnapshot(m))
  BY <1>3, <1>6, KeepsSnapshot
<1>7. CASE m.kind = "snapshot" /\ DumpSnapshot(m)
  BY <1>3, <1>7, DumpsSnapshot
<1>. QED  BY <1>1, <1>2, <1>4, <1>5, <1>6, <1>7 DEF ParseSnapshot

-----------------------------------------------------------------------------
\* The theorems.

LEMMA Initially ==
    ASSUME Init
    PROVE  Inv(1)
<1>. USE DEF Init, Inv, MapInv
<1>1. TypesInv
  <2>1. NoFrame \in Frame /\ NoEntity \in Entity /\ NoSnap \in Snapshot
    BY DEF NoFrame, Frame, NoEntity, Entity, NoSnap, Snapshot
  <2>2. 2 \in 1 .. MaxSequence
    BY Positive
  <2>3. <<>> \in Seq(ToClient) /\ <<>> \in Seq(Packet)
    OBVIOUS
  <2>. QED  BY <2>1, <2>2, <2>3 DEF TypesInv
<1>2. WireInv
  BY DEF WireInv
<1>3. ClientInv
  BY DEF ClientInv, NoSnap
<1>4. OrderInv(1)
  BY DEF OrderInv, Ordered
<1>5. GameStatesInv(1)
  BY DEF GameStatesInv
<1>6. NamedInv(1)
  BY DEF NamedInv, NamesInv, NoSnap
<1>. QED  BY <1>1, <1>2, <1>3, <1>4, <1>5, <1>6

LEMMA Stutters ==
    ASSUME NEW E \in Nat, Inv(E), UNCHANGED vars
    PROVE  Inv(E)'
<1>. USE DEF vars, serverVars, mapVars, ringVars, clientVars
<1>1. TypesInv'
  BY DEF Inv, TypesInv
<1>2. KeepsFrames
  BY FramesKept
<1>. QED  BY <1>1, <1>2, ServerStep

LEMMA NextStep ==
    ASSUME NEW E \in Nat, Inv(E), Next
    PROVE  Inv(E)' \/ \E F \in Nat : F = serverId' /\ Inv(F)'
<1>1. CASE SV_SendClientSnapshot
  BY <1>1, SendsSnapshot
<1>2. CASE SV_Frame
  BY <1>2, EndsFrame
<1>3. CASE SV_BuildClientSnapshot
  BY <1>3, BuildsForOthers
<1>4. CASE SV_SpawnServer
  <2>1. CASE RestartMap
    BY <1>4, <2>1, RestartsMap
  <2>2. CASE LoadMap
    <3>1. PICK F \in Nat : F = serverId'
      BY <1>4 DEF SV_SpawnServer, Inv, TypesInv
    <3>2. Inv(F)'
      BY <1>4, <2>2, <3>1, LoadsMap
    <3>. QED  BY <3>1, <3>2
  <2>. QED  BY <1>4, <2>1, <2>2 DEF SV_SpawnServer
<1>5. CASE CL_WritePacket
  BY <1>5, WritesPacket
<1>6. CASE CL_ParseServerMessage
  BY <1>6, ReceivesMessage
<1>7. CASE SV_ExecuteClientMessage
  BY <1>7, ExecutesMessage
<1>. QED  BY <1>1, <1>2, <1>3, <1>4, <1>5, <1>6, <1>7 DEF Next

\* The map that was loaded last has one of the numbers given out so far.
LEMMA MapLoaded ==
    ASSUME TypesInv, NEW E \in Nat, OrderInv(E), 1 <= E
    PROVE  E \in 1 .. serverId
BY DEF OrderInv, TypesInv

\* At any time there is a map that was loaded last; what was sent about it, and what the
\* client names of it, is what both ends have.
THEOREM DeltaInvariant == Spec => []DeltaInv
<1>1. Init => DeltaInv
  <2>. SUFFICES ASSUME Init PROVE DeltaInv
    OBVIOUS
  <2>1. Inv(1)
    BY Initially
  <2>2. 1 \in 1 .. serverId
    BY <2>1, MapLoaded DEF Inv, MapInv
  <2>. QED  BY <2>1, <2>2 DEF Inv, DeltaInv
<1>2. DeltaInv /\ [Next]_vars => DeltaInv'
  <2>. SUFFICES ASSUME DeltaInv, [Next]_vars PROVE DeltaInv'
    OBVIOUS
  <2>1. PICK E \in Nat : 1 <= E /\ Inv(E)
    BY DEF DeltaInv, Inv, TypesInv
  <2>2. PICK F \in Nat : 1 <= F /\ Inv(F)'
    <3>1. CASE Inv(E)'
      BY <2>1, <3>1
    <3>2. CASE Next
      <4>1. CASE Inv(E)'
        BY <2>1, <4>1
      <4>2. CASE \E F \in Nat : F = serverId' /\ Inv(F)'
        <5>1. PICK F \in Nat : F = serverId' /\ Inv(F)'
          BY <4>2
        <5>2. E <= F
          <6>1. E <= serverId /\ serverId \in Nat
            BY <2>1 DEF Inv, MapInv, OrderInv, TypesInv
          <6>2. serverId' \in {serverId, serverId + 1}
            BY <3>2 DEF Next, SV_SendClientSnapshot, SV_Frame, SV_BuildClientSnapshot, SV_SpawnServer,
                        CL_WritePacket, CL_ParseServerMessage, SV_ExecuteClientMessage, serverVars, mapVars
          <6>3. E <= serverId'
            BY <6>1, <6>2
          <6>. QED  BY <5>1, <6>3
        <5>. QED  BY <2>1, <5>1, <5>2
      <4>. QED  BY <2>1, <3>2, <4>1, <4>2, NextStep
    <3>3. CASE UNCHANGED vars
      BY <2>1, <3>3, Stutters
    <3>. QED  BY <3>2, <3>3
  <2>3. F \in 1 .. serverId'
    <3>1. F <= restartedServerId' /\ restartedServerId' <= serverId' /\ restartedServerId' \in Nat /\ serverId' \in Nat
      BY <2>2 DEF Inv, MapInv, OrderInv, TypesInv
    <3>. QED  BY <2>2, <3>1
  <2>. QED  BY <2>2, <2>3 DEF DeltaInv, Inv
<1>. QED  BY <1>1, <1>2, PTL DEF Spec

\* Type correctness, and the order of the numbers and the maps: neither end is ahead of
\* what the other has sent, and the client's newest frame is where it looks for it.
THEOREM TypeCorrect == Spec => []TypeOK
<1>1. DeltaInv => TypeOK
  <2>. SUFFICES ASSUME DeltaInv PROVE TypeOK
    OBVIOUS
  <2>1. PICK E \in Nat : TypesInv /\ ClientInv /\ OrderInv(E)
    BY DEF DeltaInv, MapInv
  <2>2. /\ restartedServerId <= serverId /\ serverIdAcknowledge <= serverId /\ clServerId <= serverId
        /\ gamestateMessageNum < outgoingSequence /\ deltaMessage < outgoingSequence
        /\ serverMessageSequence < outgoingSequence
    BY <2>1 DEF OrderInv, TypesInv
  <2>3. \A i \in Slots : frames[i].first + frames[i].count >= 0
    BY <2>1 DEF TypesInv, Frame
  <2>4. state \in {"CONNECTED", "PRIMED", "ACTIVE"} /\ outgoingSequence \in 1 .. MaxSequence
    BY <2>1 DEF TypesInv
  <2>5. /\ snap.messageNum <= serverMessageSequence
        /\ snap.valid => snap = snapshots[snap.messageNum % PACKET_BACKUP]
    BY <2>1 DEF ClientInv
  <2>. QED  BY <2>2, <2>3, <2>4, <2>5 DEF TypeOK
<1>. QED  BY <1>1, DeltaInvariant, PTL

\* CL_ParseSnapshot never finds that the frame a difference was made from is gone, whatever
\* was lost on the way and however often the map was restarted or loaded.
THEOREM SourcesAreKept == Spec => []SourceIsKept
<1>1. DeltaInv => SourceIsKept
  BY DEF DeltaInv, WireInv, Sound, SourceIsKept
<1>. QED  BY <1>1, DeltaInvariant, PTL

\* What cgame reads of a snapshot (CL_GetSnapshot) is what the server put into it
\* (SV_BuildClientSnapshot), although it has come as a difference to a difference, unless its
\* source, or one further back, was overwritten while it was read.
THEOREM SnapshotsAreExact == Spec => []SnapshotsExact
<1>1. DeltaInv => SnapshotsExact
  <2>. SUFFICES ASSUME DeltaInv, NEW i \in Slots, Readable(snapshots[i]), ~snapshots[i].garbled
                PROVE  Entities(parseEntities, snapshots[i]) = snapshots[i].built
    BY DEF SnapshotsExact
  <2>1. PICK s \in Snapshot : s = snapshots[i]
    BY DEF DeltaInv, TypesInv
  <2>2. Held(s) /\ parseEntitiesNum - s.first < MAX_PARSE_ENTITIES
    BY <2>1 DEF DeltaInv, ClientInv, Readable
  <2>3. parseEntitiesNum - s.first <= MAX_PARSE_ENTITIES
    <3>1. parseEntitiesNum \in Nat /\ s.first \in Nat
      BY DEF DeltaInv, TypesInv, Snapshot
    <3>. QED  BY <2>2, <3>1, Positive
  <2>. QED  BY <2>1, <2>2, <2>3 DEF Held
<1>. QED  BY <1>1, DeltaInvariant, PTL
=============================================================================
