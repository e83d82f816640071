------------------------ MODULE ServerConnectProofs ------------------------
(***************************************************************************)
(* Proofs about the slots of the server, for every number of clients,      *)
(* ports, slots and challenges, every limit and every life of a packet.    *)
(***************************************************************************)
EXTENDS ServerConnect, RingLemmas

Requested ==
    [kind : Requests, port : Ports, challenge : Numbers \union {None}, age : 0 .. PacketLife]

Replied == [kind : Replies, challenge : Numbers \union {None}, age : 0 .. PacketLife]

Challenges ==
    [client : Clients \union {None}, port : Ports \union {None},
     challenge : Numbers \union {None}, connected : BOOLEAN]

SlotType ==
    [state : {"FREE", "ZOMBIE", "CONNECTED"}, client : Clients \union {None},
     port : Ports \union {None}, challenge : Numbers \union {None},
     sinceConnect : 0 .. ReconnectLimit, sincePacket : 0 .. DropTime + 1]

ClientType ==
    [state : {"DISCONNECTED", "CONNECTING", "CHALLENGING", "CONNECTED"},
     challenge : Numbers \union {None}, sinceSent : 0 .. RetransmitTimeout]

\* TypeOK, the types of what it leaves open, and that a slot in use is a client's.
TypesInv ==
    /\ client \in [Clients -> ClientType]
    /\ port \in [Clients -> Ports]
    /\ slots \in [Slots -> SlotType]
    /\ \A s \in Used : slots[s].client \in Clients /\ slots[s].port \in Ports
    /\ wasted \in BOOLEAN

FlightInv ==
    /\ toServer \in [Clients -> Seq(Requested)]
    /\ toClient \in [Clients -> Seq(Replied)]
    /\ \A c \in Clients : Len(toServer[c]) <= MaxPackets /\ Len(toClient[c]) <= MaxPackets

ChallengesInv ==
    /\ challenges \in [Records -> Challenges]
    /\ \A r \in Records : challenges[r] = NoRecord \/ challenges[r].challenge \in Numbers
    /\ byAge \in Seq(Records) /\ Len(byAge) = MAX_CHALLENGES
    /\ \A r \in Records : \E k \in 1 .. MAX_CHALLENGES : byAge[k] = r

\* Nothing by which the server knows one client has the port of another.
PortsApart == \A c, d \in Clients : c # d => PortsOf(c) \cap PortsOf(d) = {}

\* A slot is no older than the answer that tells its client of it, and no older than a connect
\* still in flight by more than the life of that answer.
SlotAges ==
    \A s \in Used :
        /\ \A q \in Range(toClient[slots[s].client]) :
              q.kind = "connectResponse" => slots[s].sinceConnect <= q.age
        /\ client[slots[s].client].state = "CONNECTED" =>
              \A p \in Range(toServer[slots[s].client]) :
                  p.kind = "connect" => slots[s].sinceConnect <= p.age + PacketLife

ConnectInv ==
    /\ TypesInv
    /\ FlightInv
    /\ ChallengesInv
    /\ PortsApart
    /\ OneSlotPerClient
    /\ SlotAges

-----------------------------------------------------------------------------
\* The operators of the model.

\* Putting a packet in flight adds this one at most.
LEMMA PutPacket ==
    ASSUME NEW S, NEW flight \in Seq(S), Len(flight) <= MaxPackets, NEW p \in S
    PROVE  /\ Put(flight, p) \in Seq(S)
           /\ Len(Put(flight, p)) <= MaxPackets
           /\ Range(Put(flight, p)) \subseteq Range(flight) \union {p}
<1>0. MaxPackets \in Nat \ {0} /\ Len(flight) \in Nat
  BY TableAssumption
<1>1. CASE Len(flight) < MaxPackets
  <2>1. Put(flight, p) = Append(flight, p)
    BY <1>1 DEF Put
  <2>. QED  BY <1>0, <1>1, <2>1 DEF Range
<1>2. CASE ~(Len(flight) < MaxPackets)
  <2>1. Put(flight, p) = Append(Tail(flight), p)
    BY <1>2 DEF Put
  <2>2. flight # <<>>
    BY <1>0, <1>2
  <2>3. /\ Put(flight, p) \in Seq(S)
        /\ Len(Put(flight, p)) = Len(flight)
        /\ \A i \in 1 .. Len(flight) - 1 : Put(flight, p)[i] = flight[i + 1]
        /\ Put(flight, p)[Len(flight)] = p
    BY <2>1, <2>2, ShiftElements
  <2>4. ASSUME NEW i \in 1 .. Len(flight) PROVE Put(flight, p)[i] \in Range(flight) \union {p}
    BY SMTT(30), <1>0, <2>3 DEF Range
  <2>5. DOMAIN Put(flight, p) = 1 .. Len(flight)
    BY <2>3
  <2>. QED  BY <2>3, <2>4, <2>5 DEF Range
<1>. QED  BY <1>1, <1>2

\* What is left when a packet is received was in flight before.
LEMMA RestPackets ==
    ASSUME NEW S, NEW flight \in Seq(S), Len(flight) <= MaxPackets,
           NEW k \in 1 .. Len(flight), NEW rest \in Rest(flight, k)
    PROVE  /\ rest \in Seq(S)
           /\ Len(rest) <= MaxPackets
           /\ Range(rest) \subseteq Range(flight)
<1>0. MaxPackets \in Nat /\ Len(flight) \in Nat
  BY TableAssumption
<1>1. CASE rest = flight
  BY <1>1
<1>2. CASE rest = RemoveAt(flight, k)
  <2>1. /\ rest \in Seq(S) /\ Len(rest) = Len(flight) - 1
        /\ \A i \in 1 .. k - 1 : rest[i] = flight[i]
        /\ \A i \in k .. Len(flight) - 1 : rest[i] = flight[i + 1]
    BY <1>2, RemoveAtElements
  <2>2. ASSUME NEW i \in 1 .. Len(rest) PROVE rest[i] \in Range(flight)
    <3>1. CASE i < k
      BY <1>0, <2>1, <3>1 DEF Range
    <3>2. CASE i >= k
      <4>1. i \in k .. Len(flight) - 1 /\ i + 1 \in DOMAIN flight
        BY <1>0, <2>1, <3>2
      <4>. QED  BY <2>1, <4>1 DEF Range
    <3>. QED  BY <1>0, <2>1, <3>1, <3>2
  <2>. QED  BY <1>0, <2>1, <2>2 DEF Range
<1>. QED  BY <1>1, <1>2 DEF Rest

\* Packets that are still in flight after a tick were in flight before, and a tick younger.
LEMMA AgedPackets ==
    ASSUME NEW S, NEW flight \in Seq(S), Len(flight) <= MaxPackets,
           \A p \in S : p.age \in 0 .. PacketLife,
           \A p \in S : p.age < PacketLife => [p EXCEPT !.age = @ + 1] \in S
    PROVE  /\ Aged(flight) \in Seq(S)
           /\ Len(Aged(flight)) <= MaxPackets
           /\ \A q \in Range(Aged(flight)) :
                 \E p \in Range(flight) : q = [p EXCEPT !.age = @ + 1]
<1>. DEFINE last == Max({0} \union Expired(flight))
            kept == SubSeq(flight, 1 + last, Len(flight))
<1>0. Len(flight) \in Nat /\ MaxPackets \in Nat /\ PacketLife \in Nat
  BY TableAssumption, TimeAssumption
<1>1. last \in {0} \union Expired(flight) /\ \A k \in Expired(flight) : k <= last
  <2>1. Expired(flight) \subseteq 1 .. Len(flight)
    BY DEF Expired
  <2>2. /\ {0} \union Expired(flight) \in SUBSET Nat
        /\ \A k \in {0} \union Expired(flight) : k <= Len(flight)
    BY <1>0, <2>1
  <2>. QED  BY <1>0, <2>2, GreatestElement
<1>. HIDE DEF last
<1>2. last \in 0 .. Len(flight)
  BY <1>0, <1>1 DEF Expired
<1>3. /\ kept \in Seq(S)
      /\ Len(kept) = Len(flight) - last
      /\ \A i \in 1 .. Len(flight) - last : kept[i] = flight[i + last]
  BY <1>2, SuffixElements
<1>. HIDE DEF kept
<1>4. ASSUME NEW i \in 1 .. Len(kept)
      PROVE  kept[i] \in Range(flight) /\ kept[i] \in S /\ kept[i].age < PacketLife
  <2>1. i + last \in 1 .. Len(flight) /\ i + last > last /\ kept[i] = flight[i + last]
    BY <1>0, <1>2, <1>3
  <2>2. i + last \notin Expired(flight)
    BY <1>0, <1>1, <1>2, <2>1
  <2>3. flight[i + last].age # PacketLife
    BY <2>1, <2>2 DEF Expired
  <2>4. flight[i + last] \in S /\ flight[i + last] \in Range(flight)
    BY <2>1 DEF Range
  <2>5. flight[i + last].age \in 0 .. PacketLife
    BY <2>4
  <2>. QED  BY <1>0, <2>1, <2>3, <2>4, <2>5
<1>5. Aged(flight) = [i \in 1 .. Len(kept) |-> [kept[i] EXCEPT !.age = @ + 1]]
  <2>1. Aged(flight) = [i \in DOMAIN kept |-> [kept[i] EXCEPT !.age = @ + 1]]
    BY DEF Aged, kept, last
  <2>. QED  BY <1>3, <2>1
<1>6. \A i \in 1 .. Len(kept) : [kept[i] EXCEPT !.age = @ + 1] \in S
  BY <1>4
<1>7. Len(kept) \in Nat
  BY <1>3
<1>8. Aged(flight) \in Seq(S) /\ Len(Aged(flight)) = Len(kept)
  BY <1>5, <1>6, <1>7
<1>9. Len(Aged(flight)) <= MaxPackets
  BY <1>0, <1>2, <1>3, <1>8
<1>10. ASSUME NEW q \in Range(Aged(flight))
       PROVE  \E p \in Range(flight) : q = [p EXCEPT !.age = @ + 1]
  <2>1. PICK i \in DOMAIN Aged(flight) : q = Aged(flight)[i]
    BY DEF Range
  <2>2. i \in 1 .. Len(kept) /\ q = [kept[i] EXCEPT !.age = @ + 1]
    BY <1>5, <2>1
  <2>. QED  BY <1>4, <2>2
<1>. QED  BY <1>8, <1>9, <1>10

\* A record that is moved to an end of the order of age leaves the others in it.
LEMMA OtherRecords ==
    ASSUME ChallengesInv, NEW r \in Records
    PROVE  /\ Others(r) \in Seq(Records)
           /\ Len(Others(r)) = MAX_CHALLENGES - 1
           /\ \A q \in Records : q # r => \E k \in 1 .. MAX_CHALLENGES - 1 : Others(r)[k] = q
<1>. DEFINE k == CHOOSE i \in DOMAIN byAge : byAge[i] = r
<1>0. /\ byAge \in Seq(Records) /\ Len(byAge) = MAX_CHALLENGES /\ MAX_CHALLENGES \in Nat
      /\ DOMAIN byAge = 1 .. MAX_CHALLENGES
  BY TableAssumption DEF ChallengesInv
<1>1. k \in 1 .. MAX_CHALLENGES /\ byAge[k] = r
  BY <1>0 DEF ChallengesInv
<1>2. Others(r) = RemoveAt(byAge, k)
  BY DEF Others
<1>. HIDE DEF k
<1>3. /\ Others(r) \in Seq(Records) /\ Len(Others(r)) = MAX_CHALLENGES - 1
      /\ \A i \in 1 .. k - 1 : Others(r)[i] = byAge[i]
      /\ \A i \in k .. MAX_CHALLENGES - 1 : Others(r)[i] = byAge[i + 1]
  BY ZenonT(30), <1>0, <1>1, <1>2, RemoveAtElements
<1>4. ASSUME NEW q \in Records, q # r
      PROVE  \E i \in 1 .. MAX_CHALLENGES - 1 : Others(r)[i] = q
  <2>1. PICK i \in 1 .. MAX_CHALLENGES : byAge[i] = q
    BY DEF ChallengesInv
  <2>2. CASE i < k
    BY <1>0, <1>1, <1>3, <2>1, <2>2
  <2>3. CASE i > k
    <3>1. i - 1 \in k .. MAX_CHALLENGES - 1 /\ (i - 1) + 1 = i
      BY <1>0, <1>1, <2>3
    <3>2. Others(r)[i - 1] = q
      BY <1>3, <2>1, <3>1
    <3>3. i - 1 \in 1 .. MAX_CHALLENGES - 1
      BY <1>0, <1>1, <3>1
    <3>. QED  BY <3>2, <3>3
  <2>. QED  BY <1>0, <1>1, <1>4, <2>1, <2>2, <2>3
<1>. QED  BY <1>3, <1>4

\* The order of age is still one of all records when one of them has become the newest.
LEMMA NewestRecord ==
    ASSUME ChallengesInv, NEW r \in Records
    PROVE  /\ Newest(r) \in Seq(Records) /\ Len(Newest(r)) = MAX_CHALLENGES
           /\ \A q \in Records : \E k \in 1 .. MAX_CHALLENGES : Newest(r)[k] = q
<1>. DEFINE others == Others(r)
<1>0. MAX_CHALLENGES \in Nat \ {0}
  BY TableAssumption
<1>1. /\ others \in Seq(Records) /\ Len(others) = MAX_CHALLENGES - 1
      /\ \A q \in Records : q # r => \E k \in 1 .. MAX_CHALLENGES - 1 : others[k] = q
  BY OtherRecords
<1>2. Newest(r) = Append(others, r)
  BY DEF Newest
<1>. HIDE DEF others
<1>3. /\ Newest(r) \in Seq(Records) /\ Len(Newest(r)) = MAX_CHALLENGES
      /\ \A k \in 1 .. MAX_CHALLENGES - 1 : Newest(r)[k] = others[k]
      /\ Newest(r)[MAX_CHALLENGES] = r
  BY <1>0, <1>1, <1>2
<1>4. \A k \in 1 .. MAX_CHALLENGES - 1 : k \in 1 .. MAX_CHALLENGES
  BY <1>0
<1>. QED  BY <1>0, <1>1, <1>3, <1>4

\* And when one of them has become the oldest.
LEMMA OldestRecord ==
    ASSUME ChallengesInv, NEW r \in Records
    PROVE  /\ Oldest(r) \in Seq(Records) /\ Len(Oldest(r)) = MAX_CHALLENGES
           /\ \A q \in Records : \E k \in 1 .. MAX_CHALLENGES : Oldest(r)[k] = q
<1>. DEFINE others == Others(r)
<1>0. MAX_CHALLENGES \in Nat \ {0}
  BY TableAssumption
<1>1. /\ others \in Seq(Records) /\ Len(others) = MAX_CHALLENGES - 1
      /\ \A q \in Records : q # r => \E k \in 1 .. MAX_CHALLENGES - 1 : others[k] = q
  BY OtherRecords
<1>2. Oldest(r) = <<r>> \o others
  BY DEF Oldest
<1>. HIDE DEF others
<1>3. <<r>> \in Seq(Records) /\ Len(<<r>>) = 1 /\ <<r>>[1] = r
  OBVIOUS
<1>4. /\ Oldest(r) \in Seq(Records) /\ Len(Oldest(r)) = 1 + (MAX_CHALLENGES - 1)
      /\ \A k \in 1 .. 1 + (MAX_CHALLENGES - 1) :
            Oldest(r)[k] = IF k <= 1 THEN <<r>>[k] ELSE others[k - 1]
  BY <1>1, <1>2, <1>3, ConcatProperties
<1>5. Len(Oldest(r)) = MAX_CHALLENGES /\ Oldest(r)[1] = r
  BY <1>0, <1>3, <1>4
<1>6. ASSUME NEW k \in 1 .. MAX_CHALLENGES - 1
      PROVE  k + 1 \in 1 .. MAX_CHALLENGES /\ Oldest(r)[k + 1] = others[k]
  <2>1. k + 1 \in 1 .. 1 + (MAX_CHALLENGES - 1) /\ ~(k + 1 <= 1) /\ (k + 1) - 1 = k
    BY <1>0
  <2>. QED  BY <1>0, <1>4, <2>1
<1>7. 1 \in 1 .. MAX_CHALLENGES
  BY <1>0
<1>. QED  BY <1>1, <1>4, <1>5, <1>6, <1>7

\* SV_DropClient leaves the table of challenges well formed.
LEMMA WithoutChallenge ==
    ASSUME ChallengesInv, NEW c, NEW from, ChallengesWithout(c, from)
    PROVE  ChallengesInv'
<1>. DEFINE mine == {r \in Records : challenges[r].client = c /\ challenges[r].port = from}
<1>1. CASE mine = {}
  BY <1>1 DEF ChallengesWithout, ChallengesInv
<1>2. CASE mine # {}
  <2>1. Min(mine) \in mine
    BY <1>2, LeastElement DEF Records
  <2>2. PICK r \in Records : r = Min(mine)
    BY <2>1
  <2>3. /\ challenges' = [challenges EXCEPT ![r] = NoRecord]
        /\ byAge' = Oldest(r)
    BY <1>2, <2>2 DEF ChallengesWithout
  <2>4. NoRecord \in Challenges
    BY DEF NoRecord, Challenges
  <2>5. /\ byAge' \in Seq(Records) /\ Len(byAge') = MAX_CHALLENGES
        /\ \A q \in Records : \E k \in 1 .. MAX_CHALLENGES : byAge'[k] = q
    BY <2>3, OldestRecord
  <2>. QED  BY <2>3, <2>4, <2>5 DEF ChallengesInv
<1>. QED  BY <1>1, <1>2

\* The slots, ports, requests and answers a step leaves as they were, or takes away.
KeepsSlots ==
    \A s \in Used' : /\ s \in Used
                     /\ slots'[s].client = slots[s].client
                     /\ slots'[s].sinceConnect = slots[s].sinceConnect

KeepsPorts == \A c \in Clients : PortsOf(c)' \subseteq PortsOf(c)

KeepsRequests ==
    \A c \in Clients : client'[c].state = "CONNECTED" =>
        /\ client[c].state = "CONNECTED"
        /\ \A p \in Range(toServer'[c]) : p.kind = "connect" => p \in Range(toServer[c])

KeepsAnswers ==
    \A c \in Clients : \A q \in Range(toClient'[c]) :
        q.kind = "connectResponse" => q \in Range(toClient[c])

LEMMA KeptPorts ==
    ASSUME PortsApart, KeepsPorts
    PROVE  PortsApart'
<1>1. PortsApart' = \A c, d \in Clients : c # d => PortsOf(c)' \cap PortsOf(d)' = {}
  BY DEF PortsApart
<1>. QED  BY <1>1 DEF PortsApart, KeepsPorts

LEMMA KeptSlots ==
    ASSUME OneSlotPerClient, KeepsSlots
    PROVE  OneSlotPerClient'
BY DEF OneSlotPerClient, KeepsSlots

LEMMA KeptAges ==
    ASSUME SlotAges, TypesInv, KeepsSlots, KeepsRequests, KeepsAnswers
    PROVE  SlotAges'
<1>. SUFFICES ASSUME NEW s \in Used'
              PROVE  /\ \A q \in Range(toClient'[slots'[s].client]) :
                           q.kind = "connectResponse" => slots'[s].sinceConnect <= q.age
                     /\ client'[slots'[s].client].state = "CONNECTED" =>
                           \A p \in Range(toServer'[slots'[s].client]) :
                               p.kind = "connect" => slots'[s].sinceConnect <= p.age + PacketLife
  BY DEF SlotAges
<1>1. /\ s \in Used /\ slots'[s].client = slots[s].client
      /\ slots'[s].sinceConnect = slots[s].sinceConnect /\ slots[s].client \in Clients
  BY DEF KeepsSlots, TypesInv
<1>2. ASSUME NEW q \in Range(toClient'[slots[s].client]), q.kind = "connectResponse"
      PROVE  slots[s].sinceConnect <= q.age
  BY <1>1, <1>2 DEF KeepsAnswers, SlotAges
<1>3. ASSUME client'[slots[s].client].state = "CONNECTED",
             NEW p \in Range(toServer'[slots[s].client]), p.kind = "connect"
      PROVE  slots[s].sinceConnect <= p.age + PacketLife
  BY <1>1, <1>3 DEF KeepsRequests, SlotAges
<1>. QED  BY <1>1, <1>2, <1>3

\* The ports of a client, one by one.
LEMMA KeptPortsOf ==
    ASSUME TypesInv, port' = port,
           \A c \in Clients : \A p \in Range(toServer'[c]) : p.port \in PortsOf(c),
           \A s \in Used' : slots'[s].port \in PortsOf(slots'[s].client)
    PROVE  KeepsPorts
<1>. SUFFICES ASSUME NEW c \in Clients, NEW x \in PortsOf(c)' PROVE x \in PortsOf(c)
  BY DEF KeepsPorts
<1>1. \/ x = port'[c]
      \/ \E p \in Range(toServer'[c]) : x = p.port
      \/ \E s \in Used' : slots'[s].client = c /\ x = slots'[s].port
  BY DEF PortsOf
<1>2. port[c] \in PortsOf(c)
  BY DEF PortsOf
<1>. QED  BY <1>1, <1>2

\* What a client puts in flight carries its port, and its challenge number.
LEMMA SentToServer ==
    ASSUME TypesInv, FlightInv, NEW c \in Clients, NEW kind \in Requests,
           toServer' = [toServer EXCEPT ![c] = ToServer(c, kind)]
    PROVE  LET p == [kind |-> kind, port |-> port[c], challenge |-> client[c].challenge, age |-> 0]
           IN  /\ toServer' \in [Clients -> Seq(Requested)]
               /\ \A d \in Clients : Len(toServer'[d]) <= MaxPackets
               /\ Range(toServer'[c]) \subseteq Range(toServer[c]) \union {p}
               /\ \A d \in Clients \ {c} : toServer'[d] = toServer[d]
<1>. DEFINE p == [kind |-> kind, port |-> port[c], challenge |-> client[c].challenge, age |-> 0]
            after == Put(toServer[c], p)
<1>1. p \in Requested
  <2>1. client[c] \in ClientType /\ port[c] \in Ports /\ 0 \in 0 .. PacketLife
    BY TimeAssumption DEF TypesInv
  <2>. QED  BY <2>1 DEF Requested, ClientType
<1>2. toServer[c] \in Seq(Requested) /\ Len(toServer[c]) <= MaxPackets
  BY DEF FlightInv
<1>3. /\ after \in Seq(Requested) /\ Len(after) <= MaxPackets
      /\ Range(after) \subseteq Range(toServer[c]) \union {p}
  BY <1>1, <1>2, PutPacket
<1>4. toServer' = [toServer EXCEPT ![c] = after]
  BY DEF ToServer
<1>. HIDE DEF after
<1>. QED  BY <1>3, <1>4 DEF FlightInv

LEMMA SentToClient ==
    ASSUME FlightInv, NEW c \in Clients, NEW kind \in Replies, NEW number \in Numbers \union {None},
           toClient' = [toClient EXCEPT ![c] = ToClient(c, kind, number)]
    PROVE  LET q == [kind |-> kind, challenge |-> number, age |-> 0]
           IN  /\ toClient' \in [Clients -> Seq(Replied)]
               /\ \A d \in Clients : Len(toClient'[d]) <= MaxPackets
               /\ Range(toClient'[c]) \subseteq Range(toClient[c]) \union {q}
               /\ \A d \in Clients \ {c} : toClient'[d] = toClient[d]
<1>. DEFINE q == [kind |-> kind, challenge |-> number, age |-> 0]
            after == Put(toClient[c], q)
<1>1. q \in Replied
  <2>1. 0 \in 0 .. PacketLife
    BY TimeAssumption
  <2>. QED  BY <2>1 DEF Replied
<1>2. toClient[c] \in Seq(Replied) /\ Len(toClient[c]) <= MaxPackets
  BY DEF FlightInv
<1>3. /\ after \in Seq(Replied) /\ Len(after) <= MaxPackets
      /\ Range(after) \subseteq Range(toClient[c]) \union {q}
  BY <1>1, <1>2, PutPacket
<1>4. toClient' = [toClient EXCEPT ![c] = after]
  BY DEF ToClient
<1>. HIDE DEF after
<1>. QED  BY <1>3, <1>4 DEF FlightInv

LEMMA Kept ==
    ASSUME ConnectInv, TypesInv', FlightInv', ChallengesInv',
           KeepsSlots, KeepsPorts, KeepsRequests, KeepsAnswers
    PROVE  ConnectInv'
BY KeptPorts, KeptSlots, KeptAges DEF ConnectInv

\* A step that leaves the server alone changes nothing the server keeps.
LEMMA ServerUntouched ==
    ASSUME ConnectInv, UNCHANGED <<port, slots, challenges, byAge, wasted>>,
           client' \in [Clients -> ClientType]
    PROVE  /\ TypesInv' /\ ChallengesInv' /\ KeepsSlots
           /\ \A s \in Used' : slots'[s].port \in PortsOf(slots'[s].client)
<1>1. Used' = Used
  BY DEF Used
<1>2. \A s \in Used : slots[s].client \in Clients /\ slots[s].port \in PortsOf(slots[s].client)
  BY DEF ConnectInv, TypesInv, PortsOf
<1>. QED  BY <1>1, <1>2 DEF ConnectInv, TypesInv, ChallengesInv, KeepsSlots

\* What a client sends is one packet, from its port.
LEMMA OneRequest ==
    ASSUME ConnectInv, NEW c \in Clients, NEW kind \in Requests,
           toServer' = [toServer EXCEPT ![c] = ToServer(c, kind)]
    PROVE  /\ toServer' \in [Clients -> Seq(Requested)]
           /\ \A d \in Clients : Len(toServer'[d]) <= MaxPackets
           /\ \A d \in Clients : \A p \in Range(toServer'[d]) :
                 p.port \in PortsOf(d) /\ (p \in Range(toServer[d]) \/ (d = c /\ p.kind = kind))
<1>. DEFINE p == [kind |-> kind, port |-> port[c], challenge |-> client[c].challenge, age |-> 0]
<1>1. /\ toServer' \in [Clients -> Seq(Requested)]
      /\ \A d \in Clients : Len(toServer'[d]) <= MaxPackets
      /\ Range(toServer'[c]) \subseteq Range(toServer[c]) \union {p}
      /\ \A d \in Clients \ {c} : toServer'[d] = toServer[d]
  BY SentToServer DEF ConnectInv
<1>2. \A d \in Clients : \A q \in Range(toServer'[d]) : q \in Range(toServer[d]) \/ (d = c /\ q = p)
  BY <1>1
<1>3. \A d \in Clients : \A q \in Range(toServer[d]) : q.port \in PortsOf(d)
  BY DEF PortsOf
<1>4. p.port \in PortsOf(c)
  BY DEF PortsOf
<1>. QED  BY <1>1, <1>2, <1>3, <1>4

\* And so is what the server sends.
LEMMA OneReply ==
    ASSUME ConnectInv, NEW c \in Clients, NEW kind \in Replies, NEW number \in Numbers \union {None},
           toClient' = [toClient EXCEPT ![c] = ToClient(c, kind, number)]
    PROVE  /\ toClient' \in [Clients -> Seq(Replied)]
           /\ \A d \in Clients : Len(toClient'[d]) <= MaxPackets
           /\ \A d \in Clients : \A q \in Range(toClient'[d]) :
                 q \in Range(toClient[d]) \/ (d = c /\ q.kind = kind /\ q.age = 0)
<1>. DEFINE p == [kind |-> kind, challenge |-> number, age |-> 0]
<1>1. /\ toClient' \in [Clients -> Seq(Replied)]
      /\ \A d \in Clients : Len(toClient'[d]) <= MaxPackets
      /\ Range(toClient'[c]) \subseteq Range(toClient[c]) \union {p}
      /\ \A d \in Clients \ {c} : toClient'[d] = toClient[d]
  BY SentToClient DEF ConnectInv
<1>. QED  BY <1>1

LEMMA InFlight ==
    ASSUME NEW S, NEW flights \in [Clients -> Seq(S)], NEW c \in Clients, NEW p \in Range(flights[c])
    PROVE  p \in S
<1>1. flights[c] \in Seq(S)
  OBVIOUS
<1>. QED  BY <1>1 DEF Range

\* Receiving a packet leaves no other in flight than before.
LEMMA OneReceived ==
    ASSUME NEW S, NEW flights \in [Clients -> Seq(S)], NEW c \in Clients,
           \A d \in Clients : Len(flights[d]) <= MaxPackets,
           NEW k \in 1 .. Len(flights[c]), NEW rest \in Rest(flights[c], k), NEW after,
           after = [flights EXCEPT ![c] = rest]
    PROVE  /\ after \in [Clients -> Seq(S)]
           /\ \A d \in Clients : Len(after[d]) <= MaxPackets
           /\ \A d \in Clients : Range(after[d]) \subseteq Range(flights[d])
<1>1. flights[c] \in Seq(S) /\ Len(flights[c]) <= MaxPackets
  OBVIOUS
<1>2. rest \in Seq(S) /\ Len(rest) <= MaxPackets /\ Range(rest) \subseteq Range(flights[c])
  BY <1>1, RestPackets
<1>. QED  BY <1>2

-----------------------------------------------------------------------------
\* The steps of the client.

LEMMA InitInv == Init => ConnectInv
<1>. SUFFICES ASSUME Init PROVE ConnectInv
  OBVIOUS
<1>0. /\ MAX_CHALLENGES \in Nat \ {0} /\ MaxPackets \in Nat /\ DropTime \in Nat
      /\ ReconnectLimit \in Nat /\ RetransmitTimeout \in Nat
  BY TableAssumption, TimeAssumption
<1>1. Used = {}
  BY DEF Init, Used, FreeSlot
<1>2. TypesInv
  <2>1. FreeSlot \in SlotType
    BY <1>0 DEF FreeSlot, SlotType
  <2>2. Disconnected \in ClientType
    BY <1>0 DEF Disconnected, ClientType
  <2>. QED  BY <1>1, <2>1, <2>2 DEF Init, TypesInv
<1>3. FlightInv
  <2>1. <<>> \in Seq(Requested) /\ <<>> \in Seq(Replied) /\ Len(<<>>) = 0
    OBVIOUS
  <2>. QED  BY <1>0, <2>1 DEF Init, FlightInv
<1>4. ChallengesInv
  <2>1. NoRecord \in Challenges
    BY DEF NoRecord, Challenges
  <2>2. byAge \in Seq(Records) /\ Len(byAge) = MAX_CHALLENGES
    BY <1>0 DEF Init, Records
  <2>. QED  BY <2>1, <2>2 DEF Init, ChallengesInv, Records
<1>5. PortsApart
  <2>1. ASSUME NEW c \in Clients PROVE PortsOf(c) = {port[c]}
    <3>1. toServer[c] = <<>>
      BY DEF Init
    <3>2. Range(toServer[c]) = {}
      BY <3>1 DEF Range
    <3>. QED  BY <1>1, <3>2 DEF PortsOf
  <2>. QED  BY <2>1 DEF PortsApart, Init
<1>. QED  BY <1>1, <1>2, <1>3, <1>4, <1>5 DEF ConnectInv, OneSlotPerClient, SlotAges

LEMMA ConnectStep ==
    ASSUME ConnectInv, NEW c \in Clients, CL_Connect(c)
    PROVE  ConnectInv'
<1>1. client' \in [Clients -> ClientType]
  BY DEF CL_Connect, ConnectInv, TypesInv, ClientType
<1>2. /\ TypesInv' /\ ChallengesInv' /\ KeepsSlots
      /\ \A s \in Used' : slots'[s].port \in PortsOf(slots'[s].client)
  BY <1>1, ServerUntouched DEF CL_Connect
<1>3. FlightInv' /\ KeepsAnswers
  BY DEF CL_Connect, ConnectInv, FlightInv, KeepsAnswers
<1>4. KeepsPorts
  <2>1. \A d \in Clients : \A p \in Range(toServer'[d]) : p.port \in PortsOf(d)
    BY DEF CL_Connect, PortsOf
  <2>. QED  BY <1>2, <2>1, KeptPortsOf DEF ConnectInv, CL_Connect
<1>5. KeepsRequests
  BY DEF CL_Connect, ConnectInv, TypesInv, ClientType, KeepsRequests
<1>. QED  BY <1>2, <1>3, <1>4, <1>5, Kept

LEMMA ResendStep ==
    ASSUME ConnectInv, NEW c \in Clients, CL_CheckForResend(c)
    PROVE  ConnectInv'
<1>0. RetransmitTimeout \in Nat
  BY TimeAssumption
<1>1. PICK kind \in {"getchallenge", "connect"} :
            /\ client[c].state # "CONNECTED"
            /\ toServer' = [toServer EXCEPT ![c] = ToServer(c, kind)]
  BY DEF CL_CheckForResend
<1>2. kind \in Requests
  BY DEF Requests
<1>3. client' \in [Clients -> ClientType]
  BY <1>0 DEF CL_CheckForResend, ConnectInv, TypesInv, ClientType
<1>4. /\ TypesInv' /\ ChallengesInv' /\ KeepsSlots
      /\ \A s \in Used' : slots'[s].port \in PortsOf(slots'[s].client)
  BY <1>3, ServerUntouched DEF CL_CheckForResend
<1>5. /\ toServer' \in [Clients -> Seq(Requested)]
      /\ \A d \in Clients : Len(toServer'[d]) <= MaxPackets
      /\ \A d \in Clients : \A p \in Range(toServer'[d]) :
            p.port \in PortsOf(d) /\ (p \in Range(toServer[d]) \/ (d = c /\ p.kind = kind))
  BY <1>1, <1>2, OneRequest
<1>6. FlightInv' /\ KeepsAnswers
  BY <1>5 DEF CL_CheckForResend, ConnectInv, FlightInv, KeepsAnswers
<1>7. KeepsPorts
  BY <1>4, <1>5, KeptPortsOf DEF ConnectInv, CL_CheckForResend
<1>8. KeepsRequests
  <2>1. \A d \in Clients : client'[d].state = client[d].state
    BY DEF CL_CheckForResend, ConnectInv, TypesInv, ClientType
  <2>. QED  BY <1>1, <1>5, <2>1 DEF KeepsRequests
<1>. QED  BY <1>4, <1>6, <1>7, <1>8, Kept

LEMMA WriteStep ==
    ASSUME ConnectInv, NEW c \in Clients, CL_WritePacket(c)
    PROVE  ConnectInv'
<1>1. client' \in [Clients -> ClientType]
  BY DEF CL_WritePacket, ConnectInv, TypesInv
<1>2. /\ TypesInv' /\ ChallengesInv' /\ KeepsSlots
      /\ \A s \in Used' : slots'[s].port \in PortsOf(slots'[s].client)
  BY <1>1, ServerUntouched DEF CL_WritePacket
<1>3. /\ toServer' \in [Clients -> Seq(Requested)]
      /\ \A d \in Clients : Len(toServer'[d]) <= MaxPackets
      /\ \A d \in Clients : \A p \in Range(toServer'[d]) :
            p.port \in PortsOf(d) /\ (p \in Range(toServer[d]) \/ (d = c /\ p.kind = "message"))
  BY OneRequest DEF CL_WritePacket, Requests
<1>4. FlightInv' /\ KeepsAnswers
  BY <1>3 DEF CL_WritePacket, ConnectInv, FlightInv, KeepsAnswers
<1>5. KeepsPorts
  BY <1>2, <1>3, KeptPortsOf DEF ConnectInv, CL_WritePacket
<1>6. KeepsRequests
  BY <1>3 DEF CL_WritePacket, KeepsRequests
<1>. QED  BY <1>2, <1>4, <1>5, <1>6, Kept

\* The farewell adds no connect to what is in flight.
LEMMA FarewellSent ==
    ASSUME ConnectInv, NEW c \in Clients, toServer' \in {toServer, Farewell(c)}
    PROVE  /\ toServer' \in [Clients -> Seq(Requested)]
           /\ \A d \in Clients : Len(toServer'[d]) <= MaxPackets
           /\ \A d \in Clients : \A p \in Range(toServer'[d]) :
                 p.port \in PortsOf(d) /\ (p \in Range(toServer[d]) \/ (d = c /\ p.kind = "quit"))
<1>1. CASE toServer' = toServer
  BY <1>1 DEF ConnectInv, FlightInv, PortsOf
<1>2. CASE toServer' = [toServer EXCEPT ![c] = ToServer(c, "quit")]
  BY <1>2, OneRequest DEF Requests
<1>. QED  BY <1>1, <1>2 DEF Farewell

LEMMA DisconnectStep ==
    ASSUME ConnectInv, NEW c \in Clients, CL_Disconnect(c)
    PROVE  ConnectInv'
<1>1. client' \in [Clients -> ClientType]
  <2>1. Disconnected \in ClientType
    BY TimeAssumption DEF Disconnected, ClientType
  <2>. QED  BY <2>1 DEF CL_Disconnect, ConnectInv, TypesInv
<1>2. /\ TypesInv' /\ ChallengesInv' /\ KeepsSlots
      /\ \A s \in Used' : slots'[s].port \in PortsOf(slots'[s].client)
  BY <1>1, ServerUntouched DEF CL_Disconnect
<1>3. /\ toServer' \in [Clients -> Seq(Requested)]
      /\ \A d \in Clients : Len(toServer'[d]) <= MaxPackets
      /\ \A d \in Clients : \A p \in Range(toServer'[d]) :
            p.port \in PortsOf(d) /\ (p \in Range(toServer[d]) \/ (d = c /\ p.kind = "quit"))
  BY FarewellSent DEF CL_Disconnect
<1>4. FlightInv' /\ KeepsAnswers
  BY <1>3 DEF CL_Disconnect, ConnectInv, FlightInv, KeepsAnswers
<1>5. KeepsPorts
  BY <1>2, <1>3, KeptPortsOf DEF ConnectInv, CL_Disconnect
<1>6. KeepsRequests
  <2>1. \A d \in Clients : client'[d].state = "CONNECTED" => client[d].state = "CONNECTED"
    BY DEF CL_Disconnect, ConnectInv, TypesInv, Disconnected
  <2>. QED  BY <1>3, <2>1 DEF KeepsRequests
<1>. QED  BY <1>2, <1>4, <1>5, <1>6, Kept

LEMMA AfterPacketType ==
    ASSUME ConnectInv, NEW c \in Clients, NEW p \in Replied
    PROVE  AfterPacket(c, p) \in ClientType
<1>1. Disconnected \in ClientType /\ RetransmitTimeout \in 0 .. RetransmitTimeout
  BY TimeAssumption DEF Disconnected, ClientType
<1>2. client[c] \in ClientType /\ p.challenge \in Numbers \union {None}
  BY DEF ConnectInv, TypesInv, Replied
<1>. QED  BY <1>1, <1>2 DEF AfterPacket, ClientType

\* The client that gets connected has an answer, and its slot is as young as that answer.
LEMMA ReceiveStep ==
    ASSUME ConnectInv, NEW c \in Clients, NEW kind \in Replies, ClientReceives(c, kind)
    PROVE  ConnectInv'
<1>1. PICK k \in 1 .. Len(toClient[c]) :
            /\ toClient[c][k].kind = kind
            /\ client' = [client EXCEPT ![c] = AfterPacket(c, toClient[c][k])]
            /\ \E rest \in Rest(toClient[c], k) : toClient' = [toClient EXCEPT ![c] = rest]
  BY DEF ClientReceives
<1>2. PICK rest \in Rest(toClient[c], k) : toClient' = [toClient EXCEPT ![c] = rest]
  BY <1>1
<1>3. PICK q \in Replied : q = toClient[c][k] /\ q \in Range(toClient[c])
  <2>1. toClient[c] \in Seq(Replied)
    BY DEF ConnectInv, FlightInv
  <2>. QED  BY <2>1 DEF Range
<1>4. client' \in [Clients -> ClientType]
  <2>1. AfterPacket(c, q) \in ClientType
    BY AfterPacketType
  <2>. QED  BY <1>1, <1>3, <2>1 DEF ConnectInv, TypesInv
<1>5. /\ TypesInv' /\ ChallengesInv' /\ KeepsSlots
      /\ \A s \in Used' : slots'[s].port \in PortsOf(slots'[s].client)
  BY <1>4, ServerUntouched DEF ClientReceives
<1>6. /\ toServer' \in [Clients -> Seq(Requested)]
      /\ \A d \in Clients : Len(toServer'[d]) <= MaxPackets
      /\ \A d \in Clients : \A p \in Range(toServer'[d]) :
            p.port \in PortsOf(d) /\ (p \in Range(toServer[d]) \/ (d = c /\ p.kind = "quit"))
  BY FarewellSent DEF ClientReceives
<1>7. /\ toClient' \in [Clients -> Seq(Replied)]
      /\ \A d \in Clients : Len(toClient'[d]) <= MaxPackets
      /\ \A d \in Clients : Range(toClient'[d]) \subseteq Range(toClient[d])
  <2>1. toClient \in [Clients -> Seq(Replied)] /\ \A d \in Clients : Len(toClient[d]) <= MaxPackets
    BY DEF ConnectInv, FlightInv
  <2>. QED  BY <1>2, <2>1, OneReceived
<1>8. FlightInv' /\ KeepsAnswers
  BY <1>6, <1>7 DEF FlightInv, KeepsAnswers
<1>9. KeepsPorts
  BY <1>5, <1>6, KeptPortsOf DEF ConnectInv, ClientReceives
<1>10. CASE ~(kind = "connectResponse" /\ client[c].state = "CHALLENGING")
  <2>1. AfterPacket(c, q).state = "CONNECTED" => client[c].state = "CONNECTED"
    BY <1>1, <1>3, <1>10 DEF AfterPacket, Disconnected
  <2>2. \A d \in Clients : client'[d].state = "CONNECTED" => client[d].state = "CONNECTED"
    BY <1>1, <1>3, <2>1 DEF ConnectInv, TypesInv
  <2>3. KeepsRequests
    BY <1>6, <2>2 DEF KeepsRequests
  <2>. QED  BY <1>5, <1>8, <1>9, <2>3, Kept
<1>11. CASE kind = "connectResponse" /\ client[c].state = "CHALLENGING"
  <2>1. PortsApart' /\ OneSlotPerClient'
    BY <1>5, <1>9, KeptPorts, KeptSlots DEF ConnectInv
  <2>2. SlotAges'
    <3>. SUFFICES ASSUME NEW s \in Used'
                  PROVE  /\ \A a \in Range(toClient'[slots'[s].client]) :
                               a.kind = "connectResponse" => slots'[s].sinceConnect <= a.age
                         /\ client'[slots'[s].client].state = "CONNECTED" =>
                               \A p \in Range(toServer'[slots'[s].client]) :
                                   p.kind = "connect" =>
                                       slots'[s].sinceConnect <= p.age + PacketLife
      BY DEF SlotAges
    <3>1. /\ s \in Used /\ slots' = slots /\ slots[s].client \in Clients
          /\ slots[s].sinceConnect \in Int
      BY <1>5 DEF KeepsSlots, ConnectInv, TypesInv, SlotType, ClientReceives, Used
    <3>2. \A a \in Range(toClient'[slots'[s].client]) :
               a.kind = "connectResponse" => slots'[s].sinceConnect <= a.age
      BY <1>7, <3>1 DEF ConnectInv, SlotAges
    <3>3. ASSUME client'[slots'[s].client].state = "CONNECTED",
                 NEW p \in Range(toServer'[slots'[s].client]), p.kind = "connect"
          PROVE  slots'[s].sinceConnect <= p.age + PacketLife
      <4>1. p \in Range(toServer[slots[s].client])
        BY <1>6, <3>1, <3>3
      <4>2. CASE slots[s].client = c
        <5>1. slots[s].sinceConnect <= q.age
          BY <1>1, <1>3, <1>11, <3>1, <4>2 DEF ConnectInv, SlotAges
        <5>2. q.age \in 0 .. PacketLife
          BY DEF Replied
        <5>3. p.age \in 0 .. PacketLife
          <6>1. toServer[c] \in Seq(Requested)
            BY DEF ConnectInv, FlightInv
          <6>2. p \in Requested
            BY <4>1, <4>2, <6>1 DEF Range
          <6>. QED  BY <6>2 DEF Requested
        <5>4. PICK a \in Int : a = slots[s].sinceConnect
          BY <3>1
        <5>5. a <= q.age /\ a <= p.age + PacketLife
          BY SMTT(30), <5>1, <5>2, <5>3, <5>4, TimeAssumption
        <5>. QED  BY <3>1, <5>4, <5>5
      <4>3. CASE slots[s].client # c
        <5>1. client[slots[s].client].state = "CONNECTED"
          BY <1>1, <3>1, <3>3, <4>3 DEF ConnectInv, TypesInv
        <5>. QED  BY <3>1, <3>3, <4>1, <5>1 DEF ConnectInv, SlotAges
      <4>. QED  BY <4>2, <4>3
    <3>. QED  BY <3>2, <3>3
  <2>. QED  BY <1>5, <1>8, <2>1, <2>2 DEF ConnectInv
<1>. QED  BY <1>10, <1>11

-----------------------------------------------------------------------------
\* The steps of the server when it receives a packet.

\* What is in flight to the server and who sends it, while the server receives a packet.
Receiving ==
    /\ UNCHANGED <<client, port, portChanges>>
    /\ toServer' \in [Clients -> Seq(Requested)]
    /\ \A d \in Clients : Len(toServer'[d]) <= MaxPackets
    /\ \A d \in Clients : Range(toServer'[d]) \subseteq Range(toServer[d])

LEMMA ReceivedByServer ==
    ASSUME ConnectInv, NEW c \in Clients, NEW kind, ServerReceives(c, kind)
    PROVE  /\ Receiving
           /\ \E p \in Range(toServer[c]) :
                 /\ p \in Requested
                 /\ \/ SV_GetChallenge(c, p)
                    \/ SV_DirectConnect(c, p) /\ p.kind = "connect"
                    \/ SV_SequencedPacket(c, p)
<1>1. PICK k \in 1 .. Len(toServer[c]) :
            /\ \/ SV_GetChallenge(c, toServer[c][k])
               \/ SV_DirectConnect(c, toServer[c][k]) /\ toServer[c][k].kind = "connect"
               \/ SV_SequencedPacket(c, toServer[c][k])
            /\ \E rest \in Rest(toServer[c], k) : toServer' = [toServer EXCEPT ![c] = rest]
  BY DEF ServerReceives
<1>2. PICK rest \in Rest(toServer[c], k) : toServer' = [toServer EXCEPT ![c] = rest]
  BY <1>1
<1>3. toServer \in [Clients -> Seq(Requested)] /\ \A d \in Clients : Len(toServer[d]) <= MaxPackets
  BY DEF ConnectInv, FlightInv
<1>4. Receiving
  <2>1. /\ toServer' \in [Clients -> Seq(Requested)]
        /\ \A d \in Clients : Len(toServer'[d]) <= MaxPackets
        /\ \A d \in Clients : Range(toServer'[d]) \subseteq Range(toServer[d])
    BY <1>2, <1>3, OneReceived
  <2>. QED  BY <2>1 DEF Receiving, ServerReceives
<1>5. toServer[c][k] \in Range(toServer[c]) /\ toServer[c][k] \in Requested
  BY <1>3 DEF Range
<1>. QED  BY <1>1, <1>4, <1>5

\* What the server receives changes neither the ports nor the requests in flight.
LEMMA ReceivingKeeps ==
    ASSUME ConnectInv, Receiving,
           \A s \in Used' : slots'[s].port \in PortsOf(slots'[s].client)
    PROVE  KeepsPorts /\ KeepsRequests
<1>1. \A c \in Clients : \A p \in Range(toServer'[c]) : p.port \in PortsOf(c)
  BY DEF Receiving, PortsOf
<1>2. KeepsPorts
  BY <1>1, KeptPortsOf DEF ConnectInv, Receiving
<1>. QED  BY <1>2 DEF Receiving, KeepsRequests

LEMMA SlotPorts ==
    ASSUME TypesInv, NEW s \in Used
    PROVE  slots[s].client \in Clients /\ slots[s].port \in PortsOf(slots[s].client)
BY DEF TypesInv, PortsOf

\* FindChallenge finds a record.
LEMMA OldestSearched ==
    ASSUME ChallengesInv, NEW c, NEW from
    PROVE  byAge[Min({k \in DOMAIN byAge : byAge[k] \in SearchedRecords(c, from)})] \in Records
<1>. DEFINE mine == {r \in Records : ~challenges[r].connected /\ challenges[r].client = c
                                        /\ challenges[r].port = from}
            K == {k \in DOMAIN byAge : byAge[k] \in SearchedRecords(c, from)}
<1>0. /\ MAX_CHALLENGES \in Nat \ {0} /\ MAX_CHALLENGES_MULTI \in Nat \ {0}
      /\ byAge \in Seq(Records) /\ DOMAIN byAge = 1 .. MAX_CHALLENGES
  BY TableAssumption DEF ChallengesInv, MAX_CHALLENGES_MULTI
<1>1. 1 \in SearchedRecords(c, from)
  <2>1. CASE mine = {}
    BY <1>0, <2>1 DEF SearchedRecords, Records
  <2>2. CASE mine # {}
    <3>1. Min(mine) \in mine
      BY <2>2, LeastElement DEF Records
    <3>2. PICK m \in Int : m = Min(mine)
      BY <3>1 DEF Records
    <3>3. Max({m - 1, MAX_CHALLENGES_MULTI}) \in Int /\ Max({m - 1, MAX_CHALLENGES_MULTI}) >= 1
      BY <1>0, <3>2, MaxOfPair
    <3>4. SearchedRecords(c, from) = 1 .. Max({m - 1, MAX_CHALLENGES_MULTI})
      BY <2>2, <3>2 DEF SearchedRecords
    <3>. QED  BY <3>3, <3>4
  <2>. QED  BY <2>1, <2>2
<1>2. PICK k \in 1 .. MAX_CHALLENGES : byAge[k] = 1
  <2>1. 1 \in Records
    BY <1>0 DEF Records
  <2>. QED  BY <2>1 DEF ChallengesInv
<1>3. K \in SUBSET Nat /\ K # {}
  BY <1>0, <1>1, <1>2
<1>4. Min(K) \in K
  BY <1>3, LeastElement
<1>. QED  BY <1>0, <1>4

LEMMA GetChallengeStep ==
    ASSUME ConnectInv, Receiving, NEW c \in Clients, NEW p \in Requested, SV_GetChallenge(c, p)
    PROVE  ConnectInv'
<1>. DEFINE number == Min(Unused)
            r == byAge[Min({k \in DOMAIN byAge : byAge[k] \in SearchedRecords(c, p.port)})]
<1>1. number \in Numbers
  <2>1. Unused \subseteq Numbers /\ Unused # {}
    BY DEF SV_GetChallenge, Unused
  <2>2. Unused \in SUBSET Nat
    BY <2>1, NamesAssumption
  <2>. QED  BY <2>1, <2>2, LeastElement
<1>2. r \in Records
  BY OldestSearched DEF ConnectInv
<1>3. /\ challenges' = [challenges EXCEPT ![r] =
                [client |-> c, port |-> p.port, challenge |-> number, connected |-> FALSE]]
      /\ byAge' = Newest(r)
      /\ toClient' = [toClient EXCEPT ![c] = ToClient(c, "challengeResponse", number)]
      /\ UNCHANGED <<slots, wasted>>
  BY DEF SV_GetChallenge
<1>. HIDE DEF number, r
<1>4. ChallengesInv'
  <2>1. /\ byAge' \in Seq(Records) /\ Len(byAge') = MAX_CHALLENGES
        /\ \A q \in Records : \E k \in 1 .. MAX_CHALLENGES : byAge'[k] = q
    BY <1>2, <1>3, NewestRecord DEF ConnectInv
  <2>2. [client |-> c, port |-> p.port, challenge |-> number, connected |-> FALSE] \in Challenges
    BY <1>1 DEF Challenges, Requested
  <2>. QED  BY <1>1, <1>3, <2>1, <2>2 DEF ConnectInv, ChallengesInv
<1>5. TypesInv' /\ KeepsSlots
  BY <1>3 DEF ConnectInv, TypesInv, KeepsSlots, Used, Receiving
<1>6. /\ toClient' \in [Clients -> Seq(Replied)]
      /\ \A d \in Clients : Len(toClient'[d]) <= MaxPackets
      /\ \A d \in Clients : \A q \in Range(toClient'[d]) :
            q \in Range(toClient[d]) \/ (d = c /\ q.kind = "challengeResponse" /\ q.age = 0)
  BY ZenonT(30), <1>1, <1>3, OneReply DEF Replies
<1>7. FlightInv' /\ KeepsAnswers
  BY <1>6 DEF FlightInv, KeepsAnswers, Receiving
<1>8. KeepsPorts /\ KeepsRequests
  <2>1. \A s \in Used' : slots'[s].port \in PortsOf(slots'[s].client)
    BY <1>3, SlotPorts DEF Used, ConnectInv
  <2>. QED  BY <2>1, ReceivingKeeps
<1>. QED  BY <1>4, <1>5, <1>7, <1>8, Kept

\* The slots the server finds for a connect are those of its sender.
LEMMA OwnSlots ==
    ASSUME ConnectInv, NEW c \in Clients, NEW from \in PortsOf(c)
    PROVE  SlotsOf(c, from) = SlotOfQport(c)
<1>1. ASSUME NEW s \in Used, slots[s].port = from PROVE slots[s].client = c
  BY <1>1, SlotPorts DEF ConnectInv, PortsApart
<1>. QED  BY <1>1 DEF SlotsOf, SlotOfQport

\* A client is set up in the one slot it has, or in a free one when it has none.
LEMMA SetUpStep ==
    ASSUME ConnectInv, Receiving, ChallengesInv', NEW c \in Clients,
           NEW p \in Range(toServer[c]), p \in Requested, NEW s \in Slots,
           \A t \in Used : slots[t].client = c => t = s,
           s \in Used => slots[s].client = c,
           SetUp(c, p, s)
    PROVE  ConnectInv'
<1>0. p.port \in PortsOf(c) /\ p.port \in Ports /\ p.challenge \in Numbers \union {None}
  BY DEF PortsOf, Requested
<1>1. CASE Denied(c, s)
  <2>1. FreeSlot \in SlotType
    BY TimeAssumption DEF FreeSlot, SlotType
  <2>2. /\ slots' = [slots EXCEPT ![s] = FreeSlot] /\ UNCHANGED wasted
        /\ toClient' = [toClient EXCEPT ![c] = ToClient(c, "droperror", None)]
    BY <1>1 DEF Denied
  <2>3. \A t \in Used' : t \in Used /\ slots'[t] = slots[t]
    BY <2>2 DEF ConnectInv, TypesInv, Used, FreeSlot
  <2>4. TypesInv' /\ KeepsSlots
    BY <2>1, <2>2, <2>3 DEF ConnectInv, TypesInv, KeepsSlots, Receiving
  <2>5. /\ toClient' \in [Clients -> Seq(Replied)]
        /\ \A d \in Clients : Len(toClient'[d]) <= MaxPackets
        /\ \A d \in Clients : \A q \in Range(toClient'[d]) :
              q \in Range(toClient[d]) \/ (d = c /\ q.kind = "droperror" /\ q.age = 0)
    BY ZenonT(30), <2>2, OneReply DEF Replies
  <2>6. FlightInv' /\ KeepsAnswers
    BY <2>5 DEF FlightInv, KeepsAnswers, Receiving
  <2>7. KeepsPorts /\ KeepsRequests
    <3>1. \A t \in Used' : slots'[t].port \in PortsOf(slots'[t].client)
      BY <2>3, SlotPorts DEF ConnectInv
    <3>. QED  BY <3>1, ReceivingKeeps
  <2>. QED  BY <2>4, <2>6, <2>7, Kept
<1>2. CASE /\ slots' = [slots EXCEPT ![s] =
                 [state |-> "CONNECTED", client |-> c, port |-> p.port, challenge |-> p.challenge,
                  sinceConnect |-> 0, sincePacket |-> 0]]
           /\ toClient' = [toClient EXCEPT ![c] = ToClient(c, "connectResponse", p.challenge)]
           /\ wasted' = (wasted \/ Established(s))
  <2>1. [state |-> "CONNECTED", client |-> c, port |-> p.port, challenge |-> p.challenge,
         sinceConnect |-> 0, sincePacket |-> 0] \in SlotType
    BY <1>0, TimeAssumption DEF SlotType
  <2>2. /\ slots' \in [Slots -> SlotType]
        /\ slots'[s].client = c /\ slots'[s].port = p.port /\ slots'[s].sinceConnect = 0
        /\ \A t \in Used' : t = s \/ (t \in Used /\ slots'[t] = slots[t] /\ slots[t].client # c)
    BY <1>2, <2>1 DEF ConnectInv, TypesInv, Used
  <2>3. TypesInv'
    <3>1. \A t \in Used' : slots'[t].client \in Clients /\ slots'[t].port \in Ports
      BY <1>0, <2>2 DEF ConnectInv, TypesInv
    <3>2. Established(s) \in BOOLEAN
      BY DEF Established
    <3>. QED  BY <1>2, <2>2, <3>1, <3>2 DEF ConnectInv, TypesInv, Receiving
  <2>4. /\ toClient' \in [Clients -> Seq(Replied)]
        /\ \A d \in Clients : Len(toClient'[d]) <= MaxPackets
        /\ \A d \in Clients : \A q \in Range(toClient'[d]) :
              q \in Range(toClient[d]) \/ (d = c /\ q.kind = "connectResponse" /\ q.age = 0)
    <3>1. "connectResponse" \in Replies /\ p.challenge \in Numbers \union {None}
      BY <1>0 DEF Replies
    <3>2. toClient' = [toClient EXCEPT ![c] = ToClient(c, "connectResponse", p.challenge)]
      BY <1>2
    <3>. QED  BY <3>1, <3>2, OneReply
  <2>5. FlightInv'
    <3>1. /\ toServer' \in [Clients -> Seq(Requested)]
          /\ \A d \in Clients : Len(toServer'[d]) <= MaxPackets
      BY DEF Receiving
    <3>2. \A d \in Clients : Len(toServer'[d]) <= MaxPackets /\ Len(toClient'[d]) <= MaxPackets
      BY <2>4, <3>1
    <3>. QED  BY <2>4, <3>1, <3>2 DEF FlightInv
  <2>6. PortsApart'
    <3>1. \A t \in Used' : slots'[t].port \in PortsOf(slots'[t].client)
      BY <1>0, <2>2, SlotPorts DEF ConnectInv
    <3>. QED  BY <3>1, ReceivingKeeps, KeptPorts DEF ConnectInv
  <2>7. OneSlotPerClient'
    BY <2>2 DEF ConnectInv, OneSlotPerClient
  <2>8. SlotAges'
    <3>. SUFFICES ASSUME NEW t \in Used'
                  PROVE  /\ \A q \in Range(toClient'[slots'[t].client]) :
                               q.kind = "connectResponse" => slots'[t].sinceConnect <= q.age
                         /\ client'[slots'[t].client].state = "CONNECTED" =>
                               \A a \in Range(toServer'[slots'[t].client]) :
                                   a.kind = "connect" =>
                                       slots'[t].sinceConnect <= a.age + PacketLife
      BY DEF SlotAges
    <3>1. CASE t = s
      <4>1. \A q \in Range(toClient'[c]) : q.age \in Nat
        <5>1. \A q \in Range(toClient'[c]) : q \in Replied
          BY <2>4, InFlight
        <5>. QED  BY <5>1 DEF Replied
      <4>2. \A a \in Range(toServer'[c]) : a.age \in Nat
        <5>1. \A a \in Range(toServer'[c]) : a \in Requested
          BY InFlight DEF Receiving
        <5>. QED  BY <5>1 DEF Requested
      <4>. QED  BY <2>2, <3>1, <4>1, <4>2, TimeAssumption
    <3>2. CASE t # s
      <4>1. /\ t \in Used /\ slots'[t] = slots[t] /\ slots[t].client # c
            /\ slots[t].client \in Clients
        BY <2>2, <3>2 DEF ConnectInv, TypesInv
      <4>2. Range(toClient'[slots[t].client]) \subseteq Range(toClient[slots[t].client])
        BY <2>4, <4>1
      <4>3. Range(toServer'[slots[t].client]) \subseteq Range(toServer[slots[t].client])
        BY <4>1 DEF Receiving
      <4>. QED  BY <4>1, <4>2, <4>3 DEF ConnectInv, SlotAges, Receiving
    <3>. QED  BY <3>1, <3>2
  <2>. QED  BY <2>3, <2>5, <2>6, <2>7, <2>8 DEF ConnectInv
<1>. QED  BY <1>1, <1>2 DEF SetUp

\* A step of the server that answers with a packet that is no connectResponse, and keeps the slots.
LEMMA AnswerStep ==
    ASSUME ConnectInv, Receiving, ChallengesInv', UNCHANGED <<slots, wasted>>, NEW c \in Clients,
           \/ toClient' = toClient
           \/ \E kind \in Replies \ {"connectResponse"} :
                 toClient' = [toClient EXCEPT ![c] = ToClient(c, kind, None)]
    PROVE  ConnectInv'
<1>1. TypesInv' /\ KeepsSlots
  BY DEF ConnectInv, TypesInv, KeepsSlots, Used, Receiving
<1>2. FlightInv' /\ KeepsAnswers
  <2>1. CASE toClient' = toClient
    BY <2>1 DEF ConnectInv, FlightInv, KeepsAnswers, Receiving
  <2>2. CASE \E kind \in Replies \ {"connectResponse"} :
                 toClient' = [toClient EXCEPT ![c] = ToClient(c, kind, None)]
    <3>1. PICK kind \in Replies \ {"connectResponse"} :
                 toClient' = [toClient EXCEPT ![c] = ToClient(c, kind, None)]
      BY <2>2
    <3>2. /\ toClient' \in [Clients -> Seq(Replied)]
          /\ \A d \in Clients : Len(toClient'[d]) <= MaxPackets
          /\ \A d \in Clients : \A q \in Range(toClient'[d]) :
                q \in Range(toClient[d]) \/ (d = c /\ q.kind = kind /\ q.age = 0)
      BY <3>1, OneReply
    <3>. QED  BY <3>2 DEF FlightInv, KeepsAnswers, Receiving
  <2>. QED  BY <2>1, <2>2
<1>3. KeepsPorts /\ KeepsRequests
  <2>1. \A s \in Used' : slots'[s].port \in PortsOf(slots'[s].client)
    BY SlotPorts DEF Used, ConnectInv
  <2>. QED  BY <2>1, ReceivingKeeps
<1>. QED  BY <1>1, <1>2, <1>3, Kept

LEMMA DirectConnectStep ==
    ASSUME ConnectInv, Receiving, NEW c \in Clients, NEW p \in Range(toServer[c]), p \in Requested,
           SV_DirectConnect(c, p)
    PROVE  ConnectInv'
<1>1. CASE RejectConnect(c, p)
  <2>1. UNCHANGED <<slots, challenges, byAge, toClient, wasted>>
    BY <1>1 DEF RejectConnect, NoAnswer
  <2>2. ChallengesInv'
    BY <2>1 DEF ConnectInv, ChallengesInv
  <2>. QED  BY <2>1, <2>2, AnswerStep
<1>2. CASE AcceptConnect(c, p)
  <2>. DEFINE valid == ValidChallenges(c, p)
              own == SlotsOf(c, p.port)
  <2>1. PICK r \in Records : r = Min(valid) /\ r \in valid
    <3>1. valid \in SUBSET Nat /\ valid # {}
      BY <1>2 DEF AcceptConnect, ValidChallenges, Records
    <3>2. Min(valid) \in valid
      BY <3>1, LeastElement
    <3>. QED  BY <3>2 DEF ValidChallenges
  <2>2. ChallengesInv'
    <3>1. challenges' = [challenges EXCEPT ![r].connected = TRUE] /\ byAge' = byAge
      BY <1>2, <2>1 DEF AcceptConnect
    <3>2. challenges[r].challenge \in Numbers
      <4>1. challenges[r].client = c
        BY <2>1 DEF ValidChallenges
      <4>2. challenges[r] # NoRecord
        BY <4>1, NamesAssumption DEF NoRecord, None
      <4>. QED  BY <4>2 DEF ConnectInv, ChallengesInv
    <3>3. /\ challenges' \in [Records -> Challenges]
          /\ challenges'[r].challenge = challenges[r].challenge
          /\ \A q \in Records \ {r} : challenges'[q] = challenges[q]
      <4>1. challenges \in [Records -> Challenges] /\ challenges[r] \in Challenges
        BY DEF ConnectInv, ChallengesInv
      <4>2. \A x \in Challenges : /\ [x EXCEPT !.connected = TRUE] \in Challenges
                                  /\ [x EXCEPT !.connected = TRUE].challenge = x.challenge
        BY DEF Challenges
      <4>3. challenges' = [challenges EXCEPT ![r] = [challenges[r] EXCEPT !.connected = TRUE]]
        BY <3>1
      <4>. QED  BY <4>1, <4>2, <4>3
    <3>4. \A q \in Records : challenges'[q] = NoRecord \/ challenges'[q].challenge \in Numbers
      BY <3>2, <3>3 DEF ConnectInv, ChallengesInv
    <3>. QED  BY <3>1, <3>3, <3>4 DEF ConnectInv, ChallengesInv
  <2>3. own = SlotOfQport(c) /\ own \in SUBSET Used /\ Used \in SUBSET Slots /\ Slots \in SUBSET Nat
    <3>1. p.port \in PortsOf(c)
      BY DEF PortsOf
    <3>. QED  BY <3>1, OwnSlots DEF SlotOfQport, Used, Slots
  <2>4. CASE own # {} /\ SetUp(c, p, Min(own))
    <3>1. PICK s \in Slots : s = Min(own) /\ s \in own
      BY <2>3, <2>4, LeastElement
    <3>2. slots[s].client = c /\ s \in Used /\ \A t \in Used : slots[t].client = c => t = s
      BY <2>3, <3>1 DEF SlotOfQport, ConnectInv, OneSlotPerClient
    <3>. QED  BY <2>2, <2>4, <3>1, <3>2, SetUpStep
  <2>5. CASE own = {} /\ Used # Slots /\ SetUp(c, p, Min(Slots \ Used))
    <3>1. PICK s \in Slots : s = Min(Slots \ Used) /\ s \notin Used
      <4>1. Slots \ Used \in SUBSET Nat /\ Slots \ Used # {}
        BY <2>3, <2>5
      <4>. QED  BY <4>1, LeastElement
    <3>2. \A t \in Used : slots[t].client # c
      BY <2>3, <2>5 DEF SlotOfQport
    <3>. QED  BY <2>2, <2>5, <3>1, <3>2, SetUpStep
  <2>6. CASE /\ toClient' = [toClient EXCEPT ![c] = ToClient(c, "droperror", None)]
             /\ UNCHANGED <<slots, wasted>>
    <3>1. "droperror" \in Replies \ {"connectResponse"}
      BY DEF Replies
    <3>. QED  BY <2>2, <2>6, <3>1, AnswerStep
  <2>. QED  BY <1>2, <2>4, <2>5, <2>6 DEF AcceptConnect
<1>. QED  BY <1>1, <1>2 DEF SV_DirectConnect

LEMMA SequencedPacketStep ==
    ASSUME ConnectInv, Receiving, NEW c \in Clients, NEW p \in Range(toServer[c]), p \in Requested,
           SV_SequencedPacket(c, p)
    PROVE  ConnectInv'
<1>1. CASE UnknownClient(c)
  <2>1. "disconnect" \in Replies \ {"connectResponse"}
    BY DEF Replies
  <2>2. ChallengesInv'
    BY <1>1 DEF UnknownClient, ConnectInv, ChallengesInv
  <2>. QED  BY <1>1, <2>1, <2>2, AnswerStep DEF UnknownClient
<1>2. CASE ~UnknownClient(c)
  <2>1. PICK s \in SlotOfQport(c) :
            /\ \/ slots' = [slots EXCEPT ![s] = [slots[s] EXCEPT !.port = p.port]]
               \/ slots' = [slots EXCEPT ![s] = [[slots[s] EXCEPT !.port = p.port] EXCEPT !.sincePacket = 0]]
               \/ slots' = [slots EXCEPT ![s] =
                     [Dropped([slots[s] EXCEPT !.port = p.port]) EXCEPT !.sincePacket = 0]]
            /\ (challenges' = challenges /\ byAge' = byAge) \/ ChallengesWithout(c, p.port)
            /\ UNCHANGED <<toClient, wasted>>
    BY <1>2 DEF SV_SequencedPacket
  <2>2. /\ slots \in [Slots -> SlotType] /\ s \in Slots /\ s \in Used /\ slots[s].client = c
        /\ p.port \in Ports /\ p.port \in PortsOf(c) /\ DropTime \in Nat
    BY TimeAssumption DEF ConnectInv, TypesInv, SlotOfQport, Used, Requested, PortsOf
  <2>3. /\ slots' \in [Slots -> SlotType]
        /\ \A t \in Slots \ {s} : slots'[t] = slots[t]
        /\ slots'[s].client = c /\ slots'[s].port = p.port
        /\ slots'[s].sinceConnect = slots[s].sinceConnect
    <3>. DEFINE here == [slots[s] EXCEPT !.port = p.port]
    <3>1. here \in SlotType /\ here.client = c /\ here.port = p.port
          /\ here.sinceConnect = slots[s].sinceConnect
      BY <2>2 DEF SlotType
    <3>. HIDE DEF here
    <3>2. \A x \in SlotType : x.client = c /\ x.port = p.port
                                   /\ x.sinceConnect = slots[s].sinceConnect =>
              /\ [x EXCEPT !.sincePacket = 0] \in SlotType
              /\ [x EXCEPT !.sincePacket = 0].client = c
              /\ [x EXCEPT !.sincePacket = 0].port = p.port
              /\ [x EXCEPT !.sincePacket = 0].sinceConnect = slots[s].sinceConnect
      BY <2>2 DEF SlotType
    <3>3. /\ Dropped(here) \in SlotType /\ Dropped(here).client = c /\ Dropped(here).port = p.port
          /\ Dropped(here).sinceConnect = slots[s].sinceConnect
      BY <3>1 DEF Dropped, SlotType
    <3>4. PICK x \in SlotType : /\ slots' = [slots EXCEPT ![s] = x]
                                /\ x.client = c /\ x.port = p.port
                                /\ x.sinceConnect = slots[s].sinceConnect
      <4>1. \/ slots' = [slots EXCEPT ![s] = here]
            \/ slots' = [slots EXCEPT ![s] = [here EXCEPT !.sincePacket = 0]]
            \/ slots' = [slots EXCEPT ![s] = [Dropped(here) EXCEPT !.sincePacket = 0]]
        BY <2>1 DEF here
      <4>. QED  BY <3>1, <3>2, <3>3, <4>1
    <3>. QED  BY <2>2, <3>4
  <2>4. Used' \subseteq Used
    BY <2>2, <2>3 DEF Used
  <2>5. KeepsSlots /\ TypesInv'
    BY <2>1, <2>2, <2>3, <2>4 DEF KeepsSlots, ConnectInv, TypesInv, Used, Receiving
  <2>6. ChallengesInv'
    <3>1. CASE challenges' = challenges /\ byAge' = byAge
      BY <3>1 DEF ConnectInv, ChallengesInv
    <3>. QED  BY <2>1, <3>1, WithoutChallenge DEF ConnectInv
  <2>7. FlightInv' /\ KeepsAnswers
    BY <2>1 DEF ConnectInv, FlightInv, KeepsAnswers, Receiving
  <2>8. KeepsPorts /\ KeepsRequests
    <3>1. \A t \in Used' : slots'[t].port \in PortsOf(slots'[t].client)
      <4>. SUFFICES ASSUME NEW t \in Used' PROVE slots'[t].port \in PortsOf(slots'[t].client)
        OBVIOUS
      <4>1. CASE t = s
        BY <2>2, <2>3, <4>1
      <4>2. CASE t # s
        <5>1. t \in Used /\ t \in Slots
          BY <2>4 DEF Used
        <5>2. slots'[t] = slots[t]
          BY <2>3, <4>2, <5>1
        <5>. QED  BY <5>1, <5>2, SlotPorts DEF ConnectInv
      <4>. QED  BY <4>1, <4>2
    <3>. QED  BY <3>1, ReceivingKeeps
  <2>. QED  BY <2>5, <2>6, <2>7, <2>8, Kept
<1>. QED  BY <1>1, <1>2

LEMMA ServerReceivesStep ==
    ASSUME ConnectInv, NEW c \in Clients, NEW kind, ServerReceives(c, kind)
    PROVE  ConnectInv'
<1>1. Receiving
  BY ReceivedByServer
<1>2. PICK p \in Range(toServer[c]) :
            /\ p \in Requested
            /\ SV_GetChallenge(c, p) \/ SV_DirectConnect(c, p) \/ SV_SequencedPacket(c, p)
  BY ReceivedByServer
<1>3. CASE SV_GetChallenge(c, p)
  BY <1>1, <1>2, <1>3, GetChallengeStep
<1>4. CASE SV_DirectConnect(c, p)
  BY <1>1, <1>2, <1>4, DirectConnectStep
<1>5. CASE SV_SequencedPacket(c, p)
  BY <1>1, <1>2, <1>5, SequencedPacketStep
<1>. QED  BY <1>2, <1>3, <1>4, <1>5

-----------------------------------------------------------------------------
\* The other steps.

\* A slot is dropped or freed, and the network is left alone.
LEMMA LessSlots ==
    ASSUME ConnectInv, UNCHANGED <<client, port, toServer, toClient, wasted>>, ChallengesInv',
           slots' \in [Slots -> SlotType],
           \A t \in Used' : /\ t \in Used
                            /\ slots'[t].client = slots[t].client
                            /\ slots'[t].port = slots[t].port
                            /\ slots'[t].sinceConnect = slots[t].sinceConnect
    PROVE  ConnectInv'
<1>1. TypesInv' /\ KeepsSlots
  BY DEF ConnectInv, TypesInv, KeepsSlots
<1>2. FlightInv' /\ KeepsAnswers /\ KeepsRequests
  BY DEF ConnectInv, FlightInv, KeepsAnswers, KeepsRequests
<1>3. KeepsPorts
  <2>1. \A c \in Clients : \A p \in Range(toServer'[c]) : p.port \in PortsOf(c)
    BY DEF PortsOf
  <2>2. \A t \in Used' : slots'[t].port \in PortsOf(slots'[t].client)
    BY SlotPorts DEF ConnectInv
  <2>. QED  BY <2>1, <2>2, KeptPortsOf DEF ConnectInv
<1>. QED  BY <1>1, <1>2, <1>3, Kept

LEMMA DropStep ==
    ASSUME ConnectInv, NEW s \in Slots, SV_DropClient(s)
    PROVE  ConnectInv'
<1>1. ChallengesInv'
  BY WithoutChallenge DEF SV_DropClient, ConnectInv
<1>2. slots \in [Slots -> SlotType] /\ s \in Used
  BY DEF ConnectInv, TypesInv, SV_DropClient, Used
<1>3. /\ slots' \in [Slots -> SlotType]
      /\ slots'[s] = Dropped(slots[s])
      /\ \A t \in Slots \ {s} : slots'[t] = slots[t]
  <2>1. Dropped(slots[s]) \in SlotType
    BY <1>2 DEF Dropped, SlotType
  <2>. QED  BY <1>2, <2>1 DEF SV_DropClient
<1>4. /\ Dropped(slots[s]).client = slots[s].client /\ Dropped(slots[s]).port = slots[s].port
      /\ Dropped(slots[s]).sinceConnect = slots[s].sinceConnect
  BY <1>2 DEF Dropped, SlotType
<1>5. \A t \in Used' : /\ t \in Used
                       /\ slots'[t].client = slots[t].client
                       /\ slots'[t].port = slots[t].port
                       /\ slots'[t].sinceConnect = slots[t].sinceConnect
  BY <1>2, <1>3, <1>4 DEF Used
<1>. QED  BY <1>1, <1>3, <1>5, LessSlots DEF SV_DropClient

LEMMA TimeoutStep ==
    ASSUME ConnectInv, NEW s \in Slots, SV_CheckTimeouts(s)
    PROVE  ConnectInv'
<1>1. ChallengesInv'
  <2>1. CASE UNCHANGED <<challenges, byAge>>
    BY <2>1 DEF ConnectInv, ChallengesInv
  <2>2. CASE ChallengesWithout(slots[s].client, slots[s].port)
    BY <2>2, WithoutChallenge DEF ConnectInv
  <2>. QED  BY <2>1, <2>2 DEF SV_CheckTimeouts, TimeOutZombie, TimeOutClient
<1>2. slots \in [Slots -> SlotType] /\ FreeSlot \in SlotType
  BY TimeAssumption DEF ConnectInv, TypesInv, FreeSlot, SlotType
<1>3. slots' = [slots EXCEPT ![s] = FreeSlot] /\ UNCHANGED <<client, port, toServer, toClient, wasted>>
  BY DEF SV_CheckTimeouts
<1>4. \A t \in Used' : t \in Used /\ slots'[t] = slots[t]
  BY <1>2, <1>3 DEF Used, FreeSlot
<1>. QED  BY <1>1, <1>2, <1>3, <1>4, LessSlots

LEMMA SendStep ==
    ASSUME ConnectInv, NEW s \in Slots, SV_SendClientMessages(s)
    PROVE  ConnectInv'
<1>1. Receiving
  BY DEF SV_SendClientMessages, Receiving, ConnectInv, FlightInv
<1>2. ChallengesInv'
  BY DEF SV_SendClientMessages, ConnectInv, ChallengesInv
<1>3. slots[s].client \in Clients
  BY DEF SV_SendClientMessages, ConnectInv, TypesInv
<1>4. \E kind \in Replies \ {"connectResponse"} :
          toClient' = [toClient EXCEPT ![slots[s].client] = ToClient(slots[s].client, kind, None)]
  <2>1. toClient' = [toClient EXCEPT ![slots[s].client] =
            ToClient(slots[s].client, IF slots[s].state = "ZOMBIE" THEN "dropped" ELSE "message", None)]
    BY DEF SV_SendClientMessages
  <2>2. {"dropped", "message"} \subseteq Replies \ {"connectResponse"}
    BY DEF Replies
  <2>3. CASE slots[s].state = "ZOMBIE"
    BY <2>1, <2>2, <2>3
  <2>4. CASE slots[s].state # "ZOMBIE"
    BY <2>1, <2>2, <2>4
  <2>. QED  BY <2>3, <2>4
<1>5. UNCHANGED <<slots, wasted>>
  BY DEF SV_SendClientMessages
<1>. QED  BY <1>1, <1>2, <1>3, <1>4, <1>5, AnswerStep

\* A tick makes the slots older, and the packets in flight as much.
LEMMA TickStep ==
    ASSUME ConnectInv, Tick
    PROVE  ConnectInv'
<1>0. /\ RetransmitTimeout \in Nat /\ ReconnectLimit \in Nat /\ DropTime \in Nat
      /\ PacketLife \in Nat
  BY TimeAssumption
<1>1. \A limit \in Nat : \A time \in 0 .. limit :
          Until(limit, time) \in 0 .. limit /\ Until(limit, time) <= time + 1
  BY DEF Until
<1>2. client' \in [Clients -> ClientType] /\ \A c \in Clients : client'[c].state = client[c].state
  <2>1. \A x \in ClientType : /\ [x EXCEPT !.sinceSent = Until(RetransmitTimeout, @)] \in ClientType
                              /\ [x EXCEPT !.sinceSent = Until(RetransmitTimeout, @)].state = x.state
    BY <1>0, <1>1 DEF ClientType
  <2>. QED  BY <2>1 DEF Tick, ConnectInv, TypesInv
<1>3. /\ slots' \in [Slots -> SlotType]
      /\ \A s \in Slots : /\ slots'[s].state = slots[s].state
                          /\ slots'[s].client = slots[s].client
                          /\ slots'[s].port = slots[s].port
                          /\ slots'[s].sinceConnect <= slots[s].sinceConnect + 1
  <2>1. ASSUME NEW s \in Slots
        PROVE  (IF s \in Used THEN Until(DropTime + 1, slots[s].sincePacket) ELSE slots[s].sincePacket)
                    \in 0 .. DropTime + 1
    <3>1. slots[s].sincePacket \in 0 .. DropTime + 1 /\ DropTime + 1 \in Nat
      BY <1>0 DEF ConnectInv, TypesInv, SlotType
    <3>. QED  BY <1>1, <3>1
  <2>2. slots' = [s \in Slots |->
            [slots[s] EXCEPT !.sinceConnect = Until(ReconnectLimit, @),
                !.sincePacket = IF s \in Used THEN Until(DropTime + 1, slots[s].sincePacket)
                                ELSE slots[s].sincePacket]]
    BY DEF Tick
  <2>3. ASSUME NEW s \in Slots
        PROVE  /\ slots'[s] \in SlotType /\ slots'[s].state = slots[s].state
               /\ slots'[s].client = slots[s].client /\ slots'[s].port = slots[s].port
               /\ slots'[s].sinceConnect <= slots[s].sinceConnect + 1
    <3>1. PICK x \in SlotType : x = slots[s]
      BY DEF ConnectInv, TypesInv
    <3>2. PICK m \in 0 .. ReconnectLimit :
                m = Until(ReconnectLimit, x.sinceConnect) /\ m <= x.sinceConnect + 1
      <4>1. x.sinceConnect \in 0 .. ReconnectLimit
        BY DEF SlotType
      <4>. QED  BY <1>0, <1>1, <4>1
    <3>3. PICK n \in 0 .. DropTime + 1 :
                slots'[s] = [x EXCEPT !.sinceConnect = m, !.sincePacket = n]
      BY <2>1, <2>2, <3>1, <3>2
    <3>4. PICK y : y = slots'[s]
      OBVIOUS
    <3>5. y = [x EXCEPT !.sinceConnect = m, !.sincePacket = n]
      BY <3>3, <3>4
    <3>6. /\ y \in SlotType /\ y.state = x.state /\ y.client = x.client /\ y.port = x.port
          /\ y.sinceConnect = m
      BY <3>5 DEF SlotType
    <3>. QED  BY <3>1, <3>2, <3>4, <3>6
  <2>4. slots' = [s \in Slots |-> slots'[s]]
    BY <2>2
  <2>. QED  BY <2>3, <2>4
<1>4. Used' = Used
  BY <1>3 DEF Used
<1>5. TypesInv'
  <2>1. \A s \in Used' : slots'[s].client \in Clients /\ slots'[s].port \in Ports
    BY <1>3, <1>4 DEF ConnectInv, TypesInv, Used
  <2>. QED  BY <1>2, <1>3, <2>1 DEF ConnectInv, TypesInv, Tick
<1>6. ASSUME NEW c \in Clients
      PROVE  /\ toServer'[c] \in Seq(Requested) /\ Len(toServer'[c]) <= MaxPackets
             /\ \A q \in Range(toServer'[c]) :
                   \E p \in Range(toServer[c]) : q = [p EXCEPT !.age = @ + 1]
  <2>1. toServer'[c] = Aged(toServer[c])
    BY DEF Tick
  <2>2. toServer[c] \in Seq(Requested) /\ Len(toServer[c]) <= MaxPackets
    BY DEF ConnectInv, FlightInv
  <2>3. /\ \A p \in Requested : p.age \in 0 .. PacketLife
        /\ \A p \in Requested : p.age < PacketLife => [p EXCEPT !.age = @ + 1] \in Requested
    BY <1>0 DEF Requested
  <2>. QED  BY <2>1, <2>2, <2>3, AgedPackets
<1>7. ASSUME NEW c \in Clients
      PROVE  /\ toClient'[c] \in Seq(Replied) /\ Len(toClient'[c]) <= MaxPackets
             /\ \A q \in Range(toClient'[c]) :
                   \E p \in Range(toClient[c]) : q = [p EXCEPT !.age = @ + 1]
  <2>1. toClient'[c] = Aged(toClient[c])
    BY DEF Tick
  <2>2. toClient[c] \in Seq(Replied) /\ Len(toClient[c]) <= MaxPackets
    BY DEF ConnectInv, FlightInv
  <2>3. /\ \A p \in Replied : p.age \in 0 .. PacketLife
        /\ \A p \in Replied : p.age < PacketLife => [p EXCEPT !.age = @ + 1] \in Replied
    BY <1>0 DEF Replied
  <2>. QED  BY <2>1, <2>2, <2>3, AgedPackets
<1>8. FlightInv'
  <2>1. DOMAIN toServer' = Clients /\ DOMAIN toClient' = Clients
    BY DEF Tick
  <2>2. toServer' = [c \in Clients |-> toServer'[c]] /\ toClient' = [c \in Clients |-> toClient'[c]]
    BY DEF Tick
  <2>3. toServer' \in [Clients -> Seq(Requested)] /\ toClient' \in [Clients -> Seq(Replied)]
    BY <1>6, <1>7, <2>1, <2>2
  <2>4. \A c \in Clients : Len(toServer'[c]) <= MaxPackets /\ Len(toClient'[c]) <= MaxPackets
    BY <1>6, <1>7
  <2>. QED  BY <2>3, <2>4 DEF FlightInv
<1>9. ChallengesInv'
  BY DEF Tick, ConnectInv, ChallengesInv
<1>10. PortsApart'
  <2>1. ASSUME NEW c \in Clients, NEW q \in Range(toServer'[c]) PROVE q.port \in PortsOf(c)
    <3>1. PICK p \in Range(toServer[c]) : q = [p EXCEPT !.age = @ + 1]
      BY <1>6
    <3>2. p \in Requested
      BY InFlight DEF ConnectInv, FlightInv
    <3>3. q.port = p.port
      BY <3>1, <3>2 DEF Requested
    <3>. QED  BY <3>3 DEF PortsOf
  <2>2. \A s \in Used' : slots'[s].port \in PortsOf(slots'[s].client)
    BY <1>3, <1>4, SlotPorts DEF ConnectInv, Used
  <2>3. port' = port
    BY DEF Tick
  <2>4. KeepsPorts
    BY <2>1, <2>2, <2>3, KeptPortsOf DEF ConnectInv
  <2>. QED  BY <2>4, KeptPorts DEF ConnectInv
<1>11. OneSlotPerClient'
  <2>1. \A s \in Used : slots'[s].client = slots[s].client
    BY <1>3 DEF Used
  <2>. QED  BY <1>4, <2>1 DEF ConnectInv, OneSlotPerClient
<1>12. SlotAges'
  <2>. SUFFICES ASSUME NEW s \in Used'
                PROVE  /\ \A q \in Range(toClient'[slots'[s].client]) :
                             q.kind = "connectResponse" => slots'[s].sinceConnect <= q.age
                       /\ client'[slots'[s].client].state = "CONNECTED" =>
                             \A p \in Range(toServer'[slots'[s].client]) :
                                 p.kind = "connect" => slots'[s].sinceConnect <= p.age + PacketLife
    BY DEF SlotAges
  <2>1. PICK c \in Clients : c = slots[s].client
    BY <1>4 DEF ConnectInv, TypesInv
  <2>2. PICK a \in Int, b \in Int : a = slots[s].sinceConnect /\ b = slots'[s].sinceConnect /\ b <= a + 1
    BY <1>3, <1>4 DEF ConnectInv, TypesInv, SlotType, Used
  <2>3. s \in Used /\ slots'[s].client = c /\ client'[c].state = client[c].state
    BY <1>2, <1>3, <1>4, <2>1 DEF Used
  <2>4. ASSUME NEW q \in Range(toClient'[c]), q.kind = "connectResponse"
        PROVE  b <= q.age
    <3>1. PICK p \in Range(toClient[c]) : q = [p EXCEPT !.age = @ + 1]
      BY <1>7
    <3>2. p \in Replied
      BY InFlight DEF ConnectInv, FlightInv
    <3>3. q.kind = p.kind /\ q.age = p.age + 1 /\ p.age \in Int
      BY <3>1, <3>2 DEF Replied
    <3>4. a <= p.age
      BY <2>1, <2>2, <2>3, <2>4, <3>3 DEF ConnectInv, SlotAges
    <3>. QED  BY <2>2, <3>3, <3>4
  <2>5. ASSUME client[c].state = "CONNECTED", NEW q \in Range(toServer'[c]), q.kind = "connect"
        PROVE  b <= q.age + PacketLife
    <3>1. PICK p \in Range(toServer[c]) : q = [p EXCEPT !.age = @ + 1]
      BY <1>6
    <3>2. p \in Requested
      BY InFlight DEF ConnectInv, FlightInv
    <3>3. q.kind = p.kind /\ q.age = p.age + 1 /\ p.age \in Int
      BY <3>1, <3>2 DEF Requested
    <3>4. a <= p.age + PacketLife
      BY <2>1, <2>2, <2>3, <2>5, <3>3 DEF ConnectInv, SlotAges
    <3>. QED  BY <1>0, <2>2, <3>3, <3>4
  <2>. QED  BY <2>2, <2>3, <2>4, <2>5
<1>. QED  BY <1>5, <1>8, <1>9, <1>10, <1>11, <1>12 DEF ConnectInv

LEMMA PortStep ==
    ASSUME ConnectInv, NEW c \in Clients, PortChange(c)
    PROVE  ConnectInv'
<1>1. PICK p \in Ports \ UNION {PortsOf(d) : d \in Clients} : port' = [port EXCEPT ![c] = p]
  BY DEF PortChange
<1>2. UNCHANGED <<client, slots, challenges, byAge, toServer, toClient, wasted>>
  BY DEF PortChange
<1>3. Used' = Used
  BY <1>2 DEF Used
<1>4. PortsApart'
  <2>1. ASSUME NEW d \in Clients PROVE PortsOf(d)' \subseteq PortsOf(d) \union (IF d = c THEN {p} ELSE {})
    BY <1>1, <1>2, <1>3 DEF PortsOf, ConnectInv, TypesInv
  <2>2. \A d \in Clients : p \notin PortsOf(d)
    BY <1>1
  <2>3. PortsApart' = \A d, e \in Clients : d # e => PortsOf(d)' \cap PortsOf(e)' = {}
    BY DEF PortsApart
  <2>4. ASSUME NEW d \in Clients, NEW e \in Clients, d # e PROVE PortsOf(d)' \cap PortsOf(e)' = {}
    <3>1. PortsOf(d) \cap PortsOf(e) = {}
      BY <2>4 DEF ConnectInv, PortsApart
    <3>2. PortsOf(d)' \subseteq PortsOf(d) \union (IF d = c THEN {p} ELSE {})
      BY <2>1
    <3>3. PortsOf(e)' \subseteq PortsOf(e) \union (IF e = c THEN {p} ELSE {})
      BY <2>1
    <3>4. p \notin PortsOf(d) /\ p \notin PortsOf(e)
      BY <2>2
    <3>. QED  BY <2>4, <3>1, <3>2, <3>3, <3>4
  <2>. QED  BY <2>3, <2>4
<1>. QED  BY <1>1, <1>2, <1>3, <1>4
          DEF ConnectInv, TypesInv, FlightInv, ChallengesInv, OneSlotPerClient, SlotAges

LEMMA InvStep == ConnectInv /\ [Next]_vars => ConnectInv'
<1>. SUFFICES ASSUME ConnectInv, [Next]_vars PROVE ConnectInv'
  OBVIOUS
<1>1. CASE UNCHANGED vars
  <2>1. /\ UNCHANGED <<client, port, slots, challenges, byAge, toServer, toClient, wasted>>
        /\ Used' = Used
    BY <1>1 DEF vars, Used
  <2>2. \A c \in Clients : PortsOf(c)' = PortsOf(c)
    BY <2>1 DEF PortsOf
  <2>. QED  BY <2>1, <2>2 DEF ConnectInv, TypesInv, FlightInv, ChallengesInv, PortsApart,
                              OneSlotPerClient, SlotAges
<1>2. ASSUME NEW c \in Clients, CL_Connect(c) PROVE ConnectInv'
  BY <1>2, ConnectStep
<1>3. ASSUME NEW c \in Clients, CL_CheckForResend(c) PROVE ConnectInv'
  BY <1>3, ResendStep
<1>4. ASSUME NEW c \in Clients, CL_WritePacket(c) PROVE ConnectInv'
  BY <1>4, WriteStep
<1>5. ASSUME NEW c \in Clients, CL_Disconnect(c) PROVE ConnectInv'
  BY <1>5, DisconnectStep
<1>6. ASSUME NEW c \in Clients, CL_PacketEvent(c) PROVE ConnectInv'
  BY <1>6, ReceiveStep DEF CL_PacketEvent
<1>7. ASSUME NEW c \in Clients, SV_PacketEvent(c) PROVE ConnectInv'
  BY <1>7, ServerReceivesStep DEF SV_PacketEvent
<1>8. ASSUME NEW c \in Clients, PortChange(c) PROVE ConnectInv'
  BY <1>8, PortStep
<1>9. ASSUME NEW s \in Slots, SV_DropClient(s) PROVE ConnectInv'
  BY <1>9, DropStep
<1>10. ASSUME NEW s \in Slots, SV_CheckTimeouts(s) PROVE ConnectInv'
  BY <1>10, TimeoutStep
<1>11. ASSUME NEW s \in Slots, SV_SendClientMessages(s) PROVE ConnectInv'
  BY <1>11, SendStep
<1>12. CASE Tick
  BY <1>12, TickStep
<1>. QED  BY <1>1, <1>2, <1>3, <1>4, <1>5, <1>6, <1>7, <1>8, <1>9, <1>10, <1>11, <1>12 DEF Next

\* The inductive invariant: every port by which the server knows a client is known of no other,
\* and every slot is as young as what is in flight about it.
THEOREM ConnectInvariant == Spec => []ConnectInv
<1>1. Init => ConnectInv
  BY InitInv
<1>2. ConnectInv /\ [Next]_vars => ConnectInv'
  BY InvStep
<1>. QED  BY <1>1, <1>2, PTL DEF Spec

\* The state keeps its types, a record that was used for a connection has a number, and the
\* order of age is one of all records, however often a client leaves or is dropped.
THEOREM TypeCorrect == Spec => []TypeOK
<1>1. ConnectInv => TypeOK
  <2>. SUFFICES ASSUME ConnectInv PROVE TypeOK
    OBVIOUS
  <2>1. /\ client \in [Clients -> ClientType] /\ port \in [Clients -> Ports]
        /\ slots \in [Slots -> SlotType]
        /\ \A c \in Clients : Len(toServer[c]) <= MaxPackets /\ Len(toClient[c]) <= MaxPackets
    BY DEF ConnectInv, TypesInv, FlightInv
  <2>2. \A r \in Records : challenges[r].connected => challenges[r].challenge # None
    BY NamesAssumption DEF ConnectInv, ChallengesInv, NoRecord, None
  <2>3. Range(byAge) = Records /\ Len(byAge) = MAX_CHALLENGES
    BY TableAssumption DEF ConnectInv, ChallengesInv, Range
  <2>. QED  BY <2>1, <2>2, <2>3 DEF TypeOK, ClientType, SlotType
<1>. QED  BY <1>1, ConnectInvariant, PTL

\* SV_DirectConnect finds the slot a client has, whatever its ports were and are: it gives no
\* client a second slot.
THEOREM NoSecondSlot == Spec => []OneSlotPerClient
<1>1. ConnectInv => OneSlotPerClient
  BY DEF ConnectInv
<1>. QED  BY <1>1, ConnectInvariant, PTL

\* sv_reconnectlimit outlasts the handshake: a connect in flight and the answer to an earlier one.
HandshakeFits == ReconnectLimit > 2 * PacketLife

LEMMA WastedStep ==
    ASSUME HandshakeFits, ConnectInv, ~wasted, [Next]_vars
    PROVE  ~wasted'
<1>1. CASE UNCHANGED wasted
  BY <1>1
<1>2. ASSUME NEW c \in Clients, NEW kind \in Requests, ServerReceives(c, kind), wasted'
      PROVE  FALSE
  <2>1. PICK p \in Range(toServer[c]) :
            /\ p \in Requested
            /\ SV_DirectConnect(c, p) /\ p.kind = "connect"
    <3>1. ~(\E p : SV_GetChallenge(c, p) \/ SV_SequencedPacket(c, p))
      BY <1>2 DEF SV_GetChallenge, SV_SequencedPacket, UnknownClient
    <3>. QED  BY <1>2, <3>1, ReceivedByServer
  <2>. DEFINE own == SlotsOf(c, p.port)
  <2>2. \/ own # {} /\ ~TooSoon(Min(own)) /\ Established(Min(own))
        \/ Used # Slots /\ Established(Min(Slots \ Used))
    BY <1>2, <2>1 DEF SV_DirectConnect, RejectConnect, NoAnswer, AcceptConnect, SetUp, Denied
  <2>3. own = SlotOfQport(c) /\ own \in SUBSET Used /\ Used \in SUBSET Slots /\ Slots \in SUBSET Nat
    <3>1. p.port \in PortsOf(c)
      BY DEF PortsOf
    <3>. QED  BY <3>1, OwnSlots DEF SlotOfQport, Used, Slots
  <2>4. CASE Used # Slots /\ Established(Min(Slots \ Used))
    <3>1. Slots \ Used \in SUBSET Nat /\ Slots \ Used # {}
      BY <2>3, <2>4
    <3>2. Min(Slots \ Used) \in Slots \ Used
      BY <3>1, LeastElement
    <3>. QED  BY <2>4, <3>2 DEF Established, Used
  <2>5. CASE own # {} /\ ~TooSoon(Min(own)) /\ Established(Min(own))
    <3>1. PICK s \in own : s = Min(own)
      BY <2>3, <2>5, LeastElement
    <3>2. s \in Used /\ slots[s].client = c /\ client[c].state = "CONNECTED"
      BY <2>3, <2>5, <3>1 DEF SlotOfQport, Established
    <3>3. PICK a \in Int : a = slots[s].sinceConnect
      BY <3>2 DEF ConnectInv, TypesInv, SlotType, Used
    <3>4. a >= ReconnectLimit
      BY <2>5, <3>1, <3>3, TimeAssumption DEF TooSoon
    <3>5. a <= p.age + PacketLife
      BY <2>1, <3>2, <3>3 DEF ConnectInv, SlotAges
    <3>6. p.age \in 0 .. PacketLife
      BY <2>1 DEF Requested
    <3>. QED  BY <3>4, <3>5, <3>6, TimeAssumption DEF HandshakeFits
  <2>. QED  BY <2>2, <2>4, <2>5
<1>3. ASSUME ~UNCHANGED wasted PROVE \E c \in Clients : \E kind \in Requests : ServerReceives(c, kind)
  BY <1>3 DEF Next, vars, CL_Connect, CL_CheckForResend, CL_WritePacket, CL_Disconnect,
              CL_PacketEvent, ClientReceives, SV_PacketEvent, PortChange, SV_DropClient,
              SV_CheckTimeouts, SV_SendClientMessages, Tick
<1>. QED  BY <1>1, <1>2, <1>3

\* When the limit outlasts the handshake, no connect that comes late or twice sets up anew the
\* slot of a client whose connection is established.
THEOREM NothingWasted ==
    ASSUME HandshakeFits
    PROVE  Spec => []NoWastedConnection
<1>1. Init => ~wasted
  BY DEF Init
<1>2. ConnectInv /\ ~wasted /\ [Next]_vars => ~wasted'
  BY WastedStep
<1>3. Spec => []~wasted
  BY <1>1, <1>2, ConnectInvariant, PTL DEF Spec
<1>4. ~wasted => NoWastedConnection
  BY DEF NoWastedConnection
<1>. QED  BY <1>3, <1>4, PTL
=============================================================================
