---------------------------- MODULE ServerConnect ----------------------------
(***************************************************************************)
(* How clients get, keep and lose a slot of the server: getchallenge,      *)
(* challengeResponse, connect, connectResponse, the messages of an         *)
(* established connection, drops, zombies and timeouts.                    *)
(*                                                                         *)
(* All clients sit behind one translating router: they share an address,   *)
(* each has a qport of its own, and the router may give a client another   *)
(* port.  Packets are lost, reordered and duplicated, but none is older    *)
(* than PacketLife.  Time passes in ticks; what the code computes from     *)
(* svs.time and cls.realtime is the time since an event, counted up to the *)
(* limit it is compared with.  The states CONNECTED, PRIMED and ACTIVE of  *)
(* a slot are one here (see Configstrings).                                *)
(***************************************************************************)
EXTENDS Integers, Sequences, FiniteSets, FiniteSetsExt, SequencesExt

CONSTANTS
    Clients, Ports, Numbers,    \* Numbers: the challenge numbers
    MaxClients, MAX_CHALLENGES,
    RetransmitTimeout,          \* RETRANSMIT_TIMEOUT
    ReconnectLimit,             \* sv_reconnectlimit and what lastConnectTime is ahead
    ZombieTime, DropTime,       \* sv_zombietime, sv_timeout
    PacketLife,                 \* no packet is delivered later
    MaxPackets,                 \* bound on the packets in flight, per client and direction
    MaxPortChanges              \* bound on the changes of the router

\* FindChallenge looks through half of the challenges at least.
ASSUME TableAssumption == {MaxClients, MAX_CHALLENGES \div 2, MaxPackets, MAX_CHALLENGES} \subseteq Nat \ {0}
ASSUME NamesAssumption == Numbers \subseteq Nat \ {0} /\ 0 \notin Clients \union Ports
ASSUME TimeAssumption == {RetransmitTimeout, ReconnectLimit, ZombieTime, DropTime,
                          PacketLife, MaxPortChanges} \subseteq Nat

VARIABLES
    client,                 \* clientConnection_t of each client
    port,                   \* the port the router has given to each
    slots,                  \* svs.clients
    challenges, byAge,      \* svs.challenges, and their numbers from old to new
    toServer, toClient,     \* packets in flight
    portChanges,
    wasted                  \* history: an established connection was set up anew

clientVars == <<client, toClient>>
vars == <<client, port, slots, challenges, byAge, toServer, toClient, portChanges, wasted>>

None == 0
Slots == 1 .. MaxClients
Records == 1 .. MAX_CHALLENGES
MAX_CHALLENGES_MULTI == MAX_CHALLENGES \div 2
FreeSlot == [state |-> "FREE", client |-> None, port |-> None, challenge |-> None,
             sinceConnect |-> ReconnectLimit, sincePacket |-> 0]
NoRecord == [client |-> None, port |-> None, challenge |-> None, connected |-> FALSE]
Disconnected == [state |-> "DISCONNECTED", challenge |-> None, sinceSent |-> RetransmitTimeout]

Init ==
    /\ client = [c \in Clients |-> Disconnected]
    /\ port \in {p \in [Clients -> Ports] : \A c, d \in Clients : p[c] = p[d] => c = d}
    /\ slots = [s \in Slots |-> FreeSlot]
    /\ challenges = [r \in Records |-> NoRecord]
    /\ byAge = [r \in Records |-> r]
    /\ toServer = [c \in Clients |-> <<>>]
    /\ toClient = [c \in Clients |-> <<>>]
    /\ portChanges = 0
    /\ wasted = FALSE

\* When too many packets are in flight the first is lost.
Put(flight, p) == IF Len(flight) < MaxPackets THEN Append(flight, p) ELSE Append(Tail(flight), p)

ToServer(c, kind) ==
    Put(toServer[c], [kind |-> kind, port |-> port[c], challenge |-> client[c].challenge, age |-> 0])

ToClient(c, kind, number) == Put(toClient[c], [kind |-> kind, challenge |-> number, age |-> 0])

\* A packet received may arrive once more.
Rest(flight, k) == {flight, RemoveAt(flight, k)}

Unused ==
    Numbers \ ({client[c].challenge : c \in Clients} \union {slots[s].challenge : s \in Slots}
        \union {challenges[r].challenge : r \in Records}
        \union UNION {{p.challenge : p \in Range(toServer[c]) \union Range(toClient[c])} : c \in Clients})

-----------------------------------------------------------------------------
\* The client.

\* CL_Connect, when what it sent and was sent before is no longer on the way.
CL_Connect(c) ==
    /\ client[c].state = "DISCONNECTED"
    /\ toServer[c] = <<>> /\ toClient[c] = <<>>
    /\ client' = [client EXCEPT ![c].state = "CONNECTING"]
    /\ UNCHANGED <<port, slots, challenges, byAge, toServer, toClient, portChanges, wasted>>

CL_CheckForResend(c) ==
    /\ client[c].sinceSent >= RetransmitTimeout
    /\ \/ /\ client[c].state = "CONNECTING"
          /\ toServer' = [toServer EXCEPT ![c] = ToServer(c, "getchallenge")]
       \/ /\ client[c].state = "CHALLENGING"
          /\ toServer' = [toServer EXCEPT ![c] = ToServer(c, "connect")]
    /\ client' = [client EXCEPT ![c].sinceSent = 0]
    /\ UNCHANGED <<port, slots, challenges, byAge, toClient, portChanges, wasted>>

CL_WritePacket(c) ==
    /\ client[c].state = "CONNECTED"
    /\ toServer' = [toServer EXCEPT ![c] = ToServer(c, "message")]
    /\ UNCHANGED <<client, port, slots, challenges, byAge, toClient, portChanges, wasted>>

\* CL_Disconnect ends what the client has, and says so when it is connected.
Farewell(c) == IF client[c].state = "CONNECTED" THEN [toServer EXCEPT ![c] = ToServer(c, "quit")] ELSE toServer

\* The player leaves; or the program ends without a word.
CL_Disconnect(c) ==
    /\ client[c].state # "DISCONNECTED"
    /\ client' = [client EXCEPT ![c] = Disconnected]
    /\ toServer' \in {toServer, Farewell(c)}
    /\ UNCHANGED <<port, slots, challenges, byAge, toClient, portChanges, wasted>>

\* CL_ConnectionlessPacket and CL_PacketEvent.  The number of a connectResponse is not looked at,
\* and a disconnect has to come from the address of the channel, which is set with the response.
AfterPacket(c, p) ==
    LET cl == client[c]
    IN  CASE p.kind = "challengeResponse" /\ cl.state = "CONNECTING" ->
                [state |-> "CHALLENGING", challenge |-> p.challenge, sinceSent |-> RetransmitTimeout]
          [] p.kind = "connectResponse" /\ cl.state = "CHALLENGING" -> [cl EXCEPT !.state = "CONNECTED"]
          [] p.kind \in {"disconnect", "dropped"} /\ cl.state = "CONNECTED" -> Disconnected
          [] p.kind = "droperror" -> Disconnected
          [] OTHER -> cl

ClientReceives(c, kind) ==
    /\ \E k \in 1 .. Len(toClient[c]) :
          /\ toClient[c][k].kind = kind
          /\ client' = [client EXCEPT ![c] = AfterPacket(c, toClient[c][k])]
          /\ \E rest \in Rest(toClient[c], k) : toClient' = [toClient EXCEPT ![c] = rest]
    /\ toServer' = IF client'[c].state = "DISCONNECTED" THEN Farewell(c) ELSE toServer
    /\ UNCHANGED <<port, slots, challenges, byAge, portChanges, wasted>>

Replies == {"challengeResponse", "connectResponse", "disconnect", "droperror", "dropped", "message"}

CL_PacketEvent(c) == \E kind \in Replies : ClientReceives(c, kind)

-----------------------------------------------------------------------------
\* The server: challenges.

Others(r) == RemoveAt(byAge, CHOOSE k \in DOMAIN byAge : byAge[k] = r)
Newest(r) == Append(Others(r), r)
Oldest(r) == <<r>> \o Others(r)

\* FindChallenge stops looking for the oldest record behind the first half when the client
\* has a record that was not used.
SearchedRecords(c, from) ==
    LET mine == {r \in Records : ~challenges[r].connected /\ challenges[r].client = c
                                    /\ challenges[r].port = from}
    IN  IF mine = {} THEN Records ELSE 1 .. Max({Min(mine) - 1, MAX_CHALLENGES_MULTI})

\* Numbers are only compared, so it does not matter which of the unused ones is drawn.
SV_GetChallenge(c, p) ==
    /\ Unused # {}
    /\ LET number == Min(Unused)
           r == byAge[Min({k \in DOMAIN byAge : byAge[k] \in SearchedRecords(c, p.port)})]
        IN  /\ challenges' = [challenges EXCEPT ![r] =
                    [client |-> c, port |-> p.port, challenge |-> number, connected |-> FALSE]]
            /\ byAge' = Newest(r)
            /\ toClient' = [toClient EXCEPT ![c] = ToClient(c, "challengeResponse", number)]
            /\ UNCHANGED <<slots, wasted>>

\* Mutant: only the number of the record is forgotten.
ChallengesWithout_KeepsConnected(c, from) ==
    LET mine == {r \in Records : challenges[r].client = c /\ challenges[r].port = from}
    IN  IF mine = {} THEN UNCHANGED <<challenges, byAge>>
        ELSE /\ challenges' = [challenges EXCEPT ![Min(mine)].challenge = None]
             /\ byAge' = Oldest(Min(mine))

\* SV_DropClient forgets the first record of the address.
ChallengesWithout(c, from) ==
    LET mine == {r \in Records : challenges[r].client = c /\ challenges[r].port = from}
    IN  IF mine = {} THEN UNCHANGED <<challenges, byAge>>
        ELSE /\ challenges' = [challenges EXCEPT ![Min(mine)] = NoRecord]
             /\ byAge' = Oldest(Min(mine))

-----------------------------------------------------------------------------
\* The server: connections.

Used == {s \in Slots : slots[s].state # "FREE"}

\* Mutant: only the port tells the clients of one address apart.
SlotsOf_ByPort(c, from) == {s \in Used : slots[s].port = from}

\* A client is known by its qport, or by its port.
SlotsOf(c, from) == {s \in Used : slots[s].client = c \/ slots[s].port = from}

\* Mutant: a client may connect again at any time.
TooSoon_Never(s) == FALSE

TooSoon(s) == slots[s].sinceConnect < ReconnectLimit

ValidChallenges(c, p) ==
    {r \in Records : challenges[r].client = c /\ challenges[r].port = p.port
                        /\ challenges[r].challenge = p.challenge}

NoAnswer == UNCHANGED <<slots, challenges, byAge, toClient, wasted>>

\* "reconnect rejected : too soon", or "No or bad challenge", which the client only prints.
RejectConnect(c, p) ==
    /\ \/ SlotsOf(c, p.port) # {} /\ TooSoon(Min(SlotsOf(c, p.port)))
       \/ ValidChallenges(c, p) = {}
    /\ NoAnswer

Established(s) ==
    /\ slots[s].state = "CONNECTED"
    /\ client[slots[s].client].state = "CONNECTED"
    /\ client[slots[s].client].challenge = slots[s].challenge

\* Mutant: a client the game does not want gets no answer.
Denied_Silent(c, s) ==
    /\ slots' = [slots EXCEPT ![s] = FreeSlot]
    /\ UNCHANGED <<toClient, wasted>>

\* ClientConnect of the game denied the client.
Denied(c, s) ==
    /\ slots' = [slots EXCEPT ![s] = FreeSlot]
    /\ toClient' = [toClient EXCEPT ![c] = ToClient(c, "droperror", None)]
    /\ UNCHANGED wasted

SetUp(c, p, s) ==
    \/ /\ slots' = [slots EXCEPT ![s] =
            [state |-> "CONNECTED", client |-> c, port |-> p.port, challenge |-> p.challenge,
             sinceConnect |-> 0, sincePacket |-> 0]]
       /\ toClient' = [toClient EXCEPT ![c] = ToClient(c, "connectResponse", p.challenge)]
       /\ wasted' = (wasted \/ Established(s))
    \/ Denied(c, s)

AcceptConnect(c, p) ==
    /\ ValidChallenges(c, p) # {}
    /\ challenges' = [challenges EXCEPT ![Min(ValidChallenges(c, p))].connected = TRUE]
    /\ UNCHANGED byAge
    /\ \/ /\ SlotsOf(c, p.port) # {}
          /\ ~TooSoon(Min(SlotsOf(c, p.port)))
          /\ SetUp(c, p, Min(SlotsOf(c, p.port)))
       \/ /\ SlotsOf(c, p.port) = {}
          /\ Used # Slots
          /\ SetUp(c, p, Min(Slots \ Used))
       \/ /\ SlotsOf(c, p.port) = {}
          /\ Used = Slots
          /\ toClient' = [toClient EXCEPT ![c] = ToClient(c, "droperror", None)]
          /\ UNCHANGED <<slots, wasted>>

SV_DirectConnect(c, p) == RejectConnect(c, p) \/ AcceptConnect(c, p)

Dropped(slot) == [slot EXCEPT !.state = "ZOMBIE"]

SlotOfQport(c) == {s \in Used : slots[s].client = c}

\* Mutant: a packet that belongs to nobody is not answered.
UnknownClient_Silent(c) == NoAnswer

UnknownClient(c) ==
    /\ toClient' = [toClient EXCEPT ![c] = ToClient(c, "disconnect", None)]
    /\ UNCHANGED <<slots, challenges, byAge, wasted>>

\* A message is known by its qport, and the port is set right.  A zombie stays one.
SV_SequencedPacket(c, p) ==
    \/ SlotOfQport(c) = {} /\ UnknownClient(c)
    \/ \E s \in SlotOfQport(c) :
          /\ s = Min(SlotOfQport(c))
          /\ LET here == [slots[s] EXCEPT !.port = p.port]
             IN  \/ /\ here.state = "ZOMBIE"
                    /\ slots' = [slots EXCEPT ![s] = here]
                    /\ UNCHANGED <<challenges, byAge>>
                 \/ /\ here.state = "CONNECTED" /\ p.kind = "message"
                    /\ slots' = [slots EXCEPT ![s] = [here EXCEPT !.sincePacket = 0]]
                    /\ UNCHANGED <<challenges, byAge>>
                 \/ /\ here.state = "CONNECTED" /\ p.kind = "quit"
                    /\ slots' = [slots EXCEPT ![s] = [Dropped(here) EXCEPT !.sincePacket = 0]]
                    /\ ChallengesWithout(c, p.port)
          /\ UNCHANGED <<toClient, wasted>>

ServerReceives(c, kind) ==
    /\ \E k \in 1 .. Len(toServer[c]) :
          LET p == toServer[c][k]
          IN  /\ p.kind = kind
              /\ \/ kind = "getchallenge" /\ SV_GetChallenge(c, p)
                 \/ kind = "connect" /\ SV_DirectConnect(c, p)
                 \/ kind \in {"message", "quit"} /\ SV_SequencedPacket(c, p)
              /\ \E rest \in Rest(toServer[c], k) : toServer' = [toServer EXCEPT ![c] = rest]
    /\ UNCHANGED <<client, port, portChanges>>

Requests == {"getchallenge", "connect", "message", "quit"}

SV_PacketEvent(c) == \E kind \in Requests : ServerReceives(c, kind)

\* A kick, an overflow, an error.
SV_DropClient(s) ==
    /\ slots[s].state = "CONNECTED"
    /\ slots' = [slots EXCEPT ![s] = Dropped(slots[s])]
    /\ ChallengesWithout(slots[s].client, slots[s].port)
    /\ UNCHANGED <<client, port, toServer, toClient, portChanges, wasted>>

\* SV_CheckTimeouts: a client that times out does not become a zombie.
TimeOutZombie(s) ==
    /\ slots[s].state = "ZOMBIE" /\ slots[s].sincePacket > ZombieTime
    /\ UNCHANGED <<challenges, byAge>>

\* Mutant: a client that sends nothing stays.
TimeOutClient_Never(s) == FALSE

TimeOutClient(s) ==
    /\ slots[s].state = "CONNECTED" /\ slots[s].sincePacket > DropTime
    /\ ChallengesWithout(slots[s].client, slots[s].port)

SV_CheckTimeouts(s) ==
    /\ TimeOutZombie(s) \/ TimeOutClient(s)
    /\ slots' = [slots EXCEPT ![s] = FreeSlot]
    /\ UNCHANGED <<client, port, toServer, toClient, portChanges, wasted>>

\* A zombie gets its disconnect command.
SV_SendClientMessages(s) ==
    /\ s \in Used
    /\ toClient' = [toClient EXCEPT ![slots[s].client] =
            ToClient(slots[s].client, IF slots[s].state = "ZOMBIE" THEN "dropped" ELSE "message", None)]
    /\ UNCHANGED <<client, port, slots, challenges, byAge, toServer, portChanges, wasted>>

-----------------------------------------------------------------------------
\* The environment.

Until(limit, time) == IF time < limit THEN time + 1 ELSE limit

\* Packets in flight are in the order they were sent: those that get too old are the first.
Expired(flight) == {k \in DOMAIN flight : flight[k].age = PacketLife}

Aged(flight) ==
    LET kept == SubSeq(flight, 1 + Max({0} \union Expired(flight)), Len(flight))
    IN  [k \in DOMAIN kept |-> [kept[k] EXCEPT !.age = @ + 1]]

Tick ==
    /\ client' = [c \in Clients |-> [client[c] EXCEPT !.sinceSent = Until(RetransmitTimeout, @)]]
    /\ slots' = [s \in Slots |->
            [slots[s] EXCEPT !.sinceConnect = Until(ReconnectLimit, @),
                             !.sincePacket = IF s \in Used THEN Until(DropTime + 1, @) ELSE @]]
    /\ toServer' = [c \in Clients |-> Aged(toServer[c])]
    /\ toClient' = [c \in Clients |-> Aged(toClient[c])]
    /\ UNCHANGED <<port, challenges, byAge, portChanges, wasted>>

\* The ports a client is or was known by, as far as anything still tells.
PortsOf(c) ==
    {port[c]} \union {p.port : p \in Range(toServer[c])}
        \union {slots[s].port : s \in {t \in Used : slots[t].client = c}}

\* The router gives a client a port nothing names any more, no packet in flight either.
PortChange(c) ==
    /\ portChanges < MaxPortChanges
    /\ portChanges' = portChanges + 1
    /\ \E p \in Ports \ UNION {PortsOf(d) : d \in Clients} : port' = [port EXCEPT ![c] = p]
    /\ UNCHANGED <<client, slots, challenges, byAge, toServer, toClient, wasted>>

Next ==
    \/ \E c \in Clients :
          \/ CL_Connect(c) \/ CL_CheckForResend(c) \/ CL_WritePacket(c) \/ CL_Disconnect(c)
          \/ CL_PacketEvent(c) \/ SV_PacketEvent(c) \/ PortChange(c)
    \/ \E s \in Slots : SV_DropClient(s) \/ SV_CheckTimeouts(s) \/ SV_SendClientMessages(s)
    \/ Tick

Spec == Init /\ [][Next]_vars

\* Time passes, both programs run frames for ever, and of the packets that are sent again and
\* again the network delivers some, in the other direction not only messages.
FairSpec ==
    /\ Spec
    /\ WF_vars(Tick)
    /\ \A c \in Clients :
          /\ WF_vars(CL_CheckForResend(c)) /\ WF_vars(CL_WritePacket(c))
          /\ SF_vars(SV_PacketEvent(c))
          /\ SF_vars(\E kind \in Replies \ {"message"} : ClientReceives(c, kind))
    /\ \A s \in Slots : SF_vars(SV_CheckTimeouts(s))

-----------------------------------------------------------------------------
\* Properties.

TypeOK ==
    /\ client \in [Clients -> [state : {"DISCONNECTED", "CONNECTING", "CHALLENGING", "CONNECTED"},
                               challenge : Numbers \union {None}, sinceSent : 0 .. RetransmitTimeout]]
    /\ port \in [Clients -> Ports]
    /\ slots \in [Slots -> [state : {"FREE", "ZOMBIE", "CONNECTED"}, client : Clients \union {None},
                            port : Ports \union {None}, challenge : Numbers \union {None},
                            sinceConnect : 0 .. ReconnectLimit, sincePacket : 0 .. DropTime + 1]]
    /\ \A r \in Records : challenges[r].connected => challenges[r].challenge # None
    /\ Range(byAge) = Records /\ Len(byAge) = MAX_CHALLENGES
    /\ \A c \in Clients : Len(toServer[c]) <= MaxPackets /\ Len(toClient[c]) <= MaxPackets

\* A client has one slot, whatever the router does to its port: with two, its messages
\* would reach the older one.
OneSlotPerClient ==
    \A s, t \in Used : slots[s].client = slots[t].client => s = t

\* A connect that comes late or twice never sets up anew the slot of a client whose
\* connection is established: the client would ignore the sequence numbers of the new
\* channel.  The reconnect limit has to outlast the handshake.
NoWastedConnection == ~wasted

Valid(c) == \E r \in Records : challenges[r].client = c /\ challenges[r].port = port[c]
                                /\ challenges[r].challenge = client[c].challenge

\* A client that asks for a connection gets an answer, as long as the server still knows
\* the challenge number it uses: lost packets and rejected retries do not stop it.
ConnectsEventually ==
    \A c \in Clients :
        client[c].state \in {"CONNECTING", "CHALLENGING"} ~>
            (client[c].state \in {"CONNECTED", "DISCONNECTED"}
                \/ (client[c].state = "CHALLENGING" /\ ~Valid(c)))

\* A slot whose client has gone becomes free, although the client said nothing.
SlotsRecovered ==
    \A c \in Clients :
        client[c].state = "DISCONNECTED" ~> (client[c].state # "DISCONNECTED" \/ SlotOfQport(c) = {})

\* A client the server has forgotten learns of it, also when the disconnect was lost.
NoGhosts ==
    \A c \in Clients :
        client[c].state = "CONNECTED" ~> (client[c].state # "CONNECTED" \/ SlotOfQport(c) # {})
=============================================================================
