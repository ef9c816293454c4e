--------------------------------- MODULE Peers ---------------------------------
(***************************************************************************)
(* Who the Agent takes for its door and its Pad (agent.rs Peers, and how   *)
(* the two wires attribute what they receive).  Addresses, ids and MACs    *)
(* that are not configured are learned from the first packet that shows    *)
(* them and pinned: packets that differ from a pin are ignored from then   *)
(* on.  So the order in which packets come decides who is heard at all.    *)
(*                                                                         *)
(*   - In pad mode (wire_udp.rs) every datagram is taken for the door's:   *)
(*     its sender becomes the one that replies and commands go to, and its *)
(*     address is learned as the door's, whatever is in it.                *)
(*   - In tap mode (wire_tap.rs) frames of the bridge are attributed by    *)
(*     the addresses in them, and the MAC of a frame is pinned before its  *)
(*     session has been accepted.                                          *)
(*                                                                         *)
(* A station is its id, its IP address and its MAC: that they belong       *)
(* together is what the Agent has to find out.  Session messages of other  *)
(* households are left out; they change nothing.                           *)
(***************************************************************************)
EXTENDS Naturals

CONSTANTS
    Stations,  \* doors and cameras of the building
    Modes      \* which of "pad", "tap" to model

ASSUME PeersAssumption == Modes \subseteq {"pad", "tap"} /\ "pad" \notin Stations

Pad     == "pad"      \* the Pad's address and MAC
Unknown == "unknown"
NoDoor  == [id |-> Unknown, ip |-> Unknown]

ASSUME UnknownAssumption == Unknown \notin Stations

VARIABLES
    mode,      \* how the Agent is connected
    pins,      \* Peers: the room's address, the door, two MACs
    peer,      \* UdpWire.peer: the last sender
    caller,    \* the door whose call is up, if any
    diverted   \* a monitor or an outbound call takes the session messages

\* History variables.
VARIABLES
    configured,  \* the door that the configuration names, if any
    heard,       \* doors a ring of which has been accepted
    strangers    \* stations a packet of which was pinned as the door's though
                 \* it was not an accepted session, nor showed the door that
                 \* is known by its id

history == <<configured, heard, strangers>>
vars    == <<mode, pins, peer, caller, diverted, history>>

Somebody == Stations \cup {Unknown}
Pins == [room : {Pad, Unknown}, door : [id : Somebody, ip : Somebody],
         doorMac : Somebody, padMac : {Pad, Unknown}]

TypeOK ==
    /\ mode \in Modes /\ pins \in Pins
    /\ peer \in Somebody /\ caller \in Somebody
    /\ diverted \in BOOLEAN
    /\ configured \in Somebody /\ heard \subseteq Stations /\ strangers \subseteq Stations

\* run_agent: the configuration, then discovery for the addresses that it
\* lacks, then in tap mode the neighbour table for the MACs of addresses.
Init ==
    /\ mode \in Modes
    /\ configured \in Somebody
    /\ pins \in {p \in Pins :
         /\ p.door.id = configured
         /\ p.door.ip \in {configured, Unknown}
         /\ p.doorMac \in {p.door.ip, Unknown}
         /\ p.room = Unknown => p.padMac = Unknown}
    /\ peer = Unknown /\ caller = Unknown /\ diverted = FALSE
    /\ heard = {} /\ strangers = {}

--------------------------------------------------------------------------------
(***************************************************************************)
(* Learning and pinning, as operators on the pins.                         *)
(***************************************************************************)

\* set_room_ip_if_unset, and learn_address for the Pad: there is only one
\* address that it can be.
RoomLearned(p) == [p EXCEPT !.room = Pad]

\* learn_address for a door's address.
AddressFits(p, s) == p.door.ip \in {s, Unknown}
AddressLearned(p, s) == IF AddressFits(p, s) THEN [p EXCEPT !.door.ip = s] ELSE p

\* pin_mac.
MacFits(p, s) == p.doorMac \in {s, Unknown}
MacPinned(p, s) == IF p.doorMac = Unknown THEN [p EXCEPT !.doorMac = s] ELSE p

\* Mutant: a door whose address is not known is not accepted.
EndpointsFitKnown(p, d, roomIp) ==
    /\ p.room \in {roomIp, Unknown}
    /\ p.door = NoDoor \/ (p.door.ip = d /\ p.door.id \in {d, Unknown})

\* accept_endpoints, of a session between door d and the room at roomIp.
EndpointsFit(p, d, roomIp) ==
    /\ p.room \in {roomIp, Unknown}
    /\ \/ p.door = NoDoor
       \/ p.door.ip = d /\ p.door.id \in {d, Unknown}
       \/ p.door.id = d /\ p.door.ip = Unknown

\* The room's address is kept even if the door is then refused.
EndpointsLearned(p, d, roomIp) ==
    LET q == IF p.room = Unknown THEN [p EXCEPT !.room = roomIp] ELSE p
    IN  IF EndpointsFit(p, d, roomIp) THEN [q EXCEPT !.door = [id |-> d, ip |-> d]] ELSE q

--------------------------------------------------------------------------------
(***************************************************************************)
(* on_wire, for a message of a session between d and the room at roomIp,   *)
(* when the wire has come to the pins p.                                   *)
(***************************************************************************)
OnWire(p, side, d, roomIp, msg) ==
    IF diverted
      THEN /\ pins' = p
           /\ diverted' = (msg # "hangup")
           /\ UNCHANGED <<caller, heard>>
      ELSE LET ok == EndpointsFit(p, d, roomIp)
           IN  /\ pins' = EndpointsLearned(p, d, roomIp)
               /\ caller' = IF ok /\ msg = "request" /\ side = "door" /\ caller = Unknown
                              THEN d
                            ELSE IF ok /\ msg = "hangup" THEN Unknown
                            ELSE caller
               /\ heard' = IF ok /\ side = "door" /\ roomIp = Pad THEN heard \cup {d} ELSE heard
               /\ UNCHANGED diverted

\* Something of the door has been pinned because of the packet.
Pinned == pins'.door # pins.door \/ pins'.doorMac # pins.doorMac
Accepted(s, roomIp) == ~diverted /\ EndpointsFit(pins', s, roomIp)

Messages == {"request", "answer", "hangup", "media"}

\* UdpWire::run, a session message of a door.
Datagram(s, roomIp, msg) ==
    /\ mode = "pad"
    /\ peer' = s
    /\ OnWire(AddressLearned(RoomLearned(pins), s), "door", s, roomIp, msg)
    /\ strangers' = IF Pinned /\ ~Accepted(s, roomIp) THEN strangers \cup {s} ELSE strangers
    /\ UNCHANGED <<mode, configured>>

\* UdpWire::run, anything else: a page, the media of a camera or a callee, an
\* acknowledgement of the elevator.
OtherDatagram(s) ==
    /\ mode = "pad"
    /\ peer' = s
    /\ pins' = AddressLearned(RoomLearned(pins), s)
    /\ strangers' = IF Pinned THEN strangers \cup {s} ELSE strangers
    /\ UNCHANGED <<mode, caller, diverted, configured, heard>>

\* Mutant: the MAC of a door's frame is compared, and not kept.
DoorFrameUnpinned(s, roomIp, msg) ==
    /\ mode = "tap"
    /\ MacFits(pins, s)
    /\ OnWire(pins, "door", s, roomIp, msg)
    /\ strangers' = IF Pinned /\ ~Accepted(s, roomIp) THEN strangers \cup {s} ELSE strangers
    /\ UNCHANGED <<mode, peer, configured>>

\* TapWire::run, a door's frame: its MAC is pinned first.
DoorFrame(s, roomIp, msg) ==
    /\ mode = "tap"
    /\ MacFits(pins, s)
    /\ OnWire(MacPinned(pins, s), "door", s, roomIp, msg)
    /\ strangers' = IF Pinned /\ ~Accepted(s, roomIp) THEN strangers \cup {s} ELSE strangers
    /\ UNCHANGED <<mode, peer, configured>>

\* TapWire::run, a frame of the physical Pad in a session with s.
PadFrame(s, msg) ==
    /\ mode = "tap"
    /\ OnWire([pins EXCEPT !.padMac = Pad], "pad", s, Pad, msg)
    /\ strangers' = IF Pinned /\ ~Accepted(s, Pad) THEN strangers \cup {s} ELSE strangers
    /\ UNCHANGED <<mode, peer, configured>>

\* Mutant: the MAC is pinned whether or not the address was learned.
DoorAsksAnyway(s) ==
    /\ mode = "tap"
    /\ pins' = MacPinned(AddressLearned(pins, s), s)
    /\ strangers' = IF pins'.door # pins.door /\ pins.door.id \notin {s, Unknown}
                      THEN strangers \cup {s} ELSE strangers
    /\ UNCHANGED <<mode, peer, caller, diverted, configured, heard>>

\* TapWire::run, the discovery exchange: s asks for our room, without saying
\* who it is ...
DoorAsks(s) ==
    /\ mode = "tap"
    /\ AddressFits(pins, s)
    /\ pins' = MacPinned(AddressLearned(pins, s), s)
    /\ strangers' = IF pins'.door # pins.door /\ pins.door.id \notin {s, Unknown}
                      THEN strangers \cup {s} ELSE strangers
    /\ UNCHANGED <<mode, peer, caller, diverted, configured, heard>>

\* ... and the Pad replies.
PadReplies ==
    /\ mode = "tap"
    /\ pins' = [RoomLearned(pins) EXCEPT !.padMac = Pad]
    /\ UNCHANGED <<mode, peer, caller, diverted, history>>

\* A client hangs up; a monitor or an outbound call begins or ends.
CommandEnds ==
    /\ caller # Unknown /\ caller' = Unknown
    /\ UNCHANGED <<mode, pins, peer, diverted, history>>

Divert ==
    /\ diverted' = ~diverted
    /\ UNCHANGED <<mode, pins, peer, caller, history>>

Next ==
    \/ \E s \in Stations, ip \in {Pad, Unknown}, m \in Messages :
         Datagram(s, ip, m) \/ DoorFrame(s, ip, m)
    \/ \E s \in Stations, m \in Messages : PadFrame(s, m)
    \/ \E s \in Stations : OtherDatagram(s) \/ DoorAsks(s)
    \/ PadReplies \/ CommandEnds \/ Divert

Spec == Init /\ [][Next]_vars

--------------------------------------------------------------------------------
(***************************************************************************)
(* Where a command goes, if it can be sent: to the last sender (UdpWire),  *)
(* or to the door, with the Pad's addresses, when all are known            *)
(* (TapWire::addresses).                                                   *)
(***************************************************************************)
Routable ==
    IF mode = "pad" THEN peer # Unknown
    ELSE Unknown \notin {pins.door.ip, pins.room, pins.doorMac, pins.padMac}

ReachesCaller ==
    /\ pins.door.id = caller
    /\ IF mode = "pad" THEN peer = caller
       ELSE pins.door.ip = caller /\ pins.doorMac = caller

\* Whether a ring of d would be taken for a call.
Hears(d) == EndpointsFit(IF mode = "pad" THEN AddressLearned(pins, d) ELSE pins, d, Pad)
            /\ (mode = "tap" => MacFits(pins, d))

(***************************************************************************)
(* What is pinned is never replaced: neither by a later session, nor by a  *)
(* discovery exchange, nor by a frame (learn_address, pin_mac,             *)
(* accept_endpoints).                                                      *)
(***************************************************************************)
Kept(old, new) == old # Unknown => new = old

PinnedForGood ==
    [][/\ Kept(pins.room, pins'.room) /\ Kept(pins.padMac, pins'.padMac)
       /\ Kept(pins.door.id, pins'.door.id) /\ Kept(pins.door.ip, pins'.door.ip)
       /\ Kept(pins.doorMac, pins'.doorMac)]_vars

(***************************************************************************)
(* A door that has been heard once stays heard, and so does the configured *)
(* one from the start, whatever comes in between - unless a stranger's     *)
(* packet was pinned as if it were the door's (accept_endpoints, UdpWire's *)
(* and TapWire's run).                                                     *)
(***************************************************************************)
DoorsStayHeard ==
    \A d \in heard \cup ({configured} \ {Unknown}) : Hears(d) \/ strangers \ {d} # {}

(***************************************************************************)
(* The pins are of one station: id, address and MAC of the door that a     *)
(* command would be sent to belong together, unless a stranger's packet    *)
(* has been pinned.                                                        *)
(***************************************************************************)
OneDoorPinned ==
    strangers = {} => \E s \in Somebody :
        /\ {pins.door.id, pins.door.ip} \subseteq {s, Unknown}
        /\ mode = "tap" => pins.doorMac \in {s, Unknown}

(***************************************************************************)
(* In tap mode a command of a call that is up goes to the door that rang,  *)
(* as soon as the Pad has been seen as well, unless a stranger's packet    *)
(* has been pinned; in pad mode it goes to the last station that sent      *)
(* anything, with the caller's id in it (send_as_pad).                     *)
(***************************************************************************)
CommandsReachTheCaller ==
    caller # Unknown =>
        /\ pins.door.id = caller
        /\ mode = "pad" => Routable
        /\ mode = "tap" /\ pins.padMac = Pad /\ pins.room = Pad /\ strangers = {}
             => Routable /\ ReachesCaller
================================================================================
