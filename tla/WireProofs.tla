------------------------------- MODULE WireProofs ------------------------------
(***************************************************************************)
(* Theorems about what comes from the wire: whom the Agent takes it for    *)
(* (Peers), for any number of stations in the building, and what becomes   *)
(* of its media (Media), for any images, viewers and sizes of the buffers. *)
(***************************************************************************)
EXTENDS
    Peers, Media, FiniteSetTheorems, SequenceTheorems, WellFoundedInduction, TLAPS

--------------------------------------------------------------------------------
(***************************************************************************)
(* What the pins keep to, beyond what the properties say: the MAC comes    *)
(* with its address, a call's door is the pinned one, and a door that was  *)
(* heard is pinned with both its id and its address.                       *)
(***************************************************************************)
PinInv ==
    /\ mode = "tap" /\ strangers = {} /\ pins.doorMac # Unknown
         => pins.door.ip = pins.doorMac
    /\ caller # Unknown => pins.door = [id |-> caller, ip |-> caller]
    /\ mode = "tap" /\ strangers = {} /\ caller # Unknown => pins.doorMac = caller
    /\ mode = "pad" /\ caller # Unknown => peer # Unknown
    /\ configured # Unknown => pins.door.id = configured
    /\ heard # {} => pins.door.id # Unknown /\ pins.door.ip # Unknown

IInv == TypeOK /\ PinInv /\ OneDoorPinned /\ DoorsStayHeard

--------------------------------------------------------------------------------
(***************************************************************************)
(* Every step keeps the types.                                             *)
(***************************************************************************)
LEMMA TypeStep == IInv /\ [Next]_vars => TypeOK'
  <1> SUFFICES ASSUME IInv, [Next]_vars PROVE TypeOK'
    OBVIOUS
  <1> USE PeersAssumption, UnknownAssumption DEF IInv, TypeOK, Pins, Somebody, Pad, Unknown, NoDoor
  <1>1. ASSUME NEW s \in Stations, NEW ip \in {Pad, Unknown}, NEW m \in Messages,
               Datagram(s, ip, m)
        PROVE  TypeOK'
    <2> DEFINE p == AddressLearned(RoomLearned(pins), s)
    <2>1. p \in Pins
      BY DEF AddressLearned, AddressFits, RoomLearned
    <2>2. EndpointsLearned(p, s, ip) \in Pins
      BY <2>1 DEF EndpointsLearned
    <2>3. pins' \in Pins
      BY <1>1, <2>1, <2>2 DEF Datagram, OnWire
    <2>4. diverted' \in BOOLEAN
      BY <1>1 DEF Datagram, OnWire
    <2>5. /\ caller' \in Somebody /\ peer' \in Somebody /\ mode' = mode /\ configured' = configured
          /\ heard' \subseteq Stations /\ strangers' \subseteq Stations
      BY <1>1 DEF Datagram, OnWire
    <2>6. QED
      BY <2>3, <2>4, <2>5
  <1>2. ASSUME NEW s \in Stations, NEW ip \in {Pad, Unknown}, NEW m \in Messages,
               DoorFrame(s, ip, m)
        PROVE  TypeOK'
    <2> DEFINE p == MacPinned(pins, s)
    <2>1. p \in Pins
      BY DEF MacPinned
    <2>2. EndpointsLearned(p, s, ip) \in Pins
      BY <2>1 DEF EndpointsLearned
    <2>3. pins' \in Pins
      BY <1>2, <2>1, <2>2 DEF DoorFrame, OnWire
    <2>4. diverted' \in BOOLEAN
      BY <1>2 DEF DoorFrame, OnWire
    <2>5. /\ caller' \in Somebody /\ peer' \in Somebody /\ mode' = mode /\ configured' = configured
          /\ heard' \subseteq Stations /\ strangers' \subseteq Stations
      BY <1>2 DEF DoorFrame, OnWire
    <2>6. QED
      BY <2>3, <2>4, <2>5
  <1>3. ASSUME NEW s \in Stations, NEW m \in Messages, PadFrame(s, m)
        PROVE  TypeOK'
    <2> DEFINE p == [pins EXCEPT !.padMac = Pad]
    <2>1. p \in Pins
      BY DEF TypeOK
    <2>2. EndpointsLearned(p, s, Pad) \in Pins
      BY <2>1 DEF EndpointsLearned
    <2>3. pins' \in Pins
      BY <1>3, <2>1, <2>2 DEF PadFrame, OnWire
    <2>4. diverted' \in BOOLEAN
      BY <1>3 DEF PadFrame, OnWire
    <2>5. /\ caller' \in Somebody /\ peer' \in Somebody /\ mode' = mode /\ configured' = configured
          /\ heard' \subseteq Stations /\ strangers' \subseteq Stations
      BY <1>3 DEF PadFrame, OnWire
    <2>6. QED
      BY <2>3, <2>4, <2>5
  <1>4. ASSUME NEW s \in Stations, OtherDatagram(s)
        PROVE  TypeOK'
    BY <1>4 DEF OtherDatagram, AddressLearned, AddressFits, RoomLearned, Pinned
  <1>5. ASSUME NEW s \in Stations, DoorAsks(s)
        PROVE  TypeOK'
    BY <1>5 DEF DoorAsks, MacPinned, AddressLearned, AddressFits
  <1>6. CASE PadReplies
    BY <1>6 DEF PadReplies, RoomLearned, history
  <1>7. CASE CommandEnds
    BY <1>7 DEF CommandEnds, history
  <1>8. CASE Divert
    BY <1>8 DEF Divert, history
  <1>9. CASE UNCHANGED vars
    BY <1>9 DEF vars, history
  <1>10. QED
    BY <1>1, <1>2, <1>3, <1>4, <1>5, <1>6, <1>7, <1>8, <1>9 DEF Next

(***************************************************************************)
(* What a datagram of a door comes to in pad mode: it is accepted, or no   *)
(* more than its address is learned.                                       *)
(***************************************************************************)
DatagramEffect(s, ip, m) ==
    /\ UNCHANGED <<mode, configured>> /\ mode = "pad" /\ peer' = s
    /\ pins'.doorMac = pins.doorMac
    /\ \/ /\ pins.door.ip \in {s, Unknown} /\ pins.door.id \in {s, Unknown}
          /\ pins'.door = [id |-> s, ip |-> s]
          /\ caller' \in {s, Unknown, caller} /\ heard' \in {heard, heard \cup {s}}
          /\ strangers' = strangers
       \/ /\ pins'.door = [id |-> pins.door.id,
                           ip |-> IF pins.door.ip = Unknown THEN s ELSE pins.door.ip]
          /\ caller' \in {caller, Unknown} /\ heard' = heard
          /\ strangers' = IF pins.door.ip = Unknown THEN strangers \cup {s} ELSE strangers

LEMMA DatagramHas ==
    ASSUME TypeOK, NEW s \in Stations, NEW ip \in {Pad, Unknown}, NEW m \in Messages,
           Datagram(s, ip, m)
    PROVE  DatagramEffect(s, ip, m)
  <1> USE PeersAssumption, UnknownAssumption DEF TypeOK, Pins, Somebody, Pad, Unknown, NoDoor
  <1> DEFINE p == AddressLearned(RoomLearned(pins), s)
  <1>1. /\ p.room = Pad /\ p.doorMac = pins.doorMac
        /\ p.door = [id |-> pins.door.id,
                     ip |-> IF pins.door.ip = Unknown THEN s ELSE pins.door.ip]
    BY DEF AddressLearned, AddressFits, RoomLearned
  <1>2. EndpointsFit(p, s, ip) <=>
           ip = Pad /\ pins.door.ip \in {s, Unknown} /\ pins.door.id \in {s, Unknown}
    BY <1>1 DEF EndpointsFit
  <1>3. /\ EndpointsLearned(p, s, ip).doorMac = pins.doorMac
        /\ EndpointsLearned(p, s, ip).room = Pad
        /\ EndpointsLearned(p, s, ip).door =
             IF EndpointsFit(p, s, ip) THEN [id |-> s, ip |-> s] ELSE p.door
    BY <1>1 DEF EndpointsLearned
  <1>4. mode = "pad" /\ peer' = s /\ UNCHANGED <<mode, configured>>
    BY DEF Datagram
  <1>5. strangers' = IF Pinned /\ ~Accepted(s, ip) THEN strangers \cup {s} ELSE strangers
    BY DEF Datagram
  <1>6. OnWire(p, "door", s, ip, m)
    BY DEF Datagram
  <1>7. pins.doorMac = pins'.doorMac
    BY <1>1, <1>3, <1>6 DEF OnWire
  <1>8. CASE diverted
    <2>1. pins' = p /\ caller' = caller /\ heard' = heard
      BY <1>6, <1>8 DEF OnWire
    <2>2. Pinned <=> pins.door.ip = Unknown
      BY <2>1, <1>1, <1>7 DEF Pinned
    <2>3. ~Accepted(s, ip)
      BY <1>8 DEF Accepted
    <2>4. QED
      BY <1>1, <1>4, <1>5, <1>7, <2>1, <2>2, <2>3 DEF DatagramEffect
  <1>9. CASE ~diverted /\ EndpointsFit(p, s, ip)
    <2>1. /\ pins'.door = [id |-> s, ip |-> s] /\ pins'.room = Pad
          /\ caller' \in {s, Unknown, caller} /\ heard' \in {heard, heard \cup {s}}
      BY <1>3, <1>6, <1>9 DEF OnWire
    <2>2. Accepted(s, ip)
      BY <2>1, <1>2, <1>9 DEF Accepted, EndpointsFit
    <2>3. QED
      BY <1>2, <1>4, <1>5, <1>7, <1>9, <2>1, <2>2 DEF DatagramEffect
  <1>10. CASE ~diverted /\ ~EndpointsFit(p, s, ip)
    <2>1. /\ pins'.door = p.door /\ pins'.room = Pad
          /\ caller' = caller /\ heard' = heard
      BY <1>3, <1>6, <1>10 DEF OnWire
    <2>2. Pinned <=> pins.door.ip = Unknown
      BY <2>1, <1>1, <1>7 DEF Pinned
    <2>3. ~Accepted(s, ip)
      BY <2>1, <1>1, <1>10 DEF Accepted, EndpointsFit
    <2>4. QED
      BY <1>1, <1>4, <1>5, <1>7, <2>1, <2>2, <2>3 DEF DatagramEffect
  <1>11. QED
    BY <1>8, <1>9, <1>10

(***************************************************************************)
(* What a frame of the Pad comes to in tap mode: its session with a door   *)
(* is accepted, or nothing of a door is learned.                           *)
(***************************************************************************)
PadFrameEffect(s, m) ==
    /\ UNCHANGED <<mode, configured, peer>> /\ mode = "tap" /\ heard' = heard
    /\ pins'.doorMac = pins.doorMac /\ strangers' = strangers
    /\ caller' \in {caller, Unknown}
    /\ \/ pins'.door = pins.door
       \/ /\ pins'.door = [id |-> s, ip |-> s]
          /\ pins.door.ip \in {s, Unknown} /\ pins.door.id \in {s, Unknown}

LEMMA PadFrameHas ==
    ASSUME TypeOK, NEW s \in Stations, NEW m \in Messages, PadFrame(s, m)
    PROVE  PadFrameEffect(s, m)
  <1> USE PeersAssumption, UnknownAssumption DEF TypeOK, Pins, Somebody, Pad, Unknown, NoDoor
  <1> DEFINE p == [pins EXCEPT !.padMac = Pad]
             e == EndpointsLearned(p, s, Pad)
  <1>1. p.room = pins.room /\ p.doorMac = pins.doorMac /\ p.door = pins.door
    OBVIOUS
  <1>2. EndpointsFit(p, s, Pad) => pins.door.ip \in {s, Unknown} /\ pins.door.id \in {s, Unknown}
    BY <1>1 DEF EndpointsFit
  <1>3. /\ e.doorMac = pins.doorMac /\ e.room = Pad
        /\ e.door = IF EndpointsFit(p, s, Pad) THEN [id |-> s, ip |-> s] ELSE pins.door
    BY <1>1 DEF EndpointsLearned
  <1>4. mode = "tap" /\ UNCHANGED <<mode, configured, peer>>
    BY DEF PadFrame
  <1>5. strangers' = IF Pinned /\ ~Accepted(s, Pad) THEN strangers \cup {s} ELSE strangers
    BY DEF PadFrame
  <1>6. OnWire(p, "pad", s, Pad, m)
    BY DEF PadFrame
  <1>7. heard' = heard /\ caller' \in {caller, Unknown} /\ pins'.doorMac = pins.doorMac
    BY <1>1, <1>3, <1>6 DEF OnWire
  <1>8. CASE ~diverted /\ EndpointsFit(p, s, Pad)
    <2>1. pins'.door = [id |-> s, ip |-> s] /\ pins'.room = Pad
      BY <1>3, <1>6, <1>8 DEF OnWire
    <2>2. Accepted(s, Pad)
      BY <2>1, <1>8 DEF Accepted, EndpointsFit
    <2>3. QED
      BY <1>2, <1>4, <1>5, <1>7, <1>8, <2>1, <2>2 DEF PadFrameEffect
  <1>9. CASE diverted \/ ~EndpointsFit(p, s, Pad)
    <2>1. pins'.door = pins.door
      BY <1>1, <1>3, <1>6, <1>9 DEF OnWire
    <2>2. ~Pinned
      BY <2>1, <1>7 DEF Pinned
    <2>3. QED
      BY <1>4, <1>5, <1>7, <2>1, <2>2 DEF PadFrameEffect
  <1>10. QED
    BY <1>8, <1>9

(***************************************************************************)
(* Every step keeps the pins of one accepted door together.                *)
(***************************************************************************)
LEMMA PinStep == IInv /\ [Next]_vars => PinInv'
  <1> SUFFICES ASSUME IInv, [Next]_vars PROVE PinInv'
    OBVIOUS
  <1> USE PeersAssumption, UnknownAssumption DEF IInv, TypeOK, Pins, Somebody, Pad, Unknown, NoDoor
  <1>1. ASSUME NEW s \in Stations, NEW ip \in {Pad, Unknown}, NEW m \in Messages,
               Datagram(s, ip, m)
        PROVE  PinInv'
    <2>1. TypeOK /\ TypeOK' /\ DatagramEffect(s, ip, m)
      BY <1>1, TypeStep, DatagramHas
    <2>2. QED
      BY <2>1 DEF DatagramEffect, PinInv, OneDoorPinned
  <1>2. ASSUME NEW s \in Stations, NEW ip \in {Pad, Unknown}, NEW m \in Messages,
               DoorFrame(s, ip, m)
        PROVE  PinInv'
    <2>1. CASE diverted
      BY <1>2, <2>1
         DEF DoorFrame, OnWire, EndpointsLearned, EndpointsFit, MacPinned, MacFits,
             Accepted, Pinned, PinInv, OneDoorPinned
    <2>2. CASE ~diverted /\ EndpointsFit(MacPinned(pins, s), s, ip)
      BY <1>2, <2>2
         DEF DoorFrame, OnWire, EndpointsLearned, EndpointsFit, MacPinned, MacFits,
             Accepted, Pinned, PinInv, OneDoorPinned
    <2>3. CASE ~diverted /\ ~EndpointsFit(MacPinned(pins, s), s, ip)
      BY <1>2, <2>3
         DEF DoorFrame, OnWire, EndpointsLearned, EndpointsFit, MacPinned, MacFits,
             Accepted, Pinned, PinInv, OneDoorPinned
    <2>4. QED
      BY <2>1, <2>2, <2>3
  <1>3. ASSUME NEW s \in Stations, NEW m \in Messages, PadFrame(s, m)
        PROVE  PinInv'
    <2>1. TypeOK /\ TypeOK' /\ PadFrameEffect(s, m)
      BY <1>3, TypeStep, PadFrameHas
    <2>2. QED
      BY <2>1 DEF PadFrameEffect, PinInv, OneDoorPinned
  <1>4. ASSUME NEW s \in Stations, OtherDatagram(s)
        PROVE  PinInv'
    BY <1>4
       DEF OtherDatagram, AddressLearned, AddressFits, RoomLearned, Pinned, PinInv,
           OneDoorPinned
  <1>5. ASSUME NEW s \in Stations, DoorAsks(s)
        PROVE  PinInv'
    BY <1>5 DEF DoorAsks, MacPinned, AddressLearned, AddressFits, PinInv, OneDoorPinned
  <1>6. CASE PadReplies
    BY <1>6 DEF PadReplies, RoomLearned, history, PinInv, OneDoorPinned
  <1>7. CASE CommandEnds
    BY <1>7 DEF CommandEnds, history, PinInv, OneDoorPinned
  <1>8. CASE Divert
    BY <1>8 DEF Divert, history, PinInv, OneDoorPinned
  <1>9. CASE UNCHANGED vars
    BY <1>9 DEF vars, history, PinInv, OneDoorPinned
  <1>10. QED
    BY <1>1, <1>2, <1>3, <1>4, <1>5, <1>6, <1>7, <1>8, <1>9 DEF Next

(***************************************************************************)
(* No accepted packet mixes two stations in the pins.                      *)
(***************************************************************************)
LEMMA OneDoorStep == IInv /\ [Next]_vars => OneDoorPinned'
  <1> SUFFICES ASSUME IInv, [Next]_vars PROVE OneDoorPinned'
    OBVIOUS
  <1> USE PeersAssumption, UnknownAssumption DEF IInv, TypeOK, Pins, Somebody, Pad, Unknown, NoDoor
  <1>1. ASSUME NEW s \in Stations, NEW ip \in {Pad, Unknown}, NEW m \in Messages,
               Datagram(s, ip, m)
        PROVE  OneDoorPinned'
    <2>1. TypeOK /\ TypeOK' /\ DatagramEffect(s, ip, m)
      BY <1>1, TypeStep, DatagramHas
    <2>2. QED
      BY <2>1 DEF DatagramEffect, PinInv, OneDoorPinned
  <1>2. ASSUME NEW s \in Stations, NEW ip \in {Pad, Unknown}, NEW m \in Messages,
               DoorFrame(s, ip, m)
        PROVE  OneDoorPinned'
    <2>1. CASE diverted
      BY <1>2, <2>1
         DEF DoorFrame, OnWire, EndpointsLearned, EndpointsFit, MacPinned, MacFits,
             Accepted, Pinned, PinInv, OneDoorPinned
    <2>2. CASE ~diverted /\ EndpointsFit(MacPinned(pins, s), s, ip)
      BY <1>2, <2>2
         DEF DoorFrame, OnWire, EndpointsLearned, EndpointsFit, MacPinned, MacFits,
             Accepted, Pinned, PinInv, OneDoorPinned
    <2>3. CASE ~diverted /\ ~EndpointsFit(MacPinned(pins, s), s, ip)
      BY <1>2, <2>3
         DEF DoorFrame, OnWire, EndpointsLearned, EndpointsFit, MacPinned, MacFits,
             Accepted, Pinned, PinInv, OneDoorPinned
    <2>4. QED
      BY <2>1, <2>2, <2>3
  <1>3. ASSUME NEW s \in Stations, NEW m \in Messages, PadFrame(s, m)
        PROVE  OneDoorPinned'
    <2>1. TypeOK /\ TypeOK' /\ PadFrameEffect(s, m)
      BY <1>3, TypeStep, PadFrameHas
    <2>2. QED
      BY <2>1 DEF PadFrameEffect, PinInv, OneDoorPinned
  <1>4. ASSUME NEW s \in Stations, OtherDatagram(s)
        PROVE  OneDoorPinned'
    BY <1>4
       DEF OtherDatagram, AddressLearned, AddressFits, RoomLearned, Pinned, PinInv,
           OneDoorPinned
  <1>5. ASSUME NEW s \in Stations, DoorAsks(s)
        PROVE  OneDoorPinned'
    BY <1>5 DEF DoorAsks, MacPinned, AddressLearned, AddressFits, PinInv, OneDoorPinned
  <1>6. CASE PadReplies
    BY <1>6 DEF PadReplies, RoomLearned, history, PinInv, OneDoorPinned
  <1>7. CASE CommandEnds
    BY <1>7 DEF CommandEnds, history, PinInv, OneDoorPinned
  <1>8. CASE Divert
    BY <1>8 DEF Divert, history, PinInv, OneDoorPinned
  <1>9. CASE UNCHANGED vars
    BY <1>9 DEF vars, history, PinInv, OneDoorPinned
  <1>10. QED
    BY <1>1, <1>2, <1>3, <1>4, <1>5, <1>6, <1>7, <1>8, <1>9 DEF Next

(***************************************************************************)
(* No accepted packet makes a door unheard.                                *)
(***************************************************************************)
LEMMA HeardStep == IInv /\ [Next]_vars => DoorsStayHeard'
  <1> SUFFICES ASSUME IInv, [Next]_vars PROVE DoorsStayHeard'
    OBVIOUS
  <1> USE PeersAssumption, UnknownAssumption DEF IInv, TypeOK, Pins, Somebody, Pad, Unknown, NoDoor
  <1>1. ASSUME NEW s \in Stations, NEW ip \in {Pad, Unknown}, NEW m \in Messages,
               Datagram(s, ip, m)
        PROVE  DoorsStayHeard'
    <2>1. TypeOK /\ TypeOK' /\ DatagramEffect(s, ip, m)
      BY <1>1, TypeStep, DatagramHas
    <2>2. QED
      BY <2>1
         DEF DatagramEffect, PinInv, OneDoorPinned, DoorsStayHeard, Hears,
             EndpointsFit, AddressLearned, AddressFits, MacFits
  <1>2. ASSUME NEW s \in Stations, NEW ip \in {Pad, Unknown}, NEW m \in Messages,
               DoorFrame(s, ip, m)
        PROVE  DoorsStayHeard'
    <2>1. CASE diverted
      BY <1>2, <2>1
         DEF DoorFrame, OnWire, EndpointsLearned, EndpointsFit, MacPinned, MacFits,
             Accepted, Pinned, PinInv, OneDoorPinned, DoorsStayHeard, Hears,
             AddressLearned, AddressFits
    <2>2. CASE ~diverted /\ EndpointsFit(MacPinned(pins, s), s, ip)
      BY <1>2, <2>2
         DEF DoorFrame, OnWire, EndpointsLearned, EndpointsFit, MacPinned, MacFits,
             Accepted, Pinned, PinInv, OneDoorPinned, DoorsStayHeard, Hears,
             AddressLearned, AddressFits
    <2>3. CASE ~diverted /\ ~EndpointsFit(MacPinned(pins, s), s, ip)
      BY <1>2, <2>3
         DEF DoorFrame, OnWire, EndpointsLearned, EndpointsFit, MacPinned, MacFits,
             Accepted, Pinned, PinInv, OneDoorPinned, DoorsStayHeard, Hears,
             AddressLearned, AddressFits
    <2>4. QED
      BY <2>1, <2>2, <2>3
  <1>3. ASSUME NEW s \in Stations, NEW m \in Messages, PadFrame(s, m)
        PROVE  DoorsStayHeard'
    <2>1. TypeOK /\ TypeOK' /\ PadFrameEffect(s, m)
      BY <1>3, TypeStep, PadFrameHas
    <2>2. QED
      BY <2>1
         DEF PadFrameEffect, PinInv, OneDoorPinned, DoorsStayHeard, Hears,
             EndpointsFit, AddressLearned, AddressFits, MacFits
  <1>4. ASSUME NEW s \in Stations, OtherDatagram(s)
        PROVE  DoorsStayHeard'
    BY <1>4
       DEF OtherDatagram, AddressLearned, AddressFits, RoomLearned, Pinned, PinInv,
           OneDoorPinned, DoorsStayHeard, Hears, EndpointsFit, MacFits
  <1>5. ASSUME NEW s \in Stations, DoorAsks(s)
        PROVE  DoorsStayHeard'
    BY <1>5
       DEF DoorAsks, MacPinned, AddressLearned, AddressFits, PinInv, OneDoorPinned,
           DoorsStayHeard, Hears, EndpointsFit, MacFits
  <1>6. CASE PadReplies
    BY <1>6
       DEF PadReplies, RoomLearned, history, PinInv, OneDoorPinned, DoorsStayHeard,
           Hears, EndpointsFit, AddressLearned, AddressFits, MacFits
  <1>7. CASE CommandEnds
    BY <1>7
       DEF CommandEnds, history, PinInv, OneDoorPinned, DoorsStayHeard, Hears,
           EndpointsFit, AddressLearned, AddressFits, MacFits
  <1>8. CASE Divert
    BY <1>8
       DEF Divert, history, PinInv, OneDoorPinned, DoorsStayHeard, Hears,
           EndpointsFit, AddressLearned, AddressFits, MacFits
  <1>9. CASE UNCHANGED vars
    BY <1>9
       DEF vars, history, PinInv, OneDoorPinned, DoorsStayHeard, Hears,
           EndpointsFit, AddressLearned, AddressFits, MacFits
  <1>10. QED
    BY <1>1, <1>2, <1>3, <1>4, <1>5, <1>6, <1>7, <1>8, <1>9 DEF Next

(***************************************************************************)
(* The invariant holds initially and is kept.                              *)
(***************************************************************************)
LEMMA Invariant == Spec => []IInv
  <1>1. Init => IInv
    BY PeersAssumption, UnknownAssumption
       DEF Init, IInv, TypeOK, Pins, Somebody, Pad, Unknown, NoDoor, PinInv,
           OneDoorPinned, DoorsStayHeard, Hears, EndpointsFit, AddressLearned,
           AddressFits, MacFits
  <1>2. IInv /\ [Next]_vars => IInv'
    BY TypeStep, PinStep, OneDoorStep, HeardStep DEF IInv
  <1>3. QED
    BY <1>1, <1>2, PTL DEF Spec

(***************************************************************************)
(* The door's id, address and MAC are of one station, whoever is in the    *)
(* building, unless a stranger's packet has been pinned (accept_endpoints, *)
(* learn_address, pin_mac).                                                *)
(***************************************************************************)
THEOREM OneDoor == Spec => []OneDoorPinned
  <1>1. IInv => OneDoorPinned
    BY DEF IInv
  <1>2. QED
    BY <1>1, Invariant, PTL

(***************************************************************************)
(* A door that has been heard, or is configured, stays heard, unless a     *)
(* stranger's packet has been pinned (accept_endpoints, the two wires).    *)
(***************************************************************************)
THEOREM StaysHeard == Spec => []DoorsStayHeard
  <1>1. IInv => DoorsStayHeard
    BY DEF IInv
  <1>2. QED
    BY <1>1, Invariant, PTL

(***************************************************************************)
(* In tap mode the commands of a call go to the door that rang, unless a   *)
(* stranger's packet has been pinned (addresses, send_as_pad).             *)
(***************************************************************************)
THEOREM ReachesTheCaller == Spec => []CommandsReachTheCaller
  <1>1. IInv => CommandsReachTheCaller
    BY UnknownAssumption
       DEF IInv, TypeOK, Pins, Somebody, Pad, Unknown, PinInv,
           CommandsReachTheCaller, Routable, ReachesCaller
  <1>2. QED
    BY <1>1, Invariant, PTL

\* Nothing that p pins is different in q.
AllKept(p, q) ==
    /\ Kept(p.room, q.room) /\ Kept(p.padMac, q.padMac)
    /\ Kept(p.door.id, q.door.id) /\ Kept(p.door.ip, q.door.ip)
    /\ Kept(p.doorMac, q.doorMac)

(***************************************************************************)
(* Each way to learn keeps what is pinned (set_room_ip_if_unset, pin_mac,  *)
(* learn_address, accept_endpoints).                                       *)
(***************************************************************************)
LEMMA LearningKeeps ==
    ASSUME NEW p \in Pins, NEW s \in Stations, NEW ip \in {Pad, Unknown}
    PROVE  /\ RoomLearned(p) \in Pins /\ AllKept(p, RoomLearned(p))
           /\ AddressLearned(p, s) \in Pins /\ AllKept(p, AddressLearned(p, s))
           /\ MacPinned(p, s) \in Pins /\ AllKept(p, MacPinned(p, s))
           /\ [p EXCEPT !.padMac = Pad] \in Pins /\ AllKept(p, [p EXCEPT !.padMac = Pad])
           /\ AllKept(p, EndpointsLearned(p, s, ip))
  <1> USE PeersAssumption, UnknownAssumption DEF Pins, Somebody, Pad, Unknown, NoDoor, AllKept, Kept
  <1>1. RoomLearned(p) \in Pins /\ AllKept(p, RoomLearned(p))
    BY DEF RoomLearned
  <1>2. AddressLearned(p, s) \in Pins /\ AllKept(p, AddressLearned(p, s))
    BY DEF AddressLearned, AddressFits
  <1>3. MacPinned(p, s) \in Pins /\ AllKept(p, MacPinned(p, s))
    BY DEF MacPinned
  <1>4. [p EXCEPT !.padMac = Pad] \in Pins /\ AllKept(p, [p EXCEPT !.padMac = Pad])
    OBVIOUS
  <1>5. AllKept(p, EndpointsLearned(p, s, ip))
    <2>1. CASE EndpointsFit(p, s, ip)
      BY <2>1 DEF EndpointsLearned, EndpointsFit
    <2>2. CASE ~EndpointsFit(p, s, ip)
      BY <2>2 DEF EndpointsLearned
    <2>3. QED
      BY <2>1, <2>2
  <1>6. QED
    BY <1>1, <1>2, <1>3, <1>4, <1>5

LEMMA KeptTwice ==
    ASSUME NEW p, NEW q, NEW r, AllKept(p, q), AllKept(q, r)
    PROVE  AllKept(p, r)
  BY DEF AllKept, Kept

(***************************************************************************)
(* No step replaces a pin, whoever sends the packet.                       *)
(***************************************************************************)
LEMMA StepKeepsPins ==
    ASSUME IInv, Next
    PROVE  AllKept(pins, pins')
  <1>1. pins \in Pins /\ AllKept(pins, pins)
    BY DEF IInv, TypeOK, AllKept, Kept
  <1>2. ASSUME NEW p \in Pins, AllKept(pins, p), NEW s \in Stations,
               NEW ip \in {Pad, Unknown}, pins' \in {p, EndpointsLearned(p, s, ip)}
        PROVE  AllKept(pins, pins')
    <2>1. AllKept(p, EndpointsLearned(p, s, ip))
      BY <1>2, LearningKeeps
    <2>2. CASE pins' = p
      BY <1>2, <2>2
    <2>3. CASE pins' = EndpointsLearned(p, s, ip)
      BY <1>2, <2>1, <2>3, KeptTwice
    <2>4. QED
      BY <1>2, <2>2, <2>3
  <1>3. ASSUME NEW s \in Stations, NEW ip \in {Pad, Unknown}, NEW m \in Messages,
               Datagram(s, ip, m)
        PROVE  AllKept(pins, pins')
    <2> DEFINE p == AddressLearned(RoomLearned(pins), s)
    <2>1. /\ RoomLearned(pins) \in Pins /\ AllKept(pins, RoomLearned(pins))
          /\ p \in Pins /\ AllKept(RoomLearned(pins), p)
      BY <1>1, LearningKeeps
    <2>2. pins' \in {p, EndpointsLearned(p, s, ip)}
      BY <1>3 DEF Datagram, OnWire
    <2>3. AllKept(pins, p)
      BY <2>1, KeptTwice
    <2>4. QED
      BY <1>2, <2>1, <2>2, <2>3
  <1>4. ASSUME NEW s \in Stations, NEW ip \in {Pad, Unknown}, NEW m \in Messages,
               DoorFrame(s, ip, m)
        PROVE  AllKept(pins, pins')
    <2> DEFINE p == MacPinned(pins, s)
    <2>1. p \in Pins /\ AllKept(pins, p)
      BY <1>1, LearningKeeps
    <2>2. pins' \in {p, EndpointsLearned(p, s, ip)}
      BY <1>4 DEF DoorFrame, OnWire
    <2>3. QED
      BY <1>2, <2>1, <2>2
  <1>5. ASSUME NEW s \in Stations, NEW m \in Messages, PadFrame(s, m)
        PROVE  AllKept(pins, pins')
    <2> DEFINE p == [pins EXCEPT !.padMac = Pad]
    <2>1. p \in Pins /\ AllKept(pins, p)
      BY <1>1, LearningKeeps
    <2>2. pins' \in {p, EndpointsLearned(p, s, Pad)}
      BY <1>5 DEF PadFrame, OnWire
    <2>3. QED
      BY <1>2, <2>1, <2>2
  <1>6. ASSUME NEW s \in Stations, OtherDatagram(s) \/ DoorAsks(s)
        PROVE  AllKept(pins, pins')
    <2>1. CASE OtherDatagram(s)
      <3> DEFINE p == RoomLearned(pins)
      <3>1. p \in Pins /\ AllKept(pins, p)
        BY <1>1, LearningKeeps
      <3>2. AllKept(p, AddressLearned(p, s))
        BY <3>1, LearningKeeps
      <3>3. pins' = AddressLearned(p, s)
        BY <2>1 DEF OtherDatagram
      <3>4. QED
        BY <3>1, <3>2, <3>3, KeptTwice
    <2>2. CASE DoorAsks(s)
      <3> DEFINE p == AddressLearned(pins, s)
      <3>1. p \in Pins /\ AllKept(pins, p)
        BY <1>1, LearningKeeps
      <3>2. AllKept(p, MacPinned(p, s))
        BY <3>1, LearningKeeps
      <3>3. pins' = MacPinned(p, s)
        BY <2>2 DEF DoorAsks
      <3>4. QED
        BY <3>1, <3>2, <3>3, KeptTwice
    <2>3. QED
      BY <1>6, <2>1, <2>2
  <1>7. CASE PadReplies
    <2>1. pins' = [RoomLearned(pins) EXCEPT !.padMac = Pad]
      BY <1>7 DEF PadReplies
    <2>2. CASE Stations = {}
      BY <1>1, <2>1 DEF RoomLearned, AllKept, Kept, Pins, Pad, Unknown
    <2>3. CASE Stations # {}
      BY <1>1, <2>1, <2>3, LearningKeeps, KeptTwice
    <2>4. QED
      BY <2>2, <2>3
  <1>8. CASE CommandEnds \/ Divert
    BY <1>1, <1>8 DEF CommandEnds, Divert
  <1>9. QED
    BY <1>3, <1>4, <1>5, <1>6, <1>7, <1>8 DEF Next

(***************************************************************************)
(* What is pinned is never replaced (learn_address, pin_mac,               *)
(* accept_endpoints).                                                      *)
(***************************************************************************)
THEOREM NeverRepinned == Spec => PinnedForGood
  <1>1. IInv /\ [Next]_vars =>
          [/\ Kept(pins.room, pins'.room) /\ Kept(pins.padMac, pins'.padMac)
           /\ Kept(pins.door.id, pins'.door.id) /\ Kept(pins.door.ip, pins'.door.ip)
           /\ Kept(pins.doorMac, pins'.doorMac)]_vars
    BY StepKeepsPins DEF AllKept, vars
  <1>2. QED
    BY <1>1, Invariant, PTL DEF Spec, PinnedForGood
--------------------------------------------------------------------------------
(***************************************************************************)
(* The reassembler.  An image some of whose fragments have come and that   *)
(* was not shown is open: its number's entry holds what came of it, and    *)
(* nothing else, and the numbers queued behind its own are younger ones.   *)
(***************************************************************************)
Behind(q, seq) == {q[n] : n \in {n \in DOMAIN q : \E m \in 1..(n - 1) : q[m] = seq}}

IsOpen(i) ==
    /\ i.seq \in DOMAIN frames /\ frames[i.seq].count = i.count
    /\ frames[i.seq].parts = [k \in arrived[i] |-> i]
    /\ arrived[i] # 1..i.count
    /\ Behind(order, i.seq) \subseteq younger[i]

Excused(i) == i \in whole \/ i \in clashed \/ Cardinality(younger[i]) >= OpenFrames

AssemblyTyped ==
    /\ order \in Seq(Nat)
    /\ arrived \in [Images -> SUBSET Nat] /\ DOMAIN younger = Images
    /\ \A i \in Images : IsFiniteSet(younger[i])
    /\ \A seq \in DOMAIN frames :
          /\ DOMAIN frames[seq] = {"count", "parts"} /\ Range(frames[seq].parts) # {}
          /\ \A i \in Range(frames[seq].parts) : i \in Images /\ arrived[i] # {}

ImagesInv ==
    \A i \in Images :
        /\ arrived[i] = {} => younger[i] = {}
        /\ arrived[i] # {} => Excused(i) \/ IsOpen(i)

AssemblyInv == AssemblyTyped /\ BufferInStep /\ ImagesInv

(***************************************************************************)
(* The places that remain of 1..N are numbered from 1 on, in their order.  *)
(***************************************************************************)
Place(K, i) == Cardinality({j \in K : j <= i})

LEMMA FirstNumbers ==
  ASSUME NEW N \in Nat
  PROVE  IsFiniteSet(1..N) /\ Cardinality(1..N) = N
  BY FS_Interval

LEMMA PlacesAreNumbers ==
  ASSUME NEW N \in Nat, NEW K \in SUBSET (1..N)
  PROVE  /\ IsFiniteSet(K) /\ Cardinality(K) \in Nat /\ Cardinality(K) <= N
         /\ \A i \in K : Place(K, i) \in 1..Cardinality(K)
         /\ \A i, j \in K : i < j => Place(K, i) < Place(K, j)
         /\ \A n \in 1..Cardinality(K) : \E i \in K : Place(K, i) = n
  <1> DEFINE Upto(i) == {j \in K : j <= i}
             c == Cardinality(K)
             place == [i \in K |-> Place(K, i)]
  <1>1. IsFiniteSet(1..N) /\ Cardinality(1..N) = N
    BY FirstNumbers
  <1>n. \A i \in K : i \in Nat
    OBVIOUS
  <1>2. IsFiniteSet(K) /\ c \in Nat /\ c <= N
    BY <1>1, FS_Subset, FS_CardinalityType
  <1>3. ASSUME NEW i \in K
        PROVE  /\ IsFiniteSet(Upto(i)) /\ Place(K, i) = Cardinality(Upto(i))
               /\ Place(K, i) \in 1..c
    <2>1. Upto(i) \in SUBSET K
      OBVIOUS
    <2>2. IsFiniteSet(Upto(i)) /\ Cardinality(Upto(i)) <= c /\ Cardinality(Upto(i)) \in Nat
      BY <1>2, <2>1, FS_Subset, FS_CardinalityType
    <2>3. i \in Upto(i)
      OBVIOUS
    <2>4. Cardinality(Upto(i)) # 0
      BY <2>2, <2>3, FS_EmptySet
    <2>5. QED
      BY <1>2, <2>2, <2>4 DEF Place
  <1>4. ASSUME NEW i \in K, NEW j \in K, i < j
        PROVE  Place(K, i) < Place(K, j)
    <2>n. i \in Nat /\ j \in Nat
      BY <1>n
    <2>1. Upto(i) \in SUBSET (Upto(j) \ {j}) /\ j \in Upto(j)
      <3>1. ASSUME NEW x \in K, x <= i PROVE x <= j /\ x # j
        BY <1>n, <2>n, <1>4, <3>1
      <3>2. j <= j
        BY <2>n
      <3>3. QED
        BY <3>1, <3>2
    <2>2. /\ IsFiniteSet(Upto(j) \ {j})
          /\ Cardinality(Upto(j) \ {j}) = Cardinality(Upto(j)) - 1
      BY <1>3, <2>1, FS_RemoveElement
    <2>3. Cardinality(Upto(i)) <= Cardinality(Upto(j) \ {j})
      BY <2>1, <2>2, FS_Subset
    <2>4. /\ Place(K, i) = Cardinality(Upto(i)) /\ Place(K, j) = Cardinality(Upto(j))
          /\ Place(K, i) \in Nat /\ Place(K, j) \in Nat
      BY <1>2, <1>3
    <2> HIDE DEF Upto
    <2>5. QED
      BY <2>2, <2>3, <2>4
  <1>5. \A n \in 1..c : \E i \in K : Place(K, i) = n
    <2>1. place \in [K -> 1..c]
      BY <1>3
    <2>2. \A i, j \in K : Place(K, i) = Place(K, j) => i = j
      <3>0. \A i \in K : Place(K, i) \in 1..c
        BY <1>3
      <3>1. \A i \in K : Place(K, i) \in Nat /\ i \in Nat
        BY <1>n, <1>2, <3>0
      <3>2. QED
        BY <1>4, <3>1
    <2>3. place \in Injection(K, 1..c)
      BY <2>1, <2>2 DEF Injection, IsInjective
    <2>4. IsFiniteSet(1..c) /\ Cardinality(1..c) = c
      BY <1>2, FS_Interval
    <2>5. place \in Surjection(K, 1..c)
      BY <2>3, <2>4, FS_Injection
    <2>6. QED
      BY <2>5 DEF Surjection
  <1>6. QED
    BY <1>2, <1>3, <1>4, <1>5

(***************************************************************************)
(* retain() keeps the other items, in their order.                         *)
(***************************************************************************)
LEMMA RetainKeeps ==
  ASSUME NEW q \in Seq(Nat), NEW gone
  PROVE  LET r == Retain(q, gone)
         IN  /\ r \in Seq(Nat) /\ Len(r) <= Len(q)
             /\ gone \in Range(q) => Len(r) < Len(q)
             /\ Range(r) = Range(q) \ {gone}
             /\ IsInjective(q) => IsInjective(r)
             /\ \A seq : Behind(r, seq) \subseteq Behind(q, seq)
  <1> DEFINE r == Retain(q, gone)
             K == {i \in DOMAIN q : q[i] # gone}
             c == Cardinality(K)
             at(n) == CHOOSE i \in K : Place(K, i) = n
  <1>1. Len(q) \in Nat /\ DOMAIN q = 1..Len(q) /\ K \in SUBSET (1..Len(q))
    OBVIOUS
  <1>2. r = [n \in 1..c |-> q[at(n)]]
    BY DEF Retain, Place
  <1> HIDE DEF K, r
  <1>3. c \in Nat /\ c <= Len(q)
    BY <1>1, PlacesAreNumbers
  <1>4. \A n \in 1..c : at(n) \in K /\ Place(K, at(n)) = n
    BY <1>1, PlacesAreNumbers
  <1>5. \A i \in K : i \in 1..Len(q) /\ Place(K, i) \in 1..c
    BY <1>1, PlacesAreNumbers
  <1>6. \A i, j \in K : Place(K, i) < Place(K, j) => i < j
    <2>1. \A i, j \in K : i < j => Place(K, i) < Place(K, j)
      BY <1>1, PlacesAreNumbers
    <2>2. \A i \in K : i \in Nat /\ Place(K, i) \in Nat
      BY <1>3, <1>5
    <2>3. QED
      BY <2>1, <2>2
  <1> HIDE DEF c, at
  <1>7. \A i, j \in K : Place(K, i) = Place(K, j) => i = j
    <2>1. \A i, j \in K : i < j => Place(K, i) < Place(K, j)
      BY <1>1, PlacesAreNumbers
    <2>2. \A i \in K : i \in Nat /\ Place(K, i) \in Nat
      BY <1>3, <1>5
    <2>3. QED
      BY <2>1, <2>2
  <1>8. r \in Seq(Nat) /\ Len(r) = c /\ DOMAIN r = 1..c
    <2>1. \A n \in 1..c : at(n) \in 1..Len(q)
      BY <1>4, <1>5
    <2>2. \A n \in 1..c : q[at(n)] \in Nat
      BY <2>1
    <2>3. QED
      BY <1>2, <1>3, <2>2
  <1>9. gone \in Range(q) => c < Len(q)
    <2> SUFFICES ASSUME gone \in Range(q) PROVE c < Len(q)
      OBVIOUS
    <2>1. PICK k \in 1..Len(q) : q[k] = gone
      BY <1>1 DEF Range
    <2>2. K \in SUBSET ((1..Len(q)) \ {k})
      BY <1>1, <2>1 DEF K
    <2>n. Len(q) \in Nat
      OBVIOUS
    <2>3. IsFiniteSet(1..Len(q)) /\ Cardinality(1..Len(q)) = Len(q)
      BY <2>n, FirstNumbers
    <2>4. /\ IsFiniteSet((1..Len(q)) \ {k})
          /\ Cardinality((1..Len(q)) \ {k}) = Len(q) - 1
      BY <2>1, <2>3, FS_RemoveElement
    <2>5. Cardinality(K) <= Cardinality((1..Len(q)) \ {k})
      BY <2>2, <2>4, FS_Subset
    <2>6. QED
      BY <2>n, <1>3, <2>4, <2>5 DEF c
  <1>10. Range(r) = Range(q) \ {gone}
    <2>1. \A n \in 1..c : q[at(n)] \in Range(q) \ {gone}
      BY <1>1, <1>4 DEF K, Range
    <2>2. \A i \in K : \E n \in 1..c : at(n) = i
      BY <1>4, <1>5, <1>7
    <2>3. \A i \in DOMAIN q : q[i] # gone => i \in K
      BY DEF K
    <2>4. Range(r) = {q[at(n)] : n \in 1..c}
      BY <1>2 DEF Range
    <2>5. QED
      BY <2>1, <2>2, <2>3, <2>4 DEF Range
  <1>11. IsInjective(q) => IsInjective(r)
    <2> SUFFICES ASSUME IsInjective(q), NEW m \in 1..c, NEW n \in 1..c, r[m] = r[n]
                 PROVE  m = n
      BY <1>8 DEF IsInjective
    <2>1. q[at(m)] = q[at(n)]
      BY <1>2
    <2>2. at(m) = at(n)
      BY <1>1, <1>4, <1>5, <2>1 DEF IsInjective
    <2>3. QED
      BY <1>4, <2>2
  <1>12. ASSUME NEW seq, NEW x \in Behind(r, seq)
         PROVE  x \in Behind(q, seq)
    <2>1. PICK n \in 1..c : x = r[n] /\ \E m \in 1..(n - 1) : r[m] = seq
      BY <1>8, <1>12 DEF Behind
    <2>2. PICK m \in 1..(n - 1) : r[m] = seq
      BY <2>1
    <2>3. m \in 1..c /\ m < n
      BY <1>3
    <2>4. x = q[at(n)] /\ q[at(m)] = seq
      BY <1>2, <2>1, <2>2, <2>3
    <2>5. at(m) \in 1..Len(q) /\ at(n) \in 1..Len(q) /\ at(m) < at(n)
      BY <1>4, <1>5, <1>6, <2>3
    <2>6. at(m) \in 1..(at(n) - 1)
      BY <2>5
    <2>7. QED
      BY <1>1, <2>4, <2>5, <2>6 DEF Behind
  <1>13. QED
    BY <1>3, <1>8, <1>9, <1>10, <1>11, <1>12 DEF r

(***************************************************************************)
(* A queue of different numbers: how long it is, what an item at its end   *)
(* adds (push_back), and what is left without its first (pop_front).       *)
(***************************************************************************)
LEMMA QueueCounts ==
  ASSUME NEW q \in Seq(Nat), IsInjective(q)
  PROVE  IsFiniteSet(Range(q)) /\ Cardinality(Range(q)) = Len(q)
  <1>1. Len(q) \in Nat /\ DOMAIN q = 1..Len(q)
    OBVIOUS
  <1>2. IsFiniteSet(1..Len(q)) /\ Cardinality(1..Len(q)) = Len(q)
    BY <1>1, FirstNumbers
  <1>3. q \in [1..Len(q) -> Range(q)]
    BY <1>1 DEF Range
  <1>4. \A x \in Range(q) : \E n \in 1..Len(q) : q[n] = x
    BY <1>1 DEF Range
  <1>5. q \in Bijection(1..Len(q), Range(q))
    BY <1>3, <1>4 DEF Bijection, Injection, Surjection
  <1>6. QED
    BY <1>2, <1>5, FS_Bijection DEF ExistsBijection

LEMMA AppendKeepsApart ==
  ASSUME NEW q \in Seq(Nat), NEW x \in Nat, IsInjective(q), x \notin Range(q)
  PROVE  LET r == Append(q, x)
         IN  /\ r \in Seq(Nat) /\ Len(r) = Len(q) + 1
             /\ IsInjective(r) /\ Range(r) = Range(q) \cup {x}
             /\ \A seq : Behind(r, seq) \subseteq Behind(q, seq) \cup {x}
             /\ Behind(r, x) = {}
  <1> DEFINE r == Append(q, x)
             L == Len(q)
  <1>1. /\ r \in Seq(Nat) /\ Len(r) = L + 1 /\ L \in Nat
        /\ \A n \in 1..L : r[n] = q[n]
        /\ r[L + 1] = x
        /\ DOMAIN q = 1..L /\ DOMAIN r = 1..(L + 1)
    BY AppendProperties
  <1>2. \A n \in 1..(L + 1) : n \in 1..L \/ n = L + 1
    BY <1>1
  <1>3. \A n \in 1..L : q[n] # x
    BY <1>1 DEF Range
  <1> HIDE DEF r, L
  <1>4. IsInjective(r)
    BY <1>1, <1>2, <1>3 DEF IsInjective
  <1>5. Range(r) = Range(q) \cup {x}
    <2>1. L + 1 \in 1..(L + 1) /\ \A n \in 1..L : n \in 1..(L + 1)
      BY <1>1
    <2>2. \A y \in Range(r) : y \in Range(q) \cup {x}
      BY <1>1, <1>2 DEF Range
    <2>3. \A y \in Range(q) \cup {x} : y \in Range(r)
      BY <1>1, <2>1 DEF Range
    <2>4. QED
      BY <2>2, <2>3
  <1>6. \A n \in 1..(L + 1) : \A m \in 1..(n - 1) : m \in 1..L
    BY <1>1
  <1>7. ASSUME NEW seq, NEW y \in Behind(r, seq), y # x
        PROVE  y \in Behind(q, seq)
    <2>1. PICK n \in 1..(L + 1) : y = r[n] /\ \E m \in 1..(n - 1) : r[m] = seq
      BY <1>1, <1>7 DEF Behind
    <2>2. n \in 1..L
      BY <1>1, <1>2, <1>7, <2>1
    <2>3. y = q[n] /\ \E m \in 1..(n - 1) : q[m] = seq
      BY <1>1, <1>6, <2>1, <2>2
    <2>4. QED
      BY <1>1, <2>2, <2>3 DEF Behind
  <1>8. Behind(r, x) = {}
    BY <1>1, <1>3, <1>6 DEF Behind
  <1>9. QED
    BY <1>1, <1>4, <1>5, <1>7, <1>8 DEF r, L

LEMMA FrontLeaves ==
  ASSUME NEW q \in Seq(Nat), IsInjective(q), Len(q) >= 1
  PROVE  LET r == SubSeq(q, 2, Len(q))
         IN  /\ r \in Seq(Nat) /\ Len(r) = Len(q) - 1
             /\ IsInjective(r) /\ Range(r) = Range(q) \ {q[1]}
             /\ q[1] \in Range(q) /\ Range(r) \subseteq Behind(q, q[1])
             /\ \A seq : Behind(r, seq) \subseteq Behind(q, seq)
  <1> DEFINE r == SubSeq(q, 2, Len(q))
             L == Len(q)
  <1>1. L \in Nat /\ L >= 1 /\ DOMAIN q = 1..L
    OBVIOUS
  <1>2. \A i \in 2..L : q[i] \in Nat
    BY <1>1
  <1>3. /\ r \in Seq(Nat) /\ Len(r) = L - 1
        /\ \A i \in 1..(L - 1) : r[i] = q[i + 1]
    <2>1. L - 2 + 1 = L - 1 /\ (2 <= L \/ L - 1 = 0)
      BY <1>1
    <2>2. \A i \in 1..(L - 1) : 2 + i - 1 = i + 1
      BY <1>1
    <2>3. /\ r \in Seq(Nat) /\ Len(r) = IF 2 <= L THEN L - 2 + 1 ELSE 0
          /\ \A i \in 1..(L - 2 + 1) : r[i] = q[2 + i - 1]
      BY <1>1, <1>2, SubSeqProperties
    <2> HIDE DEF r
    <2>4. QED
      BY <1>1, <2>1, <2>2, <2>3
  <1>4. DOMAIN r = 1..(L - 1)
    BY <1>3
  <1> HIDE DEF r, L
  <1>a. 1 \in 1..L
    BY <1>1
  <1>b. ASSUME NEW i \in 1..(L - 1)
        PROVE  i + 1 \in 1..L /\ i + 1 # 1 /\ 1 \in 1..((i + 1) - 1)
    BY <1>1
  <1>c. ASSUME NEW n \in 1..L, n # 1
        PROVE  n - 1 \in 1..(L - 1) /\ (n - 1) + 1 = n
    BY <1>1, <1>c
  <1>d. \A m, n \in 1..L : q[m] = q[n] => m = n
    BY <1>1 DEF IsInjective
  <1>5. ASSUME NEW i \in 1..(L - 1)
        PROVE  r[i] = q[i + 1] /\ i + 1 \in 1..L /\ q[i + 1] # q[1]
    BY <1>3, <1>a, <1>b, <1>d
  <1>7. ASSUME NEW n \in 1..L, n # 1
        PROVE  n - 1 \in 1..(L - 1) /\ r[n - 1] = q[n]
    BY <1>3, <1>7, <1>c
  <1>6. IsInjective(r)
    <2> SUFFICES ASSUME NEW m \in 1..(L - 1), NEW n \in 1..(L - 1), r[m] = r[n]
                 PROVE  m = n
      BY <1>4 DEF IsInjective
    <2>1. m + 1 = n + 1
      BY <1>5, <1>d
    <2>2. QED
      BY <1>1, <2>1
  <1>8. Range(r) = Range(q) \ {q[1]}
    <2>1. ASSUME NEW i \in 1..(L - 1) PROVE r[i] \in Range(q) \ {q[1]}
      BY <1>1, <1>5 DEF Range
    <2>2. ASSUME NEW n \in 1..L, q[n] # q[1] PROVE q[n] \in Range(r)
      BY <1>4, <1>7, <2>2 DEF Range
    <2>3. \A y \in Range(r) : y \in Range(q) \ {q[1]}
      BY <1>4, <2>1 DEF Range
    <2>4. \A y \in Range(q) : y # q[1] => y \in Range(r)
      BY <1>1, <2>2 DEF Range
    <2>5. QED
      BY <2>3, <2>4
  <1>9. Range(r) \subseteq Behind(q, q[1])
    <2>1. ASSUME NEW i \in 1..(L - 1) PROVE q[i + 1] \in Behind(q, q[1])
      BY <1>1, <1>b DEF Behind
    <2>2. QED
      BY <1>4, <1>5, <2>1 DEF Range
  <1>10. ASSUME NEW seq, NEW y \in Behind(r, seq)
         PROVE  y \in Behind(q, seq)
    <2>1. PICK n \in 1..(L - 1) : y = r[n] /\ \E m \in 1..(n - 1) : r[m] = seq
      BY <1>4, <1>10 DEF Behind
    <2>2. PICK m \in 1..(n - 1) : r[m] = seq
      BY <2>1
    <2>3. m \in 1..(L - 1) /\ m + 1 \in 1..((n + 1) - 1)
      BY <1>1
    <2>4. y = q[n + 1] /\ q[m + 1] = seq /\ n + 1 \in 1..L
      BY <1>5, <2>1, <2>2, <2>3
    <2>5. QED
      BY <1>1, <2>3, <2>4 DEF Behind
  <1>11. q[1] \in Range(q)
    BY <1>1 DEF Range
  <1>12. QED
    BY <1>3, <1>6, <1>8, <1>9, <1>10, <1>11 DEF r, L

(***************************************************************************)
(* The queue with the number of a fragment in it (push).                   *)
(***************************************************************************)
LEMMA FragmentIs ==
  ASSUME NEW f \in Fragments
  PROVE  /\ f.image \in Images /\ f.image.seq \in Nat
         /\ f.image.count \in Nat /\ f.image.count >= 1
         /\ f.index \in 1..f.image.count /\ Acceptable(f)
  <1>1. f.image \in Images /\ f.index \in 1..f.image.count
    BY DEF Fragments
  <1>2. QED
    BY <1>1, ImagesAssumption DEF Acceptable

LEMMA QueuedIs ==
  ASSUME AssemblyTyped, BufferInStep, NEW f \in Fragments
  PROVE  LET q == Queued(f.image.seq)
         IN  /\ q \in Seq(Nat) /\ IsInjective(q)
             /\ Range(q) = DOMAIN frames \cup {f.image.seq}
             /\ Len(q) <= OpenFrames + 1
             /\ \A seq : Behind(q, seq) \subseteq Behind(order, seq) \cup {f.image.seq}
             /\ f.image.seq \notin DOMAIN frames => Behind(q, f.image.seq) = {}
             /\ f.image.seq \in DOMAIN frames =>
                  \A seq : Behind(q, seq) \subseteq Behind(order, seq)
  <1>1. /\ order \in Seq(Nat) /\ IsInjective(order) /\ Range(order) = DOMAIN frames
        /\ Len(order) <= OpenFrames /\ Len(order) \in Nat /\ OpenFrames \in Nat
    BY OpenFramesAssumption DEF AssemblyTyped, BufferInStep
  <1>2. f.image.seq \in Nat
    BY FragmentIs
  <1>3. CASE f.image.seq \in DOMAIN frames
    BY <1>1, <1>3 DEF Queued
  <1>4. CASE f.image.seq \notin DOMAIN frames
    <2>1. Queued(f.image.seq) = Append(order, f.image.seq)
      BY <1>4 DEF Queued
    <2>2. QED
      BY <1>1, <1>2, <1>4, <2>1, AppendKeepsApart
  <1>5. QED
    BY <1>3, <1>4

(***************************************************************************)
(* No more than the first of the queue has to leave (trim).                *)
(***************************************************************************)
LEMMA LeavingIs ==
  ASSUME NEW open, NEW q \in Seq(Nat), IsInjective(q), DOMAIN open = Range(q),
         Len(q) <= OpenFrames + 1
  PROVE  Leaving(open, q) = IF Len(q) <= OpenFrames THEN 0 ELSE 1
  <1> DEFINE Left(n) == DOMAIN Without(open, Range(SubSeq(q, 1, n)))
             Fits(n) == /\ Cardinality(Left(n)) <= OpenFrames
                        /\ \A m \in 0..n - 1 : Cardinality(Left(m)) > OpenFrames
  <1>1. /\ Len(q) \in Nat /\ OpenFrames \in Nat /\ OpenFrames >= 1
        /\ DOMAIN q = 1..Len(q)
    BY OpenFramesAssumption
  <1>2. IsFiniteSet(Range(q)) /\ Cardinality(Range(q)) = Len(q)
    BY QueueCounts
  <1>3. \A n : Left(n) = Range(q) \ Range(SubSeq(q, 1, n))
    BY DEF Without, Restrict
  <1>4. Cardinality(Left(0)) = Len(q)
    <2>1. SubSeq(q, 1, 0) = <<>>
      BY SubSeqEmpty
    <2>2. Range(<<>>) = {}
      BY DEF Range
    <2>3. Left(0) = Range(q)
      BY <1>3, <2>1, <2>2
    <2>4. QED
      BY <1>2, <2>3
  <1>5. Leaving(open, q) = CHOOSE n \in 0..Len(q) : Fits(n)
    BY DEF Leaving
  <1> HIDE DEF Left
  <1>6. CASE Len(q) <= OpenFrames
    <2>1. Fits(0) /\ 0 \in 0..Len(q)
      BY <1>1, <1>4, <1>6
    <2>2. ASSUME NEW n \in 0..Len(q), Fits(n) PROVE n = 0
      <3>1. n # 0 => 0 \in 0..n - 1
        BY <1>1
      <3>2. ~(Cardinality(Left(0)) > OpenFrames)
        BY <1>1, <1>4, <1>6
      <3>3. QED
        BY <2>2, <3>1, <3>2
    <2> HIDE DEF Fits
    <2>3. (CHOOSE n \in 0..Len(q) : Fits(n)) = 0
      BY <2>1, <2>2
    <2>4. QED
      BY <1>5, <1>6, <2>3
  <1>7. CASE ~(Len(q) <= OpenFrames)
    <2>0. Len(q) > OpenFrames
      BY <1>1, <1>7
    <2>1. Len(q) = OpenFrames + 1 /\ Len(q) >= 1 /\ 1 \in 1..Len(q)
      <3>0. \A a, b \in Nat : a <= b + 1 /\ a > b => a = b + 1
        OBVIOUS
      <3>1. Len(q) = OpenFrames + 1
        BY <1>1, <2>0, <3>0
      <3>2. QED
        BY <1>1, <3>1
    <2>2. Cardinality(Left(1)) = OpenFrames
      <3>1. q[1] \in Nat /\ q[1] \in Range(q)
        BY <1>1, <2>1 DEF Range
      <3>2. /\ SubSeq(q, 1, 1) \in Seq(Nat) /\ Len(SubSeq(q, 1, 1)) = 1
            /\ SubSeq(q, 1, 1)[1] = q[1]
        <4>1. \A i \in 1..1 : q[i] \in Nat
          BY <3>1
        <4>2. QED
          BY <4>1, SubSeqProperties
      <3>3. Range(SubSeq(q, 1, 1)) = {q[1]}
        <4> DEFINE r == SubSeq(q, 1, 1)
        <4> HIDE DEF r
        <4>1. r \in Seq(Nat) /\ Len(r) = 1 /\ r[1] = q[1]
          BY <3>2 DEF r
        <4>2. DOMAIN r = {1}
          BY <4>1
        <4>3. Range(r) = {q[1]}
          BY <4>1, <4>2 DEF Range
        <4>4. QED
          BY <4>3 DEF r
      <3>4. Left(1) = Range(q) \ {q[1]}
        BY <1>3, <3>3
      <3>5. Cardinality(Left(1)) = Len(q) - 1
        BY <1>2, <3>1, <3>4, FS_RemoveElement
      <3>6. QED
        BY <1>1, <2>1, <3>5
    <2>3. Fits(1) /\ 1 \in 0..Len(q)
      <3>1. \A m \in 0..1 - 1 : m = 0
        BY <1>1
      <3>2. QED
        BY <1>1, <1>4, <2>1, <2>2, <3>1
    <2>4. ASSUME NEW n \in 0..Len(q), Fits(n) PROVE n = 1
      <3>1. n # 0
        BY <1>1, <1>4, <2>1, <2>4
      <3>2. n # 1 => 1 \in 0..n - 1
        BY <1>1, <3>1
      <3>3. ~(Cardinality(Left(1)) > OpenFrames)
        BY <1>1, <2>2
      <3>4. QED
        BY <2>4, <3>2, <3>3
    <2> HIDE DEF Fits
    <2>5. (CHOOSE n \in 0..Len(q) : Fits(n)) = 1
      BY <2>3, <2>4
    <2>6. QED
      BY <1>5, <1>7, <2>5
  <1>8. QED
    BY <1>6, <1>7

(***************************************************************************)
(* What a fragment leaves in the buffer: without its number if its frame   *)
(* is complete, and otherwise with it, but without the first of the queue  *)
(* if that is too long (push, trim).                                       *)
(***************************************************************************)
Completes(f) ==
    /\ Complete(Filled(f))
    /\ order' = Retain(Queued(f.image.seq), f.image.seq)
    /\ DOMAIN frames' = DOMAIN frames \ {f.image.seq}
    /\ \A seq \in DOMAIN frames' : frames'[seq] = frames[seq]

Stays(f) ==
    LET q == Queued(f.image.seq)
    IN  /\ ~Complete(Filled(f))
        /\ \/ order' = q /\ Len(q) <= OpenFrames
           \/ order' = SubSeq(q, 2, Len(q)) /\ Len(q) = OpenFrames + 1
        /\ DOMAIN frames' = Range(order')
        /\ \A seq \in DOMAIN frames' :
             frames'[seq] = IF seq = f.image.seq THEN Filled(f) ELSE frames[seq]

LEMMA PushLeaves ==
  ASSUME AssemblyTyped, BufferInStep, NEW f \in Fragments, PushFragment(f)
  PROVE  Completes(f) \/ Stays(f)
  <1> DEFINE seq == f.image.seq
             q == Queued(seq)
             open == With(frames, seq, Filled(f))
             n == Leaving(open, q)
  <1>1. Acceptable(f)
    BY FragmentIs
  <1>2. /\ q \in Seq(Nat) /\ IsInjective(q) /\ Range(q) = DOMAIN frames \cup {seq}
        /\ Len(q) <= OpenFrames + 1
    BY QueuedIs
  <1>3. /\ DOMAIN open = DOMAIN frames \cup {seq}
        /\ \A k \in DOMAIN open : open[k] = IF k = seq THEN Filled(f) ELSE frames[k]
    BY DEF With
  <1>4. CASE Complete(Filled(f))
    <2>1. frames' = Without(frames, {seq}) /\ order' = Retain(q, seq)
      BY <1>1, <1>4 DEF PushFragment, Collect
    <2>2. /\ DOMAIN frames' = DOMAIN frames \ {seq}
          /\ \A k \in DOMAIN frames' : frames'[k] = frames[k]
      BY <2>1 DEF Without, Restrict
    <2>3. QED
      BY <1>4, <2>1, <2>2 DEF Completes
  <1>5. CASE ~Complete(Filled(f))
    <2>1. /\ frames' = Without(open, Range(SubSeq(q, 1, n)))
          /\ order' = SubSeq(q, n + 1, Len(q))
      BY <1>1, <1>5 DEF PushFragment, Keep
    <2>2. n = IF Len(q) <= OpenFrames THEN 0 ELSE 1
      BY <1>2, <1>3, LeavingIs
    <2>3. \A k \in DOMAIN frames' : k \in DOMAIN open /\ frames'[k] = open[k]
      BY <2>1 DEF Without, Restrict
    <2>4. DOMAIN frames' = (DOMAIN frames \cup {seq}) \ Range(SubSeq(q, 1, n))
      BY <1>3, <2>1 DEF Without, Restrict
    <2>5. Len(q) \in Nat /\ OpenFrames \in Nat
      BY <1>2, OpenFramesAssumption
    <2> HIDE DEF open, n
    <2>6. CASE Len(q) <= OpenFrames
      <3>1. n = 0
        BY <2>2, <2>6
      <3>2. order' = q
        BY <1>2, <2>1, <3>1, SubSeqFull
      <3>3. Range(SubSeq(q, 1, n)) = {}
        <4>1. SubSeq(q, 1, 0) = <<>>
          BY SubSeqEmpty
        <4>2. QED
          BY <3>1, <4>1 DEF Range
      <3>4. DOMAIN frames' = Range(order')
        BY <1>2, <2>4, <3>2, <3>3
      <3>5. QED
        BY <1>3, <1>5, <2>3, <2>6, <3>2, <3>4 DEF Stays
    <2>7. CASE ~(Len(q) <= OpenFrames)
      <3>1. n = 1 /\ Len(q) > OpenFrames
        BY <2>2, <2>5, <2>7
      <3>2. \A a, b \in Nat : a <= b + 1 /\ a > b => a = b + 1 /\ a >= 1
        OBVIOUS
      <3>3. Len(q) = OpenFrames + 1 /\ Len(q) >= 1
        BY <1>2, <2>5, <3>1, <3>2
      <3>4. order' = SubSeq(q, 2, Len(q)) /\ Range(order') = Range(q) \ {q[1]}
        BY <1>2, <2>1, <3>1, <3>3, FrontLeaves
      <3>5. Range(SubSeq(q, 1, n)) = {q[1]}
        <4> DEFINE r == SubSeq(q, 1, 1)
        <4>1. \A i \in 1..1 : q[i] \in Nat
          BY <1>2, <3>3
        <4>2. r \in Seq(Nat) /\ Len(r) = 1 /\ r[1] = q[1]
          BY <4>1, SubSeqProperties
        <4> HIDE DEF r
        <4>3. DOMAIN r = {1}
          BY <4>2
        <4>4. Range(r) = {q[1]}
          BY <4>2, <4>3 DEF Range
        <4>5. QED
          BY <3>1, <4>4 DEF r
      <3>6. DOMAIN frames' = Range(order')
        BY <1>2, <2>4, <3>4, <3>5
      <3>7. QED
        BY <1>3, <1>5, <2>3, <3>3, <3>4, <3>6 DEF Stays
    <2>8. QED
      BY <2>6, <2>7
  <1>6. QED
    BY <1>4, <1>5

(***************************************************************************)
(* The queue and the frames stay in step (push, trim).                     *)
(***************************************************************************)
LEMMA PushInStep ==
  ASSUME AssemblyTyped, BufferInStep, NEW f \in Fragments, PushFragment(f)
  PROVE  order' \in Seq(Nat) /\ BufferInStep'
  <1> DEFINE q == Queued(f.image.seq)
  <1>1. /\ q \in Seq(Nat) /\ IsInjective(q) /\ Range(q) = DOMAIN frames \cup {f.image.seq}
        /\ Len(q) <= OpenFrames + 1 /\ Len(q) \in Nat /\ OpenFrames \in Nat
    BY QueuedIs, OpenFramesAssumption
  <1> HIDE DEF q
  <1>2. CASE Completes(f)
    <2> DEFINE r == Retain(q, f.image.seq)
    <2>1. /\ r \in Seq(Nat) /\ Len(r) < Len(q) /\ IsInjective(r)
          /\ Range(r) = Range(q) \ {f.image.seq}
      BY <1>1, RetainKeeps
    <2>2. order' = r /\ DOMAIN frames' = DOMAIN frames \ {f.image.seq}
      BY <1>2 DEF Completes, q
    <2> HIDE DEF r
    <2>3. Len(r) \in Nat
      BY <2>1
    <2>4. Len(r) <= OpenFrames
      BY <1>1, <2>1, <2>3
    <2>5. QED
      BY <1>1, <2>1, <2>2, <2>4 DEF BufferInStep
  <1>3. CASE Stays(f)
    <2>1. DOMAIN frames' = Range(order')
      BY <1>3 DEF Stays
    <2>2. CASE order' = q /\ Len(q) <= OpenFrames
      BY <1>1, <2>1, <2>2 DEF BufferInStep
    <2>3. CASE order' = SubSeq(q, 2, Len(q)) /\ Len(q) = OpenFrames + 1
      <3>1. Len(q) >= 1 /\ Len(q) - 1 = OpenFrames
        BY <1>1, <2>3
      <3>2. order' \in Seq(Nat) /\ IsInjective(order') /\ Len(order') = Len(q) - 1
        BY <1>1, <2>3, <3>1, FrontLeaves
      <3>3. Len(order') <= OpenFrames
        BY <1>1, <3>1, <3>2
      <3>4. QED
        BY <2>1, <3>2, <3>3 DEF BufferInStep
    <2>4. QED
      BY <1>3, <2>2, <2>3 DEF Stays, q
  <1>4. QED
    BY <1>2, <1>3, PushLeaves

(***************************************************************************)
(* The entry of a fragment's number once the fragment is in it (push).     *)
(***************************************************************************)
LEMMA FilledIs ==
  ASSUME AssemblyTyped, NEW f \in Fragments
  PROVE  LET parts == Filled(f).parts
         IN  /\ DOMAIN Filled(f) = {"count", "parts"}
             /\ Filled(f).count = f.image.count
             /\ parts = With(Entry(f).parts, f.index, f.image)
             /\ f.image \in Range(parts)
             /\ \A i \in Range(parts) : i = f.image \/ i \in Range(Entry(f).parts)
  <1> DEFINE parts == Filled(f).parts
  <1>1. DOMAIN Entry(f) = {"count", "parts"} /\ Entry(f).count = f.image.count
    BY DEF Entry, AssemblyTyped
  <1>2. /\ DOMAIN Filled(f) = {"count", "parts"} /\ Filled(f).count = f.image.count
        /\ parts = With(Entry(f).parts, f.index, f.image)
    BY <1>1 DEF Filled
  <1> HIDE DEF parts
  <1>3. /\ DOMAIN parts = DOMAIN Entry(f).parts \cup {f.index}
        /\ \A k \in DOMAIN parts :
             parts[k] = IF k = f.index THEN f.image ELSE Entry(f).parts[k]
    BY <1>2 DEF With
  <1>4. f.image \in Range(parts)
    BY <1>3 DEF Range
  <1>5. \A i \in Range(parts) : i = f.image \/ i \in Range(Entry(f).parts)
    BY <1>3 DEF Range
  <1>6. QED
    BY <1>2, <1>4, <1>5 DEF parts

LEMMA AccountIs ==
  ASSUME AssemblyTyped, NEW f \in Fragments, PushFragment(f)
  PROVE  /\ arrived' = [arrived EXCEPT ![f.image] = @ \cup {f.index}]
         /\ arrived' \in [Images -> SUBSET Nat] /\ DOMAIN younger' = Images
         /\ whole \subseteq whole' /\ clashed \subseteq clashed'
         /\ \A i \in Images :
              /\ younger[i] \subseteq younger'[i] /\ IsFiniteSet(younger'[i])
              /\ Cardinality(younger[i]) <= Cardinality(younger'[i])
              /\ Cardinality(younger[i]) \in Nat /\ Cardinality(younger'[i]) \in Nat
              /\ arrived[i] # {} /\ i.seq # f.image.seq =>
                   younger'[i] = younger[i] \cup {f.image.seq}
              /\ arrived[i] = {} => younger'[i] = younger[i]
  <1>1. /\ f.image \in Images /\ f.index \in Nat
        /\ arrived \in [Images -> SUBSET Nat] /\ DOMAIN younger = Images
        /\ \A i \in Images : IsFiniteSet(younger[i])
    BY FragmentIs DEF AssemblyTyped
  <1>2. Account(f)
    BY DEF PushFragment
  <1>3. /\ arrived' = [arrived EXCEPT ![f.image] = @ \cup {f.index}]
        /\ whole \subseteq whole' /\ clashed \subseteq clashed'
    BY <1>2 DEF Account
  <1>4. arrived' \in [Images -> SUBSET Nat]
    BY <1>1, <1>3
  <1>5. DOMAIN younger' = Images
    BY <1>2 DEF Account
  <1>6. ASSUME NEW i \in Images
        PROVE  /\ younger[i] \subseteq younger'[i] /\ IsFiniteSet(younger'[i])
               /\ Cardinality(younger[i]) <= Cardinality(younger'[i])
               /\ Cardinality(younger[i]) \in Nat /\ Cardinality(younger'[i]) \in Nat
               /\ arrived[i] # {} /\ i.seq # f.image.seq =>
                    younger'[i] = younger[i] \cup {f.image.seq}
               /\ arrived[i] = {} => younger'[i] = younger[i]
    <2>1. younger'[i] = IF arrived[i] # {} /\ i.seq # f.image.seq
                          THEN younger[i] \cup {f.image.seq} ELSE younger[i]
      BY <1>2 DEF Account
    <2>2. IsFiniteSet(younger[i])
      BY <1>1
    <2>a. IsFiniteSet(younger[i] \cup {f.image.seq})
      BY <2>2, FS_AddElement
    <2>b. IsFiniteSet(younger'[i])
      BY <2>1, <2>2, <2>a
    <2>c. younger[i] \subseteq younger'[i]
      BY <2>1
    <2>3. younger[i] \subseteq younger'[i] /\ IsFiniteSet(younger'[i])
      BY <2>b, <2>c
    <2>4. /\ Cardinality(younger[i]) <= Cardinality(younger'[i])
          /\ Cardinality(younger[i]) \in Nat /\ Cardinality(younger'[i]) \in Nat
      BY <2>2, <2>3, FS_Subset, FS_CardinalityType
    <2>5. QED
      BY <2>1, <2>3, <2>4
  <1>7. QED
    BY <1>3, <1>4, <1>5, <1>6

LEMMA PushTypes ==
  ASSUME AssemblyTyped, BufferInStep, NEW f \in Fragments, PushFragment(f)
  PROVE  AssemblyTyped'
  <1>1. order' \in Seq(Nat)
    BY PushInStep
  <1>2. /\ arrived' \in [Images -> SUBSET Nat] /\ DOMAIN younger' = Images
        /\ \A i \in Images : IsFiniteSet(younger'[i])
    BY AccountIs
  <1>3. /\ f.image \in Images /\ arrived'[f.image] # {}
        /\ \A i \in Images : arrived[i] # {} => arrived'[i] # {}
    <2>1. /\ arrived' = [arrived EXCEPT ![f.image] = @ \cup {f.index}]
          /\ arrived \in [Images -> SUBSET Nat] /\ f.image \in Images
      BY AccountIs, FragmentIs DEF AssemblyTyped
    <2>2. QED
      BY <2>1
  <1>4. ASSUME NEW seq \in DOMAIN frames'
        PROVE  /\ DOMAIN frames'[seq] = {"count", "parts"}
               /\ Range(frames'[seq].parts) # {}
               /\ \A i \in Range(frames'[seq].parts) : i \in Images /\ arrived'[i] # {}
    <2>1. CASE seq # f.image.seq
      <3>1. seq \in DOMAIN frames /\ frames'[seq] = frames[seq]
        <4>1. CASE Completes(f)
          BY <1>4, <2>1, <4>1 DEF Completes
        <4>2. CASE Stays(f)
          <5>1. frames'[seq] = frames[seq] /\ seq \in Range(order')
            BY <1>4, <2>1, <4>2 DEF Stays
          <5>2. Range(order') \subseteq DOMAIN frames \cup {f.image.seq}
            <6> DEFINE q == Queued(f.image.seq)
            <6>1. /\ q \in Seq(Nat) /\ IsInjective(q)
                  /\ Range(q) = DOMAIN frames \cup {f.image.seq}
              BY QueuedIs
            <6>2. CASE order' = q
              BY <6>1, <6>2
            <6>3. CASE order' = SubSeq(q, 2, Len(q)) /\ Len(q) = OpenFrames + 1
              <7>1. Len(q) >= 1
                BY <6>3, OpenFramesAssumption
              <7> HIDE DEF q
              <7>2. QED
                BY <6>1, <6>3, <7>1, FrontLeaves
            <6>4. QED
              BY <4>2, <6>2, <6>3 DEF Stays
          <5>3. QED
            BY <2>1, <5>1, <5>2
        <4>3. QED
          BY <4>1, <4>2, PushLeaves
      <3>2. QED
        BY <1>3, <3>1 DEF AssemblyTyped
    <2>2. CASE seq = f.image.seq
      <3>1. frames'[seq] = Filled(f)
        BY <1>4, <2>2, PushLeaves DEF Completes, Stays
      <3>2. /\ DOMAIN Filled(f) = {"count", "parts"} /\ f.image \in Range(Filled(f).parts)
            /\ \A i \in Range(Filled(f).parts) : i = f.image \/ i \in Range(Entry(f).parts)
        BY FilledIs
      <3>3. \A i \in Range(Entry(f).parts) : i \in Images /\ arrived[i] # {}
        <4>1. CASE Entry(f).parts = <<>>
          BY <4>1 DEF Range
        <4>2. CASE f.image.seq \in DOMAIN frames /\ Entry(f) = frames[f.image.seq]
          BY <4>2 DEF AssemblyTyped
        <4>3. QED
          BY <4>1, <4>2 DEF Entry
      <3>4. QED
        BY <1>3, <3>1, <3>2, <3>3
    <2>3. QED
      BY <2>1, <2>2
  <1>5. QED
    BY <1>1, <1>2, <1>4 DEF AssemblyTyped

(***************************************************************************)
(* An image in the queue stays there as long as fewer numbers than the     *)
(* buffer is for are younger than it is (push, trim).                      *)
(***************************************************************************)
LEMMA StaysQueued ==
  ASSUME AssemblyTyped, BufferInStep, NEW f \in Fragments, PushFragment(f),
         NEW i \in Images, NEW young, IsFiniteSet(young),
         i.seq \in Range(Queued(f.image.seq)),
         Behind(Queued(f.image.seq), i.seq) \subseteq young,
         Complete(Filled(f)) => i.seq # f.image.seq
  PROVE  \/ Cardinality(young) >= OpenFrames
         \/ /\ i.seq \in DOMAIN frames'
            /\ Behind(order', i.seq) \subseteq young
  <1> DEFINE q == Queued(f.image.seq)
  <1>1. /\ q \in Seq(Nat) /\ IsInjective(q) /\ Range(q) = DOMAIN frames \cup {f.image.seq}
        /\ Len(q) \in Nat /\ OpenFrames \in Nat /\ OpenFrames >= 1
    BY QueuedIs, OpenFramesAssumption
  <1>2. i.seq \in Range(q) /\ Behind(q, i.seq) \subseteq young
    OBVIOUS
  <1> HIDE DEF q
  <1>3. CASE Completes(f)
    <2>1. /\ i.seq # f.image.seq /\ order' = Retain(q, f.image.seq)
          /\ DOMAIN frames' = DOMAIN frames \ {f.image.seq}
      BY <1>3 DEF Completes, q
    <2>2. Behind(order', i.seq) \subseteq Behind(q, i.seq)
      BY <1>1, <2>1, RetainKeeps
    <2>3. QED
      BY <1>1, <1>2, <2>1, <2>2
  <1>4. CASE Stays(f)
    <2>1. DOMAIN frames' = Range(order')
      BY <1>4 DEF Stays
    <2>2. CASE order' = q
      BY <1>2, <2>1, <2>2
    <2>3. CASE order' = SubSeq(q, 2, Len(q)) /\ Len(q) = OpenFrames + 1
      <3>1. Len(q) >= 1 /\ Len(q) - 1 = OpenFrames
        BY <1>1, <2>3
      <3>2. /\ order' \in Seq(Nat) /\ IsInjective(order') /\ Len(order') = Len(q) - 1
            /\ Range(order') = Range(q) \ {q[1]}
            /\ Range(order') \subseteq Behind(q, q[1])
            /\ Behind(order', i.seq) \subseteq Behind(q, i.seq)
        BY <1>1, <2>3, <3>1, FrontLeaves
      <3>3. CASE i.seq = q[1]
        <4>1. Range(order') \in SUBSET young
          BY <1>2, <3>2, <3>3
        <4>2. Cardinality(Range(order')) <= Cardinality(young)
          BY <4>1, FS_Subset
        <4>3. Cardinality(Range(order')) = Len(order')
          BY <3>2, QueueCounts
        <4>4. Cardinality(young) \in Nat
          BY FS_CardinalityType
        <4>5. QED
          BY <1>1, <3>1, <3>2, <4>2, <4>3, <4>4
      <3>4. CASE i.seq # q[1]
        BY <1>2, <2>1, <3>2, <3>4
      <3>5. QED
        BY <3>3, <3>4
    <2>4. QED
      BY <1>4, <2>2, <2>3 DEF Stays, q
  <1>5. QED
    BY <1>3, <1>4, PushLeaves

\* An image that is excused stays so.
LEMMA StaysExcused ==
  ASSUME AssemblyTyped, NEW f \in Fragments, PushFragment(f), NEW i \in Images, Excused(i)
  PROVE  Excused(i)'
  <1>1. /\ whole \subseteq whole' /\ clashed \subseteq clashed'
        /\ Cardinality(younger[i]) <= Cardinality(younger'[i])
        /\ Cardinality(younger[i]) \in Nat /\ Cardinality(younger'[i]) \in Nat
    BY AccountIs
  <1>2. OpenFrames \in Nat
    BY OpenFramesAssumption
  <1>3. CASE Cardinality(younger[i]) >= OpenFrames
    <2>1. Cardinality(younger'[i]) >= OpenFrames
      BY <1>1, <1>2, <1>3
    <2>2. QED
      BY <2>1 DEF Excused
  <1>4. CASE i \in whole \/ i \in clashed
    BY <1>1, <1>4 DEF Excused
  <1>5. QED
    BY <1>3, <1>4 DEF Excused

(***************************************************************************)
(* A fragment of another image: of one with the same number, they clash;   *)
(* of one with another, that is younger (push).                            *)
(***************************************************************************)
LEMMA OthersStayOpen ==
  ASSUME AssemblyInv, NEW f \in Fragments, PushFragment(f),
         NEW i \in Images, i # f.image, arrived[i] # {}, IsOpen(i)
  PROVE  Excused(i)' \/ IsOpen(i)'
  <1>1. AssemblyTyped /\ BufferInStep
    BY DEF AssemblyInv
  <1>2. arrived'[i] = arrived[i]
    <2>1. /\ arrived' = [arrived EXCEPT ![f.image] = @ \cup {f.index}]
          /\ arrived \in [Images -> SUBSET Nat] /\ f.image \in Images
      BY <1>1, AccountIs, FragmentIs DEF AssemblyTyped
    <2>2. QED
      BY <2>1
  <1>3. CASE i.seq = f.image.seq
    <2>1. i \in Range(frames[i.seq].parts)
      BY DEF IsOpen, Range
    <2>2. i \in Others(f)
      BY <1>3, <2>1 DEF Others, IsOpen
    <2>3. i \in clashed'
      BY <2>2 DEF PushFragment, Account
    <2>4. QED
      BY <2>3 DEF Excused
  <1>4. CASE i.seq # f.image.seq
    <2>1. younger'[i] = younger[i] \cup {f.image.seq} /\ IsFiniteSet(younger'[i])
      BY <1>1, <1>4, AccountIs
    <2>2. /\ i.seq \in Range(Queued(f.image.seq))
          /\ Behind(Queued(f.image.seq), i.seq)
               \subseteq Behind(order, i.seq) \cup {f.image.seq}
      BY <1>1, QueuedIs DEF IsOpen
    <2>3. Behind(Queued(f.image.seq), i.seq) \subseteq younger'[i]
      BY <2>1, <2>2 DEF IsOpen
    <2>4. \/ Cardinality(younger'[i]) >= OpenFrames
          \/ i.seq \in DOMAIN frames' /\ Behind(order', i.seq) \subseteq younger'[i]
      BY <1>1, <1>4, <2>1, <2>2, <2>3, StaysQueued
    <2>5. i.seq \in DOMAIN frames' => frames'[i.seq] = frames[i.seq]
      BY <1>1, <1>4, PushLeaves DEF Completes, Stays
    <2>6. QED
      BY <1>2, <2>4, <2>5 DEF IsOpen, Excused
  <1>5. QED
    BY <1>3, <1>4

(***************************************************************************)
(* A fragment of the image itself: the first opens a frame, unless it      *)
(* clashes, and the last makes it whole (push).                            *)
(***************************************************************************)
LEMMA ImageGrows ==
  ASSUME AssemblyInv, NEW f \in Fragments, PushFragment(f),
         arrived[f.image] = {} \/ IsOpen(f.image)
  PROVE  Excused(f.image)' \/ IsOpen(f.image)'
  <1> DEFINE i == f.image
             parts == Filled(f).parts
             q == Queued(i.seq)
  <1>1. AssemblyTyped /\ BufferInStep /\ ImagesInv
    BY DEF AssemblyInv
  <1>2. /\ i \in Images /\ i.count \in Nat /\ i.count >= 1
        /\ f.index \in 1..i.count /\ Acceptable(f)
    BY FragmentIs
  <1>3. arrived'[i] = arrived[i] \cup {f.index}
    <2>1. /\ arrived' = [arrived EXCEPT ![i] = @ \cup {f.index}]
          /\ arrived \in [Images -> SUBSET Nat]
      BY <1>1, AccountIs DEF AssemblyTyped
    <2>2. QED
      BY <1>2, <2>1
  <1>4. CASE arrived[i] = {} /\ i.seq \in DOMAIN frames
    <2>1. i \notin Range(frames[i.seq].parts) /\ Range(frames[i.seq].parts) # {}
      BY <1>1, <1>4 DEF AssemblyTyped
    <2>2. Others(f) # {}
      BY <1>4, <2>1 DEF Others
    <2>3. i \in clashed'
      BY <2>2 DEF PushFragment, Account
    <2>4. QED
      BY <2>3 DEF Excused
  <1>5. CASE ~(arrived[i] = {} /\ i.seq \in DOMAIN frames)
    <2>1. Entry(f).parts = [k \in arrived[i] |-> i]
      <3>1. CASE IsOpen(i)
        BY <3>1 DEF IsOpen, Entry
      <3>2. CASE arrived[i] = {} /\ i.seq \notin DOMAIN frames
        <4>1. Entry(f).parts = <<>>
          BY <3>2 DEF Entry
        <4>2. QED
          BY <3>2, <4>1
      <3>3. QED
        BY <1>5, <3>1, <3>2
    <2>2. parts = [k \in arrived'[i] |-> i]
      <3>1. parts = With(Entry(f).parts, f.index, i)
        BY <1>1, FilledIs
      <3>2. With(Entry(f).parts, f.index, i) = [k \in arrived[i] \cup {f.index} |-> i]
        BY <2>1 DEF With
      <3>3. QED
        BY <1>3, <3>1, <3>2
    <2>3. Filled(f).count = i.count
      BY <1>1, FilledIs
    <2>4. Behind(q, i.seq) \subseteq younger'[i] /\ i.seq \in Range(q)
      <3>0. i.seq \in Range(q)
        BY <1>1, QueuedIs
      <3>1. i.seq \in Range(q) /\ younger[i] \subseteq younger'[i]
        BY <1>1, <1>2, <3>0, AccountIs
      <3>2. CASE IsOpen(i)
        <4>1. Behind(q, i.seq) \subseteq Behind(order, i.seq)
          BY <1>1, <3>2, QueuedIs DEF IsOpen
        <4>2. QED
          BY <3>1, <3>2, <4>1 DEF IsOpen
      <3>3. CASE i.seq \notin DOMAIN frames
        BY <1>1, <3>1, <3>3, QueuedIs
      <3>4. QED
        BY <1>5, <3>2, <3>3
    <2> HIDE DEF parts, q
    <2>5. CASE Complete(Filled(f))
      <3>1. arrived'[i] = 1..i.count
        BY <2>2, <2>3, <2>5 DEF Complete, parts
      <3>2. i.count \in DOMAIN parts /\ parts[i.count] = i
        BY <1>2, <2>2, <3>1
      <3>3. Markers(Filled(f))
        BY <2>3, <3>2 DEF Markers, parts
      <3>4. Result(f) = parts
        BY <1>2, <2>5, <3>3 DEF Result, parts
      <3>5. parts # <<>> /\ Range(parts) = {i}
        <4>1. DOMAIN <<>> = {}
          OBVIOUS
        <4>2. \A k \in DOMAIN parts : parts[k] = i
          BY <2>2
        <4>3. QED
          BY <3>2, <4>1, <4>2 DEF Range
      <3>6. i \in whole'
        BY <3>4, <3>5 DEF PushFragment, Account, Nothing
      <3>7. QED
        BY <3>6 DEF Excused
    <2>6. CASE ~Complete(Filled(f))
      <3>1. arrived'[i] # 1..i.count
        BY <2>2, <2>3, <2>6 DEF Complete, parts
      <3>2. Stays(f)
        BY <1>1, <2>6, PushLeaves DEF Completes
      <3>3. IsFiniteSet(younger'[i])
        BY <1>1, <1>2, AccountIs
      <3>4. \/ Cardinality(younger'[i]) >= OpenFrames
            \/ i.seq \in DOMAIN frames' /\ Behind(order', i.seq) \subseteq younger'[i]
        BY <1>1, <1>2, <2>4, <2>6, <3>3, StaysQueued DEF q
      <3>5. i.seq \in DOMAIN frames' => frames'[i.seq] = Filled(f)
        BY <3>2 DEF Stays
      <3>6. QED
        BY <2>2, <2>3, <3>1, <3>4, <3>5 DEF IsOpen, Excused, parts
    <2>7. QED
      BY <2>5, <2>6
  <1>6. QED
    BY <1>4, <1>5

(***************************************************************************)
(* A fragment keeps the images in the buffer or excuses them (push).       *)
(***************************************************************************)
LEMMA PushKeeps ==
  ASSUME AssemblyInv, NEW f \in Fragments, PushFragment(f)
  PROVE  AssemblyInv'
  <1>1. AssemblyTyped /\ BufferInStep /\ ImagesInv
    BY DEF AssemblyInv
  <1>2. AssemblyTyped' /\ BufferInStep'
    BY <1>1, PushTypes, PushInStep
  <1>3. /\ arrived' = [arrived EXCEPT ![f.image] = @ \cup {f.index}]
        /\ arrived \in [Images -> SUBSET Nat] /\ f.image \in Images
    BY <1>1, AccountIs, FragmentIs DEF AssemblyTyped
  <1>4. ASSUME NEW i \in Images
        PROVE  /\ arrived'[i] = {} => younger'[i] = {}
               /\ arrived'[i] # {} => Excused(i)' \/ IsOpen(i)'
    <2>1. arrived'[i] = {} => younger'[i] = {}
      <3>1. arrived'[i] = {} => arrived[i] = {}
        BY <1>3
      <3>2. QED
        BY <1>1, <3>1, AccountIs DEF ImagesInv
    <2>2. ASSUME arrived'[i] # {} PROVE Excused(i)' \/ IsOpen(i)'
      <3>1. CASE arrived[i] # {} /\ Excused(i)
        BY <1>1, <3>1, StaysExcused
      <3>2. CASE i = f.image /\ (arrived[i] = {} \/ IsOpen(i))
        BY <3>2, ImageGrows
      <3>3. CASE i # f.image /\ arrived[i] # {} /\ IsOpen(i)
        BY <3>3, OthersStayOpen
      <3>4. arrived[i] # {} \/ i = f.image
        BY <1>3, <2>2
      <3>5. arrived[i] # {} => Excused(i) \/ IsOpen(i)
        BY <1>1 DEF ImagesInv
      <3>6. QED
        BY <3>1, <3>2, <3>3, <3>4, <3>5
    <2>3. QED
      BY <2>1, <2>2
  <1>5. QED
    BY <1>2, <1>4 DEF AssemblyInv, ImagesInv

LEMMA AssemblyInvariant == MediaSpec => []AssemblyInv
  <1>1. MediaInit => AssemblyInv
    <2> SUFFICES ASSUME MediaInit PROVE AssemblyInv
      OBVIOUS
    <2>1. /\ frames = <<>> /\ order = <<>> /\ arrived = [i \in Images |-> {}]
          /\ younger = [i \in Images |-> {}]
      BY DEF MediaInit, AssemblyInit
    <2>2. <<>> \in Seq(Nat) /\ DOMAIN <<>> = {} /\ Len(<<>>) = 0
      OBVIOUS
    <2>3. AssemblyTyped
      BY <2>1, <2>2, FS_EmptySet DEF AssemblyTyped
    <2>4. BufferInStep
      BY <2>1, <2>2, OpenFramesAssumption DEF BufferInStep, Range, IsInjective
    <2>5. ImagesInv
      BY <2>1 DEF ImagesInv
    <2>6. QED
      BY <2>3, <2>4, <2>5 DEF AssemblyInv
  <1>2. AssemblyInv /\ [MediaNext]_mediaVars => AssemblyInv'
    <2> SUFFICES ASSUME AssemblyInv, [MediaNext]_mediaVars PROVE AssemblyInv'
      OBVIOUS
    <2>1. (\E f \in Fragments : PushFragment(f)) \/ UNCHANGED assembly
      <3>1. CASE \E f \in Fragments : ReceiveFragment(f)
        BY <3>1 DEF ReceiveFragment
      <3>2. CASE Tick \/ ReceiveAudio \/ Remember \/ Buffer \/ Broadcast
        BY <3>2 DEF Tick, ReceiveAudio, Remember, Buffer, Broadcast
      <3>3. CASE \E v \in Viewers : Open(v) \/ ShowLatest(v) \/ ShowNext(v) \/ Close(v)
        BY <3>3 DEF Open, ShowLatest, ShowNext, Close
      <3>4. CASE UNCHANGED mediaVars
        BY <3>4 DEF mediaVars
      <3>5. QED
        BY <3>1, <3>2, <3>3, <3>4 DEF MediaNext
    <2>2. CASE \E f \in Fragments : PushFragment(f)
      BY <2>2, PushKeeps
    <2>3. CASE UNCHANGED assembly
      BY <2>3 DEF assembly, buffer, AssemblyInv, AssemblyTyped, BufferInStep, ImagesInv,
                  Excused, IsOpen, Behind
    <2>4. QED
      BY <2>1, <2>2, <2>3
  <1>3. QED
    BY <1>1, <1>2, PTL DEF MediaSpec

(***************************************************************************)
(* For any images and any size of the buffer its queue and its frames      *)
(* agree and are never too many, so that the loop of trim() ends (push,    *)
(* trim).                                                                  *)
(***************************************************************************)
THEOREM BufferAgrees == MediaSpec => []BufferInStep
  <1>1. AssemblyInv => BufferInStep
    BY DEF AssemblyInv
  <1>2. QED
    BY <1>1, AssemblyInvariant, PTL

(***************************************************************************)
(* A frame whose fragments have all come is shown, whatever is lost,       *)
(* repeated or reordered, unless it clashed with another of its number or  *)
(* had as many younger ones as the buffer is for (push, trim).             *)
(***************************************************************************)
THEOREM FramesAreShown == MediaSpec => []WholeFramesAreShown
  <1>1. AssemblyInv => WholeFramesAreShown
    <2> SUFFICES ASSUME AssemblyInv, NEW i \in Images, arrived[i] = 1..i.count
                 PROVE  i \in whole \/ i \in clashed \/ Cardinality(younger[i]) >= OpenFrames
      BY DEF WholeFramesAreShown
    <2>1. 1 \in 1..i.count
      BY ImagesAssumption
    <2>2. arrived[i] # {} /\ ~IsOpen(i)
      BY <2>1 DEF IsOpen
    <2>3. QED
      BY <2>2 DEF AssemblyInv, ImagesInv, Excused
  <1>2. QED
    BY <1>1, AssemblyInvariant, PTL

--------------------------------------------------------------------------------
(***************************************************************************)
(* The streams.  The latest frame is set before it is broadcast, so what   *)
(* was broadcast is no younger than it; and it is no younger than the item *)
(* in hand, which has the next number until it has been buffered.          *)
(***************************************************************************)
Items == [n : Nat, pts : Nat, size : Nat]
ToRing == <<"ring", "send">>
ToSend == <<"send">>

HandTyped ==
    /\ now \in Nat /\ latest \in Nat /\ pushed \in Seq(Items) /\ sent \in SUBSET Nat
    /\ handing \in [todo : {<<>>, VideoSteps, ToRing, ToSend, AudioSteps}, item : Items]

HandInv ==
    /\ handing.todo \in {VideoSteps, ToRing, AudioSteps} => handing.item.n = Len(pushed) + 1
    /\ handing.todo \in {ToRing, ToSend} => handing.item.n = latest
    /\ latest <= Len(pushed) \/ (handing.todo = ToRing /\ latest = Len(pushed) + 1)
    /\ \A n \in sent : n <= latest

SeatsTyped ==
    /\ queue \in [Viewers -> Seq(Nat)]
    /\ DOMAIN seat = Viewers /\ DOMAIN shown = Viewers
    /\ DOMAIN lost = Viewers /\ DOMAIN base = Viewers

StreamsInv == HandTyped /\ HandInv /\ SeatsTyped /\ StreamsMissNothing

LEMMA StepsAre ==
  /\ Head(VideoSteps) = "latest" /\ Tail(VideoSteps) = ToRing
  /\ Head(ToRing) = "ring" /\ Tail(ToRing) = ToSend
  /\ Head(ToSend) = "send" /\ Tail(ToSend) = <<>>
  /\ Head(AudioSteps) = "ring" /\ Tail(AudioSteps) = <<>>
  /\ VideoSteps # <<>> /\ ToRing # <<>> /\ ToSend # <<>> /\ AudioSteps # <<>>
  /\ VideoSteps # ToRing /\ VideoSteps # ToSend /\ VideoSteps # AudioSteps
  /\ ToRing # ToSend /\ ToRing # AudioSteps /\ ToSend # AudioSteps
  <1>1. /\ Head(VideoSteps) = "latest" /\ Head(ToRing) = "ring"
        /\ Head(ToSend) = "send" /\ Head(AudioSteps) = "ring"
    BY DEF VideoSteps, ToRing, ToSend, AudioSteps
  <1>2. /\ Tail(VideoSteps) = ToRing /\ Tail(ToRing) = ToSend
        /\ Tail(ToSend) = <<>> /\ Tail(AudioSteps) = <<>>
    BY DEF VideoSteps, ToRing, ToSend, AudioSteps
  <1>3. /\ Len(VideoSteps) = 3 /\ Len(ToRing) = 2 /\ Len(ToSend) = 1
        /\ Len(AudioSteps) = 1 /\ Len(<<>>) = 0
    BY DEF VideoSteps, ToRing, ToSend, AudioSteps
  <1>4. QED
    BY <1>1, <1>2, <1>3

\* What is in hand after a step of push_video or push_audio.
LEMMA HandGoesOn ==
  ASSUME HandTyped, NEW place, HandTo(place)
  PROVE  /\ handing'.item = handing.item
         /\ place = "latest" => handing.todo = VideoSteps /\ handing'.todo = ToRing
         /\ place = "ring" => \/ handing.todo = ToRing /\ handing'.todo = ToSend
                              \/ handing.todo = AudioSteps /\ handing'.todo = <<>>
         /\ place = "send" => handing.todo = ToSend /\ handing'.todo = <<>>
         /\ handing' \in [todo : {<<>>, VideoSteps, ToRing, ToSend, AudioSteps}, item : Items]
  <1>1. /\ handing \in [todo : {<<>>, VideoSteps, ToRing, ToSend, AudioSteps}, item : Items]
        /\ handing.todo # <<>> /\ Head(handing.todo) = place
        /\ handing' = [handing EXCEPT !.todo = Tail(@)]
    BY DEF HandTyped, HandTo
  <1>2. /\ handing'.item = handing.item /\ handing'.todo = Tail(handing.todo)
        /\ handing' = [todo |-> handing'.todo, item |-> handing.item]
    BY <1>1
  <1>3. CASE handing.todo = VideoSteps
    BY <1>1, <1>2, <1>3, StepsAre
  <1>4. CASE handing.todo = ToRing
    BY <1>1, <1>2, <1>4, StepsAre
  <1>5. CASE handing.todo = ToSend
    BY <1>1, <1>2, <1>5, StepsAre
  <1>6. CASE handing.todo = AudioSteps
    BY <1>1, <1>2, <1>6, StepsAre
  <1>7. QED
    BY <1>1, <1>3, <1>4, <1>5, <1>6

\* An item that comes into hand has the next number.
LEMMA HandBegins ==
  ASSUME HandTyped, HandInv, Receiving, NEW steps \in {VideoSteps, AudioSteps},
         NEW size \in Nat, Hand(steps, size), UNCHANGED <<now, places>>
  PROVE  HandTyped' /\ HandInv'
  <1>1. /\ now \in Nat /\ latest \in Nat /\ pushed \in Seq(Items) /\ sent \in SUBSET Nat
        /\ Len(pushed) \in Nat
    BY DEF HandTyped
  <1>2. /\ handing' = [todo |-> steps, item |-> [n |-> Len(pushed) + 1, pts |-> now, size |-> size]]
        /\ now' = now /\ latest' = latest /\ pushed' = pushed /\ sent' = sent
    BY DEF Hand, NextNumber, places
  <1>3. handing.todo = <<>>
    BY DEF Receiving
  <1>4. latest <= Len(pushed) /\ \A n \in sent : n <= latest
    BY <1>3, StepsAre DEF HandInv
  <1>5. [n |-> Len(pushed) + 1, pts |-> now, size |-> size] \in Items
    BY <1>1 DEF Items
  <1>6. HandTyped'
    BY <1>1, <1>2, <1>5 DEF HandTyped
  <1>7. /\ steps # ToRing /\ steps # ToSend
        /\ handing'.todo = steps /\ handing'.item.n = Len(pushed) + 1
    BY <1>2, StepsAre
  <1>8. HandInv'
    BY <1>2, <1>4, <1>7 DEF HandInv
  <1>9. QED
    BY <1>6, <1>8

LEMMA HandStep ==
  ASSUME HandTyped, HandInv, [MediaNext]_mediaVars
  PROVE  HandTyped' /\ HandInv'
  <1>0. /\ now \in Nat /\ latest \in Nat /\ pushed \in Seq(Items) /\ sent \in SUBSET Nat
        /\ Len(pushed) \in Nat /\ handing.item \in Items /\ handing.item.n \in Nat
    BY DEF HandTyped, Items
  <1>1. CASE \E f \in Fragments : ReceiveFragment(f)
    <2>1. PICK f \in Fragments : ReceiveFragment(f)
      BY <1>1
    <2>2. Receiving /\ UNCHANGED <<now, places>>
      BY <2>1 DEF ReceiveFragment
    <2>3. UNCHANGED handing \/ Hand(VideoSteps, f.image.count)
      BY <2>1 DEF ReceiveFragment
    <2>4. CASE UNCHANGED handing
      BY <2>2, <2>4 DEF HandTyped, HandInv, places
    <2>5. CASE Hand(VideoSteps, f.image.count)
      BY <2>2, <2>5, FragmentIs, HandBegins
    <2>6. QED
      BY <2>3, <2>4, <2>5
  <1>2. CASE ReceiveAudio
    BY <1>2, HandBegins DEF ReceiveAudio
  <1>3. CASE Remember
    <2>1. /\ handing.todo = VideoSteps /\ handing'.todo = ToRing
          /\ handing'.item = handing.item
          /\ handing' \in [todo : {<<>>, VideoSteps, ToRing, ToSend, AudioSteps}, item : Items]
      BY <1>3, HandGoesOn DEF Remember
    <2>2. latest' = handing.item.n /\ UNCHANGED <<now, sent, pushed>>
      BY <1>3 DEF Remember
    <2>3. handing.item.n = Len(pushed) + 1 /\ latest <= Len(pushed)
      BY <2>1, StepsAre DEF HandInv
    <2>4. HandTyped'
      BY <1>0, <2>1, <2>2 DEF HandTyped
    <2>5. \A n \in sent : n <= Len(pushed) + 1
      <3>1. \A n \in sent : n \in Nat /\ n <= latest
        BY <1>0 DEF HandInv
      <3>2. QED
        BY <1>0, <2>3, <3>1
    <2>6. HandInv'
      BY <2>1, <2>2, <2>3, <2>5 DEF HandInv
    <2>7. QED
      BY <2>4, <2>6
  <1>4. CASE Buffer
    <2>1. /\ \/ handing.todo = ToRing /\ handing'.todo = ToSend
             \/ handing.todo = AudioSteps /\ handing'.todo = <<>>
          /\ handing'.item = handing.item
          /\ handing' \in [todo : {<<>>, VideoSteps, ToRing, ToSend, AudioSteps}, item : Items]
      BY <1>4, HandGoesOn DEF Buffer
    <2>2. pushed' = Append(pushed, handing.item) /\ UNCHANGED <<now, latest, sent>>
      BY <1>4 DEF Buffer
    <2>3. pushed' \in Seq(Items) /\ Len(pushed') = Len(pushed) + 1
      BY <1>0, <2>2, AppendProperties
    <2>4. latest <= Len(pushed')
      <3>1. latest <= Len(pushed) \/ latest = Len(pushed) + 1
        BY DEF HandInv
      <3>2. QED
        BY <1>0, <2>3, <3>1
    <2>5. handing'.todo = ToSend => handing'.item.n = latest
      BY <2>1, StepsAre DEF HandInv
    <2>6. HandTyped'
      BY <1>0, <2>1, <2>2, <2>3 DEF HandTyped
    <2>7. HandInv'
      BY <2>1, <2>2, <2>4, <2>5, StepsAre DEF HandInv
    <2>8. QED
      BY <2>6, <2>7
  <1>5. CASE Broadcast
    <2>1. /\ handing.todo = ToSend /\ handing'.todo = <<>>
          /\ handing' \in [todo : {<<>>, VideoSteps, ToRing, ToSend, AudioSteps}, item : Items]
      BY <1>5, HandGoesOn DEF Broadcast
    <2>2. sent' = sent \cup {handing.item.n} /\ UNCHANGED <<now, latest, pushed>>
      BY <1>5 DEF Broadcast
    <2>3. handing.item.n = latest /\ latest <= Len(pushed) /\ \A n \in sent : n <= latest
      BY <2>1, StepsAre DEF HandInv
    <2>4. \A n \in sent' : n <= latest
      BY <1>0, <2>2, <2>3
    <2>5. HandTyped'
      BY <1>0, <2>1, <2>2 DEF HandTyped
    <2>6. HandInv'
      BY <2>1, <2>2, <2>3, <2>4, StepsAre DEF HandInv
    <2>7. QED
      BY <2>5, <2>6
  <1>6. CASE \/ Tick
             \/ \E v \in Viewers : Open(v) \/ ShowLatest(v) \/ ShowNext(v) \/ Close(v)
             \/ UNCHANGED mediaVars
    <2>1. now' \in Nat /\ UNCHANGED <<places, handing>>
      <3>1. CASE Tick
        BY <1>0, <3>1 DEF Tick
      <3>2. CASE \E v \in Viewers : Open(v) \/ ShowLatest(v) \/ ShowNext(v) \/ Close(v)
        BY <1>0, <3>2 DEF Open, ShowLatest, ShowNext, Close
      <3>3. CASE UNCHANGED mediaVars
        BY <1>0, <3>3 DEF mediaVars
      <3>4. QED
        BY <1>6, <3>1, <3>2, <3>3
    <2>2. QED
      BY <1>0, <2>1 DEF HandTyped, HandInv, places
  <1>7. QED
    BY <1>1, <1>2, <1>3, <1>4, <1>5, <1>6 DEF MediaNext

\* Only the first item leaves a queue with pop_front.
LEMMA TailTakes ==
  ASSUME NEW q \in Seq(Nat), q # <<>>
  PROVE  Tail(q) \in Seq(Nat) /\ Range(q) \subseteq Range(Tail(q)) \cup {Head(q)}
  <1> DEFINE t == Tail(q)
  <1>1. /\ t \in Seq(Nat) /\ Len(t) = Len(q) - 1 /\ Head(q) = q[1]
        /\ \A k \in 1..Len(t) : t[k] = q[k + 1]
    BY HeadTailProperties
  <1> HIDE DEF t
  <1>2. /\ Len(q) \in Nat /\ DOMAIN q = 1..Len(q) /\ DOMAIN t = 1..(Len(q) - 1)
        /\ \A k \in 1..(Len(q) - 1) : t[k] = q[k + 1]
    BY <1>1
  <1>3. ASSUME NEW i \in 1..Len(q) PROVE q[i] \in Range(t) \cup {Head(q)}
    <2>1. CASE i = 1
      BY <1>1, <2>1
    <2>2. CASE i # 1
      <3>1. i - 1 \in 1..(Len(q) - 1) /\ (i - 1) + 1 = i
        BY <1>2, <2>2
      <3>2. t[i - 1] = q[i]
        BY <1>2, <3>1
      <3>3. QED
        BY <1>2, <3>1, <3>2 DEF Range
    <2>3. QED
      BY <2>1, <2>2
  <1>4. Range(q) \subseteq Range(t) \cup {Head(q)}
    BY <1>2, <1>3 DEF Range
  <1>5. QED
    BY <1>1, <1>4 DEF t

(***************************************************************************)
(* A frame that is broadcast waits for every stream that is live, and one  *)
(* it pushes out of a full queue is lost (push_video).                     *)
(***************************************************************************)
LEMMA BroadcastQueues ==
  ASSUME StreamsInv, Broadcast
  PROVE  SeatsTyped' /\ StreamsMissNothing'
  <1> DEFINE n == handing.item.n
  <1>1. n \in Nat /\ Channel \in Nat /\ Channel >= 1
    BY MediaAssumption DEF StreamsInv, HandTyped, Items
  <1>2. /\ queue \in [Viewers -> Seq(Nat)]
        /\ DOMAIN seat = Viewers /\ DOMAIN shown = Viewers
        /\ DOMAIN lost = Viewers /\ DOMAIN base = Viewers
    BY DEF StreamsInv, SeatsTyped
  <1>3. /\ sent' = sent \cup {n} /\ UNCHANGED <<seat, shown, base>>
        /\ DOMAIN queue' = Viewers /\ DOMAIN lost' = Viewers
        /\ \A v \in Viewers : seat[v] = "off" => queue'[v] = queue[v]
        /\ \A v \in Viewers : seat[v] # "off" =>
             queue'[v] = Append(IF Len(queue[v]) = Channel THEN Tail(queue[v]) ELSE queue[v], n)
        /\ \A v \in Viewers : seat[v] # "off" /\ Len(queue[v]) = Channel =>
             lost'[v] = lost[v] \cup {Head(queue[v])}
        /\ \A v \in Viewers : ~(seat[v] # "off" /\ Len(queue[v]) = Channel) => lost'[v] = lost[v]
        /\ queue' = [v \in Viewers |-> queue'[v]]
    BY DEF Broadcast
  <1> HIDE DEF n
  <1>4. ASSUME NEW v \in Viewers, seat[v] # "off"
        PROVE  /\ queue'[v] \in Seq(Nat) /\ n \in Range(queue'[v])
               /\ Range(queue[v]) \subseteq Range(queue'[v]) \cup lost'[v]
               /\ lost[v] \subseteq lost'[v]
    <2> DEFINE q == queue[v]
               kept == IF Len(q) = Channel THEN Tail(q) ELSE q
    <2>1. q \in Seq(Nat) /\ Len(q) \in Nat
      BY <1>2
    <2>2. queue'[v] = Append(kept, n) /\ lost[v] \subseteq lost'[v]
      BY <1>3, <1>4
    <2>3. kept \in Seq(Nat) /\ Range(q) \subseteq Range(kept) \cup lost'[v]
      <3>1. CASE Len(q) = Channel
        <4>1. q # <<>>
          BY <1>1, <2>1, <3>1
        <4>2. Tail(q) \in Seq(Nat) /\ Range(q) \subseteq Range(Tail(q)) \cup {Head(q)}
          BY <2>1, <4>1, TailTakes
        <4>3. lost'[v] = lost[v] \cup {Head(q)}
          BY <1>3, <1>4, <3>1
        <4>4. QED
          BY <3>1, <4>2, <4>3
      <3>2. CASE Len(q) # Channel
        BY <2>1, <3>2
      <3>3. QED
        BY <3>1, <3>2
    <2> HIDE DEF kept
    <2>4. /\ Append(kept, n) \in Seq(Nat) /\ Len(Append(kept, n)) = Len(kept) + 1
          /\ Len(kept) \in Nat
          /\ \A i \in 1..Len(kept) : Append(kept, n)[i] = kept[i]
          /\ Append(kept, n)[Len(kept) + 1] = n
      BY <1>1, <2>3, AppendProperties
    <2>5. n \in Range(Append(kept, n)) /\ Range(kept) \subseteq Range(Append(kept, n))
      <3> DEFINE a == Append(kept, n)
      <3>1. DOMAIN a = 1..(Len(kept) + 1) /\ DOMAIN kept = 1..Len(kept)
        BY <2>3, <2>4
      <3>2. Len(kept) + 1 \in DOMAIN a /\ \A i \in DOMAIN kept : i \in DOMAIN a
        BY <2>4, <3>1
      <3>3. a[Len(kept) + 1] = n /\ \A i \in DOMAIN kept : a[i] = kept[i]
        BY <2>4, <3>1
      <3> HIDE DEF a
      <3>4. n \in Range(a) /\ Range(kept) \subseteq Range(a)
        BY <3>2, <3>3 DEF Range
      <3>5. QED
        BY <3>4 DEF a
    <2>6. QED
      BY <2>2, <2>3, <2>4, <2>5
  <1>5. SeatsTyped'
    <2>1. \A v \in Viewers : queue'[v] \in Seq(Nat)
      BY <1>2, <1>3, <1>4
    <2>2. queue' \in [Viewers -> Seq(Nat)]
      BY <1>3, <2>1
    <2>3. QED
      BY <1>2, <1>3, <2>2 DEF SeatsTyped
  <1>6. ASSUME NEW v \in Viewers, seat'[v] = "live", NEW m \in sent', m > base'[v]
        PROVE  m \in shown'[v] \cup lost'[v] \cup Range(queue'[v])
    <2>1. seat[v] = "live" /\ seat[v] # "off" /\ base'[v] = base[v] /\ shown'[v] = shown[v]
      BY <1>3, <1>6
    <2>2. CASE m = n
      BY <1>4, <2>1, <2>2
    <2>3. CASE m \in sent
      <3>1. m \in shown[v] \cup lost[v] \cup Range(queue[v])
        BY <1>6, <2>1, <2>3 DEF StreamsInv, StreamsMissNothing
      <3>2. QED
        BY <1>4, <2>1, <3>1
    <2>4. QED
      BY <1>3, <2>2, <2>3
  <1>7. QED
    BY <1>5, <1>6 DEF StreamsMissNothing

(***************************************************************************)
(* A stream begins with the latest frame, than which nothing younger was   *)
(* broadcast, and what it takes from its queue it writes (mjpeg_stream).   *)
(***************************************************************************)
LEMMA ViewerKeeps ==
  ASSUME StreamsInv, NEW v \in Viewers, Open(v) \/ ShowLatest(v) \/ ShowNext(v) \/ Close(v)
  PROVE  SeatsTyped' /\ StreamsMissNothing'
  <1>1. /\ queue \in [Viewers -> Seq(Nat)]
        /\ DOMAIN seat = Viewers /\ DOMAIN shown = Viewers
        /\ DOMAIN lost = Viewers /\ DOMAIN base = Viewers
    BY DEF StreamsInv, SeatsTyped
  <1>2. /\ \A m \in sent : m \in Nat /\ m <= latest
        /\ latest \in Nat /\ sent' = sent
    BY DEF StreamsInv, HandTyped, HandInv, Open, ShowLatest, ShowNext, Close, places
  <1>3. \A u \in Viewers : u # v =>
          /\ seat'[u] = seat[u] /\ queue'[u] = queue[u] /\ shown'[u] = shown[u]
          /\ lost'[u] = lost[u] /\ base'[u] = base[u]
    BY <1>1 DEF Open, ShowLatest, ShowNext, Close, Show
  <1>4. SeatsTyped'
    <2>1. DOMAIN seat' = Viewers /\ DOMAIN shown' = Viewers
          /\ DOMAIN lost' = Viewers /\ DOMAIN base' = Viewers
      BY <1>1 DEF Open, ShowLatest, ShowNext, Close, Show
    <2>2. queue' \in [Viewers -> Seq(Nat)]
      <3>1. CASE ShowNext(v)
        <4>1. queue[v] \in Seq(Nat) /\ queue[v] # <<>>
          BY <1>1, <3>1 DEF ShowNext
        <4>2. Tail(queue[v]) \in Seq(Nat)
          BY <4>1, HeadTailProperties
        <4>3. queue' = [queue EXCEPT ![v] = Tail(@)]
          BY <3>1 DEF ShowNext
        <4>4. QED
          BY <1>1, <4>2, <4>3
      <3>2. CASE Close(v)
        <4>1. <<>> \in Seq(Nat)
          OBVIOUS
        <4>2. QED
          BY <1>1, <3>2, <4>1 DEF Close
      <3>3. CASE Open(v) \/ ShowLatest(v)
        BY <1>1, <3>3 DEF Open, ShowLatest
      <3>4. QED
        BY <3>1, <3>2, <3>3
    <2>3. QED
      BY <2>1, <2>2 DEF SeatsTyped
  <1>5. ASSUME seat'[v] = "live", NEW m \in sent', m > base'[v]
        PROVE  m \in shown'[v] \cup lost'[v] \cup Range(queue'[v])
    <2>1. CASE Open(v) \/ Close(v)
      BY <1>1, <1>5, <2>1 DEF Open, Close
    <2>2. CASE ShowLatest(v)
      <3>1. base'[v] = latest
        BY <1>1, <2>2 DEF ShowLatest
      <3>2. m \in Nat /\ m <= latest
        BY <1>2
      <3>3. QED
        BY <1>2, <1>5, <3>1, <3>2
    <2>3. CASE ShowNext(v)
      <3>1. /\ seat[v] = "live" /\ base'[v] = base[v] /\ lost'[v] = lost[v]
            /\ shown'[v] = shown[v] \cup {Head(queue[v])} /\ queue'[v] = Tail(queue[v])
            /\ queue[v] \in Seq(Nat) /\ queue[v] # <<>>
        BY <1>1, <2>3 DEF ShowNext, Show
      <3>2. m \in shown[v] \cup lost[v] \cup Range(queue[v])
        BY <1>2, <1>5, <3>1 DEF StreamsInv, StreamsMissNothing
      <3>3. Range(queue[v]) \subseteq Range(Tail(queue[v])) \cup {Head(queue[v])}
        BY <3>1, TailTakes
      <3>4. QED
        BY <3>1, <3>2, <3>3
    <2>4. QED
      BY <2>1, <2>2, <2>3
  <1>6. ASSUME NEW u \in Viewers, u # v, seat'[u] = "live", NEW m \in sent', m > base'[u]
        PROVE  m \in shown'[u] \cup lost'[u] \cup Range(queue'[u])
    BY <1>2, <1>3, <1>6 DEF StreamsInv, StreamsMissNothing
  <1>7. QED
    BY <1>4, <1>5, <1>6 DEF StreamsMissNothing

LEMMA StreamsInvariant == MediaSpec => []StreamsInv
  <1>1. MediaInit => StreamsInv
    <2> SUFFICES ASSUME MediaInit PROVE StreamsInv
      OBVIOUS
    <2>1. <<>> \in Seq(Nat) /\ <<>> \in Seq(Items) /\ Len(<<>>) = 0
      OBVIOUS
    <2>2. [n |-> 0, pts |-> 0, size |-> 0] \in Items
      BY DEF Items
    <2>3. HandTyped
      BY <2>1, <2>2 DEF MediaInit, HandTyped, Idle
    <2>4. HandInv
      BY <2>1, StepsAre DEF MediaInit, HandInv, Idle
    <2>5. SeatsTyped
      BY <2>1 DEF MediaInit, SeatsTyped
    <2>6. StreamsMissNothing
      BY DEF MediaInit, StreamsMissNothing
    <2>7. QED
      BY <2>3, <2>4, <2>5, <2>6 DEF StreamsInv
  <1>2. StreamsInv /\ [MediaNext]_mediaVars => StreamsInv'
    <2> SUFFICES ASSUME StreamsInv, [MediaNext]_mediaVars PROVE StreamsInv'
      OBVIOUS
    <2>1. HandTyped' /\ HandInv'
      BY HandStep DEF StreamsInv
    <2>2. CASE Broadcast
      BY <2>1, <2>2, BroadcastQueues DEF StreamsInv
    <2>3. CASE \E v \in Viewers : Open(v) \/ ShowLatest(v) \/ ShowNext(v) \/ Close(v)
      BY <2>1, <2>3, ViewerKeeps DEF StreamsInv
    <2>4. CASE \/ Tick \/ ReceiveAudio \/ Remember \/ Buffer \/ UNCHANGED mediaVars
               \/ \E f \in Fragments : ReceiveFragment(f)
      <3>1. UNCHANGED <<sent, streams>>
        BY <2>4 DEF Tick, ReceiveAudio, Remember, Buffer, ReceiveFragment, places, mediaVars
      <3>2. QED
        BY <2>1, <3>1 DEF StreamsInv, SeatsTyped, StreamsMissNothing, streams
    <2>5. QED
      BY <2>2, <2>3, <2>4 DEF MediaNext
  <1>3. QED
    BY <1>1, <1>2, PTL DEF MediaSpec

(***************************************************************************)
(* A stream that has begun misses no frame but those it was too slow for,  *)
(* for any number of viewers and any size of the channel, because it       *)
(* subscribes before it reads the latest frame and that is set before it   *)
(* is broadcast (push_video, mjpeg_stream).                                *)
(***************************************************************************)
THEOREM StreamsAreComplete == MediaSpec => []StreamsMissNothing
  <1>1. StreamsInv => StreamsMissNothing
    BY DEF StreamsInv
  <1>2. QED
    BY <1>1, StreamsInvariant, PTL

--------------------------------------------------------------------------------
(***************************************************************************)
(* Induction over the numbers, in a form the provers can use: a set of     *)
(* them instead of a predicate.                                            *)
(***************************************************************************)
LEMMA LeastNumber ==
  ASSUME NEW T \in SUBSET Nat, T # {}
  PROVE  \E x \in T : \A y \in T : x <= y
  <1>1. \A x, y \in Nat : <<x, y>> \in OpToRel(<, Nat) <=> x < y
    BY SMT DEF OpToRel
  <1>2. PICK x \in T : \A y \in T : ~(<<y, x>> \in OpToRel(<, Nat))
    BY NatLessThanWellFounded, WFMin, Zenon
  <1>3. \A y \in T : ~(y < x)
    BY <1>1, <1>2
  <1>4. QED
    BY <1>3

LEMMA AllNumbers ==
  ASSUME NEW T \in SUBSET Nat, 0 \in T, \A n \in T : n + 1 \in T
  PROVE  T = Nat
  <1>1. SUFFICES ASSUME Nat \ T # {} PROVE FALSE
    OBVIOUS
  <1>2. PICK x \in Nat \ T : \A y \in Nat \ T : x <= y
    BY <1>1, LeastNumber
  <1>3. x - 1 \in Nat /\ x - 1 \in T
    BY <1>2
  <1>4. QED
    BY <1>2, <1>3

(***************************************************************************)
(* A step that can be taken N times from b has a sequence of results.      *)
(***************************************************************************)
Steps(S, N) == [1..N -> [S -> S]]
Runs(S, b, N, step) ==
    {f \in [0..N -> S] : f[0] = b /\ \A k \in 1..N : f[k] = step[k][f[k - 1]]}

LEMMA Iterates ==
  ASSUME NEW S, NEW b \in S, NEW N \in Nat, NEW step \in Steps(S, N)
  PROVE  Runs(S, b, N, step) # {}
  <1> DEFINE Reaches(n, f) ==
               f[0] = b /\ \A k \in 1..n : f[k] = step[k][f[k - 1]]
             T == {n \in Nat : n <= N => \E f \in [0..n -> S] : Reaches(n, f)}
  <1>0. step \in [1..N -> [S -> S]]
    BY DEF Steps
  <1>1. 0 \in T
    <2>1. [k \in 0..0 |-> b] \in [0..0 -> S] /\ Reaches(0, [k \in 0..0 |-> b])
      OBVIOUS
    <2>2. QED
      BY <2>1
  <1>2. ASSUME NEW n \in T PROVE n + 1 \in T
    <2>1. SUFFICES ASSUME n + 1 <= N
                   PROVE  \E f \in [0..(n + 1) -> S] : Reaches(n + 1, f)
      OBVIOUS
    <2>2. PICK f \in [0..n -> S] : Reaches(n, f)
      BY <2>1
    <2> DEFINE g == [k \in 0..(n + 1) |-> IF k = n + 1 THEN step[n + 1][f[n]] ELSE f[k]]
    <2>3. n \in Nat /\ n \in 0..n /\ n + 1 \in 1..N
      BY <2>1
    <2>4. f[n] \in S /\ step[n + 1] \in [S -> S]
      BY <1>0, <2>2, <2>3
    <2>5. g \in [0..(n + 1) -> S]
      BY <2>2, <2>3, <2>4
    <2>6. g[0] = b
      BY <2>2, <2>3
    <2>7. ASSUME NEW k \in 1..(n + 1) PROVE g[k] = step[k][g[k - 1]]
      <3>1. CASE k = n + 1
        <4>1. g[k] = step[k][f[n]] /\ g[k - 1] = f[n]
          BY <2>3, <3>1
        <4>2. QED
          BY <4>1
      <3>2. CASE k # n + 1
        <4>1. k \in 1..n /\ k - 1 \in 0..n /\ k - 1 # n + 1
          BY <2>3, <3>2
        <4>2. g[k] = f[k] /\ g[k - 1] = f[k - 1]
          BY <2>3, <3>2, <4>1
        <4>3. QED
          BY <2>2, <4>1, <4>2
      <3>3. QED
        BY <3>1, <3>2
    <2>8. QED
      BY <2>5, <2>6, <2>7
  <1> HIDE DEF T
  <1>3. T = Nat
    <2>1. T \in SUBSET Nat
      BY DEF T
    <2>2. QED
      BY <1>1, <1>2, <2>1, AllNumbers
  <1>4. \E f \in [0..N -> S] : Reaches(N, f)
    BY <1>3 DEF T
  <1>5. QED
    BY <1>4 DEF Runs

LEMMA TotalIs ==
  ASSUME NEW s \in Seq(Nat)
  PROVE  \E f \in [0..Len(s) -> Nat] :
            /\ f[0] = 0 /\ \A k \in 1..Len(s) : f[k] = f[k - 1] + s[k]
            /\ Total(s) = f[Len(s)]
  <1> DEFINE N == Len(s)
             Sums(h) == h = [k \in 0..N |-> IF k = 0 THEN 0 ELSE h[k - 1] + s[k]]
             sum == CHOOSE h : Sums(h)
             step == [k \in 1..N |-> [x \in Nat |-> x + s[k]]]
  <1>1. N \in Nat /\ \A k \in 1..N : s[k] \in Nat
    OBVIOUS
  <1>2. Total(s) = sum[N]
    BY DEF Total
  <1>3. step \in [1..N -> [Nat -> Nat]]
    BY <1>1
  <1> HIDE DEF N
  <1>4. PICK f \in [0..N -> Nat] : f[0] = 0 /\ \A k \in 1..N : f[k] = step[k][f[k - 1]]
    <2>1. step \in Steps(Nat, N) /\ 0 \in Nat
      BY <1>3 DEF Steps
    <2>2. Runs(Nat, 0, N, step) # {}
      <3> HIDE DEF step
      <3>1. QED
        BY <1>1, <2>1, Iterates, Zenon
    <2>3. QED
      BY <2>2 DEF Runs
  <1>5. \A k \in 1..N : f[k - 1] \in Nat /\ f[k] = f[k - 1] + s[k]
    <2>1. \A k \in 1..N : k - 1 \in 0..N
      BY <1>1
    <2>2. QED
      BY <1>4, <2>1
  <1>6. Sums(f)
    BY <1>1, <1>4, <1>5
  <1> HIDE DEF sum
  <1>7. Sums(sum)
    <2> HIDE DEF Sums
    <2>1. QED
      BY <1>6 DEF sum
  <1>8. sum[N] = f[N]
    <2> DEFINE T == {n \in Nat : n <= N => sum[n] = f[n]}
    <2>1. 0 \in T
      BY <1>1, <1>4, <1>7
    <2>2. ASSUME NEW n \in T PROVE n + 1 \in T
      <3>1. SUFFICES ASSUME n + 1 <= N PROVE sum[n + 1] = f[n + 1]
        OBVIOUS
      <3>2. n \in Nat /\ n + 1 \in 1..N /\ n + 1 \in 0..N /\ (n + 1) - 1 = n /\ n <= N
        BY <1>1, <3>1
      <3>3. sum[n] = f[n]
        BY <3>2
      <3>4. sum[n + 1] = sum[n] + s[n + 1]
        BY <1>7, <3>2
      <3>5. QED
        BY <1>5, <3>2, <3>3, <3>4
    <2>3. T \in SUBSET Nat
      OBVIOUS
    <2> HIDE DEF T
    <2>4. T = Nat
      BY <2>1, <2>2, <2>3, AllNumbers
    <2>5. QED
      BY <1>1, <2>4 DEF T
  <1>9. QED
    BY <1>2, <1>4, <1>5, <1>8 DEF N

(***************************************************************************)
(* Totals: the larger numbers have the larger one, one that changes        *)
(* changes the total as much, and that of zeros is zero.                   *)
(***************************************************************************)
LEMMA TotalGrows ==
  ASSUME NEW s \in Seq(Nat), NEW t \in Seq(Nat), Len(s) <= Len(t),
         \A k \in 1..Len(s) : s[k] <= t[k]
  PROVE  Total(s) \in Nat /\ Total(t) \in Nat /\ Total(s) <= Total(t)
  <1>1. PICK f \in [0..Len(s) -> Nat] :
           /\ f[0] = 0 /\ \A k \in 1..Len(s) : f[k] = f[k - 1] + s[k]
           /\ Total(s) = f[Len(s)]
    BY TotalIs
  <1>2. PICK g \in [0..Len(t) -> Nat] :
           /\ g[0] = 0 /\ \A k \in 1..Len(t) : g[k] = g[k - 1] + t[k]
           /\ Total(t) = g[Len(t)]
    BY TotalIs
  <1> DEFINE M == Len(s)
             N == Len(t)
             upto(k) == IF k <= M THEN f[k] ELSE f[M]
             T == {n \in Nat : n <= N => upto(n) <= g[n]}
  <1>3. /\ M \in Nat /\ N \in Nat /\ M <= N
        /\ \A k \in 1..M : s[k] \in Nat
        /\ \A k \in 1..N : t[k] \in Nat
    OBVIOUS
  <1>m. \A k \in 1..M : s[k] <= t[k]
    OBVIOUS
  <1>4. /\ \A k \in 0..M : f[k] \in Nat
        /\ \A k \in 0..N : g[k] \in Nat
    BY <1>1, <1>2
  <1>5. /\ f[0] = 0 /\ \A k \in 1..M : f[k] = f[k - 1] + s[k]
        /\ g[0] = 0 /\ \A k \in 1..N : g[k] = g[k - 1] + t[k]
        /\ Total(s) = f[M] /\ Total(t) = g[N]
    BY <1>1, <1>2
  <1> HIDE DEF M, N
  <1>6. 0 \in T
    BY <1>3, <1>5
  <1>7. ASSUME NEW n \in T PROVE n + 1 \in T
    <2>1. SUFFICES ASSUME n + 1 <= N PROVE upto(n + 1) <= g[n + 1]
      OBVIOUS
    <2>2. /\ n \in Nat /\ n + 1 \in 1..N /\ (n + 1) - 1 = n /\ n <= N
          /\ n \in 0..N /\ n + 1 \in 0..N
      BY <1>3, <2>1
    <2>3. upto(n) <= g[n]
      BY <2>2
    <2>4. g[n + 1] = g[n] + t[n + 1] /\ t[n + 1] \in Nat /\ g[n] \in Nat
      BY <1>3, <1>4, <1>5, <2>2
    <2>5. CASE n + 1 <= M
      <3>1. n + 1 \in 1..M /\ n <= M /\ n \in 0..M
        BY <1>3, <2>2, <2>5
      <3>2. /\ f[n + 1] = f[n] + s[n + 1] /\ s[n + 1] <= t[n + 1] /\ s[n + 1] \in Nat
            /\ f[n] \in Nat /\ f[n] <= g[n]
        BY <1>m, <1>3, <1>4, <1>5, <2>2, <2>3, <3>1
      <3>3. f[n + 1] <= g[n + 1]
        BY <2>4, <3>2
      <3>4. QED
        BY <2>5, <3>3
    <2>6. CASE ~(n + 1 <= M)
      <3>1. upto(n + 1) = f[M] /\ upto(n) = f[M] /\ f[M] \in Nat
        <4>1. n = M \/ ~(n <= M)
          BY <1>3, <2>2, <2>6
        <4>2. M \in 0..M
          BY <1>3
        <4>3. QED
          BY <1>4, <2>6, <4>1, <4>2
      <3>2. QED
        BY <2>3, <2>4, <3>1
    <2>7. QED
      BY <2>5, <2>6
  <1>8. T \in SUBSET Nat
    OBVIOUS
  <1> HIDE DEF T
  <1>9. T = Nat
    BY <1>6, <1>7, <1>8, AllNumbers
  <1>10. upto(N) <= g[N]
    <2>1. N \in T /\ N <= N
      BY <1>3, <1>9
    <2>2. QED
      BY <2>1 DEF T
  <1>11. upto(N) = f[M]
    BY <1>3
  <1>12. M \in 0..M /\ N \in 0..N
    BY <1>3
  <1>13. f[M] \in Nat /\ g[N] \in Nat
    BY <1>4, <1>12
  <1>14. QED
    BY <1>5, <1>10, <1>11, <1>13

LEMMA TotalChanges ==
  ASSUME NEW s \in Seq(Nat), NEW t \in Seq(Nat), Len(s) = Len(t),
         NEW a \in 1..Len(s), NEW x \in Nat, t[a] = s[a] + x,
         \A k \in 1..Len(s) : k # a => t[k] = s[k]
  PROVE  Total(t) = Total(s) + x
  <1>1. PICK f \in [0..Len(s) -> Nat] :
           /\ f[0] = 0 /\ \A k \in 1..Len(s) : f[k] = f[k - 1] + s[k]
           /\ Total(s) = f[Len(s)]
    BY TotalIs
  <1>2. PICK g \in [0..Len(t) -> Nat] :
           /\ g[0] = 0 /\ \A k \in 1..Len(t) : g[k] = g[k - 1] + t[k]
           /\ Total(t) = g[Len(t)]
    BY TotalIs
  <1> DEFINE N == Len(s)
             T == {n \in Nat : n <= N => g[n] = IF n < a THEN f[n] ELSE f[n] + x}
  <1>3. N \in Nat /\ a \in 1..N /\ \A k \in 1..N : s[k] \in Nat /\ t[k] \in Nat
    OBVIOUS
  <1>4. \A k \in 0..N : f[k] \in Nat /\ g[k] \in Nat
    BY <1>1, <1>2
  <1>5. /\ f[0] = 0 /\ g[0] = 0
        /\ \A k \in 1..N : f[k] = f[k - 1] + s[k] /\ g[k] = g[k - 1] + t[k]
        /\ Total(s) = f[N] /\ Total(t) = g[N]
    BY <1>1, <1>2
  <1>m. \A k \in 1..N : k # a => t[k] = s[k]
    OBVIOUS
  <1> HIDE DEF N
  <1>6. 0 \in T
    BY <1>3, <1>5
  <1>7. ASSUME NEW n \in T PROVE n + 1 \in T
    <2>1. SUFFICES ASSUME n + 1 <= N
                   PROVE  g[n + 1] = IF n + 1 < a THEN f[n + 1] ELSE f[n + 1] + x
      OBVIOUS
    <2>2. /\ n \in Nat /\ n + 1 \in 1..N /\ (n + 1) - 1 = n /\ n <= N
          /\ n \in 0..N /\ n + 1 \in 0..N
      BY <1>3, <2>1
    <2>3. g[n] = IF n < a THEN f[n] ELSE f[n] + x
      BY <2>2
    <2>4. /\ g[n + 1] = g[n] + t[n + 1] /\ f[n + 1] = f[n] + s[n + 1]
          /\ t[n + 1] \in Nat /\ s[n + 1] \in Nat /\ f[n] \in Nat /\ g[n] \in Nat
      BY <1>3, <1>4, <1>5, <2>2
    <2>5. CASE n + 1 = a
      <3>1. n < a /\ ~(n + 1 < a) /\ t[n + 1] = s[n + 1] + x
        BY <2>2, <2>5
      <3>2. QED
        BY <2>3, <2>4, <3>1
    <2>6. CASE n + 1 # a
      <3>1. t[n + 1] = s[n + 1] /\ (n < a <=> n + 1 < a)
        BY <1>m, <1>3, <2>2, <2>6
      <3>2. CASE n < a
        <4>1. g[n] = f[n] /\ n + 1 < a
          BY <2>3, <3>1, <3>2
        <4>2. g[n + 1] = f[n + 1]
          BY <2>4, <3>1, <4>1
        <4>3. QED
          BY <4>1, <4>2
      <3>3. CASE ~(n < a)
        <4>1. g[n] = f[n] + x /\ ~(n + 1 < a)
          BY <2>3, <3>1, <3>3
        <4>2. g[n + 1] = (f[n] + x) + s[n + 1]
          BY <2>4, <3>1, <4>1
        <4>3. (f[n] + x) + s[n + 1] = (f[n] + s[n + 1]) + x
          BY <2>4
        <4>4. QED
          BY <2>4, <4>1, <4>2, <4>3
      <3>4. QED
        BY <3>2, <3>3
    <2>7. QED
      BY <2>5, <2>6
  <1>8. T \in SUBSET Nat
    OBVIOUS
  <1> HIDE DEF T
  <1>9. T = Nat
    BY <1>6, <1>7, <1>8, AllNumbers
  <1>10. g[N] = f[N] + x
    <2>1. N \in T /\ N <= N /\ ~(N < a)
      BY <1>3, <1>9
    <2>2. QED
      BY <2>1 DEF T
  <1>11. QED
    BY <1>5, <1>10

LEMMA TotalOfZeros ==
  ASSUME NEW s \in Seq(Nat), \A k \in 1..Len(s) : s[k] = 0
  PROVE  Total(s) = 0
  <1>1. PICK f \in [0..Len(s) -> Nat] :
           /\ f[0] = 0 /\ \A k \in 1..Len(s) : f[k] = f[k - 1] + s[k]
           /\ Total(s) = f[Len(s)]
    BY TotalIs
  <1> DEFINE N == Len(s)
             T == {n \in Nat : n <= N => f[n] = 0}
  <1>2. N \in Nat /\ f[0] = 0 /\ \A k \in 1..N : f[k] = f[k - 1] + 0
    BY <1>1
  <1>3. Total(s) = f[N]
    BY <1>1
  <1> HIDE DEF N
  <1>4. 0 \in T
    BY <1>2
  <1>5. ASSUME NEW n \in T PROVE n + 1 \in T
    <2>1. SUFFICES ASSUME n + 1 <= N PROVE f[n + 1] = 0
      OBVIOUS
    <2>2. n \in Nat /\ n + 1 \in 1..N /\ (n + 1) - 1 = n /\ n <= N
      BY <1>2, <2>1
    <2>3. f[n] = 0
      BY <2>2
    <2>4. QED
      BY <1>2, <2>2, <2>3
  <1>6. T \in SUBSET Nat
    OBVIOUS
  <1> HIDE DEF T
  <1>7. T = Nat
    BY <1>4, <1>5, <1>6, AllNumbers
  <1>8. N \in T /\ N <= N
    BY <1>2, <1>7
  <1>9. QED
    BY <1>3, <1>8 DEF T

LEMMA ItemsAre ==
  ASSUME NEW q \in Seq(Items), NEW k \in 1..Len(q)
  PROVE  q[k] \in Items /\ q[k].n \in Nat /\ q[k].pts \in Nat /\ q[k].size \in Nat
  <1>1. q[k] \in Items
    OBVIOUS
  <1>2. QED
    BY <1>1 DEF Items

LEMMA SizedIs ==
  ASSUME NEW q \in Seq(Items), NEW K
  PROVE  LET s == [k \in 1..Len(q) |-> IF k \in K THEN q[k].size ELSE 0]
         IN  /\ s \in Seq(Nat) /\ Len(s) = Len(q) /\ SizesAt(q, K) = Total(s)
             /\ \A k \in 1..Len(q) : s[k] = IF k \in K THEN q[k].size ELSE 0
  <1>1. \A k \in 1..Len(q) : q[k].size \in Nat
    BY ItemsAre
  <1>2. QED
    BY <1>1 DEF SizesAt

\* The items at more places are more bytes, also of a longer queue.
LEMMA SizesGrow ==
  ASSUME NEW p \in Seq(Items), NEW q \in Seq(Items), Len(p) <= Len(q),
         \A k \in 1..Len(p) : q[k] = p[k],
         NEW K, NEW L, K \cap (1..Len(p)) \subseteq L
  PROVE  /\ SizesAt(p, K) \in Nat /\ SizesAt(q, L) \in Nat
         /\ SizesAt(p, K) <= SizesAt(q, L)
  <1> DEFINE s == [k \in 1..Len(p) |-> IF k \in K THEN p[k].size ELSE 0]
             t == [k \in 1..Len(q) |-> IF k \in L THEN q[k].size ELSE 0]
  <1>1. /\ s \in Seq(Nat) /\ Len(s) = Len(p) /\ SizesAt(p, K) = Total(s)
        /\ \A k \in 1..Len(p) : s[k] = IF k \in K THEN p[k].size ELSE 0
    BY SizedIs
  <1>2. /\ t \in Seq(Nat) /\ Len(t) = Len(q) /\ SizesAt(q, L) = Total(t)
        /\ \A k \in 1..Len(q) : t[k] = IF k \in L THEN q[k].size ELSE 0
    BY SizedIs
  <1> HIDE DEF s, t
  <1>3. \A k \in 1..Len(s) : s[k] <= t[k]
    <2>1. ASSUME NEW k \in 1..Len(p) PROVE s[k] <= t[k]
      <3>1. k \in 1..Len(q) /\ q[k] = p[k] /\ p[k].size \in Nat
        BY ItemsAre
      <3>2. s[k] = (IF k \in K THEN p[k].size ELSE 0) /\ (k \in K => k \in L)
        BY <1>1
      <3>3. t[k] = IF k \in L THEN p[k].size ELSE 0
        BY <1>2, <3>1
      <3>4. QED
        BY <3>1, <3>2, <3>3
    <2>2. QED
      BY <1>1, <2>1
  <1>4. QED
    BY <1>1, <1>2, <1>3, TotalGrows

LEMMA SizesAddOne ==
  ASSUME NEW p \in Seq(Items), NEW K, NEW a \in 1..Len(p), a \notin K
  PROVE  SizesAt(p, K \cup {a}) = SizesAt(p, K) + p[a].size
  <1> DEFINE s == [k \in 1..Len(p) |-> IF k \in K THEN p[k].size ELSE 0]
             t == [k \in 1..Len(p) |-> IF k \in K \cup {a} THEN p[k].size ELSE 0]
  <1>1. /\ s \in Seq(Nat) /\ Len(s) = Len(p) /\ SizesAt(p, K) = Total(s)
        /\ \A k \in 1..Len(p) : s[k] = IF k \in K THEN p[k].size ELSE 0
    BY SizedIs
  <1>2. /\ t \in Seq(Nat) /\ Len(t) = Len(p) /\ SizesAt(p, K \cup {a}) = Total(t)
        /\ \A k \in 1..Len(p) : t[k] = IF k \in K \cup {a} THEN p[k].size ELSE 0
    BY SizedIs
  <1> HIDE DEF s, t
  <1>3. p[a].size \in Nat
    BY ItemsAre
  <1>4. t[a] = s[a] + p[a].size
    BY <1>1, <1>2, <1>3
  <1>5. \A k \in 1..Len(s) : k # a => t[k] = s[k]
    BY <1>1, <1>2
  <1>6. QED
    BY <1>1, <1>2, <1>3, <1>4, <1>5, TotalChanges

LEMMA SizesOfNone ==
  ASSUME NEW p \in Seq(Items)
  PROVE  SizesAt(p, {}) = 0
  <1> DEFINE s == [k \in 1..Len(p) |-> IF k \in {} THEN p[k].size ELSE 0]
  <1>1. /\ s \in Seq(Nat) /\ Len(s) = Len(p) /\ SizesAt(p, {}) = Total(s)
        /\ \A k \in 1..Len(p) : s[k] = IF k \in {} THEN p[k].size ELSE 0
    BY SizedIs
  <1> HIDE DEF s
  <1>2. QED
    BY <1>1, TotalOfZeros

(***************************************************************************)
(* A queue of the ring against the log p of everything pushed: its items   *)
(* are some of the log's, in their order.                                  *)
(***************************************************************************)
IsLog(p) ==
    /\ p \in Seq(Items)
    /\ \A k \in 1..Len(p) : p[k].n = k
    /\ \A j, k \in 1..Len(p) : j <= k => p[j].pts <= p[k].pts

Fits(q, p) ==
    /\ q \in Seq(Items)
    /\ \A k \in 1..Len(q) : q[k].n \in 1..Len(p) /\ p[q[k].n] = q[k]
    /\ \A j, k \in 1..Len(q) : j < k => q[j].n < q[k].n

Numbers(q) == {q[k].n : k \in 1..Len(q)}

\* Items of a queue are bytes of the log.
LEMMA SizesOfQueue ==
  ASSUME NEW p, IsLog(p), NEW q, Fits(q, p),
         NEW K, K \cap Numbers(q) = {}
  PROVE  /\ SizesAt(p, K \cup Numbers(q)) = SizesAt(p, K) + Sizes(q)
         /\ Sizes(q) \in Nat
  <1> DEFINE N == Len(q)
             s == [k \in 1..Len(q) |-> IF k \in DOMAIN q THEN q[k].size ELSE 0]
             First(m) == {q[k].n : k \in 1..m}
  <1>1. p \in Seq(Items) /\ q \in Seq(Items)
    BY DEF IsLog, Fits
  <1>2. /\ s \in Seq(Nat) /\ Len(s) = N /\ Sizes(q) = Total(s)
        /\ \A k \in 1..N : s[k] = IF k \in DOMAIN q THEN q[k].size ELSE 0
    BY <1>1, SizedIs DEF Sizes
  <1>3. N \in Nat /\ DOMAIN q = 1..N
    BY <1>1
  <1>4. \A k \in 1..N : s[k] = q[k].size /\ q[k].size \in Nat
    BY <1>1, <1>2, <1>3, ItemsAre
  <1>5. PICK f \in [0..Len(s) -> Nat] :
           /\ f[0] = 0 /\ \A k \in 1..Len(s) : f[k] = f[k - 1] + s[k]
           /\ Total(s) = f[Len(s)]
    BY <1>2, TotalIs
  <1>6. /\ \A k \in 0..N : f[k] \in Nat
        /\ f[0] = 0 /\ \A k \in 1..N : f[k] = f[k - 1] + q[k].size
        /\ Sizes(q) = f[N]
    BY <1>2, <1>4, <1>5
  <1>7. SizesAt(p, K) \in Nat
    BY <1>1, SizesGrow
  <1>8. /\ \A k \in 1..N : q[k].n \in 1..Len(p) /\ p[q[k].n] = q[k] /\ q[k].n \notin K
        /\ \A j, k \in 1..N : j < k => q[j].n < q[k].n
    BY DEF Fits, Numbers
  <1>9. Numbers(q) = First(N)
    BY DEF Numbers
  <1> DEFINE T == {m \in Nat : m <= N => SizesAt(p, K \cup First(m)) = SizesAt(p, K) + f[m]}
  <1> HIDE DEF N, s
  <1>10. 0 \in T
    <2>1. K \cup First(0) = K
      OBVIOUS
    <2> HIDE DEF First
    <2>2. SizesAt(p, K) = SizesAt(p, K) + f[0]
      BY <1>6, <1>7
    <2>3. SizesAt(p, K \cup First(0)) = SizesAt(p, K) + f[0]
      BY <2>1, <2>2, Zenon
    <2>4. QED
      BY <2>3
  <1>11. ASSUME NEW m \in T PROVE m + 1 \in T
    <2>1. SUFFICES ASSUME m + 1 <= N
                   PROVE  SizesAt(p, K \cup First(m + 1)) = SizesAt(p, K) + f[m + 1]
      OBVIOUS
    <2>2. /\ m \in Nat /\ m + 1 \in 1..N /\ (m + 1) - 1 = m /\ m <= N /\ m \in 0..N
          /\ \A k \in 1..m : k \in 1..N /\ k < m + 1
      BY <1>3, <2>1
    <2>3. SizesAt(p, K \cup First(m)) = SizesAt(p, K) + f[m]
      BY <2>2
    <2> DEFINE a == q[m + 1].n
    <2>4. a \in 1..Len(p) /\ p[a] = q[m + 1] /\ a \notin K
      BY <1>8, <2>2
    <2>5. a \notin First(m)
      <3>1. ASSUME NEW k \in 1..m PROVE q[k].n # a
        <4>1. q[k].n < a /\ q[k].n \in 1..Len(p)
          BY <1>8, <2>2
        <4>2. QED
          BY <2>4, <4>1
      <3>2. QED
        BY <3>1
    <2>6. First(m + 1) = First(m) \cup {a}
      <3>1. 1..(m + 1) = (1..m) \cup {m + 1}
        BY <2>2
      <3>2. QED
        BY <3>1
    <2>7. SizesAt(p, (K \cup First(m)) \cup {a}) = SizesAt(p, K \cup First(m)) + p[a].size
      <3> HIDE DEF First, a
      <3>1. a \notin K \cup First(m)
        BY <2>4, <2>5
      <3>2. QED
        BY <1>1, <2>4, <3>1, SizesAddOne
    <2>8. f[m + 1] = f[m] + q[m + 1].size /\ q[m + 1].size \in Nat /\ f[m] \in Nat
      BY <1>4, <1>6, <2>2
    <2>9. K \cup First(m + 1) = (K \cup First(m)) \cup {a}
      BY <2>6
    <2> HIDE DEF First, a
    <2>10. SizesAt(p, K \cup First(m + 1)) = (SizesAt(p, K) + f[m]) + q[m + 1].size
      BY <2>3, <2>4, <2>7, <2>9
    <2>11. QED
      BY <1>7, <2>8, <2>10
  <1>12. T \in SUBSET Nat
    OBVIOUS
  <1> HIDE DEF T
  <1>13. T = Nat
    BY <1>10, <1>11, <1>12, AllNumbers
  <1>14. N \in T /\ N <= N /\ N \in 0..N
    BY <1>3, <1>13
  <1>15. SizesAt(p, K \cup First(N)) = SizesAt(p, K) + f[N]
    BY <1>14 DEF T
  <1>16. QED
    BY <1>6, <1>9, <1>14, <1>15

\* The bytes of a queue are those of its items in the log.
LEMMA FitsBytes ==
  ASSUME NEW p, IsLog(p), NEW q, Fits(q, p)
  PROVE  Sizes(q) = SizesAt(p, Numbers(q)) /\ Sizes(q) \in Nat
  <1>1. SizesAt(p, {} \cup Numbers(q)) = SizesAt(p, {}) + Sizes(q) /\ Sizes(q) \in Nat
    <2>1. {} \cap Numbers(q) = {}
      OBVIOUS
    <2>2. QED
      BY <2>1, SizesOfQueue
  <1>2. {} \cup Numbers(q) = Numbers(q)
    OBVIOUS
  <1>3. SizesAt(p, {}) = 0
    BY SizesOfNone DEF IsLog
  <1>4. QED
    BY <1>1, <1>2, <1>3

\* The rest of a queue.
LEMMA CutFits ==
  ASSUME NEW p, IsLog(p), NEW q, Fits(q, p), NEW k \in 0..Len(q)
  PROVE  LET c == SubSeq(q, k + 1, Len(q))
         IN  /\ Fits(c, p) /\ Len(c) = Len(q) - k
             /\ \A j \in 1..Len(c) : c[j] = q[k + j]
             /\ Numbers(c) \subseteq Numbers(q)
  <1> DEFINE c == SubSeq(q, k + 1, Len(q))
  <1>1. q \in Seq(Items) /\ Len(q) \in Nat /\ k \in Nat /\ k <= Len(q)
    BY DEF Fits
  <1>2. /\ c \in Seq(Items) /\ Len(c) = Len(q) - k
        /\ \A j \in 1..Len(c) : c[j] = q[k + j]
    BY <1>1
  <1> HIDE DEF c
  <1>3. /\ \A j \in 1..Len(c) : k + j \in 1..Len(q)
        /\ \A i, j \in 1..Len(c) : i < j => k + i < k + j
    BY <1>1, <1>2
  <1>4. Fits(c, p)
    BY <1>2, <1>3 DEF Fits
  <1>5. Numbers(c) \subseteq Numbers(q)
    BY <1>2, <1>3 DEF Numbers
  <1>6. QED
    BY <1>2, <1>4, <1>5 DEF c

\* The items at the front that are too old are those that Since() drops.
LEMMA SinceIs ==
  ASSUME NEW q \in Seq(Items), NEW floor \in Nat
  PROVE  \E k \in 0..Len(q) :
            /\ Since(q, floor) = SubSeq(q, k + 1, Len(q))
            /\ \A j \in 1..k : q[j].pts < floor
            /\ k < Len(q) => ~(q[k + 1].pts < floor)
  <1> DEFINE Young == {k \in 0..Len(q) : k < Len(q) => ~(q[k + 1].pts < floor)}
             Right(k) == /\ \A j \in 1..k : q[j].pts < floor
                         /\ k < Len(q) => ~(q[k + 1].pts < floor)
             old == CHOOSE k \in 0..Len(q) : Right(k)
  <1>1. Len(q) \in Nat /\ Len(q) \in Young /\ Young \in SUBSET Nat
    OBVIOUS
  <1>2. PICK k \in Young : \A j \in Young : k <= j
    BY <1>1, LeastNumber
  <1>3. ASSUME NEW j \in 1..k PROVE q[j].pts < floor
    <2>1. j - 1 \in 0..Len(q) /\ j - 1 < Len(q) /\ (j - 1) + 1 = j /\ ~(k <= j - 1)
      BY <1>1, <1>2
    <2>2. j - 1 \notin Young
      BY <1>2, <2>1
    <2>3. QED
      BY <2>1, <2>2
  <1>4. k \in 0..Len(q) /\ Right(k)
    BY <1>2, <1>3
  <1> HIDE DEF Right
  <1>5. old \in 0..Len(q) /\ Right(old)
    BY <1>4
  <1>6. Since(q, floor) = SubSeq(q, old + 1, Len(q))
    BY DEF Since, Right
  <1>7. QED
    BY <1>5, <1>6 DEF Right

(***************************************************************************)
(* The ring against the log.                                               *)
(***************************************************************************)
Rings == [video : Seq(Items), audio : Seq(Items), bytes : Int]

RingFits(r, p) ==
    /\ r \in Rings
    /\ Fits(r.video, p) /\ Fits(r.audio, p)
    /\ Numbers(r.video) \cap Numbers(r.audio) = {}
    /\ r.bytes = Sizes(r.video) + Sizes(r.audio)

Held(r) == Numbers(r.video) \cup Numbers(r.audio)
Left(r) == Len(r.video) + Len(r.audio)

\* What may have cost the k-th item its place.
Justified(k, p) ==
    \/ Window = 0
    \/ p[k].pts + Window < p[Len(p)].pts
    \/ SizesAt(p, {j \in DOMAIN p : p[j].pts >= p[k].pts}) > MaxBytes

Recent(r, p) ==
    \A k \in (1..Len(p)) \ Held(r) :
        /\ \A j \in Held(r) : p[k].pts <= p[j].pts
        /\ Justified(k, p)

LEMMA HeldBytes ==
  ASSUME NEW p, IsLog(p), NEW r, RingFits(r, p)
  PROVE  /\ r.bytes \in Nat /\ r.bytes = SizesAt(p, Held(r))
         /\ Held(r) \subseteq 1..Len(p)
  <1>1. p \in Seq(Items) /\ Fits(r.video, p) /\ Fits(r.audio, p)
    BY DEF IsLog, RingFits
  <1>3. Sizes(r.video) \in Nat /\ Sizes(r.audio) \in Nat
    BY <1>1, FitsBytes
  <1>4. SizesAt(p, Numbers(r.video)) = Sizes(r.video)
    BY <1>1, FitsBytes
  <1>5. SizesAt(p, Held(r)) = SizesAt(p, Numbers(r.video)) + Sizes(r.audio)
    <2>1. Numbers(r.video) \cap Numbers(r.audio) = {}
      BY DEF RingFits
    <2>2. QED
      BY <1>1, <2>1, SizesOfQueue DEF Held
  <1>6. Held(r) \subseteq 1..Len(p)
    BY <1>1 DEF Held, Numbers, Fits
  <1>7. r.bytes = Sizes(r.video) + Sizes(r.audio)
    BY DEF RingFits
  <1>8. QED
    BY <1>3, <1>4, <1>5, <1>6, <1>7

LEMMA NothingLeft ==
  ASSUME NEW r \in Rings
  PROVE  Left(r) \in Nat /\ (Left(r) = 0 => Held(r) = {})
  <1>1. Len(r.video) \in Nat /\ Len(r.audio) \in Nat
    BY DEF Rings
  <1>2. \A a, b \in Nat : a + b \in Nat /\ (a + b = 0 => a = 0 /\ b = 0)
    OBVIOUS
  <1>3. Left(r) \in Nat /\ (Left(r) = 0 => Len(r.video) = 0 /\ Len(r.audio) = 0)
    BY <1>1, <1>2, Zenon DEF Left
  <1>4. Len(r.video) = 0 /\ Len(r.audio) = 0 => Held(r) = {}
    BY DEF Held, Numbers
  <1>5. QED
    BY <1>3, <1>4

\* pop_front() of a queue: the oldest item goes, with its bytes.
LEMMA PopFits ==
  ASSUME NEW p, IsLog(p), NEW q, Fits(q, p), q # <<>>
  PROVE  /\ Fits(Tail(q), p) /\ Len(Tail(q)) = Len(q) - 1 /\ Len(q) >= 1
         /\ Head(q).n \in 1..Len(p) /\ p[Head(q).n] = Head(q)
         /\ Numbers(q) = Numbers(Tail(q)) \cup {Head(q).n}
         /\ Head(q).n \notin Numbers(Tail(q))
         /\ Sizes(q) = Sizes(Tail(q)) + Head(q).size
         /\ Sizes(Tail(q)) \in Nat /\ Head(q).size \in Nat
         /\ \A j \in Numbers(q) : Head(q).pts <= p[j].pts
  <1> DEFINE t == Tail(q)
             N == Len(q)
  <1>1. q \in Seq(Items) /\ p \in Seq(Items)
    BY DEF Fits, IsLog
  <1>2. /\ t \in Seq(Items) /\ Len(t) = N - 1 /\ Head(q) = q[1]
        /\ \A k \in 1..Len(t) : t[k] = q[k + 1]
    BY <1>1, HeadTailProperties
  <1>3. N \in Nat /\ N >= 1
    BY <1>1
  <1>4. /\ \A k \in 1..N : q[k].n \in 1..Len(p) /\ p[q[k].n] = q[k]
        /\ \A j, k \in 1..N : j < k => q[j].n < q[k].n
    BY DEF Fits
  <1>5. Numbers(q) = {q[k].n : k \in 1..N} /\ Numbers(t) = {t[k].n : k \in 1..Len(t)}
    BY DEF Numbers
  <1> HIDE DEF t, N
  <1>6. \A k \in 1..Len(t) : k + 1 \in 1..N /\ 1 < k + 1 /\ k \in Nat
    BY <1>2, <1>3
  <1>7. Fits(t, p)
    <2>1. \A i, k \in 1..Len(t) : i < k => i + 1 < k + 1
      BY <1>6
    <2>2. QED
      BY <1>2, <1>4, <1>6, <2>1 DEF Fits
  <1>8. 1 \in 1..N /\ Head(q).n \in 1..Len(p) /\ p[Head(q).n] = Head(q)
    BY <1>2, <1>3, <1>4
  <1>9. Numbers(q) = Numbers(t) \cup {Head(q).n}
    <2>1. ASSUME NEW k \in 1..N PROVE q[k].n \in Numbers(t) \cup {Head(q).n}
      <3>1. CASE k = 1
        BY <1>2, <3>1
      <3>2. CASE k # 1
        <4>1. k - 1 \in 1..Len(t) /\ (k - 1) + 1 = k
          BY <1>2, <1>3, <3>2
        <4>2. t[k - 1] = q[k]
          BY <1>2, <4>1
        <4>3. QED
          BY <1>5, <4>1, <4>2
      <3>3. QED
        BY <3>1, <3>2
    <2>2. Numbers(t) \subseteq Numbers(q)
      BY <1>2, <1>5, <1>6
    <2>3. Head(q).n \in Numbers(q)
      BY <1>2, <1>5, <1>8
    <2>4. QED
      BY <1>5, <2>1, <2>2, <2>3
  <1>10. Head(q).n \notin Numbers(t)
    <2>1. ASSUME NEW k \in 1..Len(t) PROVE t[k].n # Head(q).n
      <3>1. t[k] = q[k + 1] /\ q[1].n < q[k + 1].n
        BY <1>2, <1>4, <1>6, <1>8
      <3>2. q[1].n \in Nat
        BY <1>4, <1>8
      <3>3. QED
        BY <1>2, <3>1, <3>2
    <2>2. QED
      BY <1>5, <2>1
  <1>11. Sizes(t) \in Nat /\ Sizes(t) = SizesAt(p, Numbers(t))
    BY <1>7, FitsBytes
  <1>12. Sizes(q) = SizesAt(p, Numbers(q))
    BY FitsBytes
  <1>13. SizesAt(p, Numbers(t) \cup {Head(q).n}) = SizesAt(p, Numbers(t)) + p[Head(q).n].size
    BY <1>1, <1>8, <1>10, SizesAddOne
  <1>14. Sizes(q) = Sizes(t) + Head(q).size
    BY <1>8, <1>9, <1>11, <1>12, <1>13
  <1>15. Head(q).size \in Nat
    BY <1>1, <1>2, <1>8, ItemsAre DEF N
  <1>16. ASSUME NEW k \in 1..N PROVE Head(q).pts <= p[q[k].n].pts
    <2>1. q[1].n <= q[k].n
      <3>1. q[1].n \in Nat /\ q[k].n \in Nat
        BY <1>4, <1>8
      <3>2. k = 1 \/ 1 < k
        BY <1>3
      <3>3. QED
        BY <1>4, <1>8, <3>1, <3>2
    <2>2. QED
      BY <1>2, <1>4, <1>8, <2>1 DEF IsLog
  <1>17. QED
    BY <1>2, <1>3, <1>5, <1>7, <1>8, <1>9, <1>10, <1>11, <1>14, <1>15, <1>16 DEF t, N

\* One turn of the loop over the cap: an item that leaves is as old as any
\* that stays, and the items since it are more bytes than the cap.
LEMMA LoweredIs ==
  ASSUME NEW p, IsLog(p), NEW r, RingFits(r, p), Recent(r, p)
  PROVE  /\ RingFits(Lowered(r), p) /\ Recent(Lowered(r), p)
         /\ Held(Lowered(r)) \subseteq Held(r)
         /\ r.bytes <= MaxBytes => Lowered(r) = r
         /\ ~(r.bytes <= MaxBytes) => Left(Lowered(r)) = Left(r) - 1
  <1>1. /\ r.bytes \in Nat /\ r.bytes = SizesAt(p, Held(r)) /\ Held(r) \subseteq 1..Len(p)
        /\ MaxBytes \in Nat
    BY HeldBytes, RingAssumption
  <1>2. CASE r.bytes <= MaxBytes
    <2>1. ~(r.bytes > MaxBytes)
      BY <1>1, <1>2
    <2>2. Lowered(r) = r
      BY <2>1 DEF Lowered
    <2>3. RingFits(Lowered(r), p) /\ Recent(Lowered(r), p) /\ Held(Lowered(r)) \subseteq Held(r)
      BY <2>2
    <2>4. QED
      BY <1>2, <2>2, <2>3
  <1>3. CASE ~(r.bytes <= MaxBytes)
    <2>1. Lowered(r) = DropOldest(r) /\ r.bytes > MaxBytes
      BY <1>1, <1>3 DEF Lowered
    <2>2. /\ r \in Rings /\ Fits(r.video, p) /\ Fits(r.audio, p)
          /\ Numbers(r.video) \cap Numbers(r.audio) = {}
          /\ r.bytes = Sizes(r.video) + Sizes(r.audio)
          /\ p \in Seq(Items)
      BY DEF RingFits, IsLog
    <2>3. r.video \in Seq(Items) /\ r.audio \in Seq(Items)
      BY <2>2 DEF Fits
    <2>4. \A k \in 1..Len(p) : p[k].pts \in Nat
      BY <2>2, ItemsAre
    \* What leaves and what stays.
    <2>5. \E x \in Held(r) :
             /\ RingFits(DropOldest(r), p)
             /\ Held(DropOldest(r)) = Held(r) \ {x}
             /\ Left(DropOldest(r)) = Left(r) - 1
             /\ \A j \in Held(r) : p[x].pts <= p[j].pts
      <3>1. CASE r.video # <<>> /\ (r.audio = <<>> \/ Head(r.audio).pts >= Head(r.video).pts)
        <4> DEFINE v == r.video
                   x == Head(v).n
                   d == DropVideo(r)
        <4>1. /\ Fits(Tail(v), p) /\ Len(Tail(v)) = Len(v) - 1 /\ Len(v) >= 1
              /\ x \in 1..Len(p) /\ p[x] = Head(v)
              /\ Numbers(v) = Numbers(Tail(v)) \cup {x} /\ x \notin Numbers(Tail(v))
              /\ Sizes(v) = Sizes(Tail(v)) + Head(v).size
              /\ Sizes(Tail(v)) \in Nat /\ Head(v).size \in Nat
              /\ \A j \in Numbers(v) : Head(v).pts <= p[j].pts
          BY <2>2, <3>1, PopFits
        <4>2. DropOldest(r) = d
          BY <3>1 DEF DropOldest
        <4>3. d.video = Tail(v) /\ d.audio = r.audio /\ d.bytes = r.bytes - Head(v).size
          BY <2>2 DEF DropVideo, Rings
        <4>4. d \in Rings
          <5>1. Tail(v) \in Seq(Items) /\ r.bytes - Head(v).size \in Int
            BY <1>1, <4>1 DEF Fits
          <5>2. QED
            BY <2>2, <5>1 DEF DropVideo, Rings
        <4>5. Sizes(r.audio) \in Nat
          BY <2>2, FitsBytes
        <4>6. d.bytes = Sizes(d.video) + Sizes(d.audio)
          BY <2>2, <4>1, <4>3, <4>5
        <4>7. Numbers(d.video) \cap Numbers(d.audio) = {}
          BY <2>2, <4>1, <4>3
        <4>8. RingFits(d, p)
          BY <2>2, <4>1, <4>3, <4>4, <4>6, <4>7 DEF RingFits
        <4>9. x \in Held(r) /\ Held(d) = Held(r) \ {x}
          BY <2>2, <4>1, <4>3 DEF Held
        <4>10. Len(r.video) \in Nat /\ Len(r.audio) \in Nat
          BY <2>3
        <4>11. Left(d) = Left(r) - 1
          <5>1. Len(d.video) = Len(r.video) - 1 /\ Len(d.audio) = Len(r.audio)
            BY <4>1, <4>3
          <5>2. QED
            BY <4>10, <5>1 DEF Left
        <4>12. \A j \in Numbers(r.audio) : p[x].pts <= p[j].pts
          <5>1. CASE r.audio = <<>>
            BY <5>1 DEF Numbers
          <5>2. CASE r.audio # <<>>
            <6>1. /\ \A j \in Numbers(r.audio) : Head(r.audio).pts <= p[j].pts
                  /\ Head(r.audio).n \in 1..Len(p) /\ p[Head(r.audio).n] = Head(r.audio)
              BY <2>2, <5>2, PopFits
            <6>2. Head(r.audio).pts \in Nat /\ p[x].pts \in Nat
              BY <2>4, <4>1, <6>1
            <6>3. p[x].pts <= Head(r.audio).pts
              BY <3>1, <4>1, <5>2, <6>2
            <6>4. \A j \in Numbers(r.audio) : p[j].pts \in Nat
              BY <1>1, <2>4 DEF Held
            <6>5. QED
              BY <6>1, <6>2, <6>3, <6>4
          <5>3. QED
            BY <5>1, <5>2
        <4>13. \A j \in Held(r) : p[x].pts <= p[j].pts
          BY <4>1, <4>12 DEF Held
        <4>14. QED
          BY <4>2, <4>8, <4>9, <4>11, <4>13
      <3>2. CASE ~(r.video # <<>> /\ (r.audio = <<>> \/ Head(r.audio).pts >= Head(r.video).pts))
        <4> DEFINE a == r.audio
                   x == Head(a).n
                   d == DropAudio(r)
        <4>0. a # <<>>
          <5>1. ASSUME r.video = <<>>, a = <<>> PROVE FALSE
            <6>1. Numbers(r.video) = {} /\ Numbers(a) = {}
              BY <5>1 DEF Numbers
            <6>2. Held(r) = {}
              BY <6>1 DEF Held
            <6>3. r.bytes = 0
              BY <1>1, <2>2, <6>2, SizesOfNone
            <6>4. QED
              BY <1>1, <1>3, <6>3
          <5>2. QED
            BY <3>2, <5>1
        <4>1. /\ Fits(Tail(a), p) /\ Len(Tail(a)) = Len(a) - 1 /\ Len(a) >= 1
              /\ x \in 1..Len(p) /\ p[x] = Head(a)
              /\ Numbers(a) = Numbers(Tail(a)) \cup {x} /\ x \notin Numbers(Tail(a))
              /\ Sizes(a) = Sizes(Tail(a)) + Head(a).size
              /\ Sizes(Tail(a)) \in Nat /\ Head(a).size \in Nat
              /\ \A j \in Numbers(a) : Head(a).pts <= p[j].pts
          BY <2>2, <4>0, PopFits
        <4>2. DropOldest(r) = d
          BY <3>2 DEF DropOldest
        <4>3. d.audio = Tail(a) /\ d.video = r.video /\ d.bytes = r.bytes - Head(a).size
          BY <2>2 DEF DropAudio, Rings
        <4>4. d \in Rings
          <5>1. Tail(a) \in Seq(Items) /\ r.bytes - Head(a).size \in Int
            BY <1>1, <4>1 DEF Fits
          <5>2. QED
            BY <2>2, <5>1 DEF DropAudio, Rings
        <4>5. Sizes(r.video) \in Nat
          BY <2>2, FitsBytes
        <4>6. d.bytes = Sizes(d.video) + Sizes(d.audio)
          BY <2>2, <4>1, <4>3, <4>5
        <4>7. Numbers(d.video) \cap Numbers(d.audio) = {}
          BY <2>2, <4>1, <4>3
        <4>8. RingFits(d, p)
          BY <2>2, <4>1, <4>3, <4>4, <4>6, <4>7 DEF RingFits
        <4>9. x \in Held(r) /\ Held(d) = Held(r) \ {x}
          BY <2>2, <4>1, <4>3 DEF Held
        <4>10. Len(r.video) \in Nat /\ Len(r.audio) \in Nat
          BY <2>3
        <4>11. Left(d) = Left(r) - 1
          <5>1. Len(d.audio) = Len(r.audio) - 1 /\ Len(d.video) = Len(r.video)
            BY <4>1, <4>3
          <5>2. QED
            BY <4>10, <5>1 DEF Left
        <4>12. \A j \in Numbers(r.video) : p[x].pts <= p[j].pts
          <5>1. CASE r.video = <<>>
            BY <5>1 DEF Numbers
          <5>2. CASE r.video # <<>>
            <6>1. /\ \A j \in Numbers(r.video) : Head(r.video).pts <= p[j].pts
                  /\ Head(r.video).n \in 1..Len(p) /\ p[Head(r.video).n] = Head(r.video)
              BY <2>2, <5>2, PopFits
            <6>2. Head(r.video).pts \in Nat /\ p[x].pts \in Nat
              BY <2>4, <4>1, <6>1
            <6>3. p[x].pts <= Head(r.video).pts
              BY <3>2, <4>0, <4>1, <5>2, <6>2
            <6>4. \A j \in Numbers(r.video) : p[j].pts \in Nat
              BY <1>1, <2>4 DEF Held
            <6>5. QED
              BY <6>1, <6>2, <6>3, <6>4
          <5>3. QED
            BY <5>1, <5>2
        <4>13. \A j \in Held(r) : p[x].pts <= p[j].pts
          BY <4>1, <4>12 DEF Held
        <4>14. QED
          BY <4>2, <4>8, <4>9, <4>11, <4>13
      <3>3. QED
        BY <3>1, <3>2
    <2>6. PICK x \in Held(r) :
             /\ RingFits(DropOldest(r), p)
             /\ Held(DropOldest(r)) = Held(r) \ {x}
             /\ Left(DropOldest(r)) = Left(r) - 1
             /\ \A j \in Held(r) : p[x].pts <= p[j].pts
      BY <2>5
    <2>7. Justified(x, p)
      <3> DEFINE since == {j \in DOMAIN p : p[j].pts >= p[x].pts}
      <3>1. Held(r) \subseteq since
        <4>1. \A j \in Held(r) : j \in DOMAIN p /\ p[j].pts \in Nat /\ p[x].pts \in Nat
          BY <1>1, <2>2, <2>4
        <4>2. QED
          BY <2>6, <4>1
      <3>2. Held(r) \cap (1..Len(p)) \subseteq since
        BY <3>1
      <3> HIDE DEF since
      <3>3. /\ SizesAt(p, Held(r)) \in Nat /\ SizesAt(p, since) \in Nat
            /\ SizesAt(p, Held(r)) <= SizesAt(p, since)
        <4>1. \A k \in 1..Len(p) : p[k] = p[k]
          OBVIOUS
        <4>2. Len(p) <= Len(p)
          BY <2>2
        <4>3. QED
          BY <2>2, <3>2, <4>1, <4>2, SizesGrow
      <3>4. SizesAt(p, since) > MaxBytes
        BY <1>1, <1>3, <3>3
      <3>5. QED
        BY <3>4 DEF Justified, since
    <2>8. Recent(DropOldest(r), p)
      BY <2>6, <2>7 DEF Recent
    <2>9. QED
      BY <1>3, <2>1, <2>6, <2>8
  <1>4. QED
    BY <1>2, <1>3

\* The loop over the cap: it ends, under the cap.
LEMMA CappedIs ==
  ASSUME NEW p, IsLog(p), NEW r, RingFits(r, p), Recent(r, p)
  PROVE  /\ RingFits(Capped(r), p) /\ Recent(Capped(r), p)
         /\ Held(Capped(r)) \subseteq Held(r)
         /\ Capped(r).bytes <= MaxBytes
  <1> DEFINE N == Left(r)
             S == {x \in Rings : RingFits(x, p) /\ Recent(x, p) /\ Held(x) \subseteq Held(r)}
             step == [k \in 1..N |-> [x \in S |-> Lowered(x)]]
             Drops(h) == h = [k \in 0..N |-> IF k = 0 THEN r ELSE Lowered(h[k - 1])]
             drop == CHOOSE h : Drops(h)
  <1>1. Capped(r) = drop[N]
    BY DEF Capped, Left
  <1>2. r \in S
    BY DEF RingFits
  <1>3. \A x \in S : Left(x) \in Nat /\ (Left(x) = 0 => Held(x) = {})
    BY NothingLeft
  <1>4. N \in Nat
    BY <1>2, <1>3
  <1>5. ASSUME NEW x \in S
        PROVE  /\ Lowered(x) \in S
               /\ x.bytes <= MaxBytes => Lowered(x) = x
               /\ ~(x.bytes <= MaxBytes) => Left(Lowered(x)) = Left(x) - 1
    <2>1. RingFits(x, p) /\ Recent(x, p) /\ Held(x) \subseteq Held(r)
      OBVIOUS
    <2>2. /\ RingFits(Lowered(x), p) /\ Recent(Lowered(x), p)
          /\ Held(Lowered(x)) \subseteq Held(x)
          /\ x.bytes <= MaxBytes => Lowered(x) = x
          /\ ~(x.bytes <= MaxBytes) => Left(Lowered(x)) = Left(x) - 1
      BY <2>1, LoweredIs
    <2>3. Lowered(x) \in S
      <3>1. Lowered(x) \in Rings
        BY <2>2 DEF RingFits
      <3>2. Held(Lowered(x)) \subseteq Held(r)
        BY <2>1, <2>2
      <3>3. QED
        BY <2>2, <3>1, <3>2
    <2>4. QED
      BY <2>2, <2>3
  <1>s. /\ \A x \in S : RingFits(x, p) /\ Recent(x, p) /\ Held(x) \subseteq Held(r)
    OBVIOUS
  <1> HIDE DEF S
  <1>6. PICK f \in [0..N -> S] : f[0] = r /\ \A k \in 1..N : f[k] = step[k][f[k - 1]]
    <2>1. step \in Steps(S, N)
      BY <1>5 DEF Steps
    <2> HIDE DEF N, step
    <2>2. Runs(S, r, N, step) # {}
      BY <1>2, <1>4, <2>1, Iterates, Zenon
    <2>3. QED
      BY <2>2 DEF Runs
  <1> HIDE DEF N
  <1>7. \A k \in 1..N : k - 1 \in 0..N /\ f[k - 1] \in S /\ f[k] = Lowered(f[k - 1])
    <2>1. \A k \in 1..N : k - 1 \in 0..N
      BY <1>4
    <2>2. QED
      BY <1>6, <2>1
  <1>8. Drops(f)
    BY <1>4, <1>6, <1>7
  <1> HIDE DEF drop
  <1>9. Drops(drop)
    <2> HIDE DEF Drops
    <2>1. QED
      BY <1>8 DEF drop
  <1>10. drop[N] = f[N]
    <2> DEFINE T == {n \in Nat : n <= N => drop[n] = f[n]}
    <2>1. 0 \in T
      BY <1>4, <1>6, <1>9
    <2>2. ASSUME NEW n \in T PROVE n + 1 \in T
      <3>1. SUFFICES ASSUME n + 1 <= N PROVE drop[n + 1] = f[n + 1]
        OBVIOUS
      <3>2. n \in Nat /\ n + 1 \in 1..N /\ n + 1 \in 0..N /\ (n + 1) - 1 = n /\ n <= N
        BY <1>4, <3>1
      <3>3. drop[n] = f[n]
        BY <3>2
      <3>4. drop[n + 1] = Lowered(drop[n])
        BY <1>9, <3>2
      <3>5. QED
        BY <1>7, <3>2, <3>3, <3>4
    <2>3. T \in SUBSET Nat
      OBVIOUS
    <2> HIDE DEF T
    <2>4. T = Nat
      BY <2>1, <2>2, <2>3, AllNumbers
    <2>5. N \in T /\ N <= N
      BY <1>4, <2>4
    <2>6. QED
      BY <2>5 DEF T
  \* Every turn that is needed drops an item.
  <1>11. f[N].bytes <= MaxBytes \/ Left(f[N]) = 0
    <2> DEFINE T == {n \in Nat : n <= N => f[n].bytes <= MaxBytes \/ Left(f[n]) = N - n}
    <2>1. 0 \in T
      BY <1>4, <1>6 DEF N
    <2>2. ASSUME NEW n \in T PROVE n + 1 \in T
      <3>1. SUFFICES ASSUME n + 1 <= N
                     PROVE  f[n + 1].bytes <= MaxBytes \/ Left(f[n + 1]) = N - (n + 1)
        OBVIOUS
      <3>2. n \in Nat /\ n + 1 \in 1..N /\ (n + 1) - 1 = n /\ n <= N
        BY <1>4, <3>1
      <3>3. f[n].bytes <= MaxBytes \/ Left(f[n]) = N - n
        BY <3>2
      <3>4. f[n] \in S /\ f[n + 1] = Lowered(f[n])
        BY <1>7, <3>2
      <3>5. CASE f[n].bytes <= MaxBytes
        <4>1. f[n + 1] = f[n]
          BY <1>5, <3>4, <3>5
        <4>2. QED
          BY <3>5, <4>1
      <3>6. CASE ~(f[n].bytes <= MaxBytes)
        <4>1. Left(f[n + 1]) = Left(f[n]) - 1 /\ Left(f[n]) = N - n
          BY <1>5, <3>3, <3>4, <3>6
        <4> HIDE DEF Left
        <4>2. Left(f[n + 1]) = (N - n) - 1
          BY <4>1
        <4>3. (N - n) - 1 = N - (n + 1)
          BY <1>4, <3>2
        <4>4. QED
          BY <4>2, <4>3
      <3>7. QED
        BY <3>5, <3>6
    <2>3. T \in SUBSET Nat
      OBVIOUS
    <2> HIDE DEF T
    <2>4. T = Nat
      BY <2>1, <2>2, <2>3, AllNumbers
    <2>5. N \in T /\ N <= N /\ N - N = 0
      BY <1>4, <2>4
    <2>6. QED
      BY <2>5 DEF T
  <1>12. f[N] \in S
    BY <1>4, <1>6
  <1>13. RingFits(f[N], p) /\ Recent(f[N], p) /\ Held(f[N]) \subseteq Held(r)
    BY <1>s, <1>12
  <1>14. f[N].bytes <= MaxBytes
    <2>1. CASE f[N].bytes <= MaxBytes
      BY <2>1
    <2>2. CASE Left(f[N]) = 0
      <3>3. Held(f[N]) = {}
        BY <1>3, <1>12, <2>2
      <3>4. f[N].bytes = SizesAt(p, {}) /\ p \in Seq(Items)
        BY <1>13, <3>3, HeldBytes DEF IsLog
      <3>5. f[N].bytes = 0
        BY <3>4, SizesOfNone
      <3>6. MaxBytes \in Nat
        BY RingAssumption
      <3>7. QED
        BY <3>5, <3>6
    <2>3. QED
      BY <1>11, <2>1, <2>2
  <1>15. QED
    BY <1>1, <1>10, <1>13, <1>14

\* The log p with one more item x.
NextItem(p, x) ==
    /\ IsLog(p) /\ x \in Items /\ x.n = Len(p) + 1
    /\ \A k \in 1..Len(p) : p[k].pts <= x.pts

LEMMA LogGrows ==
  ASSUME NEW p, NEW x, NextItem(p, x)
  PROVE  LET l == Append(p, x)
         IN  /\ IsLog(l) /\ Len(l) = Len(p) + 1 /\ l[Len(l)] = x
             /\ \A k \in 1..Len(p) : l[k] = p[k] /\ l[k].pts <= x.pts
             /\ p \in Seq(Items) /\ Len(p) \in Nat /\ x.pts \in Nat /\ x.size \in Nat
             /\ Window \in Nat
  <1> DEFINE l == Append(p, x)
  <1>1. /\ p \in Seq(Items) /\ x \in Items /\ x.n = Len(p) + 1 /\ Len(p) \in Nat
        /\ \A k \in 1..Len(p) : p[k].n = k /\ p[k].pts <= x.pts
        /\ \A j, k \in 1..Len(p) : j <= k => p[j].pts <= p[k].pts
    BY DEF NextItem, IsLog
  <1>2. /\ l \in Seq(Items) /\ Len(l) = Len(p) + 1 /\ l[Len(p) + 1] = x
        /\ \A k \in 1..Len(p) : l[k] = p[k]
    BY <1>1, AppendProperties
  <1> HIDE DEF l
  <1>3. x.pts \in Nat /\ x.size \in Nat
    BY <1>1 DEF Items
  <1>4. \A k \in 1..Len(l) : k \in 1..Len(p) \/ k = Len(p) + 1
    BY <1>1, <1>2
  <1>5. IsLog(l)
    <2>1. \A k \in 1..Len(l) : l[k].n = k /\ l[k].pts <= x.pts
      BY <1>1, <1>2, <1>3, <1>4
    <2>2. ASSUME NEW j \in 1..Len(l), NEW k \in 1..Len(l), j <= k
          PROVE  l[j].pts <= l[k].pts
      <3>1. CASE k = Len(p) + 1
        BY <1>2, <2>1, <3>1
      <3>2. CASE k # Len(p) + 1
        <4>1. k \in 1..Len(p) /\ j \in 1..Len(p)
          BY <1>1, <1>2, <1>4, <2>2, <3>2
        <4>2. QED
          BY <1>1, <1>2, <2>2, <4>1
      <3>3. QED
        BY <3>1, <3>2
    <2>3. QED
      BY <1>2, <2>1, <2>2 DEF IsLog
  <1>6. QED
    BY <1>1, <1>2, <1>3, <1>5, RingAssumption DEF l

\* A queue fits the longer log as well, with the new item or without it.
LEMMA FitsLater ==
  ASSUME NEW p, NEW x, NextItem(p, x), NEW q, Fits(q, p)
  PROVE  Fits(q, Append(p, x))
  <1> DEFINE l == Append(p, x)
  <1>1. /\ Len(l) = Len(p) + 1 /\ Len(p) \in Nat
        /\ \A k \in 1..Len(p) : l[k] = p[k]
    BY LogGrows
  <1> HIDE DEF l
  <1>2. \A k \in 1..Len(p) : k \in 1..Len(l)
    BY <1>1
  <1>3. Fits(q, l)
    BY <1>1, <1>2 DEF Fits
  <1>4. QED
    BY <1>3 DEF l

LEMMA FitsMore ==
  ASSUME NEW p, NEW x, NextItem(p, x), NEW q, Fits(q, p)
  PROVE  LET m == Append(q, x)
             l == Append(p, x)
         IN  /\ Fits(m, l) /\ Numbers(m) = Numbers(q) \cup {Len(l)}
             /\ Sizes(m) = Sizes(q) + x.size /\ Sizes(q) \in Nat
  <1> DEFINE m == Append(q, x)
             l == Append(p, x)
  <1>1. /\ Len(l) = Len(p) + 1 /\ Len(p) \in Nat /\ l[Len(l)] = x /\ IsLog(l)
        /\ \A k \in 1..Len(p) : l[k] = p[k]
    BY LogGrows
  <1>2. q \in Seq(Items) /\ Len(q) \in Nat /\ x \in Items /\ x.n = Len(p) + 1
    BY DEF Fits, NextItem
  <1>3. /\ m \in Seq(Items) /\ Len(m) = Len(q) + 1 /\ m[Len(q) + 1] = x
        /\ \A k \in 1..Len(q) : m[k] = q[k]
    BY <1>2, AppendProperties
  <1> HIDE DEF m, l
  <1>4. /\ \A k \in 1..Len(q) : q[k].n \in 1..Len(p) /\ p[q[k].n] = q[k]
        /\ \A j, k \in 1..Len(q) : j < k => q[j].n < q[k].n
    BY DEF Fits
  <1>5. \A k \in 1..Len(m) : k \in 1..Len(q) \/ k = Len(q) + 1
    BY <1>2, <1>3
  <1>6. \A k \in 1..Len(m) : m[k].n \in 1..Len(l) /\ l[m[k].n] = m[k]
    <2>1. ASSUME NEW k \in 1..Len(q) PROVE q[k].n \in 1..Len(l) /\ l[q[k].n] = q[k]
      BY <1>1, <1>4
    <2>2. x.n \in 1..Len(l) /\ l[x.n] = x
      BY <1>1, <1>2
    <2>3. QED
      BY <1>3, <1>5, <2>1, <2>2
  <1>7. ASSUME NEW j \in 1..Len(m), NEW k \in 1..Len(m), j < k PROVE m[j].n < m[k].n
    <2>1. j \in 1..Len(q)
      BY <1>2, <1>3, <1>7
    <2>2. CASE k \in 1..Len(q)
      BY <1>3, <1>4, <1>7, <2>1, <2>2
    <2>3. CASE k = Len(q) + 1
      <3>1. m[j].n \in 1..Len(p) /\ m[k].n = Len(p) + 1
        BY <1>2, <1>3, <1>4, <2>1, <2>3
      <3>2. QED
        BY <1>1, <3>1
    <2>4. QED
      BY <1>5, <2>2, <2>3
  <1>8. Fits(m, l)
    BY <1>3, <1>6, <1>7 DEF Fits
  <1>9. Numbers(m) = Numbers(q) \cup {Len(l)}
    <2>1. ASSUME NEW k \in 1..Len(m) PROVE m[k].n \in Numbers(q) \cup {Len(l)}
      <3>1. CASE k \in 1..Len(q)
        BY <1>3, <3>1 DEF Numbers
      <3>2. CASE k = Len(q) + 1
        BY <1>1, <1>2, <1>3, <3>2
      <3>3. QED
        BY <1>5, <3>1, <3>2
    <2>2. ASSUME NEW k \in 1..Len(q) PROVE q[k].n \in Numbers(m)
      <3>1. k \in 1..Len(m)
        BY <1>2, <1>3
      <3>2. QED
        BY <1>3, <3>1 DEF Numbers
    <2>3. Len(l) \in Numbers(m)
      <3>1. Len(q) + 1 \in 1..Len(m)
        BY <1>2, <1>3
      <3>2. m[Len(q) + 1].n = Len(l)
        BY <1>1, <1>2, <1>3
      <3>3. QED
        BY <3>1, <3>2 DEF Numbers
    <2>4. Numbers(m) = {m[k].n : k \in 1..Len(m)} /\ Numbers(q) = {q[k].n : k \in 1..Len(q)}
      BY DEF Numbers
    <2>5. QED
      BY <2>1, <2>2, <2>3, <2>4
  <1>10. Len(l) \notin Numbers(q)
    <2>1. \A k \in 1..Len(q) : q[k].n # Len(l)
      BY <1>1, <1>4
    <2>2. QED
      BY <2>1 DEF Numbers
  <1>11. Sizes(q) = SizesAt(l, Numbers(q)) /\ Sizes(q) \in Nat
    BY <1>1, FitsLater, FitsBytes DEF l
  <1>12. Sizes(m) = SizesAt(l, Numbers(m))
    BY <1>1, <1>8, FitsBytes
  <1>13. SizesAt(l, Numbers(q) \cup {Len(l)}) = SizesAt(l, Numbers(q)) + l[Len(l)].size
    <2>1. l \in Seq(Items) /\ Len(l) \in 1..Len(l)
      BY <1>1 DEF IsLog
    <2>2. QED
      BY <1>10, <2>1, SizesAddOne
  <1>14. QED
    BY <1>1, <1>8, <1>9, <1>11, <1>12, <1>13 DEF m, l

\* What was dropped before, was dropped rightly also in view of the new item.
LEMMA RecentLater ==
  ASSUME NEW p, NEW x, NextItem(p, x), NEW r, RingFits(r, p), Recent(r, p),
         NEW s, Held(s) = Held(r) \cup {Len(p) + 1}
  PROVE  Recent(s, Append(p, x))
  <1> DEFINE l == Append(p, x)
  <1>1. /\ Len(l) = Len(p) + 1 /\ Len(p) \in Nat /\ l[Len(l)] = x /\ IsLog(l)
        /\ \A k \in 1..Len(p) : l[k] = p[k] /\ l[k].pts <= x.pts
        /\ p \in Seq(Items) /\ x.pts \in Nat /\ Window \in Nat
    BY LogGrows
  <1> HIDE DEF l
  <1>2. l \in Seq(Items) /\ \A k \in 1..Len(p) : k \in 1..Len(l) /\ p[k].pts \in Nat
    BY <1>1, ItemsAre DEF IsLog
  <1>3. Held(r) \subseteq 1..Len(p)
    BY HeldBytes DEF NextItem
  <1>4. ASSUME NEW k \in (1..Len(l)) \ Held(s)
        PROVE  (\A j \in Held(s) : l[k].pts <= l[j].pts) /\ Justified(k, l)
    <2>1. k \in (1..Len(p)) \ Held(r)
      BY <1>1
    <2>2. (\A j \in Held(r) : p[k].pts <= p[j].pts) /\ Justified(k, p)
      BY <2>1 DEF Recent
    <2>3. \A j \in Held(s) : l[k].pts <= l[j].pts
      BY <1>1, <1>3, <2>1, <2>2
    <2>4. Justified(k, l)
      <3>1. CASE Window = 0
        BY <3>1 DEF Justified
      <3>2. CASE p[k].pts + Window < p[Len(p)].pts
        <4>1. Len(p) \in 1..Len(p)
          BY <1>1, <2>1
        <4>2. l[k].pts = p[k].pts /\ p[Len(p)].pts <= x.pts /\ p[Len(p)].pts \in Nat
              /\ p[k].pts \in Nat
          BY <1>1, <1>2, <2>1, <4>1
        <4>3. l[k].pts + Window < l[Len(l)].pts
          BY <1>1, <3>2, <4>2
        <4>4. QED
          BY <4>3 DEF Justified
      <3>3. CASE SizesAt(p, {j \in DOMAIN p : p[j].pts >= p[k].pts}) > MaxBytes
        <4> DEFINE K == {j \in DOMAIN p : p[j].pts >= p[k].pts}
                   L == {j \in DOMAIN l : l[j].pts >= l[k].pts}
        <4>1. K \cap (1..Len(p)) \subseteq L
          <5>1. DOMAIN p = 1..Len(p) /\ DOMAIN l = 1..Len(l)
            BY <1>1, <1>2
          <5>2. QED
            BY <1>1, <1>2, <2>1, <5>1
        <4> HIDE DEF K, L
        <4>2. Len(p) <= Len(l)
          BY <1>1
        <4>3. SizesAt(p, K) \in Nat /\ SizesAt(l, L) \in Nat /\ SizesAt(p, K) <= SizesAt(l, L)
          BY <1>1, <1>2, <4>1, <4>2, SizesGrow
        <4>4. SizesAt(l, L) > MaxBytes
          BY <3>3, <4>3, RingAssumption DEF K
        <4>5. QED
          BY <4>4 DEF Justified, L
      <3>4. QED
        BY <2>2, <3>1, <3>2, <3>3 DEF Justified
    <2>5. QED
      BY <2>3, <2>4
  <1>5. Recent(s, l)
    BY <1>4 DEF Recent
  <1>6. QED
    BY <1>5 DEF l

\* The items of a queue since a time, and those before it.
LEMMA SinceFits ==
  ASSUME NEW p, IsLog(p), NEW q, Fits(q, p), NEW floor \in Nat
  PROVE  LET c == Since(q, floor)
         IN  /\ Fits(c, p) /\ Numbers(c) \subseteq Numbers(q)
             /\ \A j \in Numbers(c) : p[j].pts >= floor
             /\ \A j \in Numbers(q) \ Numbers(c) : p[j].pts < floor
  <1> DEFINE c == Since(q, floor)
  <1>1. q \in Seq(Items) /\ Len(q) \in Nat /\ p \in Seq(Items)
    BY DEF Fits, IsLog
  <1>2. PICK k \in 0..Len(q) :
           /\ c = SubSeq(q, k + 1, Len(q))
           /\ \A j \in 1..k : q[j].pts < floor
           /\ k < Len(q) => ~(q[k + 1].pts < floor)
    BY <1>1, SinceIs
  <1> HIDE DEF c
  <1>3. /\ Fits(c, p) /\ Len(c) = Len(q) - k
        /\ \A j \in 1..Len(c) : c[j] = q[k + j]
        /\ Numbers(c) \subseteq Numbers(q)
    BY <1>2, CutFits
  <1>4. \A j \in 1..Len(q) : q[j].n \in 1..Len(p) /\ p[q[j].n] = q[j] /\ q[j].pts \in Nat
    BY <1>1, ItemsAre DEF Fits
  <1>5. ASSUME NEW j \in 1..Len(c) PROVE c[j].n \in Numbers(c) /\ p[c[j].n].pts >= floor
    <2>1. k + 1 \in 1..Len(q) /\ k + j \in 1..Len(q) /\ k + 1 <= k + j /\ k < Len(q)
      BY <1>1, <1>3
    <2>2. q[k + 1].n <= q[k + j].n
      <3>1. k + 1 = k + j \/ k + 1 < k + j
        BY <2>1
      <3>2. q[k + 1].n \in 1..Len(p) /\ q[k + j].n \in 1..Len(p)
        BY <1>4, <2>1
      <3>3. k + 1 < k + j => q[k + 1].n < q[k + j].n
        BY <2>1 DEF Fits
      <3>4. QED
        BY <3>1, <3>2, <3>3
    <2>3. p[q[k + 1].n].pts <= p[q[k + j].n].pts
      <3>1. q[k + 1].n \in 1..Len(p) /\ q[k + j].n \in 1..Len(p)
        BY <1>4, <2>1
      <3>2. \A i, m \in 1..Len(p) : i <= m => p[i].pts <= p[m].pts
        BY DEF IsLog
      <3>3. QED
        BY <2>2, <3>1, <3>2
    <2>4. q[k + 1].pts <= q[k + j].pts /\ q[k + 1].pts \in Nat /\ q[k + j].pts \in Nat
      BY <1>4, <2>1, <2>3
    <2>5. q[k + j].pts >= floor
      <3>1. ~(q[k + 1].pts < floor)
        BY <1>2, <2>1
      <3>2. \A a, b \in Nat : a <= b /\ ~(a < floor) => b >= floor
        OBVIOUS
      <3>3. QED
        BY <2>4, <3>1, <3>2, Zenon
    <2>6. p[c[j].n].pts >= floor
      BY <1>3, <1>4, <2>1, <2>5
    <2>7. QED
      BY <2>6 DEF Numbers
  <1>6. ASSUME NEW i \in 1..Len(q), q[i].n \notin Numbers(c) PROVE p[q[i].n].pts < floor
    <2>1. CASE i \in 1..k
      BY <1>2, <1>4, <2>1
    <2>2. CASE i \notin 1..k
      <3>1. i - k \in 1..Len(c) /\ k + (i - k) = i
        BY <1>1, <1>3, <2>2
      <3>2. c[i - k].n \in Numbers(c) /\ c[i - k] = q[i]
        BY <1>3, <1>5, <3>1
      <3>3. QED
        BY <1>6, <3>2
    <2>3. QED
      BY <2>1, <2>2
  <1>7. /\ \A j \in Numbers(c) : p[j].pts >= floor
        /\ \A j \in Numbers(q) \ Numbers(c) : p[j].pts < floor
    BY <1>5, <1>6 DEF Numbers
  <1>8. QED
    BY <1>3, <1>7 DEF c

\* The ring is good when it accounts for the log and is no more than it may be.
GoodRing(r, p) ==
    /\ RingFits(r, p) /\ Recent(r, p)
    /\ r.bytes <= MaxBytes
    /\ \A j \in Held(r) : p[j].pts + Window >= p[Len(p)].pts
    /\ Window = 0 => Held(r) = {}

\* evict() of a ring that has just taken the newest item.
LEMMA EvictIs ==
  ASSUME NEW p, IsLog(p), p # <<>>, NEW r, RingFits(r, p), Recent(r, p), Window # 0
  PROVE  GoodRing(Evict(r, p[Len(p)].pts), p)
  <1> DEFINE last  == p[Len(p)].pts
             floor == Minus(last, Window)
             video == Since(r.video, floor)
             audio == Since(r.audio, floor)
             gone  == (Sizes(r.video) - Sizes(video)) + (Sizes(r.audio) - Sizes(audio))
             s == [video |-> video, audio |-> audio, bytes |-> r.bytes - gone]
  <1>1. Window \in Nat /\ last \in Nat /\ \A j \in 1..Len(p) : p[j].pts \in Nat
    <2>1. p \in Seq(Items) /\ Len(p) \in 1..Len(p)
      BY DEF IsLog
    <2>2. QED
      BY <2>1, ItemsAre, RingAssumption
  <1>2. Evict(r, last) = Capped(s)
    BY DEF Evict
  <1> HIDE DEF last
  <1>3. /\ floor \in Nat
        /\ \A t \in Nat : /\ t >= floor => t + Window >= last
                          /\ t < floor => t + Window < last
    BY <1>1 DEF Minus
  <1>4. /\ Fits(r.video, p) /\ Fits(r.audio, p)
        /\ Numbers(r.video) \cap Numbers(r.audio) = {}
        /\ r.bytes = Sizes(r.video) + Sizes(r.audio)
    BY DEF RingFits
  <1> HIDE DEF floor, video, audio
  <1>5. /\ Fits(video, p) /\ Numbers(video) \subseteq Numbers(r.video)
        /\ \A j \in Numbers(video) : p[j].pts >= floor
        /\ \A j \in Numbers(r.video) \ Numbers(video) : p[j].pts < floor
    BY <1>3, <1>4, SinceFits DEF video
  <1>6. /\ Fits(audio, p) /\ Numbers(audio) \subseteq Numbers(r.audio)
        /\ \A j \in Numbers(audio) : p[j].pts >= floor
        /\ \A j \in Numbers(r.audio) \ Numbers(audio) : p[j].pts < floor
    BY <1>3, <1>4, SinceFits DEF audio
  <1>7. /\ Sizes(video) \in Nat /\ Sizes(audio) \in Nat
        /\ Sizes(r.video) \in Nat /\ Sizes(r.audio) \in Nat
    BY <1>4, <1>5, <1>6, FitsBytes
  <1>8. s.video = video /\ s.audio = audio /\ s.bytes = Sizes(video) + Sizes(audio)
    <2>2. r.bytes - gone = Sizes(video) + Sizes(audio)
      BY <1>4, <1>7
    <2>3. QED
      BY <2>2
  <1>9. s \in Rings
    <2>1. r.bytes - gone \in Int
      BY <1>7, <1>8
    <2>2. video \in Seq(Items) /\ audio \in Seq(Items)
      BY <1>5, <1>6 DEF Fits
    <2>3. QED
      BY <2>1, <2>2 DEF Rings
  <1> HIDE DEF s
  <1>10. RingFits(s, p)
    BY <1>4, <1>5, <1>6, <1>8, <1>9 DEF RingFits
  <1>11. Held(r) \subseteq 1..Len(p) /\ Held(s) \subseteq Held(r)
    BY <1>5, <1>6, <1>8, HeldBytes DEF Held
  <1>12. /\ \A j \in Held(s) : p[j].pts >= floor
         /\ \A j \in Held(r) \ Held(s) : p[j].pts < floor
    BY <1>5, <1>6, <1>8 DEF Held
  <1>13. Recent(s, p)
    <2>1. SUFFICES ASSUME NEW k \in (1..Len(p)) \ Held(s)
                   PROVE  (\A j \in Held(s) : p[k].pts <= p[j].pts) /\ Justified(k, p)
      BY DEF Recent
    <2>2. CASE k \in Held(r)
      <3>1. p[k].pts < floor /\ p[k].pts \in Nat
        BY <1>1, <1>12, <2>2
      <3>2. p[k].pts + Window < last
        BY <1>3, <3>1
      <3>3. \A j \in Held(s) : p[k].pts <= p[j].pts
        <4>1. \A j \in Held(s) : p[j].pts \in Nat /\ p[j].pts >= floor
          BY <1>1, <1>11, <1>12
        <4>2. QED
          BY <1>3, <3>1, <4>1
      <3>4. Justified(k, p)
        BY <3>2 DEF Justified, last
      <3>5. QED
        BY <3>3, <3>4
    <2>3. CASE k \notin Held(r)
      <3>1. (\A j \in Held(r) : p[k].pts <= p[j].pts) /\ Justified(k, p)
        BY <2>3 DEF Recent
      <3>2. QED
        BY <1>11, <3>1
    <2>4. QED
      BY <2>2, <2>3
  <1>14. /\ RingFits(Capped(s), p) /\ Recent(Capped(s), p)
         /\ Held(Capped(s)) \subseteq Held(s) /\ Capped(s).bytes <= MaxBytes
    BY <1>10, <1>13, CappedIs
  <1>15. \A j \in Held(Capped(s)) : p[j].pts + Window >= last
    <2>1. \A j \in Held(Capped(s)) : p[j].pts \in Nat /\ p[j].pts >= floor
      BY <1>1, <1>11, <1>12, <1>14
    <2>2. QED
      BY <1>3, <2>1
  <1>16. GoodRing(Capped(s), p)
    BY <1>14, <1>15 DEF GoodRing, last
  <1>17. QED
    BY <1>2, <1>16 DEF last

\* push_video() and push_audio().
LEMMA PushIs ==
  ASSUME NEW p, NEW x, NextItem(p, x), NEW r, GoodRing(r, p)
  PROVE  /\ GoodRing(PushVideo(r, x), Append(p, x))
         /\ GoodRing(PushAudio(r, x), Append(p, x))
  <1> DEFINE l == Append(p, x)
             v == [r EXCEPT !.video = Append(@, x), !.bytes = @ + x.size]
             a == [r EXCEPT !.audio = Append(@, x), !.bytes = @ + x.size]
  <1>1. /\ Len(l) = Len(p) + 1 /\ Len(p) \in Nat /\ l[Len(l)] = x /\ IsLog(l)
        /\ p \in Seq(Items) /\ x.pts \in Nat /\ x.size \in Nat
    BY LogGrows
  <1>2. /\ r \in Rings /\ Fits(r.video, p) /\ Fits(r.audio, p)
        /\ Numbers(r.video) \cap Numbers(r.audio) = {}
        /\ r.bytes = Sizes(r.video) + Sizes(r.audio)
        /\ RingFits(r, p) /\ Recent(r, p)
    BY DEF GoodRing, RingFits
  <1>3. Fits(r.video, l) /\ Fits(r.audio, l)
    BY <1>2, FitsLater
  <1>4. CASE Window = 0
    <2>1. PushVideo(r, x) = r /\ PushAudio(r, x) = r
      BY <1>4 DEF PushVideo, PushAudio
    <2>2. RingFits(r, l)
      BY <1>2, <1>3 DEF RingFits
    <2>3. Held(r) = {} /\ r.bytes <= MaxBytes
      BY <1>4 DEF GoodRing
    <2>4. Recent(r, l)
      BY <1>4, <2>3 DEF Recent, Justified
    <2>5. GoodRing(r, l)
      BY <2>2, <2>3, <2>4 DEF GoodRing
    <2>6. QED
      BY <2>1, <2>5
  <1>5. CASE Window # 0
    <2>1. PushVideo(r, x) = Evict(v, l[Len(l)].pts) /\ PushAudio(r, x) = Evict(a, l[Len(l)].pts)
      BY <1>1, <1>5 DEF PushVideo, PushAudio
    <2>2. /\ v.video = Append(r.video, x) /\ v.audio = r.audio /\ v.bytes = r.bytes + x.size
          /\ a.audio = Append(r.audio, x) /\ a.video = r.video /\ a.bytes = r.bytes + x.size
      BY <1>2 DEF Rings
    <2>3. r.bytes \in Int
      BY <1>2 DEF Rings
    <2>4. Held(r) \subseteq 1..Len(p) /\ Len(l) \notin Held(r)
      <3>1. Held(r) \subseteq 1..Len(p)
        BY <1>2, HeldBytes DEF NextItem
      <3>2. QED
        BY <1>1, <3>1
    <2>5. l # <<>>
      BY <1>1
    <2>6. RingFits(v, l) /\ Recent(v, l)
      <3> DEFINE m == Append(r.video, x)
      <3>1. /\ Fits(m, l) /\ Numbers(m) = Numbers(r.video) \cup {Len(l)}
            /\ Sizes(m) = Sizes(r.video) + x.size /\ Sizes(r.video) \in Nat
        BY <1>2, FitsMore
      <3>2. Sizes(r.audio) \in Nat
        BY <1>1, <1>3, FitsBytes
      <3> HIDE DEF m, l
      <3>3. v \in Rings
        <4>1. m \in Seq(Items) /\ r.bytes + x.size \in Int
          BY <1>1, <2>3, <3>1 DEF Fits
        <4>2. QED
          BY <1>2, <4>1 DEF Rings, m
      <3>4. v.video = m
        BY <2>2 DEF m
      <3> HIDE DEF v
      <3>5. v.bytes = Sizes(m) + Sizes(r.audio)
        BY <1>1, <1>2, <2>2, <3>1, <3>2
      <3>6. Numbers(m) \cap Numbers(r.audio) = {}
        BY <1>2, <2>4, <3>1 DEF Held
      <3>7. RingFits(v, l)
        BY <1>3, <2>2, <3>1, <3>3, <3>4, <3>5, <3>6 DEF RingFits
      <3>8. Held(v) = Held(r) \cup {Len(p) + 1}
        BY <1>1, <2>2, <3>1, <3>4 DEF Held
      <3>9. Recent(v, l)
        BY <1>2, <3>8, RecentLater DEF l
      <3>10. QED
        BY <3>7, <3>9
    <2>7. RingFits(a, l) /\ Recent(a, l)
      <3> DEFINE m == Append(r.audio, x)
      <3>1. /\ Fits(m, l) /\ Numbers(m) = Numbers(r.audio) \cup {Len(l)}
            /\ Sizes(m) = Sizes(r.audio) + x.size /\ Sizes(r.audio) \in Nat
        BY <1>2, FitsMore
      <3>2. Sizes(r.video) \in Nat
        BY <1>1, <1>3, FitsBytes
      <3> HIDE DEF m, l
      <3>3. a \in Rings
        <4>1. m \in Seq(Items) /\ r.bytes + x.size \in Int
          BY <1>1, <2>3, <3>1 DEF Fits
        <4>2. QED
          BY <1>2, <4>1 DEF Rings, m
      <3>4. a.audio = m
        BY <2>2 DEF m
      <3> HIDE DEF a
      <3>5. a.bytes = Sizes(r.video) + Sizes(m)
        BY <1>1, <1>2, <2>2, <3>1, <3>2
      <3>6. Numbers(r.video) \cap Numbers(m) = {}
        BY <1>2, <2>4, <3>1 DEF Held
      <3>7. RingFits(a, l)
        BY <1>3, <2>2, <3>1, <3>3, <3>4, <3>5, <3>6 DEF RingFits
      <3>8. Held(a) = Held(r) \cup {Len(p) + 1}
        BY <1>1, <2>2, <3>1, <3>4 DEF Held
      <3>9. Recent(a, l)
        BY <1>2, <3>8, RecentLater DEF l
      <3>10. QED
        BY <3>7, <3>9
    <2> HIDE DEF l, v, a
    <2>8. QED
      BY <1>1, <1>5, <2>1, <2>5, <2>6, <2>7, EvictIs DEF l
  <1>6. QED
    BY <1>4, <1>5

(***************************************************************************)
(* The media are in the order of the clock: the next number is that of the *)
(* item in hand, which is no older than any before it.                     *)
(***************************************************************************)
LogInv ==
    /\ IsLog(pushed)
    /\ \A k \in 1..Len(pushed) : pushed[k].pts <= now
    /\ handing.todo \in {VideoSteps, ToRing, AudioSteps} =>
         /\ handing.item.pts <= now
         /\ \A k \in 1..Len(pushed) : pushed[k].pts <= handing.item.pts

RingInv == LogInv /\ GoodRing(ring, pushed)

LEMMA RingBegins == MediaInit => RingInv
  <1> SUFFICES ASSUME MediaInit PROVE RingInv
    OBVIOUS
  <1>1. pushed = <<>> /\ ring = EmptyRing /\ handing = Idle
    BY DEF MediaInit
  <1>2. <<>> \in Seq(Items) /\ Len(<<>>) = 0 /\ DOMAIN <<>> = 1..0
    OBVIOUS
  <1>3. LogInv
    <2>1. handing.todo = <<>>
      BY <1>1 DEF Idle
    <2>2. QED
      BY <1>1, <1>2, <2>1, StepsAre DEF LogInv, IsLog
  <1>4. Fits(<<>>, <<>>) /\ Numbers(<<>>) = {}
    BY <1>2 DEF Fits, Numbers
  <1>5. Sizes(<<>>) = 0
    <2>1. IsLog(<<>>)
      BY <1>1, <1>3 DEF LogInv
    <2>2. Sizes(<<>>) = SizesAt(<<>>, {})
      BY <1>4, <2>1, FitsBytes
    <2>3. QED
      BY <1>2, <2>2, SizesOfNone
  <1>6. ring.video = <<>> /\ ring.audio = <<>> /\ ring.bytes = 0 /\ ring \in Rings
    BY <1>1, <1>2 DEF EmptyRing, Rings
  <1>7. RingFits(ring, pushed) /\ Held(ring) = {}
    BY <1>1, <1>4, <1>5, <1>6 DEF RingFits, Held
  <1>8. Recent(ring, pushed)
    BY <1>1, <1>2 DEF Recent
  <1>9. ring.bytes <= MaxBytes
    BY <1>6, RingAssumption
  <1>10. GoodRing(ring, pushed)
    BY <1>7, <1>8, <1>9 DEF GoodRing
  <1>11. QED
    BY <1>3, <1>10 DEF RingInv

LEMMA RingStep == StreamsInv /\ RingInv /\ [MediaNext]_mediaVars => RingInv'
  <1> SUFFICES ASSUME StreamsInv, RingInv, [MediaNext]_mediaVars PROVE RingInv'
    OBVIOUS
  <1>0. /\ HandTyped /\ HandInv
        /\ now \in Nat /\ handing.item \in Items /\ handing.item.pts \in Nat
        /\ IsLog(pushed) /\ Len(pushed) \in Nat
        /\ \A k \in 1..Len(pushed) : pushed[k].pts \in Nat /\ pushed[k].pts <= now
    <2>1. now \in Nat /\ handing.item \in Items /\ HandTyped /\ HandInv
      BY DEF StreamsInv, HandTyped
    <2>2. IsLog(pushed) /\ \A k \in 1..Len(pushed) : pushed[k].pts <= now
      BY DEF RingInv, LogInv
    <2>3. pushed \in Seq(Items)
      BY <2>2 DEF IsLog
    <2>4. \A k \in 1..Len(pushed) : pushed[k].pts \in Nat
      BY <2>3, ItemsAre
    <2>5. QED
      BY <2>1, <2>2, <2>3, <2>4 DEF Items
  <1>1. ASSUME NEW steps \in {VideoSteps, AudioSteps}, NEW size, Hand(steps, size),
               UNCHANGED <<now, ring, pushed>>
        PROVE  RingInv'
    <2>1. handing'.item.pts = now
      BY <1>1 DEF Hand
    <2>2. LogInv'
      BY <1>0, <1>1, <2>1 DEF LogInv
    <2>3. QED
      BY <1>1, <2>2 DEF RingInv
  <1>2. CASE \E f \in Fragments : ReceiveFragment(f)
    <2>1. PICK f \in Fragments : ReceiveFragment(f)
      BY <1>2
    <2>2. UNCHANGED <<now, ring, pushed>>
      BY <2>1 DEF ReceiveFragment, places
    <2>3. CASE UNCHANGED handing
      BY <2>2, <2>3 DEF RingInv, LogInv
    <2>4. CASE Hand(VideoSteps, f.image.count)
      BY <1>1, <2>2, <2>4
    <2>5. QED
      BY <2>1, <2>3, <2>4 DEF ReceiveFragment
  <1>3. CASE ReceiveAudio
    <2>1. Hand(AudioSteps, 1) /\ UNCHANGED <<now, ring, pushed>>
      BY <1>3 DEF ReceiveAudio, places
    <2>2. QED
      BY <1>1, <2>1
  <1>4. CASE Remember
    <2>1. /\ handing.todo = VideoSteps /\ handing'.todo = ToRing
          /\ handing'.item = handing.item
      BY <1>0, <1>4, HandGoesOn DEF Remember
    <2>2. UNCHANGED <<now, ring, pushed>>
      BY <1>4 DEF Remember
    <2>3. LogInv'
      BY <2>1, <2>2 DEF RingInv, LogInv
    <2>4. QED
      BY <2>2, <2>3 DEF RingInv
  <1>5. CASE Buffer
    <2>1. /\ \/ handing.todo = ToRing /\ handing'.todo = ToSend
             \/ handing.todo = AudioSteps /\ handing'.todo = <<>>
          /\ handing'.item = handing.item
      BY <1>0, <1>5, HandGoesOn DEF Buffer
    <2>2. /\ pushed' = Append(pushed, handing.item) /\ now' = now
          /\ \/ ring' = PushAudio(ring, handing.item)
             \/ ring' = PushVideo(ring, handing.item)
      BY <1>5 DEF Buffer
    <2>3. NextItem(pushed, handing.item) /\ handing.item.pts <= now
      <3>1. handing.item.n = Len(pushed) + 1
        BY <1>0, <2>1 DEF HandInv
      <3>2. /\ handing.item.pts <= now
            /\ \A k \in 1..Len(pushed) : pushed[k].pts <= handing.item.pts
        BY <2>1 DEF RingInv, LogInv
      <3>3. QED
        BY <1>0, <3>1, <3>2 DEF NextItem
    <2>4. GoodRing(ring', pushed')
      <3>1. GoodRing(ring, pushed)
        BY DEF RingInv
      <3>2. /\ GoodRing(PushVideo(ring, handing.item), Append(pushed, handing.item))
            /\ GoodRing(PushAudio(ring, handing.item), Append(pushed, handing.item))
        BY <2>3, <3>1, PushIs
      <3>3. QED
        BY <2>2, <3>2
    <2>5. IsLog(pushed') /\ \A k \in 1..Len(pushed') : pushed'[k].pts <= now
      <3> DEFINE l == Append(pushed, handing.item)
      <3>1. /\ IsLog(l) /\ Len(l) = Len(pushed) + 1 /\ l[Len(l)] = handing.item
            /\ \A k \in 1..Len(pushed) : l[k] = pushed[k]
        BY <2>3, LogGrows
      <3> HIDE DEF l
      <3>2. \A k \in 1..Len(l) : k \in 1..Len(pushed) \/ k = Len(l)
        BY <1>0, <3>1
      <3>3. \A k \in 1..Len(l) : l[k].pts <= now
        BY <1>0, <2>3, <3>1, <3>2
      <3>4. QED
        BY <2>2, <3>1, <3>3 DEF l
    <2>6. handing'.todo \notin {VideoSteps, ToRing, AudioSteps}
      BY <2>1, StepsAre
    <2>7. LogInv'
      BY <2>2, <2>5, <2>6 DEF LogInv
    <2>8. QED
      BY <2>4, <2>7 DEF RingInv
  <1>6. CASE Broadcast
    <2>1. handing'.todo = <<>> /\ UNCHANGED <<now, ring, pushed>>
      BY <1>0, <1>6, HandGoesOn DEF Broadcast
    <2>2. LogInv'
      BY <2>1, StepsAre DEF RingInv, LogInv
    <2>3. QED
      BY <2>1, <2>2 DEF RingInv
  <1>7. CASE \/ Tick
             \/ \E v \in Viewers : Open(v) \/ ShowLatest(v) \/ ShowNext(v) \/ Close(v)
             \/ UNCHANGED mediaVars
    <2>1. now' \in Nat /\ now <= now' /\ UNCHANGED <<ring, pushed, handing>>
      <3>1. CASE Tick
        BY <1>0, <3>1 DEF Tick, places
      <3>2. CASE \E v \in Viewers : Open(v) \/ ShowLatest(v) \/ ShowNext(v) \/ Close(v)
        BY <1>0, <3>2 DEF Open, ShowLatest, ShowNext, Close, places
      <3>3. CASE UNCHANGED mediaVars
        BY <1>0, <3>3 DEF mediaVars, places
      <3>4. QED
        BY <1>7, <3>1, <3>2, <3>3
    <2>2. \A k \in 1..Len(pushed) : pushed[k].pts <= now'
      BY <1>0, <2>1
    <2>3. handing.todo \in {VideoSteps, ToRing, AudioSteps} =>
            /\ handing.item.pts <= now'
            /\ \A k \in 1..Len(pushed) : pushed[k].pts <= handing.item.pts
      <3>1. handing.item.pts <= now => handing.item.pts <= now'
        BY <1>0, <2>1
      <3>2. QED
        BY <3>1 DEF RingInv, LogInv
    <2>4. LogInv'
      BY <1>0, <2>1, <2>2, <2>3 DEF LogInv
    <2>5. QED
      BY <2>1, <2>4 DEF RingInv
  <1>8. QED
    BY <1>2, <1>3, <1>4, <1>5, <1>6, <1>7 DEF MediaNext

\* From the places of the log to its items.
LEMMA HeldItems ==
  ASSUME NEW p, NEW r, RingFits(r, p)
  PROVE  \A x : x \in Range(r.video) \cup Range(r.audio) <=> \E j \in Held(r) : x = p[j]
  <1>1. ASSUME NEW q, Fits(q, p)
        PROVE  \A x : x \in Range(q) <=> \E j \in Numbers(q) : x = p[j]
    <2>1. DOMAIN q = 1..Len(q) /\ \A k \in 1..Len(q) : p[q[k].n] = q[k]
      BY <1>1 DEF Fits
    <2>2. QED
      BY <2>1 DEF Range, Numbers
  <1>2. /\ \A x : x \in Range(r.video) <=> \E j \in Numbers(r.video) : x = p[j]
        /\ \A x : x \in Range(r.audio) <=> \E j \in Numbers(r.audio) : x = p[j]
    BY <1>1 DEF RingFits
  <1>3. QED
    BY <1>2 DEF Held

(***************************************************************************)
(* The pre-roll is the last seconds of the media for any length of the     *)
(* window and any cap, 0 included, and for items of any size: its bytes    *)
(* are counted right and capped, nothing in it is older than the window,   *)
(* and an item has left it only because it was too old or because it and   *)
(* what came after it are more bytes than the cap (MediaRing: push_video,  *)
(* push_audio, evict).                                                     *)
(***************************************************************************)
THEOREM PreRollStaysRecent == MediaSpec => []PreRollIsRecent
  <1>1. MediaSpec => []RingInv
    <2>1. StreamsInv /\ RingInv /\ [MediaNext]_mediaVars /\ StreamsInv' => RingInv'
      BY RingStep
    <2>2. QED
      BY RingBegins, <2>1, StreamsInvariant, PTL DEF MediaSpec
  <1>2. RingInv => PreRollIsRecent
    <2> SUFFICES ASSUME RingInv PROVE PreRollIsRecent
      OBVIOUS
    <2> DEFINE kept == Range(ring.video) \cup Range(ring.audio)
               gone == Range(pushed) \ kept
               last == pushed[Len(pushed)]
    <2>1. /\ IsLog(pushed) /\ RingFits(ring, pushed) /\ Recent(ring, pushed)
          /\ ring.bytes <= MaxBytes
          /\ \A j \in Held(ring) : pushed[j].pts + Window >= last.pts
      BY DEF RingInv, LogInv, GoodRing
    <2>2. ring.bytes = Sizes(ring.video) + Sizes(ring.audio)
      BY <2>1 DEF RingFits
    <2>3. \A x : x \in kept <=> \E j \in Held(ring) : x = pushed[j]
      BY <2>1, HeldItems
    <2>4. DOMAIN pushed = 1..Len(pushed) /\ Last(pushed) = last
      BY <2>1 DEF IsLog, Last
    <2>5. \A x \in gone : \E k \in (1..Len(pushed)) \ Held(ring) : x = pushed[k]
      BY <2>3, <2>4 DEF Range
    <2> HIDE DEF kept, gone, last
    <2>6. \A x \in kept : x.pts + Window >= last.pts
      BY <2>1, <2>3
    <2>7. ASSUME NEW x \in gone
          PROVE  /\ \A y \in kept : x.pts <= y.pts
                 /\ \/ Window = 0
                    \/ x.pts + Window < last.pts
                    \/ SizesAt(pushed, {k \in DOMAIN pushed : pushed[k].pts >= x.pts}) > MaxBytes
      <3>1. PICK k \in (1..Len(pushed)) \ Held(ring) : x = pushed[k]
        BY <2>5
      <3>2. (\A j \in Held(ring) : pushed[k].pts <= pushed[j].pts) /\ Justified(k, pushed)
        BY <2>1, <3>1 DEF Recent
      <3>3. QED
        BY <2>3, <3>1, <3>2 DEF Justified, last
    <2>8. QED
      BY <2>1, <2>2, <2>4, <2>6, <2>7 DEF PreRollIsRecent, kept, gone
  <1>3. QED
    BY <1>1, <1>2, PTL

================================================================================
