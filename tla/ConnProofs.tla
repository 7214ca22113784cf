----------------------------- MODULE ConnProofs -----------------------------
(***************************************************************************)
(* What the run of module Conn shows for two queued frames and one token,  *)
(* for any send buffer and any burst: a peer hears one reason, the first   *)
(* that anybody gave, at most one frame late.                              *)
(*                                                                         *)
(* FirstReasonHeard and ReasonReachesPeer speak of a pump that has said    *)
(* good-bye; the invariant has to say what makes it say the right thing.   *)
(* Request follows the reason from closeOnce through the channel into the  *)
(* pump's hand, Wire keeps the socket open and silent until then, and Late *)
(* says that a pump which let one frame past is on its way to the bye.     *)
(***************************************************************************)
EXTENDS Conn, TLAPS

(* Where the write pump is before it has taken a close request. *)
Pumping == {"top", "select", "sending", "pinging", "windUp"}

(* The first reason is in the channel or in the pump's hand, and only there. *)
Request ==
    /\ closing # None => closing = asked /\ held = None
    /\ held # None => held = asked
    /\ asked # None => closing # None \/ held # None
    /\ write \in Pumping \cup {"off"} => held = None
    /\ write = "bye" => held # None

(* Until the bye is written the peer has heard no reason, and nobody but a *)
(* peer that went away has cost it its socket.                             *)
Wire ==
    /\ handler = "registering" =>
          read = "off" /\ write = "off" /\ socket = "open" /\ last = None
    /\ write \in Pumping \cup {"bye"} =>
          last \in {None, "data"} /\ (peer = "there" => socket = "open")

(* The one frame that goes out late is followed by the bye. *)
Late ==
    /\ late \in {0, 1}
    /\ late = 1 => asked # None /\ write \in {"top", "bye", "dropping", "gone", "killed"}

(* The types: truth values, numbers and names, each for a prover of its own. *)
Flags ==
    /\ registered \in BOOLEAN /\ hubCancelled \in BOOLEAN
    /\ hubDone \in BOOLEAN /\ exited \in BOOLEAN

Numbers == queue \in 0..SendBuffer /\ tokens \in 0..Burst

Types ==
    /\ handler \in {"registering", "serving", "leaving", "returned", "killed"}
    /\ closing \in Reasons \cup {None}
    /\ asked \in Reasons \cup {None}
    /\ read \in {"off", "reading", "handling", "leaving", "gone", "killed"}
    /\ write \in Pumping \cup {"off", "bye", "dropping", "gone", "killed"}
    /\ held \in Reasons \cup {None}
    /\ socket \in {"open", "dropped"}
    /\ peer \in {"there", "gone"}
    /\ last \in Reasons \cup {None, "data"}

IInv == Numbers /\ Types /\ Request /\ Wire /\ Late /\ FirstReasonHeard /\ ReasonReachesPeer

USE ConnAssumption DEF ConnAssumption

----------------------------------------------------------------------------
(* No reason is mistaken for silence or for data. *)
LEMMA ReasonFacts ==
    /\ None \notin Reasons /\ "data" \notin Reasons /\ None # "data"
    /\ {"restart", "rate limited", "peer closed"} \subseteq Reasons
    /\ {"cannot register", "too many connections"} \subseteq Reasons
    /\ HubReasons \subseteq Reasons
BY DEF None, Reasons, HubReasons

(* The first step of a socket is within the invariant. *)
LEMMA InitIInv == Init => IInv
BY DEF Init, IInv, Numbers, Types, Request, Wire, Late, FirstReasonHeard, ReasonReachesPeer,
       Pumping, None, Reasons, HubReasons

(* A step that asks for nothing, writes nothing and starts nothing. *)
LEMMA QuietKeeps ==
    ASSUME IInv, Numbers', Types', handler' = handler \/ handler' # "registering",
           read' = read \/ handler # "registering",
           UNCHANGED <<closing, asked, write, held, socket, peer, last, late>>
    PROVE  IInv'
BY DEF IInv, Request, Wire, Late, FirstReasonHeard, ReasonReachesPeer

(* The read pump asks for a close, once, and drops no socket of a peer that is there. *)
LEMMA ReadPumpKeeps == IInv /\ ReadPump => IInv'
<1> SUFFICES ASSUME IInv, ReadPump PROVE IInv'
    OBVIOUS
<1> USE DEF IInv
<1>1. CASE ReadFrame
    <2>1. Numbers'
        <3>1. queue' = queue /\ (tokens' = tokens \/ (tokens > 0 /\ tokens' = tokens - 1))
            BY <1>1 DEF ReadFrame
        <3> QED BY <3>1 DEF Numbers
    <2> USE <1>1 DEF ReadFrame, Close, writeVars, wireVars
    <2>2. Types'
        BY ReasonFacts, ZenonT(60) DEF Types
    <2>3. Request' /\ Late'
        BY ReasonFacts DEF Types, Request, Wire, Late, Pumping
    <2>4. Wire'
        BY ReasonFacts DEF Types, Wire, Pumping
    <2>5. FirstReasonHeard' /\ ReasonReachesPeer'
        BY ReasonFacts
        DEF Types, Request, Wire, FirstReasonHeard, ReasonReachesPeer, Pumping
    <2> QED BY <2>1, <2>2, <2>3, <2>4, <2>5
<1>2. CASE HandleInbound
    <2> USE <1>2 DEF HandleInbound, writeVars, wireVars
    <2>1. Numbers'
        BY DEF Numbers
    <2>2. Types'
        BY DEF Types
    <2> QED BY <2>1, <2>2, QuietKeeps DEF Wire
<1>3. CASE ReadFails
    <2> USE <1>3 DEF ReadFails, HardClose, Reaches, writeVars
    <2>1. Numbers'
        BY DEF Numbers
    <2>2. Types'
        BY DEF Types
    <2>3. Request' /\ Late'
        BY ReasonFacts DEF Types, Request, Wire, Late, Pumping
    <2>4. Wire'
        BY ReasonFacts DEF Types, Wire, Pumping
    <2>5. FirstReasonHeard' /\ ReasonReachesPeer'
        BY ReasonFacts
        DEF Types, Request, Wire, FirstReasonHeard, ReasonReachesPeer, Pumping
    <2> QED BY <2>1, <2>2, <2>3, <2>4, <2>5
<1>4. CASE ReadPumpEnds
    <2> USE <1>4 DEF ReadPumpEnds, Close, writeVars, wireVars
    <2>1. Numbers'
        BY DEF Numbers
    <2>2. Types'
        BY ReasonFacts DEF Types
    <2>3. Request' /\ Late'
        BY ReasonFacts DEF Types, Request, Wire, Late, Pumping
    <2>4. Wire'
        BY ReasonFacts DEF Types, Wire, Pumping
    <2>5. FirstReasonHeard' /\ ReasonReachesPeer'
        BY ReasonFacts
        DEF Types, Request, Wire, FirstReasonHeard, ReasonReachesPeer, Pumping
    <2> QED BY <2>1, <2>2, <2>3, <2>4, <2>5
<1>5. CASE Refill
    <2> USE <1>5 DEF Refill, writeVars, wireVars
    <2>1. Numbers'
        BY DEF Numbers
    <2>2. Types'
        BY DEF Types
    <2> QED BY <2>1, <2>2, QuietKeeps DEF Wire
<1> QED BY <1>1, <1>2, <1>3, <1>4, <1>5 DEF ReadPump

(* The write pump takes the request out, says it, and is gone. *)
LEMMA WritePumpKeeps == IInv /\ WritePump => IInv'
<1> SUFFICES ASSUME IInv, WritePump PROVE IInv'
    OBVIOUS
<1> USE DEF IInv
<1>1. CASE TopOfLoop
    <2> USE <1>1 DEF TopOfLoop, TakeRequest, readVars, wireVars
    <2>1. Numbers'
        BY DEF Numbers
    <2>2. Types'
        BY DEF Types, Pumping
    <2>3. Request' /\ Late'
        BY ReasonFacts DEF Types, Request, Wire, Late, Pumping
    <2>4. Wire'
        BY ReasonFacts DEF Types, Wire, Pumping
    <2>5. FirstReasonHeard' /\ ReasonReachesPeer'
        BY ReasonFacts
        DEF Types, Request, Wire, FirstReasonHeard, ReasonReachesPeer, Pumping
    <2> QED BY <2>1, <2>2, <2>3, <2>4, <2>5
<1>2. CASE Select
    <2> USE <1>2 DEF Select, TakeRequest, readVars, wireVars
    <2>1. Numbers'
        BY DEF Numbers
    <2>2. Types'
        BY DEF Types, Pumping
    <2>3. Request' /\ Late'
        BY ReasonFacts DEF Types, Request, Wire, Late, Pumping
    <2>4. Wire'
        BY ReasonFacts DEF Types, Wire, Pumping
    <2>5. FirstReasonHeard' /\ ReasonReachesPeer'
        BY ReasonFacts
        DEF Types, Request, Wire, FirstReasonHeard, ReasonReachesPeer, Pumping
    <2> QED BY <2>1, <2>2, <2>3, <2>4, <2>5
<1>3. CASE Tick
    <2> USE <1>3 DEF Tick, readVars, wireVars
    <2>1. Numbers'
        BY DEF Numbers
    <2>2. Types'
        BY DEF Types, Pumping
    <2>3. Request' /\ Late'
        BY ReasonFacts DEF Types, Request, Wire, Late, Pumping
    <2>4. Wire'
        BY ReasonFacts DEF Types, Wire, Pumping
    <2>5. FirstReasonHeard' /\ ReasonReachesPeer'
        BY ReasonFacts
        DEF Types, Request, Wire, FirstReasonHeard, ReasonReachesPeer, Pumping
    <2> QED BY <2>1, <2>2, <2>3, <2>4, <2>5
<1>4. CASE WriteDone
    <2> USE <1>4 DEF WriteDone, Reaches, HardClose, readVars, wireVars
    <2>1. Numbers'
        BY DEF Numbers
    <2>2. Types'
        BY DEF Types, Pumping
    <2>3. Request'
        BY DEF Types, Request, Pumping
    <2>4. Late'
        <3>1. late = 0
            BY DEF Late
        <3>2. late' = 0 \/ (asked # None /\ late' = 1 /\ write' = "top")
            BY <3>1
        <3> QED BY <3>2 DEF Late
    <2>5. Wire'
        BY ReasonFacts DEF Types, Wire, Pumping
    <2>6. FirstReasonHeard' /\ ReasonReachesPeer'
        BY ReasonFacts
        DEF Types, Request, Wire, FirstReasonHeard, ReasonReachesPeer, Pumping
    <2> QED BY <2>1, <2>2, <2>3, <2>4, <2>5, <2>6
<1>5. CASE PingDone
    <2> USE <1>5 DEF PingDone, Reaches, readVars
    <2>1. Numbers'
        BY DEF Numbers
    <2>2. Types'
        BY DEF Types, Pumping
    <2>3. Request' /\ Late'
        BY ReasonFacts DEF Types, Request, Wire, Late, Pumping
    <2>4. Wire'
        BY ReasonFacts DEF Types, Wire, Pumping
    <2>5. FirstReasonHeard' /\ ReasonReachesPeer'
        BY ReasonFacts
        DEF Types, Request, Wire, FirstReasonHeard, ReasonReachesPeer, Pumping
    <2> QED BY <2>1, <2>2, <2>3, <2>4, <2>5
<1>6. CASE WindUp
    <2> USE <1>6 DEF WindUp, TakeRequest, readVars, wireVars
    <2>1. Numbers'
        BY DEF Numbers
    <2>2. Types'
        BY DEF Types, Pumping
    <2>3. Request' /\ Late'
        BY ReasonFacts DEF Types, Request, Wire, Late, Pumping
    <2>4. Wire'
        BY ReasonFacts DEF Types, Wire, Pumping
    <2>5. FirstReasonHeard' /\ ReasonReachesPeer'
        BY ReasonFacts
        DEF Types, Request, Wire, FirstReasonHeard, ReasonReachesPeer, Pumping
    <2> QED BY <2>1, <2>2, <2>3, <2>4, <2>5
<1>7. CASE WriteBye
    <2> USE <1>7 DEF WriteBye, Reaches, readVars
    <2>1. Numbers'
        BY DEF Numbers
    <2>2. Types'
        BY ReasonFacts DEF Types, Pumping
    <2>3. Request' /\ Late'
        BY ReasonFacts DEF Types, Request, Wire, Late, Pumping
    <2>4. Wire'
        BY ReasonFacts DEF Types, Wire, Pumping
    <2>5. FirstReasonHeard' /\ ReasonReachesPeer'
        BY ReasonFacts
        DEF Types, Request, Wire, FirstReasonHeard, ReasonReachesPeer, Pumping
    <2> QED BY <2>1, <2>2, <2>3, <2>4, <2>5
<1>8. CASE WritePumpEnds
    <2> USE <1>8 DEF WritePumpEnds, HardClose, readVars
    <2>1. Numbers'
        BY DEF Numbers
    <2>2. Types'
        BY DEF Types, Pumping
    <2>3. Request' /\ Late'
        BY ReasonFacts DEF Types, Request, Wire, Late, Pumping
    <2>4. Wire'
        BY ReasonFacts DEF Types, Wire, Pumping
    <2>5. FirstReasonHeard' /\ ReasonReachesPeer'
        BY ReasonFacts
        DEF Types, Request, Wire, FirstReasonHeard, ReasonReachesPeer, Pumping
    <2> QED BY <2>1, <2>2, <2>3, <2>4, <2>5
<1> QED BY <1>1, <1>2, <1>3, <1>4, <1>5, <1>6, <1>7, <1>8 DEF WritePump

(* The handler starts the pumps over an open socket, or writes a refusal of its own. *)
LEMMA ServeKeeps == IInv /\ Serve => IInv'
<1> SUFFICES ASSUME IInv, Serve PROVE IInv'
    OBVIOUS
<1> USE DEF IInv
<1>1. CASE StartServe
    <2> USE <1>1 DEF StartServe, wireVars
    <2>1. Numbers'
        BY DEF Numbers
    <2>2. Types'
        BY DEF Types, Pumping
    <2>3. Request' /\ Late'
        BY ReasonFacts DEF Types, Request, Wire, Late, Pumping
    <2>4. Wire'
        BY ReasonFacts DEF Types, Wire, Pumping
    <2>5. FirstReasonHeard' /\ ReasonReachesPeer'
        BY ReasonFacts
        DEF Types, Request, Wire, FirstReasonHeard, ReasonReachesPeer, Pumping
    <2> QED BY <2>1, <2>2, <2>3, <2>4, <2>5
<1>2. ASSUME NEW r \in {"cannot register", "too many connections"}, Refuse(r) PROVE IInv'
    <2> USE <1>2 DEF Refuse, HardClose, Reaches, readVars, writeVars
    <2>1. Numbers'
        BY DEF Numbers
    <2>2. Types'
        BY ReasonFacts, ZenonT(60) DEF Types, Pumping
    <2>3. Request' /\ Late'
        BY ReasonFacts DEF Types, Request, Wire, Late, Pumping
    <2>4. Wire'
        BY ReasonFacts DEF Types, Wire, Pumping
    <2>5. FirstReasonHeard' /\ ReasonReachesPeer'
        BY ReasonFacts
        DEF Types, Request, Wire, FirstReasonHeard, ReasonReachesPeer, Pumping
    <2> QED BY <2>1, <2>2, <2>3, <2>4, <2>5
<1>3. CASE ServeEnds
    <2> USE <1>3 DEF ServeEnds, HardClose, readVars, writeVars
    <2>1. Numbers'
        BY DEF Numbers
    <2>2. Types'
        BY DEF Types
    <2>3. Request' /\ Late'
        BY ReasonFacts DEF Types, Request, Wire, Late, Pumping
    <2>4. Wire'
        BY ReasonFacts DEF Types, Wire, Pumping
    <2>5. FirstReasonHeard' /\ ReasonReachesPeer'
        BY ReasonFacts
        DEF Types, Request, Wire, FirstReasonHeard, ReasonReachesPeer, Pumping
    <2> QED BY <2>1, <2>2, <2>3, <2>4, <2>5
<1>4. CASE Unregister
    <2> USE <1>4 DEF Unregister, readVars, writeVars, wireVars
    <2>1. Numbers'
        BY DEF Numbers
    <2>2. Types'
        BY DEF Types
    <2> QED BY <2>1, <2>2, QuietKeeps
<1> QED BY <1>1, <1>2, <1>3, <1>4 DEF Serve

(* The hub, the process and the peer. *)
LEMMA AroundKeeps == IInv /\ Around => IInv'
<1> SUFFICES ASSUME IInv, Around PROVE IInv'
    OBVIOUS
<1> USE DEF IInv
<1>1. CASE HubRegister
    <2> USE <1>1 DEF HubRegister, readVars, writeVars, wireVars
    <2>1. Numbers'
        BY DEF Numbers
    <2>2. Types'
        BY DEF Types
    <2> QED BY <2>1, <2>2, QuietKeeps
<1>2. CASE TrySend
    <2> USE <1>2 DEF TrySend, readVars, writeVars, wireVars
    <2>1. Numbers'
        BY DEF Numbers
    <2>2. Types'
        BY DEF Types
    <2> QED BY <2>1, <2>2, QuietKeeps
<1>3. CASE StopHub
    <2> USE <1>3 DEF StopHub, readVars, writeVars, wireVars
    <2>1. Numbers'
        BY DEF Numbers
    <2>2. Types'
        BY DEF Types
    <2> QED BY <2>1, <2>2, QuietKeeps
<1>4. CASE HubStops
    <2> USE <1>4 DEF HubStops, Close, readVars, writeVars, wireVars
    <2>1. Numbers'
        BY DEF Numbers
    <2>2. Types'
        <3>1. \/ UNCHANGED <<closing, asked>>
              \/ closing' = "restart" /\ asked' = "restart"
            OBVIOUS
        <3>2. UNCHANGED <<handler, read, write, held, socket, peer, last>>
            OBVIOUS
        <3> QED BY <3>1, <3>2, ReasonFacts DEF Types
    <2>3. Request' /\ Late'
        BY ReasonFacts DEF Types, Request, Wire, Late, Pumping
    <2>4. Wire'
        BY ReasonFacts DEF Types, Wire, Pumping
    <2>5. FirstReasonHeard' /\ ReasonReachesPeer'
        BY ReasonFacts
        DEF Types, Request, Wire, FirstReasonHeard, ReasonReachesPeer, Pumping
    <2> QED BY <2>1, <2>2, <2>3, <2>4, <2>5
<1>5. CASE MainReturns
    <2> USE <1>5 DEF MainReturns, Killed, HardClose
    <2>1. Numbers'
        BY DEF Numbers
    <2>2. Types'
        BY DEF Types, Pumping
    <2>3. Request' /\ Late'
        BY ReasonFacts DEF Types, Request, Wire, Late, Pumping
    <2>4. Wire'
        BY ReasonFacts DEF Types, Wire, Pumping
    <2>5. FirstReasonHeard' /\ ReasonReachesPeer'
        BY ReasonFacts
        DEF Types, Request, Wire, FirstReasonHeard, ReasonReachesPeer, Pumping
    <2> QED BY <2>1, <2>2, <2>3, <2>4, <2>5
<1>6. CASE PeerVanishes
    <2> USE <1>6 DEF PeerVanishes, readVars, writeVars, wireVars
    <2>1. Numbers'
        BY DEF Numbers
    <2>2. Types'
        BY DEF Types
    <2>3. Request' /\ Late'
        BY ReasonFacts DEF Types, Request, Wire, Late, Pumping
    <2>4. Wire'
        BY ReasonFacts DEF Types, Wire, Pumping
    <2>5. FirstReasonHeard' /\ ReasonReachesPeer'
        BY ReasonFacts
        DEF Types, Request, Wire, FirstReasonHeard, ReasonReachesPeer, Pumping
    <2> QED BY <2>1, <2>2, <2>3, <2>4, <2>5
<1>7. ASSUME NEW r \in HubReasons, HubCloses(r) PROVE IInv'
    <2> USE <1>7 DEF HubCloses, Close, readVars, writeVars, wireVars
    <2>1. Numbers'
        BY DEF Numbers
    <2>2. Types'
        <3>1. r \in Reasons
            BY DEF Reasons
        <3>2. closing' \in Reasons \cup {None} /\ asked' \in Reasons \cup {None}
            BY <3>1 DEF Types
        <3>3. UNCHANGED <<handler, read, write, held, socket, peer, last>>
            OBVIOUS
        <3> QED BY <3>2, <3>3 DEF Types
    <2>3. Request' /\ Late'
        BY ReasonFacts DEF Types, Request, Wire, Late, Pumping
    <2>4. Wire'
        BY ReasonFacts DEF Types, Wire, Pumping
    <2>5. FirstReasonHeard' /\ ReasonReachesPeer'
        BY ReasonFacts
        DEF Types, Request, Wire, FirstReasonHeard, ReasonReachesPeer, Pumping
    <2> QED BY <2>1, <2>2, <2>3, <2>4, <2>5
<1> QED BY <1>1, <1>2, <1>3, <1>4, <1>5, <1>6, <1>7 DEF Around

----------------------------------------------------------------------------
(* The invariant holds in every state, whatever the buffer and the burst. *)
THEOREM Invariance == Spec => []IInv
<1>1. IInv /\ UNCHANGED vars => IInv'
    BY DEF vars, IInv, Numbers, Types, Request, Wire, Late, FirstReasonHeard, ReasonReachesPeer
<1>2. IInv /\ [Next]_vars => IInv'
    BY <1>1, ReadPumpKeeps, WritePumpKeeps, ServeKeeps, AroundKeeps DEF Next
<1> QED BY <1>2, InitIInv, PTL DEF Spec

(* The flags stay flags. *)
LEMMA FlagsAlways == Spec => []Flags
<1>1. Init => Flags
    BY DEF Init, Flags
<1>2. Flags /\ [Next]_vars => Flags'
    <2> SUFFICES ASSUME Flags, [Next]_vars PROVE Flags'
        OBVIOUS
    <2> USE DEF Flags
    <2>1. CASE UNCHANGED hubVars
        BY <2>1 DEF hubVars
    <2>2. CASE ReadPump
        BY <2>1, <2>2 DEF ReadPump, ReadFrame, HandleInbound, ReadFails, ReadPumpEnds, Refill
    <2>3. CASE WritePump
        BY <2>1, <2>3 DEF WritePump, TopOfLoop, Select, Tick, WriteDone, PingDone, WindUp,
                          WriteBye, WritePumpEnds
    <2>4. CASE Serve
        BY <2>1, <2>4 DEF Serve, StartServe, Refuse, ServeEnds, Unregister
    <2>5. CASE Around
        BY <2>1, <2>5 DEF Around, HubRegister, TrySend, StopHub, HubStops, MainReturns,
                          PeerVanishes, HubCloses
    <2>6. CASE UNCHANGED vars
        BY <2>1, <2>6 DEF vars, hubVars
    <2> QED BY <2>2, <2>3, <2>4, <2>5, <2>6 DEF Next
<1> QED BY <1>1, <1>2, PTL DEF Spec

(***************************************************************************)
(* Whoever else asks meanwhile, the reason a served peer hears is the      *)
(* first; a peer that is there hears the one the pump took; and at most    *)
(* one data frame follows a request (Close, writePump, windUp).            *)
(***************************************************************************)
THEOREM ReasonAlwaysHeard == Spec => []ReasonIsHeard
<1>1. IInv /\ Flags => ReasonIsHeard
    <2> SUFFICES ASSUME IInv, Flags PROVE ReasonIsHeard
        OBVIOUS
    <2>1. late \in Nat /\ late <= 1
        BY DEF IInv, Late
    <2>2. TypeOK
        BY <2>1 DEF IInv, Flags, Numbers, Types, Pumping, TypeOK
    <2> QED BY <2>1, <2>2 DEF IInv, ReasonIsHeard, AtMostOneMoreFrame
<1> QED BY <1>1, Invariance, FlagsAlways, PTL

=============================================================================
