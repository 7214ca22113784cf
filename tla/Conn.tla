-------------------------------- MODULE Conn --------------------------------
(***************************************************************************)
(* One socket (internal/realtime/conn.go): the HTTP handler that registers *)
(* and serves it, its read pump and its write pump, the hub that queues    *)
(* frames and asks it to close, the process that shuts down around it, and *)
(* the peer, which may vanish at any moment.                               *)
(*                                                                         *)
(* A step is what one goroutine does between two points where another can  *)
(* be seen: one select, one write to the wire, one read.  The websocket    *)
(* library is external: a write reaches a peer that is there over a socket *)
(* that is open, a write that fails closes the socket, a ping needs the    *)
(* read pump to be reading when the pong comes, and dropping the socket    *)
(* makes a blocked read fail.                                              *)
(***************************************************************************)
EXTENDS Integers

CONSTANTS
    SendBuffer,     \* capacity of the send channel
    Burst           \* msgBurst: the read pump's token bucket

ASSUME ConnAssumption == SendBuffer \in Nat /\ Burst \in Nat

None == "none"

(* Why a peer is sent away: the close codes and reasons the code uses. *)
HubReasons == {"slow consumer", "unauthorized"}
Reasons == HubReasons \cup {"restart", "rate limited", "peer closed",
                            "cannot register", "too many connections"}

VARIABLES
    handler,        \* the HTTP handler: registering, serving, leaving, returned
    registered,     \* the hub holds the socket
    hubCancelled,   \* the hub's context, which is also the pumps', is cancelled
    hubDone,        \* the hub has returned
    exited,         \* the process is gone
    queue,          \* frames in the send channel
    closing,        \* the closing channel: a reason or None
    asked,          \* what closeOnce let through: the first reason or None
    read,           \* where the read pump is
    tokens,         \* the read pump's rate limiter
    write,          \* where the write pump is
    held,           \* the close request the write pump has taken out
    socket,         \* open or dropped
    peer,           \* there or gone
    last,           \* the last frame that reached the peer: None, data, a reason
    late            \* data frames written after a close was asked for

vars == <<handler, registered, hubCancelled, hubDone, exited, queue, closing,
          asked, read, tokens, write, held, socket, peer, last, late>>

hubVars == <<registered, hubCancelled, hubDone, exited>>
readVars == <<read, tokens>>
writeVars == <<write, held>>
wireVars == <<socket, last, late>>

TypeOK ==
    /\ handler \in {"registering", "serving", "leaving", "returned", "killed"}
    /\ registered \in BOOLEAN
    /\ hubCancelled \in BOOLEAN
    /\ hubDone \in BOOLEAN
    /\ exited \in BOOLEAN
    /\ queue \in 0..SendBuffer
    /\ closing \in Reasons \cup {None}
    /\ asked \in Reasons \cup {None}
    /\ read \in {"off", "reading", "handling", "leaving", "gone", "killed"}
    /\ tokens \in 0..Burst
    /\ write \in {"off", "top", "select", "sending", "pinging", "windUp", "bye",
                  "dropping", "gone", "killed"}
    /\ held \in Reasons \cup {None}
    /\ socket \in {"open", "dropped"}
    /\ peer \in {"there", "gone"}
    /\ last \in Reasons \cup {None, "data"}
    /\ late \in Nat

(* NewConn: the upgrade is done and the handler is in Register. *)
Init ==
    /\ handler = "registering"
    /\ registered = FALSE
    /\ hubCancelled = FALSE
    /\ hubDone = FALSE
    /\ exited = FALSE
    /\ queue = 0
    /\ closing = None
    /\ asked = None
    /\ read = "off"
    /\ tokens = Burst
    /\ write = "off"
    /\ held = None
    /\ socket = "open"
    /\ peer = "there"
    /\ last = None
    /\ late = 0

----------------------------------------------------------------------------
(* Mutant of Close: a later request replaces an earlier one. *)
CloseOverwriting(r) ==
    /\ closing' = r
    /\ asked' = IF asked = None THEN r ELSE asked

(* Close: only the first request gets into the channel. *)
Close(r) ==
    IF asked = None THEN closing' = r /\ asked' = r
                    ELSE UNCHANGED <<closing, asked>>

(* hardClose is CloseNow, once. *)
HardClose == socket' = "dropped"

(* A frame put on the wire by ws.Write over an open socket. *)
Reaches == socket = "open" /\ peer = "there"

----------------------------------------------------------------------------
(* The hub and the process. *)

HubRegister ==
    /\ ~hubDone
    /\ handler = "registering"
    /\ ~registered /\ asked = None      \* asked once
    /\ registered' = TRUE
    /\ UNCHANGED <<handler, hubCancelled, hubDone, exited, queue, closing,
                   asked, readVars, writeVars, wireVars, peer>>

(* Mutant of TrySend: one frame more than the channel holds. *)
TrySendOffByOne ==
    /\ registered
    /\ ~hubDone
    /\ queue <= SendBuffer
    /\ queue' = queue + 1
    /\ UNCHANGED <<handler, hubVars, closing, asked, readVars, writeVars,
                   wireVars, peer>>

TrySend ==
    /\ registered
    /\ ~hubDone
    /\ queue < SendBuffer
    /\ queue' = queue + 1
    /\ UNCHANGED <<handler, hubVars, closing, asked, readVars, writeVars,
                   wireVars, peer>>

(* An eviction, a kick or the sweep: the socket is removed and asked to close. *)
HubCloses(r) ==
    /\ registered
    /\ ~hubDone
    /\ registered' = FALSE
    /\ Close(r)
    /\ UNCHANGED <<handler, hubCancelled, hubDone, exited, queue, readVars,
                   writeVars, wireVars, peer>>

(* main cancels the context the hub and every write pump run under. *)
StopHub ==
    /\ ~hubCancelled
    /\ hubCancelled' = TRUE
    /\ UNCHANGED <<handler, registered, hubDone, exited, queue, closing, asked,
                   readVars, writeVars, wireVars, peer>>

HubStops ==
    /\ hubCancelled /\ ~exited
    /\ ~hubDone
    /\ hubDone' = TRUE
    /\ IF registered THEN Close("restart") ELSE UNCHANGED <<closing, asked>>
    /\ UNCHANGED <<handler, registered, hubCancelled, exited, queue, readVars,
                   writeVars, wireVars, peer>>

(* The process takes a goroutine that has not ended with it. *)
Killed(pc) == IF pc \in {"off", "gone", "returned"} THEN pc ELSE "killed"

(* main returns: it waits for the hub, or for five seconds, and for no socket. *)
MainReturns ==
    /\ hubCancelled /\ ~exited
    /\ exited' = TRUE
    /\ registered' = FALSE
    /\ handler' = Killed(handler)
    /\ read' = Killed(read)
    /\ write' = Killed(write)
    /\ HardClose
    /\ UNCHANGED <<hubCancelled, hubDone, queue, closing, asked, tokens, held,
                   last, late, peer>>

(* The peer closes, misbehaves on the wire, stops reading, or loses its network. *)
PeerVanishes ==
    /\ peer = "there"
    /\ peer' = "gone"
    /\ UNCHANGED <<handler, hubVars, queue, closing, asked, readVars, writeVars,
                   wireVars>>

----------------------------------------------------------------------------
(* The HTTP handler: Register answered, Serve, Unregister. *)

StartServe ==
    /\ handler = "registering"
    /\ registered \/ asked # None       \* the hub admitted it, and may have cut it since
    /\ handler' = "serving"
    /\ read' = "reading"
    /\ write' = "top"
    /\ UNCHANGED <<hubVars, queue, closing, asked, tokens, held, wireVars, peer>>

(***************************************************************************)
(* Register failed (a cap, the hub gone, the request's context over):      *)
(* Refuse writes the bye on this goroutine and drops the socket.           *)
(***************************************************************************)
Refuse(r) ==
    /\ handler = "registering"
    /\ r = "too many connections" => ~registered /\ asked = None
    /\ handler' = "returned"
    /\ last' = IF Reaches THEN r ELSE last
    /\ HardClose
    /\ UNCHANGED <<hubVars, queue, closing, asked, readVars, writeVars, late, peer>>

(* Both pumps have exited; Serve's deferred calls follow. *)
ServeEnds ==
    /\ handler = "serving"
    /\ read = "gone"
    /\ write = "gone"
    /\ handler' = "leaving"
    /\ HardClose
    /\ UNCHANGED <<hubVars, queue, closing, asked, readVars, writeVars, last,
                   late, peer>>

Unregister ==
    /\ handler = "leaving"
    /\ handler' = "returned"
    /\ registered' = (registered /\ hubDone)
    /\ UNCHANGED <<hubCancelled, hubDone, exited, queue, closing, asked,
                   readVars, writeVars, wireVars, peer>>

----------------------------------------------------------------------------
(* readPump. *)

(***************************************************************************)
(* A frame arrives.  Over the rate the socket is asked to close; a text    *)
(* frame with somebody listening goes to the game; any other is dropped.   *)
(***************************************************************************)
ReadFrame ==
    /\ read = "reading"
    /\ Reaches
    /\ \/ /\ tokens > 0
          /\ tokens' = tokens - 1
          /\ read' \in {"reading", "handling"}
          /\ UNCHANGED <<closing, asked>>
       \/ /\ tokens = 0
          /\ Close("rate limited")
          /\ read' = "leaving"
          /\ UNCHANGED tokens
    /\ UNCHANGED <<handler, hubVars, queue, writeVars, wireVars, peer>>

(* The game's HandleInbound returns. *)
HandleInbound ==
    /\ read = "handling"
    /\ read' = "reading"
    /\ UNCHANGED <<handler, hubVars, queue, closing, asked, tokens, writeVars,
                   wireVars, peer>>

(* The read fails; the library has closed the socket by then. *)
ReadFails ==
    /\ read = "reading"
    /\ ~Reaches
    /\ read' = "leaving"
    /\ HardClose
    /\ UNCHANGED <<handler, hubVars, queue, closing, asked, tokens, writeVars,
                   last, late, peer>>

(* The goroutine around readPump asks the write pump to wind up. *)
ReadPumpEnds ==
    /\ read = "leaving"
    /\ read' = "gone"
    /\ Close("peer closed")
    /\ UNCHANGED <<handler, hubVars, queue, tokens, writeVars, wireVars, peer>>

(* Time passes: the limiter earns a token. *)
Refill ==
    /\ read = "reading"
    /\ tokens < Burst
    /\ tokens' = tokens + 1
    /\ UNCHANGED <<handler, hubVars, queue, closing, asked, read, writeVars,
                   wireVars, peer>>

----------------------------------------------------------------------------
(* writePump and windUp. *)

(* The pump takes the close request out of the channel, to say good-bye. *)
TakeRequest ==
    /\ closing # None
    /\ held' = closing
    /\ closing' = None
    /\ write' = "bye"

(* Mutant of TopOfLoop: a pending close does not outrank queued frames. *)
TopOfLoopUnchecked ==
    /\ write = "top"
    /\ write' = "select"
    /\ UNCHANGED <<handler, hubVars, queue, closing, asked, readVars, held,
                   wireVars, peer>>

TopOfLoop ==
    /\ write = "top"
    /\ \/ TakeRequest
       \/ closing = None /\ write' = "select" /\ UNCHANGED <<closing, held>>
    /\ UNCHANGED <<handler, hubVars, queue, asked, readVars, wireVars, peer>>

(* The blocking select takes any case that is ready. *)
Select ==
    /\ write = "select"
    /\ \/ hubCancelled /\ write' = "windUp" /\ UNCHANGED <<queue, closing, held>>
       \/ TakeRequest /\ UNCHANGED queue
       \/ queue > 0 /\ queue' = queue - 1 /\ write' = "sending"
             /\ UNCHANGED <<closing, held>>
    /\ UNCHANGED <<handler, hubVars, asked, readVars, wireVars, peer>>

(* The ticker's case of the same select: nothing else may be happening. *)
Tick ==
    /\ write = "select"
    /\ write' = "pinging"
    /\ UNCHANGED <<handler, hubVars, queue, closing, asked, readVars, held,
                   wireVars, peer>>

(* Mutant of WriteDone: the write runs under the pump's own context. *)
WriteDoneUnlessCancelled ==
    /\ write = "sending"
    /\ IF Reaches /\ ~hubCancelled
       THEN write' = "top" /\ last' = "data" /\ UNCHANGED <<socket, late>>
       ELSE write' = "windUp" /\ HardClose /\ UNCHANGED <<last, late>>
    /\ UNCHANGED <<handler, hubVars, queue, closing, asked, readVars, held, peer>>

(***************************************************************************)
(* One frame is written.  To a peer that is gone the write may still       *)
(* succeed, into a buffer nobody reads, or time out.                       *)
(***************************************************************************)
WriteDone ==
    /\ write = "sending"
    /\ \/ /\ Reaches
          /\ last' = "data"
          /\ late' = IF asked = None THEN late ELSE late + 1
          /\ write' = "top"
          /\ UNCHANGED socket
       \/ /\ socket = "open" /\ peer = "gone"
          /\ write' = "top"
          /\ UNCHANGED wireVars
       \/ /\ ~Reaches
          /\ write' = "windUp"
          /\ HardClose
          /\ UNCHANGED <<last, late>>
    /\ UNCHANGED <<handler, hubVars, queue, closing, asked, readVars, held, peer>>

(***************************************************************************)
(* The pong arrives only while the read pump reads; a handler that takes   *)
(* longer than the write timeout looks like a peer that is gone.           *)
(***************************************************************************)
PingDone ==
    /\ write = "pinging"
    /\ \/ Reaches /\ read = "reading" /\ write' = "top" /\ UNCHANGED socket
       \/ Reaches /\ read # "reading" /\ write' = "windUp" /\ UNCHANGED socket
       \/ ~Reaches /\ write' = "windUp" /\ socket' \in {socket, "dropped"}
    /\ UNCHANGED <<handler, hubVars, queue, closing, asked, readVars, held, last,
                   late, peer>>

(* Mutant of WindUp: an error path that returns on its own. *)
WindUpSilently ==
    /\ write = "windUp"
    /\ write' = "dropping"
    /\ UNCHANGED <<handler, hubVars, queue, closing, asked, readVars, held,
                   wireVars, peer>>

(* windUp: a reason that is there is taken; otherwise byeGrace runs out. *)
WindUp ==
    /\ write = "windUp"
    /\ \/ TakeRequest
       \/ closing = None /\ write' = "dropping" /\ UNCHANGED <<closing, held>>
    /\ UNCHANGED <<handler, hubVars, queue, asked, readVars, wireVars, peer>>

WriteBye ==
    /\ write = "bye"
    /\ write' = "dropping"
    /\ last' = IF Reaches THEN held ELSE last
    /\ UNCHANGED <<handler, hubVars, queue, closing, asked, readVars, held,
                   socket, late, peer>>

(* Mutant of WritePumpEnds: the socket is left open for Serve to drop. *)
WritePumpEndsLeavingSocket ==
    /\ write = "dropping"
    /\ write' = "gone"
    /\ UNCHANGED <<handler, hubVars, queue, closing, asked, readVars, held,
                   wireVars, peer>>

(* The deferred hardClose. *)
WritePumpEnds ==
    /\ write = "dropping"
    /\ write' = "gone"
    /\ HardClose
    /\ UNCHANGED <<handler, hubVars, queue, closing, asked, readVars, held, last,
                   late, peer>>

----------------------------------------------------------------------------
ReadPump == ReadFrame \/ HandleInbound \/ ReadFails \/ ReadPumpEnds \/ Refill

WritePump ==
    \/ TopOfLoop \/ Select \/ Tick \/ WriteDone \/ PingDone \/ WindUp \/ WriteBye
    \/ WritePumpEnds

Serve ==
    \/ StartServe
    \/ \E r \in {"cannot register", "too many connections"} : Refuse(r)
    \/ ServeEnds \/ Unregister

Around ==
    \/ HubRegister \/ TrySend \/ StopHub \/ HubStops \/ MainReturns \/ PeerVanishes
    \/ \E r \in HubReasons : HubCloses(r)

Next == ReadPump \/ WritePump \/ Serve \/ Around

Spec == Init /\ [][Next]_vars

(***************************************************************************)
(* Fairness: a goroutine that can run does.  A write and a ping end        *)
(* (writeTimeout), the ticker fires again and again, a game's handler      *)
(* returns, and a read fails once the socket is dropped.  A read on a      *)
(* socket whose peer silently vanished need never fail by itself.          *)
(***************************************************************************)
Fairness ==
    /\ WF_vars(HandleInbound)
    /\ WF_vars(socket = "dropped" /\ ReadFails)
    /\ WF_vars(ReadPumpEnds)
    /\ WF_vars(TopOfLoop)
    /\ WF_vars(Select)
    /\ SF_vars(Tick)
    /\ WF_vars(WriteDone)
    /\ WF_vars(PingDone)
    /\ WF_vars(WindUp)
    /\ WF_vars(WriteBye)
    /\ WF_vars(WritePumpEnds)
    /\ WF_vars(Serve)
    /\ WF_vars(HubStops)

FairSpec == Spec /\ Fairness

----------------------------------------------------------------------------
(***************************************************************************)
(* The reason a served peer hears is the first one anybody gave, although  *)
(* the hub, the sweep, the limiter and the read pump's exit may all ask    *)
(* (closeOnce).                                                            *)
(***************************************************************************)
FirstReasonHeard == write \in {"dropping", "gone"} /\ last \in Reasons => last = asked

(***************************************************************************)
(* A reason the write pump has taken out of the channel reaches a peer     *)
(* that is there: nothing may drop the socket between the request and the  *)
(* bye, not even the shutdown that asked (the WithoutCancel contexts).     *)
(***************************************************************************)
ReasonReachesPeer ==
    write \in {"dropping", "gone"} /\ held # None /\ peer = "there" => last = held

(***************************************************************************)
(* "shutdown costs at most one more frame": once a close was asked for, at *)
(* most one queued frame goes out before the bye (the check at the top of  *)
(* writePump's loop).                                                      *)
(***************************************************************************)
AtMostOneMoreFrame == late <= 1

(***************************************************************************)
(* A close request that finds the write pump before its last good-bye is   *)
(* heard, unless the peer or the process goes first (windUp).              *)
(***************************************************************************)
AskedIsHeard ==
    (asked # None /\ write \notin {"off", "dropping", "gone", "killed"})
        ~> (last = asked \/ peer = "gone" \/ exited)

(***************************************************************************)
(* Serve returns: a socket that was asked to close, whose hub stopped, or  *)
(* whose peer vanished without a word, ends both its pumps and unregisters *)
(* (the deferred hardClose unblocks the read, the ping finds a dead peer). *)
(***************************************************************************)
ServeReturns ==
    (handler = "serving" /\ (asked # None \/ hubCancelled \/ peer = "gone"))
        ~> handler \in {"returned", "killed"}

(***************************************************************************)
(* "Draining first gives every connected client a reason before the socket *)
(* goes away" (ADR-017): when the process exits after a complete drain, a  *)
(* connected peer has been told why.                                       *)
(***************************************************************************)
DrainExplainsItself ==
    exited /\ hubDone /\ write = "killed" /\ peer = "there" => last \in Reasons

(***************************************************************************)
(* A peer hears one reason, the first, soon and without fail: what its     *)
(* socket promises whoever asks for a close (Close, writePump, windUp).    *)
(***************************************************************************)
ReasonIsHeard == TypeOK /\ FirstReasonHeard /\ ReasonReachesPeer /\ AtMostOneMoreFrame

=============================================================================
