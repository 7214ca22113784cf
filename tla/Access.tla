------------------------------- MODULE Access -------------------------------
(***************************************************************************)
(* How long a WebSocket may outlive what admitted it.  A socket is         *)
(* admitted once, by a live session of an approved account, and then has   *)
(* no request left to be re-checked on.  Two things end it: the kick of a  *)
(* block or a forget (hub.go, KickAccount), and the sweep                  *)
(* (revalidate.go), which takes a snapshot of the hub, asks the database   *)
(* off the hub's goroutine, and has the losers closed.                     *)
(*                                                                         *)
(* The hub is taken from module Hub as the set of registered sockets; the  *)
(* admin's checks, from module Accounts, are left out: any account may be  *)
(* blocked, approved or forgotten.                                         *)
(***************************************************************************)
EXTENDS Integers, Sequences, FiniteSets

CONSTANTS
    Sessions,       \* session rows; a login inserts one, a dead one never comes back
    Sockets,        \* connection ids, never reused
    AccountOf,      \* session -> account
    KickBuffer      \* capacity of the hub's kick channel

Accounts == {AccountOf[s] : s \in Sessions}

ASSUME AccessAssumption ==
    /\ KickBuffer \in Nat \ {0}
    /\ DOMAIN AccountOf = Sessions
    /\ Sessions # {}

VARIABLES
    approved,       \* accounts whose status is approved
    gone,           \* accounts whose forgotten_at is set
    session,        \* session -> "none", "live" or "dead" (revoked or expired)
    sock,           \* socket -> its progress, and the session it carries
    kicks,          \* the hub's kick channel
    admin,          \* the block or forget handler in flight
    sweep,          \* the revalidator
    lapsed,         \* history: sockets whose authorisation has ended at some time
    doomed          \* history: sockets that were open when their account was kicked

history == <<lapsed, doomed>>
accessVars == <<approved, gone, session, sock, kicks, admin, sweep, history>>

NoSocket == [pc |-> "none", sess |-> CHOOSE s \in Sessions : TRUE]
AtRest == [pc |-> "idle", kind |-> "block", target |-> CHOOSE a \in Accounts : TRUE]
NoSweep == [pc |-> "idle", snap |-> {}, dead |-> {}]

AccessTypeOK ==
    /\ approved \in SUBSET Accounts
    /\ gone \in SUBSET Accounts
    /\ session \in [Sessions -> {"none", "live", "dead"}]
    /\ sock \in [Sockets -> [pc : {"none", "resolved", "admitted", "open", "closed"},
                             sess : Sessions]]
    /\ kicks \in Seq(Accounts) /\ Len(kicks) <= KickBuffer
    /\ admin \in [pc : {"idle", "write", "revoke", "kick"}, kind : {"block", "forget"},
                  target : Accounts]
    /\ sweep \in [pc : {"idle", "snapshot", "answered"}, snap : SUBSET Sockets,
                  dead : SUBSET Sockets]
    /\ sweep.dead \subseteq sweep.snap
    /\ lapsed \in SUBSET Sockets
    /\ doomed \in SUBSET Sockets

AccessInit ==
    /\ approved = Accounts
    /\ gone = {}
    /\ session = [s \in Sessions |-> "none"]
    /\ sock = [c \in Sockets |-> NoSocket]
    /\ kicks = <<>>
    /\ admin = AtRest
    /\ sweep = NoSweep
    /\ lapsed = {}
    /\ doomed = {}

Holder(c) == AccountOf[sock[c].sess]

Open == {c \in Sockets : sock[c].pc = "open"}

(* "a live session AND status=approved" (requireAuth). *)
Authorized(c) == session[sock[c].sess] = "live" /\ Holder(c) \in approved

(* Every step that takes authorisation away marks the sockets that relied on it. *)
MarkLapsed ==
    lapsed' = lapsed \cup {c \in Sockets : /\ sock[c].pc \in {"resolved", "admitted", "open"}
                                           /\ ~Authorized(c)'}

----------------------------------------------------------------------------
(* Sessions. *)

(***************************************************************************)
(* The login callback inserts a session row, whatever the account's        *)
(* standing; one in flight may still do so for an account just forgotten.  *)
(***************************************************************************)
Login(s) ==
    /\ session[s] = "none"
    /\ session' = [session EXCEPT ![s] = "live"]
    /\ UNCHANGED <<approved, gone, sock, kicks, admin, sweep, history>>

(* Logout (handleLogout, Revoke) or expires_at: the sockets are left alone. *)
SessionLapses(s) ==
    /\ session[s] = "live"
    /\ session' = [session EXCEPT ![s] = "dead"]
    /\ UNCHANGED <<approved, gone, sock, kicks, admin, sweep, doomed>>
    /\ MarkLapsed

----------------------------------------------------------------------------
(* The upgrade: requireAuth's two queries, then the registration. *)

ResolveSession(c, s) ==
    /\ sock[c].pc = "none"
    /\ session[s] = "live"
    /\ sock' = [sock EXCEPT ![c] = [pc |-> "resolved", sess |-> s]]
    /\ UNCHANGED <<approved, gone, session, kicks, admin, sweep, history>>

(* GetByID and IsApproved; a refusal is an HTTP status and no socket. *)
CheckAccount(c) ==
    /\ sock[c].pc = "resolved"
    /\ sock' = [sock EXCEPT ![c].pc = IF Holder(c) \in approved THEN "admitted" ELSE "closed"]
    /\ UNCHANGED <<approved, gone, session, kicks, admin, sweep, history>>

(* Accept and Register; the hub asks nothing about authorisation. *)
Register(c) ==
    /\ sock[c].pc = "admitted"
    /\ sock' = [sock EXCEPT ![c].pc = "open"]
    /\ UNCHANGED <<approved, gone, session, kicks, admin, sweep, history>>

(* The upgrade fails or the peer goes away. *)
SocketGone(c) ==
    /\ sock[c].pc \in {"resolved", "admitted", "open"}
    /\ sock' = [sock EXCEPT ![c].pc = "closed"]
    /\ UNCHANGED <<approved, gone, session, kicks, admin, sweep, history>>

----------------------------------------------------------------------------
(* Revocation by an administrator. *)

(* Block writes the status first; forget kicks and revokes before it writes. *)
StartBlock(a) ==
    /\ admin.pc = "idle"
    /\ admin' = [pc |-> "write", kind |-> "block", target |-> a]
    /\ UNCHANGED <<approved, gone, session, sock, kicks, sweep, history>>

StartForget(a) ==
    /\ admin.pc = "idle"
    /\ admin' = [pc |-> "kick", kind |-> "forget", target |-> a]
    /\ UNCHANGED <<approved, gone, session, sock, kicks, sweep, history>>

(* Account.Block, or the anonymising statement of Forget, which blocks too. *)
WriteStatus ==
    /\ admin.pc = "write"
    /\ IF admin.kind = "forget" /\ admin.target \in gone
       THEN UNCHANGED <<approved, gone>>
       ELSE /\ approved' = approved \ {admin.target}
            /\ gone' = IF admin.kind = "forget" THEN gone \cup {admin.target}
                                                     ELSE gone
    /\ admin' = IF admin.kind = "forget" THEN AtRest ELSE [admin EXCEPT !.pc = "revoke"]
    /\ UNCHANGED <<session, sock, kicks, sweep, doomed>>
    /\ MarkLapsed

(* The statement fails: a 500, and nothing after it happens. *)
WriteFails ==
    /\ admin.pc = "write"
    /\ admin' = AtRest
    /\ UNCHANGED <<approved, gone, session, sock, kicks, sweep, history>>

(* RevokeAllForAccount; an error is logged and the handler goes on. *)
RevokeSessions ==
    /\ admin.pc = "revoke"
    /\ \/ session' = [s \in Sessions |->
                        IF AccountOf[s] = admin.target /\ session[s] = "live"
                        THEN "dead" ELSE session[s]]
       \/ session' = session
    /\ admin' = [admin EXCEPT !.pc = IF admin.kind = "block" THEN "kick" ELSE "write"]
    /\ UNCHANGED <<approved, gone, sock, kicks, sweep, doomed>>
    /\ MarkLapsed

MarkDoomed == doomed' = doomed \cup {c \in Open : Holder(c) = admin.target}

(* Mutant of KickAccount: the channel has no bound. *)
KickAccountUnbounded ==
    /\ admin.pc = "kick"
    /\ kicks' = Append(kicks, admin.target)
    /\ MarkDoomed
    /\ admin' = IF admin.kind = "block" THEN AtRest ELSE [admin EXCEPT !.pc = "revoke"]
    /\ UNCHANGED <<approved, gone, session, sock, sweep, lapsed>>

(* KickAccount: the command joins the channel, or waits for room in it. *)
KickAccount ==
    /\ admin.pc = "kick"
    /\ Len(kicks) < KickBuffer
    /\ kicks' = Append(kicks, admin.target)
    /\ MarkDoomed
    /\ admin' = IF admin.kind = "block" THEN AtRest ELSE [admin EXCEPT !.pc = "revoke"]
    /\ UNCHANGED <<approved, gone, session, sock, sweep, lapsed>>

(* Approve, by an admin: it looks at the id only. *)
Approve(a) ==
    /\ a \notin approved
    /\ approved' = approved \cup {a}
    /\ UNCHANGED <<gone, session, sock, kicks, admin, sweep, history>>

(* A block applied straight in the database. *)
DatabaseBlock(a) ==
    /\ a \in approved
    /\ approved' = approved \ {a}
    /\ UNCHANGED <<gone, session, sock, kicks, admin, sweep, doomed>>
    /\ MarkLapsed

----------------------------------------------------------------------------
(* The hub and the sweep. *)

Cut(cs) == [c \in Sockets |-> IF c \in cs THEN [sock[c] EXCEPT !.pc = "closed"] ELSE sock[c]]

(* Mutant of HubKicks: the loop stops at the first match, as publishTo's does. *)
HubKicksFirst ==
    /\ kicks # <<>>
    /\ kicks' = Tail(kicks)
    /\ IF \E c \in Open : Holder(c) = Head(kicks)
       THEN \E c \in Open : Holder(c) = Head(kicks) /\ sock' = Cut({c})
       ELSE UNCHANGED sock
    /\ UNCHANGED <<approved, gone, session, admin, sweep, history>>

(* The hub receives a kick: every connection of the account. *)
HubKicks ==
    /\ kicks # <<>>
    /\ kicks' = Tail(kicks)
    /\ sock' = Cut({c \in Open : Holder(c) = Head(kicks)})
    /\ UNCHANGED <<approved, gone, session, admin, sweep, history>>

(* liveCredentials, on a tick; with nobody connected the sweep is over. *)
SweepSnapshot ==
    /\ sweep.pc = "idle"
    /\ Open # {}
    /\ sweep' = [sweep EXCEPT !.pc = "snapshot", !.snap = Open]
    /\ UNCHANGED <<approved, gone, session, sock, kicks, admin, history>>

(* Mutant of RevokedSessions: the account is asked about, not the session. *)
RevokedAccounts(ss) == {s \in ss : AccountOf[s] \notin approved}

(* The batched query: the sessions among ss that may no longer act. *)
RevokedSessions(ss) ==
    {s \in ss : session[s] # "live" \/ AccountOf[s] \notin approved}

(* Revoked: from the sockets to their sessions, and back. *)
SweepQuery ==
    /\ sweep.pc = "snapshot"
    /\ LET dead == RevokedSessions({sock[c].sess : c \in sweep.snap})
           out  == {c \in sweep.snap : sock[c].sess \in dead}
       IN  sweep' = IF out = {} THEN NoSweep
                    ELSE [sweep EXCEPT !.pc = "answered", !.dead = out]
    /\ UNCHANGED <<approved, gone, session, sock, kicks, admin, history>>

(* Mutant of SweepQueryFails: no answer is read as nobody being authorised. *)
SweepQueryFailsClosed ==
    /\ sweep.pc = "snapshot"
    /\ sweep' = [sweep EXCEPT !.pc = "answered", !.dead = sweep.snap]
    /\ UNCHANGED <<approved, gone, session, sock, kicks, admin, history>>

(* "I could not tell": the sweep closes nobody. *)
SweepQueryFails ==
    /\ sweep.pc = "snapshot"
    /\ sweep' = NoSweep
    /\ UNCHANGED <<approved, gone, session, sock, kicks, admin, history>>

(* closeConnections; an id nobody holds any more is ignored. *)
SweepClose ==
    /\ sweep.pc = "answered"
    /\ sock' = Cut(sweep.dead \cap Open)
    /\ sweep' = NoSweep
    /\ UNCHANGED <<approved, gone, session, kicks, admin, history>>

----------------------------------------------------------------------------
SocketNext ==
    \/ \E s \in Sessions : Login(s) \/ SessionLapses(s)
    \/ \E c \in Sockets :
          \/ \E s \in Sessions : ResolveSession(c, s)
          \/ CheckAccount(c) \/ Register(c) \/ SocketGone(c)

AdminNext ==
    \/ \E a \in Accounts : StartBlock(a) \/ StartForget(a) \/ Approve(a) \/ DatabaseBlock(a)
    \/ WriteStatus \/ WriteFails \/ RevokeSessions \/ KickAccount

RevocationNext ==
    HubKicks \/ SweepSnapshot \/ SweepQuery \/ SweepQueryFails \/ SweepClose

AccessNext == SocketNext \/ AdminNext \/ RevocationNext

AccessSpec == AccessInit /\ [][AccessNext]_accessVars

(***************************************************************************)
(* The revalidator's ticker never stops while the process runs, the hub    *)
(* takes its commands, and the database answers again and again, if not    *)
(* every time.  Nothing is assumed of users, admins or the peers.          *)
(***************************************************************************)
Fairness ==
    /\ WF_accessVars(SweepSnapshot)
    /\ WF_accessVars(SweepQuery \/ SweepQueryFails)
    /\ SF_accessVars(SweepQuery)
    /\ WF_accessVars(SweepClose)
    /\ WF_accessVars(HubKicks)

FairSpec == AccessSpec /\ Fairness

----------------------------------------------------------------------------
(***************************************************************************)
(* "a database blip is not evidence that anyone's authorisation ended"     *)
(* (Authorizer): the sweep only closes a socket whose authorisation did    *)
(* end at some time since its upgrade began, however stale its snapshot    *)
(* and its answer are by the time the hub acts on them.                    *)
(***************************************************************************)
SweepClosesOnlyLapsed ==
    [][SweepClose => {c \in Open : sock'[c].pc = "closed"} \subseteq lapsed]_accessVars

(***************************************************************************)
(* No socket outlives its authorisation for ever, whatever ended it and    *)
(* whichever of the two mechanisms missed it: logout, expiry, a block in   *)
(* the database, a block or forget whose kick came too early               *)
(* (Revalidator).                                                          *)
(***************************************************************************)
UnauthorizedIsCut ==
    \A c \in Sockets :
        (sock[c].pc = "open" /\ ~Authorized(c)) ~> (sock[c].pc = "closed" \/ Authorized(c))

(***************************************************************************)
(* A kick is never lost: a socket that was open when its account was       *)
(* kicked is closed, or a kick that will close it is still in the channel, *)
(* however many kicks are queued and whatever the hub does in between.     *)
(***************************************************************************)
KickIsNeverLost ==
    \A c \in doomed \cap Open : \E i \in 1..Len(kicks) : kicks[i] = Holder(c)

(***************************************************************************)
(* The kick channel within its bound, and no kick lost by it.              *)
(***************************************************************************)
KicksAreKept == AccessTypeOK /\ KickIsNeverLost

=============================================================================
