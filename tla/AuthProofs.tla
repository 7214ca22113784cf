----------------------------- MODULE AuthProofs -----------------------------
(***************************************************************************)
(* Proofs about Accounts and about Access, the two ends of one standing:   *)
(* the table of accounts and its handlers, and the sockets that were       *)
(* admitted on what the table said.  Each is proved for any number of its  *)
(* actors.                                                                 *)
(*                                                                         *)
(* Accounts: the superadmin keeps access, a person is one row, and a login *)
(* leaves the standing of the rows it finds alone.  A handler's check is   *)
(* made on a row that may have changed by the time its statement runs.     *)
(* What saves the superadmin is that the only fact the check establishes   *)
(* about a target that matters, that it is not the superadmin, cannot      *)
(* become false: no statement writes that role.  Spared carries that fact  *)
(* from ReadTarget to the statement.                                       *)
(*                                                                         *)
(* Access: a kick is never lost, and the sweep closes only sockets whose   *)
(* authorisation did end.  The sweep acts on a snapshot and on an answer   *)
(* that are both stale by the time the hub closes anything.  Its excuse is *)
(* a fact that cannot become false: the authorisation of the socket ended  *)
(* at some time.  Relied says that the history variable misses no such     *)
(* end, Answered that the answer in flight names only such sockets.        *)
(***************************************************************************)
EXTENDS Accounts, Access, FiniteSetTheorems, TLAPS

LoginType == [pc : {"idle", "read", "upserted"}, auto : BOOLEAN, id : Ids \cup {NoId}]
RequestType == [pc : {"idle", "authed", "checked", "revoke"},
                kind : Kinds, as : Roles, target : Ids \cup {NoId}]

(* The columns of the table. *)
Table ==
    /\ rows \in SUBSET Ids
    /\ identity \in [Ids -> People \cup {owner, Nobody}]
    /\ role \in [Ids -> Roles]
    /\ status \in [Ids -> Statuses]
    /\ forgotten \in SUBSET rows

Setting == open \in BOOLEAN
LoginsTyped == login \in [People -> LoginType]
RequestsTyped == req \in [Requests -> RequestType]
SessionsHaveRows == signedIn \in SUBSET rows

(* The id a callback carries from its upsert to its session is a row's. *)
Upserted == \A p \in People : login[p].pc = "upserted" => login[p].id \in rows

(* A request past its check has a row for a target. *)
Targeted ==
    \A r \in Requests : req[r].pc \in {"checked", "revoke"} => req[r].target \in rows

(* What the check found of the target still holds when the statement runs. *)
Spared ==
    \A r \in Requests :
        req[r].pc \in {"checked", "revoke"} /\ req[r].kind \in {"block", "demote", "forget"}
            => role[req[r].target] # "superadmin"

(* The unique index on (provider, identity_ref). *)
Unique == \A i, j \in rows : identity[i] \in People /\ identity[i] = identity[j] => i = j

(* A forgotten row names nobody. *)
Anonymous == \A i \in forgotten : identity[i] = Nobody

IInv ==
    /\ Table
    /\ Setting
    /\ LoginsTyped
    /\ RequestsTyped
    /\ SessionsHaveRows
    /\ Upserted
    /\ Targeted
    /\ Spared
    /\ SuperadminKeepsAccess
    /\ Unique
    /\ Anonymous

----------------------------------------------------------------------------
(* The table with the owner in it and nobody else is within the invariant. *)
LEMMA InitIInv == Init => IInv
<1> SUFFICES ASSUME Init PROVE IInv
    OBVIOUS
<1> USE AccountsAssumption DEF Init
<1>1. Table /\ Setting /\ SessionsHaveRows
    BY DEF Table, Setting, SessionsHaveRows, Roles, Statuses
<1>2. LoginsTyped /\ Upserted
    BY DEF LoginsTyped, LoginType, NoLogin, Upserted
<1>3. RequestsTyped /\ Targeted /\ Spared
    BY DEF RequestsTyped, RequestType, NoRequest, Kinds, Roles, Targeted, Spared
<1>4. SuperadminKeepsAccess /\ Unique /\ Anonymous
    BY DEF SuperadminKeepsAccess, Unique, Anonymous
<1> QED BY <1>1, <1>2, <1>3, <1>4 DEF IInv

(* A callback that has not reached its upsert, or is over, carries no id. *)
LEMMA LoginMoves ==
    ASSUME IInv, NEW p \in People, NEW l \in LoginType,
           l.pc = "upserted" => l.id \in rows',
           rows \subseteq rows',
           login' = [login EXCEPT ![p] = l]
    PROVE  LoginsTyped' /\ Upserted'
<1>1. LoginsTyped'
    BY DEF IInv, LoginsTyped
<1>2. Upserted'
    BY DEF IInv, LoginsTyped, Upserted
<1> QED BY <1>1, <1>2

(* A request at one of its steps, the others where they were. *)
LEMMA RequestMoves ==
    ASSUME IInv, NEW r \in Requests, NEW q \in RequestType,
           q.pc \in {"checked", "revoke"} =>
               /\ q.target \in rows
               /\ q.kind \in {"block", "demote", "forget"} => role[q.target] # "superadmin",
           req' = [req EXCEPT ![r] = q],
           rows' = rows,
           \A i \in rows : role'[i] = "superadmin" => role[i] = "superadmin"
    PROVE  RequestsTyped' /\ Targeted' /\ Spared'
<1>1. RequestsTyped'
    BY DEF IInv, RequestsTyped
<1>2. Targeted'
    BY DEF IInv, RequestsTyped, Targeted
<1>3. Spared'
    BY DEF IInv, RequestsTyped, Targeted, Spared
<1> QED BY <1>1, <1>2, <1>3

(* An idle request is a request. *)
LEMMA NoRequestType == NoRequest \in RequestType /\ NoRequest.pc = "idle"
BY DEF NoRequest, RequestType, Kinds, Roles

(* An idle login is a login. *)
LEMMA NoLoginType == NoLogin \in LoginType /\ NoLogin.pc = "idle"
BY DEF NoLogin, LoginType

(* A step that writes no row keeps what is said of rows. *)
LEMMA RowsKept ==
    ASSUME IInv, UNCHANGED rowVars
    PROVE  Table' /\ SuperadminKeepsAccess' /\ Unique' /\ Anonymous'
BY DEF IInv, rowVars, Table, SuperadminKeepsAccess, Unique, Anonymous

(* A step that starts, moves or ends no request, on the rows it knew. *)
LEMMA RequestsKept ==
    ASSUME IInv, UNCHANGED req, rows \subseteq rows', \A i \in rows : role'[i] = role[i]
    PROVE  RequestsTyped' /\ Targeted' /\ Spared'
BY DEF IInv, RequestsTyped, Targeted, Spared

(* A step of no login. *)
LEMMA LoginsKept ==
    ASSUME IInv, UNCHANGED login, rows \subseteq rows'
    PROVE  LoginsTyped' /\ Upserted'
BY DEF IInv, LoginsTyped, Upserted

----------------------------------------------------------------------------
(* The row of a first login: the default standing, and an index no row had. *)
LEMMA FirstLogin ==
    ASSUME IInv, NEW p \in People, NEW i \in Ids \ rows, NEW auto \in BOOLEAN,
           \A j \in rows : identity[j] # p,
           rows' = rows \cup {i},
           identity' = [identity EXCEPT ![i] = UpsertOnLogin(p, auto).identity],
           role' = [role EXCEPT ![i] = UpsertOnLogin(p, auto).role],
           status' = [status EXCEPT ![i] = UpsertOnLogin(p, auto).status],
           UNCHANGED forgotten
    PROVE  /\ Table' /\ SuperadminKeepsAccess' /\ Unique' /\ Anonymous'
           /\ \A j \in rows : role'[j] = role[j] /\ status'[j] = status[j]
<1>1. /\ UpsertOnLogin(p, auto).identity = p
      /\ UpsertOnLogin(p, auto).role = "user"
      /\ UpsertOnLogin(p, auto).status \in {"approved", "pending"}
    BY DEF UpsertOnLogin
<1> USE <1>1 DEF IInv, Table
<1>2. Table'
    BY DEF Roles, Statuses
<1>3. SuperadminKeepsAccess'
    BY DEF SuperadminKeepsAccess
<1>4. Unique'
    BY DEF Unique
<1>5. Anonymous'
    BY DEF Anonymous
<1>6. \A j \in rows : role'[j] = role[j] /\ status'[j] = status[j]
    OBVIOUS
<1> QED BY <1>2, <1>3, <1>4, <1>5, <1>6

(* The steps of the login callback. *)
LEMMA LoginKeeps == IInv /\ LoginNext => IInv'
<1> SUFFICES ASSUME IInv, NEW p \in People,
                    ReadSetting(p) \/ Upsert(p) \/ CreateSession(p) \/ LoginFails(p)
             PROVE  IInv'
    BY DEF LoginNext
<1>1. CASE ReadSetting(p)
    <2>1. PICK auto \in {open, FALSE} :
              login' = [login EXCEPT ![p] = [pc |-> "read", auto |-> auto, id |-> NoId]]
        BY <1>1 DEF ReadSetting
    <2>2. UNCHANGED <<rowVars, signedIn, open, req>>
        BY <1>1 DEF ReadSetting
    <2>3. auto \in BOOLEAN
        BY DEF IInv, Setting
    <2>4. [pc |-> "read", auto |-> auto, id |-> NoId] \in LoginType
        BY <2>3 DEF LoginType
    <2>5. LoginsTyped' /\ Upserted'
        BY <2>1, <2>2, <2>4, LoginMoves DEF rowVars
    <2>6. RequestsTyped' /\ Targeted' /\ Spared'
        BY <2>2, RequestsKept DEF rowVars
    <2>7. Setting' /\ SessionsHaveRows'
        BY <2>2 DEF IInv, Setting, SessionsHaveRows, rowVars
    <2> QED BY <2>2, <2>5, <2>6, <2>7, RowsKept DEF IInv
<1>2. CASE Upsert(p)
    <2>1. UNCHANGED <<signedIn, open, req>>
        BY <1>2 DEF Upsert
    <2>2. CASE \E i \in rows :
                 /\ identity[i] = p
                 /\ login' = [login EXCEPT ![p] = [pc |-> "upserted", auto |-> FALSE, id |-> i]]
                 /\ UNCHANGED rowVars
        <3>1. PICK i \in rows :
                 /\ login' = [login EXCEPT ![p] = [pc |-> "upserted", auto |-> FALSE, id |-> i]]
                 /\ UNCHANGED rowVars
            BY <2>2
        <3>2. [pc |-> "upserted", auto |-> FALSE, id |-> i] \in LoginType
            BY DEF LoginType, IInv, Table
        <3>3. LoginsTyped' /\ Upserted'
            BY <3>1, <3>2, LoginMoves DEF rowVars
        <3>4. RequestsTyped' /\ Targeted' /\ Spared'
            BY <2>1, <3>1, RequestsKept DEF rowVars
        <3>5. Setting' /\ SessionsHaveRows'
            BY <2>1, <3>1 DEF IInv, Setting, SessionsHaveRows, rowVars
        <3> QED BY <3>1, <3>3, <3>4, <3>5, RowsKept DEF IInv
    <2>3. CASE \E i \in Ids \ rows :
                 /\ \A j \in rows : identity[j] # p
                 /\ rows' = rows \cup {i}
                 /\ identity' = [identity EXCEPT ![i] = UpsertOnLogin(p, login[p].auto).identity]
                 /\ role' = [role EXCEPT ![i] = UpsertOnLogin(p, login[p].auto).role]
                 /\ status' = [status EXCEPT ![i] = UpsertOnLogin(p, login[p].auto).status]
                 /\ login' = [login EXCEPT ![p] = [pc |-> "upserted", auto |-> FALSE, id |-> i]]
                 /\ UNCHANGED forgotten
        <3>1. PICK i \in Ids \ rows :
                 /\ \A j \in rows : identity[j] # p
                 /\ rows' = rows \cup {i}
                 /\ identity' = [identity EXCEPT ![i] = UpsertOnLogin(p, login[p].auto).identity]
                 /\ role' = [role EXCEPT ![i] = UpsertOnLogin(p, login[p].auto).role]
                 /\ status' = [status EXCEPT ![i] = UpsertOnLogin(p, login[p].auto).status]
                 /\ login' = [login EXCEPT ![p] = [pc |-> "upserted", auto |-> FALSE, id |-> i]]
                 /\ UNCHANGED forgotten
            BY <2>3
        <3>2. [pc |-> "upserted", auto |-> FALSE, id |-> i] \in LoginType
            BY DEF LoginType
        <3>3. login[p].auto \in BOOLEAN
            BY DEF IInv, LoginsTyped, LoginType
        <3>4. /\ Table' /\ SuperadminKeepsAccess' /\ Unique' /\ Anonymous'
              /\ \A j \in rows : role'[j] = role[j] /\ status'[j] = status[j]
            BY <3>1, <3>3, FirstLogin
        <3>5. LoginsTyped' /\ Upserted'
            BY <3>1, <3>2, LoginMoves
        <3>6. RequestsTyped' /\ Targeted' /\ Spared'
            BY <2>1, <3>1, <3>4, RequestsKept
        <3>7. Setting' /\ SessionsHaveRows'
            BY <2>1, <3>1 DEF IInv, Setting, SessionsHaveRows
        <3> QED BY <3>4, <3>5, <3>6, <3>7 DEF IInv
    <2> QED BY <1>2, <2>2, <2>3 DEF Upsert
<1>3. CASE CreateSession(p)
    <2>1. /\ login[p].pc = "upserted" /\ signedIn' = signedIn \cup {login[p].id}
          /\ login' = [login EXCEPT ![p] = NoLogin]
          /\ UNCHANGED <<rowVars, open, req>>
        BY <1>3 DEF CreateSession
    <2>2. LoginsTyped' /\ Upserted'
        BY <2>1, NoLoginType, LoginMoves DEF rowVars
    <2>3. RequestsTyped' /\ Targeted' /\ Spared'
        BY <2>1, RequestsKept DEF rowVars
    <2>4. SessionsHaveRows'
        BY <2>1 DEF IInv, SessionsHaveRows, Upserted, rowVars
    <2>5. Setting'
        BY <2>1 DEF IInv, Setting
    <2> QED BY <2>1, <2>2, <2>3, <2>4, <2>5, RowsKept DEF IInv
<1>4. CASE LoginFails(p)
    <2>1. login' = [login EXCEPT ![p] = NoLogin] /\ UNCHANGED <<rowVars, signedIn, open, req>>
        BY <1>4 DEF LoginFails
    <2>2. LoginsTyped' /\ Upserted'
        BY <2>1, NoLoginType, LoginMoves DEF rowVars
    <2>3. RequestsTyped' /\ Targeted' /\ Spared'
        BY <2>1, RequestsKept DEF rowVars
    <2>4. Setting' /\ SessionsHaveRows'
        BY <2>1 DEF IInv, Setting, SessionsHaveRows, rowVars
    <2> QED BY <2>1, <2>2, <2>3, <2>4, RowsKept DEF IInv
<1> QED BY <1>1, <1>2, <1>3, <1>4

----------------------------------------------------------------------------
(* The steps of an admin request. *)

(* Authenticate, ReadTarget and RevokeAll write no row. *)
LEMMA CheckingKeeps ==
    ASSUME IInv, NEW r \in Requests,
           \/ \E i \in signedIn, k \in Kinds, t \in Ids : Authenticate(r, i, k, t)
           \/ ReadTarget(r) \/ RevokeAll(r) \/ RequestFails(r)
    PROVE  IInv'
<1>1. UNCHANGED <<rowVars, open, login>> /\ signedIn' \subseteq signedIn
    <2>1. CASE \E i \in signedIn, k \in Kinds, t \in Ids : Authenticate(r, i, k, t)
        BY <2>1 DEF Authenticate
    <2>2. CASE ReadTarget(r)
        BY <2>2 DEF ReadTarget
    <2>3. CASE RevokeAll(r)
        BY <2>3 DEF RevokeAll
    <2>4. CASE RequestFails(r)
        BY <2>4 DEF RequestFails
    <2> QED BY <2>1, <2>2, <2>3, <2>4
<1>2. \E q \in RequestType :
          /\ req' = [req EXCEPT ![r] = q]
          /\ q.pc \in {"checked", "revoke"} =>
               /\ q.target \in rows
               /\ q.kind \in {"block", "demote", "forget"} => role[q.target] # "superadmin"
    <2>0. req[r] \in RequestType
        BY DEF IInv, RequestsTyped
    <2>1. CASE \E i \in signedIn, k \in Kinds, t \in Ids : Authenticate(r, i, k, t)
        <3>1. PICK i \in signedIn, k \in Kinds, t \in Ids : Authenticate(r, i, k, t)
            BY <2>1
        <3>2. role[i] \in Roles
            BY DEF IInv, Table, SessionsHaveRows
        <3>3. [pc |-> "authed", kind |-> k, as |-> role[i], target |-> t] \in RequestType
            BY <3>2 DEF RequestType
        <3> QED BY <3>1, <3>3 DEF Authenticate
    <2>2. CASE ReadTarget(r)
        <3>1. CASE req[r].target \in rows /\ Permitted(req[r], role[req[r].target])
            <4> DEFINE q == [req[r] EXCEPT !.pc = IF req[r].kind = "forget" THEN "revoke" ELSE "checked",
                                           !.as = NoRequest.as]
            <4>1. req' = [req EXCEPT ![r] = q]
                BY <2>2, <3>1 DEF ReadTarget, IInv, RequestsTyped, RequestType
            <4>2. q \in RequestType /\ q.target = req[r].target /\ q.kind = req[r].kind
                BY <2>0 DEF RequestType, NoRequest, Roles
            <4>3. q.kind \in {"block", "demote", "forget"} => role[q.target] # "superadmin"
                BY <3>1, <4>2 DEF Permitted
            <4> HIDE DEF q
            <4> QED BY <3>1, <4>1, <4>2, <4>3
        <3>2. CASE ~(req[r].target \in rows /\ Permitted(req[r], role[req[r].target]))
            BY <2>2, <3>2, NoRequestType DEF ReadTarget, Finish
        <3> QED BY <3>1, <3>2
    <2>3. CASE RevokeAll(r)
        <3>1. CASE req[r].kind = "block"
            BY <2>3, <3>1, NoRequestType DEF RevokeAll, Finish
        <3>2. CASE req[r].kind # "block"
            <4> DEFINE q == [req[r] EXCEPT !.pc = "checked"]
            <4>1. req' = [req EXCEPT ![r] = q]
                BY <2>3, <3>2 DEF RevokeAll, Goto, IInv, RequestsTyped
            <4>2. q \in RequestType /\ q.target = req[r].target /\ q.kind = req[r].kind
                BY <2>0 DEF RequestType
            <4>3. /\ q.target \in rows
                  /\ q.kind \in {"block", "demote", "forget"} => role[q.target] # "superadmin"
                BY <2>3, <4>2 DEF RevokeAll, IInv, Targeted, Spared
            <4> HIDE DEF q
            <4> QED BY <4>1, <4>2, <4>3
        <3> QED BY <3>1, <3>2
    <2>4. CASE RequestFails(r)
        BY <2>4, NoRequestType DEF RequestFails, Finish
    <2> QED BY <2>1, <2>2, <2>3, <2>4
<1>3. RequestsTyped' /\ Targeted' /\ Spared'
    BY <1>1, <1>2, RequestMoves DEF rowVars
<1>4. LoginsTyped' /\ Upserted'
    BY <1>1, LoginsKept DEF rowVars
<1>5. Setting' /\ SessionsHaveRows'
    BY <1>1 DEF IInv, Setting, SessionsHaveRows, rowVars
<1> QED BY <1>1, <1>3, <1>4, <1>5, RowsKept DEF IInv

(* The UPDATE of approve, block, promote and demote. *)
LEMMA ApplyKeeps ==
    ASSUME IInv, NEW r \in Requests, Apply(r)
    PROVE  IInv'
<1> DEFINE q == req[r]
           ro == CASE q.kind = "promote" -> "admin"
                   [] q.kind = "demote"  -> "user"
                   [] OTHER -> role[q.target]
           st == CASE q.kind \in {"approve", "promote"} -> "approved"
                   [] q.kind = "block" -> "blocked"
                   [] OTHER -> status[q.target]
<1>1. /\ q \in RequestType /\ q.kind \in Kinds /\ q.kind # "forget"
      /\ q.pc = "checked" /\ q.target \in rows /\ q.target \in Ids
      /\ q.kind \in {"block", "demote"} => role[q.target] # "superadmin"
    BY DEF IInv, RequestsTyped, RequestType, Apply, Targeted, Spared, Table
<1>2. role' = [role EXCEPT ![q.target] = ro] /\ status' = [status EXCEPT ![q.target] = st]
    BY DEF Apply
<1>3. UNCHANGED <<rows, identity, forgotten, signedIn, open, login>>
    BY DEF Apply
<1>4. /\ ro \in Roles
      /\ ro = "superadmin" => role[q.target] = "superadmin" /\ q.kind \in {"approve", "block"}
    BY <1>1 DEF IInv, Table, Roles, Kinds
<1>5. st \in Statuses /\ (st # "approved" => q.kind = "block" \/ st = status[q.target])
    BY <1>1 DEF IInv, Table, Statuses
<1>6. RequestsTyped' /\ Targeted' /\ Spared'
    <2>1. \A i \in rows : role'[i] = "superadmin" => role[i] = "superadmin"
        <3> HIDE DEF ro
        <3> QED BY <1>1, <1>2, <1>4 DEF IInv, Table
    <2>2. CASE q.kind = "block"
        <3> DEFINE n == [q EXCEPT !.pc = "revoke"]
        <3>1. req' = [req EXCEPT ![r] = n]
            BY <2>2 DEF Apply, Goto, IInv, RequestsTyped
        <3>2. n \in RequestType /\ n.target = q.target /\ n.kind = q.kind
            BY <1>1 DEF RequestType
        <3> HIDE DEF n, q
        <3> QED BY <1>1, <1>3, <2>1, <2>2, <3>1, <3>2, RequestMoves
    <2>3. CASE q.kind # "block"
        BY <1>3, <2>1, <2>3, NoRequestType, RequestMoves DEF Apply, Finish
    <2> QED BY <2>2, <2>3
<1> HIDE DEF q, ro, st
<1>7. Table'
    BY <1>1, <1>2, <1>3, <1>4, <1>5 DEF IInv, Table
<1>8. SuperadminKeepsAccess'
    BY <1>1, <1>2, <1>3, <1>4, <1>5 DEF IInv, Table, SuperadminKeepsAccess
<1>9. Unique' /\ Anonymous'
    BY <1>3 DEF IInv, Unique, Anonymous
<1>10. LoginsTyped' /\ Upserted'
    BY <1>3, LoginsKept
<1>11. Setting' /\ SessionsHaveRows'
    BY <1>3 DEF IInv, Setting, SessionsHaveRows
<1> QED BY <1>6, <1>7, <1>8, <1>9, <1>10, <1>11 DEF IInv

(* The anonymising UPDATE frees the index and spares the superadmin. *)
LEMMA ForgetKeeps ==
    ASSUME IInv, NEW r \in Requests, Forget(r)
    PROVE  IInv'
<1> DEFINE i == req[r].target
<1>1. i \in rows /\ i \in Ids /\ role[i] # "superadmin"
    BY DEF IInv, RequestsTyped, RequestType, Forget, Targeted, Spared, Table
<1>2. UNCHANGED <<rows, signedIn, open, login>> /\ req' = [req EXCEPT ![r] = NoRequest]
    BY DEF Forget, Finish
<1>3. CASE i \in forgotten
    <2>1. UNCHANGED rowVars
        BY <1>2, <1>3 DEF Forget, rowVars
    <2>2. RequestsTyped' /\ Targeted' /\ Spared'
        BY <1>2, <2>1, NoRequestType, RequestMoves DEF rowVars
    <2>3. LoginsTyped' /\ Upserted'
        BY <1>2, LoginsKept
    <2>4. Setting' /\ SessionsHaveRows'
        BY <1>2 DEF IInv, Setting, SessionsHaveRows
    <2> QED BY <2>1, <2>2, <2>3, <2>4, RowsKept DEF IInv
<1>4. CASE i \notin forgotten
    <2>1. /\ identity' = [identity EXCEPT ![i] = Nobody]
          /\ role' = [role EXCEPT ![i] = "user"]
          /\ status' = [status EXCEPT ![i] = "blocked"]
          /\ forgotten' = forgotten \cup {i}
        BY <1>4 DEF Forget, Anonymised
    <2> HIDE DEF i
    <2> USE <1>1, <1>2, <2>1 DEF IInv, Table
    <2>2. Table'
        BY DEF Roles, Statuses
    <2>3. SuperadminKeepsAccess'
        BY DEF SuperadminKeepsAccess
    <2>4. Unique' /\ Anonymous'
        BY AccountsAssumption DEF Unique, Anonymous
    <2>5. RequestsTyped' /\ Targeted' /\ Spared'
        BY NoRequestType, RequestMoves
    <2>6. LoginsTyped' /\ Upserted'
        BY LoginsKept
    <2>7. Setting' /\ SessionsHaveRows'
        BY DEF Setting, SessionsHaveRows
    <2> QED BY <2>2, <2>3, <2>4, <2>5, <2>6, <2>7
<1> QED BY <1>3, <1>4

(* The end of a session, and the setting: no row, no request, no login. *)
LEMMA OwnKeeps ==
    ASSUME IInv, NEW i \in signedIn, SessionEnds(i) \/ SetOpenRegistration(i)
    PROVE  IInv'
<1>1. UNCHANGED <<rowVars, login, req>> /\ signedIn' \subseteq signedIn
    BY DEF SessionEnds, SetOpenRegistration
<1>2. Setting'
    BY DEF IInv, Setting, SessionEnds, SetOpenRegistration
<1>3. SessionsHaveRows'
    BY <1>1 DEF IInv, SessionsHaveRows, rowVars
<1>4. RequestsTyped' /\ Targeted' /\ Spared'
    BY <1>1, RequestsKept DEF rowVars
<1>5. LoginsTyped' /\ Upserted'
    BY <1>1, LoginsKept DEF rowVars
<1> QED BY <1>1, <1>2, <1>3, <1>4, <1>5, RowsKept DEF IInv

(* Every step keeps the invariant. *)
LEMMA NextKeeps == IInv /\ [Next]_vars => IInv'
<1> SUFFICES ASSUME IInv, [Next]_vars PROVE IInv'
    OBVIOUS
<1>1. CASE LoginNext
    BY <1>1, LoginKeeps
<1>2. CASE RequestNext
    BY <1>2, CheckingKeeps, ApplyKeeps, ForgetKeeps DEF RequestNext
<1>3. CASE \E i \in signedIn : SessionEnds(i) \/ SetOpenRegistration(i)
    BY <1>3, OwnKeeps
<1>4. CASE UNCHANGED vars
    BY <1>4 DEF vars, IInv, Table, Setting, LoginsTyped, RequestsTyped, SessionsHaveRows,
                Upserted, Targeted, Spared, SuperadminKeepsAccess, Unique, Anonymous
<1> QED BY <1>1, <1>2, <1>3, <1>4 DEF Next

(* The unique index as a count: at most one row per person. *)
LEMMA AtMostOne == IInv => OneRowPerPerson
<1> SUFFICES ASSUME IInv, NEW p \in People
             PROVE  /\ Cardinality({i \in rows : identity[i] = p}) <= 1
                    /\ \A i \in forgotten : identity[i] # p
    BY DEF OneRowPerPerson
<1> DEFINE S == {i \in rows : identity[i] = p}
<1>1. Cardinality(S) <= 1
    <2>1. CASE S = {}
        BY <2>1, FS_EmptySet
    <2>2. CASE S # {}
        <3>1. PICK x : x \in S
            BY <2>2
        <3>2. S = {x}
            BY <3>1 DEF IInv, Unique
        <3> HIDE DEF S
        <3> QED BY <3>2, FS_Singleton
    <2> QED BY <2>1, <2>2
<1>2. \A i \in forgotten : identity[i] # p
    BY AccountsAssumption DEF IInv, Anonymous
<1> QED BY <1>1, <1>2

(***************************************************************************)
(* The inductive invariant of the accounts table and its handlers.         *)
(***************************************************************************)
THEOREM Invariance == Spec => []IInv
BY InitIInv, NextKeeps, PTL DEF Spec

(***************************************************************************)
(* "The superadmin is unrevokable" (adminSetStatus, handleAdminForget) and *)
(* a person is one account (UpsertOnLogin), for any number of requests     *)
(* whose checks and statements interleave.                                 *)
(***************************************************************************)
THEOREM AccountsAlwaysSound == Spec => []AccountsAreSound
<1>1. IInv => TypeOK
    BY DEF IInv, TypeOK, Table, Setting, LoginsTyped, LoginType, RequestsTyped, RequestType,
           SessionsHaveRows
<1>2. IInv => AccountsAreSound
    BY <1>1, AtMostOne DEF AccountsAreSound, IInv
<1> QED BY <1>2, Invariance, PTL

(***************************************************************************)
(* Open registration "never affects an existing account": no step of a     *)
(* login changes the role or the status of a row that is there already     *)
(* (UpsertOnLogin).                                                        *)
(***************************************************************************)
THEOREM LoginAlwaysKeepsStanding == Spec => LoginKeepsStanding
<1>1. ASSUME IInv, LoginNext
      PROVE  \A i \in rows : role'[i] = role[i] /\ status'[i] = status[i]
    BY <1>1 DEF IInv, Table, LoginNext, ReadSetting, Upsert, CreateSession, LoginFails, rowVars
<1>2. IInv /\ [Next]_vars =>
          [LoginNext => \A i \in rows : role'[i] = role[i] /\ status'[i] = status[i]]_vars
    BY <1>1
<1> QED BY <1>2, Invariance, PTL DEF Spec, LoginKeepsStanding

-----------------------------------------------------------------------------
(* Access *)

SocketType == [pc : {"none", "resolved", "admitted", "open", "closed"}, sess : Sessions]
AdminType == [pc : {"idle", "write", "revoke", "kick"}, kind : {"block", "forget"},
              target : Accounts]
SweepType == [pc : {"idle", "snapshot", "answered"}, snap : SUBSET Sockets,
              dead : SUBSET Sockets]

Standing == approved \in SUBSET Accounts /\ gone \in SUBSET Accounts
SessionsTyped == session \in [Sessions -> {"none", "live", "dead"}]
SocketsTyped == sock \in [Sockets -> SocketType]
Channel == kicks \in Seq(Accounts) /\ Len(kicks) <= KickBuffer
AdminTyped == admin \in AdminType
SweepTyped == sweep \in SweepType /\ sweep.dead \subseteq sweep.snap
Histories == lapsed \in SUBSET Sockets /\ doomed \in SUBSET Sockets

Types ==
    Standing /\ SessionsTyped /\ SocketsTyped /\ Channel /\ AdminTyped /\ SweepTyped
        /\ Histories

(* A socket carries its session from the upgrade's first query on. *)
Carried(c) == sock[c].pc \in {"resolved", "admitted", "open"}

(* It has passed the second query too. *)
Passed(c) == sock[c].pc \in {"admitted", "open"}

(* An end of what a socket was admitted on is on record. *)
Relied ==
    \A c \in Sockets :
        /\ Carried(c) /\ session[sock[c].sess] # "live" => c \in lapsed
        /\ Passed(c) /\ Holder(c) \notin approved => c \in lapsed

(* A snapshot is of sockets that were open, and ids are not reused. *)
Snapped == \A c \in sweep.snap : sock[c].pc \in {"open", "closed"}

(* The answer in flight; there is none before the query and after the close. *)
Answered ==
    /\ \A c \in sweep.dead : sock[c].pc = "open" => c \in lapsed
    /\ sweep.pc # "answered" => sweep.dead = {}

(* A doomed socket was open. *)
DoomedWereOpen == \A c \in doomed : sock[c].pc \in {"open", "closed"}

AccessInv == Types /\ Relied /\ Snapped /\ Answered /\ DoomedWereOpen /\ KickIsNeverLost

----------------------------------------------------------------------------
(* A session is somebody's. *)
LEMMA SomeSession == NoSocket.sess \in Sessions /\ AtRest.target \in Accounts
BY AccessAssumption DEF NoSocket, AtRest, Accounts

(* The idle admin and the idle sweep. *)
LEMMA IdleTypes ==
    /\ NoSocket \in SocketType /\ NoSocket.pc = "none"
    /\ AtRest \in AdminType
    /\ NoSweep \in SweepType /\ NoSweep.snap = {} /\ NoSweep.dead = {}
BY SomeSession DEF NoSocket, AtRest, NoSweep, SocketType, AdminType, SweepType

(* A hub with nobody on it is within the invariant. *)
LEMMA InitAccessInv == AccessInit => AccessInv
<1> SUFFICES ASSUME AccessInit PROVE AccessInv
    OBVIOUS
<1> USE DEF AccessInit
<1>1. Standing /\ SessionsTyped /\ Histories
    BY DEF Standing, SessionsTyped, Histories
<1>2. SocketsTyped /\ AdminTyped /\ SweepTyped
    BY IdleTypes DEF SocketsTyped, AdminTyped, SweepTyped
<1>3. Channel
    BY AccessAssumption DEF Channel
<1>4. Relied /\ Snapped /\ Answered /\ DoomedWereOpen /\ KickIsNeverLost
    BY IdleTypes DEF Relied, Carried, Passed, Snapped, Answered, DoomedWereOpen, KickIsNeverLost
<1> QED BY <1>1, <1>2, <1>3, <1>4 DEF AccessInv, Types

(* MarkLapsed misses no end, whichever statement made it. *)
LEMMA MarkKeeps ==
    ASSUME AccessInv, MarkLapsed, UNCHANGED sock
    PROVE  Relied' /\ lapsed' \in SUBSET Sockets /\ lapsed \subseteq lapsed'
BY DEF AccessInv, Types, Histories, MarkLapsed, Relied, Carried, Passed, Authorized, Holder

(* A step of no socket, no kick and no sweep. *)
LEMMA StandingMoves ==
    ASSUME AccessInv, Relied', Types', lapsed \subseteq lapsed',
           UNCHANGED <<sock, kicks, sweep, doomed>>
    PROVE  AccessInv'
BY DEF AccessInv, Snapped, Answered, DoomedWereOpen, KickIsNeverLost, Open, Holder

(* Closing sockets that were open. *)
LEMMA CutKeeps ==
    ASSUME AccessInv, NEW cs \in SUBSET Open, sock' = Cut(cs),
           UNCHANGED <<approved, session, lapsed, doomed>>
    PROVE  /\ SocketsTyped' /\ Relied' /\ DoomedWereOpen'
           /\ \A c \in Sockets : sock[c].pc \in {"open", "closed"} =>
                  sock'[c].pc \in {"open", "closed"}
           /\ \A c \in Sockets : sock'[c].pc = "open" => sock'[c] = sock[c]
           /\ \A c \in Sockets : sock'[c].pc = "open" => c \notin cs
           /\ \A c \in cs : sock'[c].pc = "closed"
<1>1. \A c \in Sockets : sock[c] \in SocketType
    BY DEF AccessInv, Types, SocketsTyped
<1>2. \A c \in Sockets :
          \/ c \in cs /\ sock[c].pc = "open" /\ sock'[c] = [sock[c] EXCEPT !.pc = "closed"]
          \/ c \notin cs /\ sock'[c] = sock[c]
    BY DEF Cut, Open
<1>3. \A c \in cs : c \in Sockets
    BY DEF Open
<1>4. SocketsTyped'
    BY <1>1, <1>2 DEF Cut, SocketsTyped, SocketType
<1>5. \A c \in Sockets :
          \/ c \in cs /\ sock[c].pc = "open" /\ sock'[c].pc = "closed"
          \/ c \notin cs /\ sock'[c] = sock[c]
    BY <1>1, <1>2 DEF SocketType
<1>6. Relied'
    BY <1>5 DEF AccessInv, Relied, Carried, Passed, Holder
<1>7. DoomedWereOpen'
    BY <1>5 DEF AccessInv, Types, Histories, DoomedWereOpen
<1> QED BY <1>3, <1>4, <1>5, <1>6, <1>7

----------------------------------------------------------------------------
(* Sessions: a login is nobody's yet, an end is marked. *)
LEMMA SessionKeeps ==
    ASSUME AccessInv, NEW s \in Sessions, Login(s) \/ SessionLapses(s)
    PROVE  AccessInv'
<1>1. CASE Login(s)
    <2> USE <1>1 DEF Login, history
    <2>1. Types'
        BY DEF AccessInv, Types, Standing, SessionsTyped, SocketsTyped, Channel, AdminTyped,
               SweepTyped, Histories
    <2>2. Relied'
        BY DEF AccessInv, Types, SessionsTyped, Relied, Carried, Passed, Holder
    <2> QED BY <2>1, <2>2, StandingMoves
<1>2. CASE SessionLapses(s)
    <2> USE <1>2 DEF SessionLapses
    <2>1. Relied' /\ lapsed' \in SUBSET Sockets /\ lapsed \subseteq lapsed'
        BY MarkKeeps
    <2>2. Types'
        BY <2>1 DEF AccessInv, Types, Standing, SessionsTyped, SocketsTyped, Channel, AdminTyped,
                    SweepTyped, Histories
    <2> QED BY <2>1, <2>2, StandingMoves
<1> QED BY <1>1, <1>2

(***************************************************************************)
(* The upgrade.  A socket that becomes open was in no snapshot and doomed  *)
(* by no kick before.                                                      *)
(***************************************************************************)
LEMMA UpgradeKeeps ==
    ASSUME AccessInv, NEW c \in Sockets,
           \/ \E s \in Sessions : ResolveSession(c, s)
           \/ CheckAccount(c) \/ Register(c) \/ SocketGone(c)
    PROVE  AccessInv'
<1>1. UNCHANGED <<approved, gone, session, kicks, admin, sweep, history>>
    BY DEF ResolveSession, CheckAccount, Register, SocketGone
<1>2. sock[c] \in SocketType
    BY DEF AccessInv, Types, SocketsTyped
<1>3. PICK r \in SocketType :
          /\ sock' = [sock EXCEPT ![c] = r]
          /\ \/ r.pc = "closed" /\ sock[c].pc # "none"
             \/ r.pc = "resolved" /\ sock[c].pc = "none" /\ session[r.sess] = "live"
             \/ /\ r.pc = "admitted" /\ sock[c].pc = "resolved" /\ r.sess = sock[c].sess
                /\ Holder(c) \in approved
             \/ r.pc = "open" /\ sock[c].pc = "admitted" /\ r.sess = sock[c].sess
    <2>1. CASE \E s \in Sessions : ResolveSession(c, s)
        <3>1. PICK s \in Sessions : ResolveSession(c, s)
            BY <2>1
        <3>2. [pc |-> "resolved", sess |-> s] \in SocketType
            BY DEF SocketType
        <3> QED BY <3>1, <3>2 DEF ResolveSession
    <2>2. CASE CheckAccount(c)
        <3> DEFINE pc == IF Holder(c) \in approved THEN "admitted" ELSE "closed"
                   r == [sock[c] EXCEPT !.pc = pc]
        <3>1. sock' = [sock EXCEPT ![c] = r]
            BY <2>2 DEF CheckAccount, AccessInv, Types, SocketsTyped
        <3>2. r \in SocketType /\ r.pc = pc /\ r.sess = sock[c].sess
            BY <1>2 DEF SocketType
        <3>3. sock[c].pc = "resolved"
            BY <2>2 DEF CheckAccount
        <3> HIDE DEF r
        <3> QED BY <3>1, <3>2, <3>3
    <2>3. CASE Register(c)
        <3> DEFINE r == [sock[c] EXCEPT !.pc = "open"]
        <3>1. sock' = [sock EXCEPT ![c] = r] /\ sock[c].pc = "admitted"
            BY <2>3 DEF Register, AccessInv, Types, SocketsTyped
        <3>2. r \in SocketType /\ r.pc = "open" /\ r.sess = sock[c].sess
            BY <1>2 DEF SocketType
        <3> HIDE DEF r
        <3> QED BY <3>1, <3>2
    <2>4. CASE SocketGone(c)
        <3> DEFINE r == [sock[c] EXCEPT !.pc = "closed"]
        <3>1. sock' = [sock EXCEPT ![c] = r] /\ sock[c].pc # "none"
            BY <2>4 DEF SocketGone, AccessInv, Types, SocketsTyped
        <3>2. r \in SocketType /\ r.pc = "closed"
            BY <1>2 DEF SocketType
        <3> HIDE DEF r
        <3> QED BY <3>1, <3>2
    <2> QED BY <2>1, <2>2, <2>3, <2>4
<1>4. /\ sock'[c] = r /\ \A d \in Sockets \ {c} : sock'[d] = sock[d]
      /\ SocketsTyped'
    BY <1>3 DEF AccessInv, Types, SocketsTyped
<1>5. Types'
    BY <1>1, <1>4 DEF history, AccessInv, Types, Standing, SessionsTyped, Channel, AdminTyped,
                      SweepTyped, Histories
<1>6. Relied'
    BY <1>1, <1>3, <1>4 DEF history, AccessInv, Relied, Carried, Passed, Holder
<1>7. Snapped' /\ Answered'
    BY <1>1, <1>3, <1>4
    DEF history, AccessInv, Types, SweepTyped, SweepType, Snapped, Answered
<1>8. DoomedWereOpen'
    BY <1>1, <1>3, <1>4 DEF history, AccessInv, Types, Histories, DoomedWereOpen
<1>9. KickIsNeverLost'
    BY <1>1, <1>3, <1>4
    DEF history, AccessInv, Types, Histories, DoomedWereOpen, KickIsNeverLost, Open, Holder
<1> QED BY <1>5, <1>6, <1>7, <1>8, <1>9 DEF AccessInv

----------------------------------------------------------------------------
(* The administrator *)

(* Starting, failing and approving end nobody's authorisation. *)
LEMMA AdminMildKeeps ==
    ASSUME AccessInv,
           \/ \E a \in Accounts : StartBlock(a) \/ StartForget(a) \/ Approve(a)
           \/ WriteFails
    PROVE  AccessInv'
<1>1. /\ UNCHANGED <<gone, session, sock, kicks, sweep, history>>
      /\ approved \subseteq approved' /\ approved' \subseteq Accounts
    BY DEF StartBlock, StartForget, Approve, WriteFails, AccessInv, Types, Standing
<1>2. AdminTyped'
    BY IdleTypes
    DEF StartBlock, StartForget, Approve, WriteFails, AccessInv, Types, AdminTyped, AdminType
<1>3. Types'
    BY <1>1, <1>2 DEF history, AccessInv, Types, Standing, SessionsTyped, SocketsTyped, Channel,
                      SweepTyped, Histories
<1>4. Relied'
    BY <1>1 DEF history, AccessInv, Relied, Carried, Passed, Holder
<1> QED BY <1>1, <1>3, <1>4, StandingMoves DEF history

(* Every statement that ends an authorisation marks the sockets it admitted. *)
LEMMA AdminEndsKeeps ==
    ASSUME AccessInv, WriteStatus \/ RevokeSessions \/ \E a \in Accounts : DatabaseBlock(a)
    PROVE  AccessInv'
<1>1. UNCHANGED <<sock, kicks, sweep, doomed>> /\ MarkLapsed
    BY DEF WriteStatus, RevokeSessions, DatabaseBlock
<1>2. Relied' /\ lapsed' \in SUBSET Sockets /\ lapsed \subseteq lapsed'
    BY <1>1, MarkKeeps
<1>3. Standing'
    BY DEF WriteStatus, RevokeSessions, DatabaseBlock, AccessInv, Types, Standing, AdminTyped, AdminType
<1>4. SessionsTyped'
    BY DEF WriteStatus, RevokeSessions, DatabaseBlock, AccessInv, Types, SessionsTyped
<1>5. AdminTyped'
    BY IdleTypes
    DEF WriteStatus, RevokeSessions, DatabaseBlock, AccessInv, Types, AdminTyped, AdminType
<1>6. Types'
    BY <1>1, <1>2, <1>3, <1>4, <1>5
    DEF AccessInv, Types, SocketsTyped, Channel, SweepTyped, Histories
<1> QED BY <1>1, <1>2, <1>6, StandingMoves

(* A kick joins the channel, behind the ones that wait in it. *)
LEMMA KickKeeps ==
    ASSUME AccessInv, KickAccount
    PROVE  AccessInv'
<1>1. /\ UNCHANGED <<approved, gone, session, sock, sweep, lapsed>>
      /\ Len(kicks) < KickBuffer /\ kicks' = Append(kicks, admin.target)
      /\ doomed' = doomed \cup {c \in Open : Holder(c) = admin.target}
    BY DEF KickAccount, MarkDoomed
<1>2. kicks \in Seq(Accounts) /\ admin.target \in Accounts
    BY DEF AccessInv, Types, Channel, AdminTyped, AdminType
<1>3. /\ kicks' \in Seq(Accounts) /\ Len(kicks') = Len(kicks) + 1
      /\ \A i \in 1..Len(kicks) : kicks'[i] = kicks[i]
      /\ kicks'[Len(kicks')] = admin.target
      /\ Len(kicks) \in Nat
    BY <1>1, <1>2
<1>4. Channel'
    BY <1>1, <1>3, AccessAssumption DEF Channel
<1>5. AdminTyped'
    BY IdleTypes DEF KickAccount, AccessInv, Types, AdminTyped, AdminType
<1>6. Types'
    BY <1>1, <1>4, <1>5 DEF AccessInv, Types, Standing, SessionsTyped, SocketsTyped, SweepTyped,
                            Histories, Open
<1>7. Relied' /\ Snapped' /\ Answered'
    BY <1>1 DEF AccessInv, Relied, Carried, Passed, Holder, Snapped, Answered
<1>8. DoomedWereOpen'
    BY <1>1 DEF AccessInv, DoomedWereOpen, Open
<1>9. KickIsNeverLost'
    <2> SUFFICES ASSUME NEW c \in doomed' \cap Open'
                 PROVE  \E i \in 1..Len(kicks') : kicks'[i] = Holder(c)'
        BY DEF KickIsNeverLost
    <2>1. c \in Open /\ Holder(c)' = Holder(c)
        BY <1>1 DEF Open, Holder
    <2>2. CASE c \in doomed
        <3>1. PICK i \in 1..Len(kicks) : kicks[i] = Holder(c)
            BY <2>1, <2>2 DEF AccessInv, KickIsNeverLost
        <3>2. i \in 1..Len(kicks') /\ kicks'[i] = kicks[i]
            BY <1>3, <3>1
        <3> QED BY <2>1, <3>1, <3>2
    <2>3. CASE Holder(c) = admin.target
        <3>1. Len(kicks') \in 1..Len(kicks')
            BY <1>3
        <3> QED BY <1>3, <2>1, <2>3, <3>1
    <2> QED BY <1>1, <2>2, <2>3
<1> QED BY <1>6, <1>7, <1>8, <1>9 DEF AccessInv

----------------------------------------------------------------------------
(* The hub and the sweep *)

(* The hub takes a kick and closes every socket of the account. *)
LEMMA HubKicksKeeps ==
    ASSUME AccessInv, HubKicks
    PROVE  AccessInv'
<1> DEFINE cs == {c \in Open : Holder(c) = Head(kicks)}
<1>1. /\ UNCHANGED <<approved, gone, session, admin, sweep, history>>
      /\ kicks # <<>> /\ kicks' = Tail(kicks) /\ sock' = Cut(cs)
    BY DEF HubKicks
<1>2. /\ SocketsTyped' /\ Relied' /\ DoomedWereOpen'
      /\ \A c \in Sockets : sock[c].pc \in {"open", "closed"} =>
             sock'[c].pc \in {"open", "closed"}
      /\ \A c \in Sockets : sock'[c].pc = "open" => sock'[c] = sock[c]
      /\ \A c \in Sockets : sock'[c].pc = "open" => c \notin cs
    <2>1. cs \in SUBSET Open
        OBVIOUS
    <2> HIDE DEF cs
    <2> QED BY <1>1, <2>1, CutKeeps DEF history
<1>3. kicks \in Seq(Accounts) /\ Len(kicks) <= KickBuffer
    BY DEF AccessInv, Types, Channel
<1>4. /\ kicks' \in Seq(Accounts) /\ Len(kicks') = Len(kicks) - 1 /\ Len(kicks) \in Nat
      /\ \A i \in 1..Len(kicks') : kicks'[i] = kicks[i + 1]
      /\ Head(kicks) = kicks[1]
    BY <1>1, <1>3
<1>5. Channel'
    BY <1>3, <1>4, AccessAssumption DEF Channel
<1>6. Types'
    BY <1>1, <1>2, <1>5 DEF history, AccessInv, Types, Standing, SessionsTyped, AdminTyped,
                            SweepTyped, Histories
<1>7. Snapped' /\ Answered'
    BY <1>1, <1>2 DEF history, AccessInv, Types, SweepTyped, SweepType, Snapped, Answered
<1>8. KickIsNeverLost'
    <2> SUFFICES ASSUME NEW c \in doomed' \cap Open'
                 PROVE  \E i \in 1..Len(kicks') : kicks'[i] = Holder(c)'
        BY DEF KickIsNeverLost
    <2>1. c \in doomed /\ c \in Sockets /\ sock'[c].pc = "open"
        BY <1>1 DEF history, Open
    <2>2. c \in Open /\ Holder(c)' = Holder(c) /\ Holder(c) # kicks[1]
        BY <1>2, <1>4, <2>1 DEF Open, Holder
    <2>3. PICK i \in 1..Len(kicks) : kicks[i] = Holder(c)
        BY <2>1, <2>2 DEF AccessInv, KickIsNeverLost
    <2>4. i # 1
        BY <2>2, <2>3
    <2>5. i - 1 \in 1..Len(kicks') /\ i = (i - 1) + 1
        BY <1>4, <2>3, <2>4
    <2> QED BY <1>4, <2>2, <2>3, <2>5
<1> QED BY <1>2, <1>6, <1>7, <1>8 DEF AccessInv

(* Taking the snapshot, asking and not being told: no socket moves. *)
LEMMA SweepAsksKeeps ==
    ASSUME AccessInv, SweepSnapshot \/ SweepQuery \/ SweepQueryFails
    PROVE  AccessInv'
<1>1. UNCHANGED <<approved, gone, session, sock, kicks, admin, history>>
    BY DEF SweepSnapshot, SweepQuery, SweepQueryFails
<1>2. sweep \in SweepType /\ sweep.dead \subseteq sweep.snap
    BY DEF AccessInv, Types, SweepTyped
<1>3. SweepTyped' /\ Snapped' /\ Answered'
    <2>1. CASE SweepSnapshot
        <3>1. sweep' \in SweepType /\ sweep'.snap = Open /\ sweep'.dead = sweep.dead
            BY <1>2, <2>1 DEF SweepSnapshot, SweepType, Open
        <3>2. sweep.dead = {}
            BY <2>1 DEF SweepSnapshot, AccessInv, Answered
        <3> QED BY <1>1, <3>1, <3>2 DEF SweepTyped, Snapped, Answered, Open
    <2>2. CASE SweepQuery
        <3> DEFINE dead == RevokedSessions({sock[c].sess : c \in sweep.snap})
                   out == {c \in sweep.snap : sock[c].sess \in dead}
        <3>1. CASE out = {}
            BY <1>1, <2>2, <3>1, IdleTypes DEF SweepQuery, SweepTyped, Snapped, Answered
        <3>2. CASE out # {}
            <4>1. sweep' = [sweep EXCEPT !.pc = "answered", !.dead = out]
                BY <2>2, <3>2 DEF SweepQuery
            <4>2. out \subseteq sweep.snap
                OBVIOUS
            <4>3. \A c \in out : session[sock[c].sess] # "live" \/ Holder(c) \notin approved
                BY DEF RevokedSessions, Holder
            <4> HIDE DEF out
            <4>4. /\ sweep' \in SweepType /\ sweep'.snap = sweep.snap /\ sweep'.dead = out
                  /\ sweep'.pc = "answered"
                BY <1>2, <4>1, <4>2 DEF SweepType
            <4>5. \A c \in out : c \in Sockets
                BY <1>2, <4>2 DEF SweepType
            <4>6. \A c \in out : sock[c].pc = "open" => c \in lapsed
                BY <4>3, <4>5 DEF AccessInv, Relied, Carried, Passed
            <4>7. SweepTyped' /\ Snapped'
                BY <1>1, <4>2, <4>4 DEF AccessInv, SweepTyped, Snapped
            <4> QED BY <1>1, <4>4, <4>6, <4>7 DEF history, Answered
        <3> QED BY <3>1, <3>2
    <2>3. CASE SweepQueryFails
        BY <1>1, <2>3, IdleTypes DEF SweepQueryFails, SweepTyped, Snapped, Answered
    <2> QED BY <2>1, <2>2, <2>3
<1>4. Types'
    BY <1>1, <1>3 DEF history, AccessInv, Types, Standing, SessionsTyped, SocketsTyped, Channel,
                      AdminTyped, Histories
<1>5. Relied' /\ DoomedWereOpen' /\ KickIsNeverLost'
    BY <1>1 DEF history, AccessInv, Relied, Carried, Passed, Holder, DoomedWereOpen,
                KickIsNeverLost, Open
<1> QED BY <1>3, <1>4, <1>5 DEF AccessInv

(* closeConnections: the sockets of a stale answer, of those still open. *)
LEMMA SweepCloseKeeps ==
    ASSUME AccessInv, SweepClose
    PROVE  AccessInv' /\ {c \in Open : sock'[c].pc = "closed"} \subseteq lapsed
<1> DEFINE cs == sweep.dead \cap Open
<1>1. /\ UNCHANGED <<approved, gone, session, kicks, admin, history>>
      /\ sock' = Cut(cs) /\ sweep' = NoSweep
    BY DEF SweepClose
<1>2. /\ SocketsTyped' /\ Relied' /\ DoomedWereOpen'
      /\ \A c \in Sockets : sock[c].pc \in {"open", "closed"} =>
             sock'[c].pc \in {"open", "closed"}
      /\ \A c \in Sockets : sock'[c].pc = "open" => sock'[c] = sock[c]
    <2>1. cs \in SUBSET Open
        OBVIOUS
    <2> HIDE DEF cs
    <2> QED BY <1>1, <2>1, CutKeeps DEF history
<1>3. SweepTyped' /\ Snapped' /\ Answered'
    BY <1>1, IdleTypes DEF SweepTyped, Snapped, Answered
<1>4. Types'
    BY <1>1, <1>2, <1>3 DEF history, AccessInv, Types, Standing, SessionsTyped, Channel,
                            AdminTyped, Histories
<1>5. KickIsNeverLost'
    <2>1. \A c \in doomed' \cap Open' : c \in doomed \cap Open /\ Holder(c)' = Holder(c)
        BY <1>1, <1>2 DEF history, Open, Holder
    <2> QED BY <1>1, <2>1 DEF AccessInv, KickIsNeverLost
<1>6. {c \in Open : sock'[c].pc = "closed"} \subseteq lapsed
    BY <1>1 DEF Cut, Open, AccessInv, Answered
<1> QED BY <1>2, <1>3, <1>4, <1>5, <1>6 DEF AccessInv

(* Every step keeps the invariant. *)
LEMMA AccessKept == AccessInv /\ [AccessNext]_accessVars => AccessInv'
<1> SUFFICES ASSUME AccessInv, [AccessNext]_accessVars PROVE AccessInv'
    OBVIOUS
<1>1. CASE SocketNext
    BY <1>1, SessionKeeps, UpgradeKeeps DEF SocketNext
<1>2. CASE AdminNext
    BY <1>2, AdminMildKeeps, AdminEndsKeeps, KickKeeps DEF AdminNext
<1>3. CASE RevocationNext
    BY <1>3, HubKicksKeeps, SweepAsksKeeps, SweepCloseKeeps DEF RevocationNext
<1>4. CASE UNCHANGED accessVars
    <2>1. Types' /\ Relied' /\ lapsed \subseteq lapsed'
        BY <1>4 DEF accessVars, history, AccessInv, Types, Standing, SessionsTyped, SocketsTyped, Channel,
                    AdminTyped, SweepTyped, Histories, Relied, Carried, Passed, Holder
    <2> QED BY <1>4, <2>1, StandingMoves DEF accessVars, history
<1> QED BY <1>1, <1>2, <1>3, <1>4 DEF AccessNext

(***************************************************************************)
(* The inductive invariant of the hub's two ways to cut a socket.          *)
(***************************************************************************)
THEOREM AccessInvariance == AccessSpec => []AccessInv
BY InitAccessInv, AccessKept, PTL DEF AccessSpec

(***************************************************************************)
(* A kick is never lost (KickAccount), and the channel keeps its bound,    *)
(* for any number of sockets, accounts and kicks.                          *)
(***************************************************************************)
THEOREM KicksAlwaysKept == AccessSpec => []KicksAreKept
<1>1. AccessInv => AccessTypeOK
    BY DEF AccessInv, Types, AccessTypeOK, Standing, SessionsTyped, SocketsTyped, SocketType, Channel,
           AdminTyped, AdminType, SweepTyped, SweepType, Histories
<1>2. AccessInv => KicksAreKept
    BY <1>1 DEF AccessInv, KicksAreKept
<1> QED BY <1>2, AccessInvariance, PTL

(***************************************************************************)
(* "a database blip is not evidence that anyone's authorisation ended"     *)
(* (Authorizer): what closeConnections closes had its authorisation ended  *)
(* at some time, however stale the snapshot and the answer.                *)
(***************************************************************************)
THEOREM SweepAlwaysClosesLapsed == AccessSpec => SweepClosesOnlyLapsed
<1>1. AccessInv /\ [AccessNext]_accessVars =>
          [SweepClose => {c \in Open : sock'[c].pc = "closed"} \subseteq lapsed]_accessVars
    BY SweepCloseKeeps
<1> QED BY <1>1, AccessInvariance, PTL DEF AccessSpec, SweepClosesOnlyLapsed
=============================================================================
