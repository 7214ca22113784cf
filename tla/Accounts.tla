------------------------------ MODULE Accounts ------------------------------
(***************************************************************************)
(* Who may do what: the accounts table (internal/account), the login       *)
(* callback (internal/httpapi/auth.go) and the admin API that changes      *)
(* roles and standing (internal/httpapi/admin.go).  Every handler is a     *)
(* sequence of separate database statements with nothing held between      *)
(* them, so the steps of concurrent requests interleave freely; a          *)
(* statement may also fail, which ends its request.                        *)
(*                                                                         *)
(* The sockets a block or a forget cuts are the matter of module Access.   *)
(***************************************************************************)
EXTENDS Integers, FiniteSets

CONSTANTS
    Ids,            \* account ids the database can hand out
    People,         \* the identities at a login provider that log in
    Requests,       \* admin requests in flight at once
    root,           \* the account make-superadmin.sh was run on
    owner,          \* the person behind it
    Nobody,         \* the identity of an anonymised row
    NoId            \* no account

ASSUME AccountsAssumption ==
    /\ root \in Ids
    /\ Nobody \notin People \cup {owner}
    /\ NoId \notin Ids

Roles == {"user", "admin", "superadmin"}
Statuses == {"pending", "approved", "blocked"}
Kinds == {"approve", "block", "promote", "demote", "forget"}

VARIABLES
    rows,           \* the ids that have a row
    identity,       \* row -> the person its blind index names, or Nobody
    role,
    status,
    forgotten,      \* the rows whose forgotten_at is set
    signedIn,        \* the accounts with a live session
    open,           \* the open_registration setting
    login,          \* person -> where their login callback is
    req             \* admin request -> where its handler is

vars == <<rows, identity, role, status, forgotten, signedIn, open, login, req>>

rowVars == <<rows, identity, role, status, forgotten>>

NoLogin == [pc |-> "idle", auto |-> FALSE, id |-> NoId]
NoRequest == [pc |-> "idle", kind |-> "approve", as |-> "user", target |-> NoId]

TypeOK ==
    /\ rows \in SUBSET Ids
    /\ identity \in [Ids -> People \cup {owner, Nobody}]
    /\ role \in [Ids -> Roles]
    /\ status \in [Ids -> Statuses]
    /\ forgotten \in SUBSET rows
    /\ signedIn \in SUBSET rows
    /\ open \in BOOLEAN
    /\ login \in [People -> [pc : {"idle", "read", "upserted"}, auto : BOOLEAN,
                             id : Ids \cup {NoId}]]
    /\ req \in [Requests -> [pc : {"idle", "authed", "checked", "revoke"},
                             kind : Kinds, as : Roles, target : Ids \cup {NoId}]]

(* The owner has logged in once and was made superadmin by the script. *)
Init ==
    /\ rows = {root}
    /\ identity = [i \in Ids |-> IF i = root THEN owner ELSE Nobody]
    /\ role = [i \in Ids |-> IF i = root THEN "superadmin" ELSE "user"]
    /\ status = [i \in Ids |-> IF i = root THEN "approved" ELSE "pending"]
    /\ forgotten = {}
    /\ signedIn = {root}
    /\ open = FALSE
    /\ login = [p \in People |-> NoLogin]
    /\ req = [r \in Requests |-> NoRequest]

IsAdmin(ro) == ro \in {"admin", "superadmin"}

----------------------------------------------------------------------------
(* The login callback: read the setting, upsert the account, open a session. *)

ReadSetting(p) ==
    /\ login[p].pc = "idle"
    /\ \E auto \in {open, FALSE} :      \* a read that fails leaves it FALSE
          login' = [login EXCEPT ![p] = [pc |-> "read", auto |-> auto, id |-> NoId]]
    /\ UNCHANGED <<rowVars, signedIn, open, req>>

(* Mutant of Upsert: open registration approves whoever logs in. *)
UpsertApprovingEveryone(p) ==
    /\ login[p].pc = "read"
    /\ \E i \in Ids :
          /\ \/ i \in rows /\ identity[i] = p
             \/ i \notin rows /\ \A j \in rows : identity[j] # p
          /\ rows' = rows \cup {i}
          /\ identity' = [identity EXCEPT ![i] = p]
          /\ status' = [status EXCEPT ![i] = IF login[p].auto THEN "approved" ELSE @]
          /\ login' = [login EXCEPT ![p] = [pc |-> "upserted", auto |-> FALSE, id |-> i]]
    /\ UNCHANGED <<role, forgotten, signedIn, open, req>>

(* UpsertOnLogin: what a first login writes.  The profile is ciphertext and left out. *)
UpsertOnLogin(p, auto) ==
    [identity |-> p, role |-> "user", status |-> IF auto THEN "approved" ELSE "pending"]

(***************************************************************************)
(* INSERT ... ON CONFLICT (provider, identity_ref) DO UPDATE: a row that   *)
(* carries the person's index is refreshed, its standing left alone; else  *)
(* a new one takes the default standing.                                   *)
(***************************************************************************)
Upsert(p) ==
    /\ login[p].pc = "read"
    /\ \/ \E i \in rows :
             /\ identity[i] = p
             /\ login' = [login EXCEPT ![p] = [pc |-> "upserted", auto |-> FALSE, id |-> i]]
             /\ UNCHANGED rowVars
       \/ \E i \in Ids \ rows :
             /\ \A j \in rows : identity[j] # p
             /\ rows' = rows \cup {i}
             /\ identity' = [identity EXCEPT ![i] = UpsertOnLogin(p, login[p].auto).identity]
             /\ role' = [role EXCEPT ![i] = UpsertOnLogin(p, login[p].auto).role]
             /\ status' = [status EXCEPT ![i] = UpsertOnLogin(p, login[p].auto).status]
             /\ login' = [login EXCEPT ![p] = [pc |-> "upserted", auto |-> FALSE, id |-> i]]
             /\ UNCHANGED forgotten
    /\ UNCHANGED <<signedIn, open, req>>

(* Mutant of CreateSession: an upsert that failed is not the end of the callback. *)
CreateSessionRegardless(p) ==
    /\ login[p].pc # "idle"
    /\ signedIn' = signedIn \cup {login[p].id}
    /\ login' = [login EXCEPT ![p] = NoLogin]
    /\ UNCHANGED <<rowVars, open, req>>

(* A session is issued whatever the standing: /me is polled with it. *)
CreateSession(p) ==
    /\ login[p].pc = "upserted"
    /\ signedIn' = signedIn \cup {login[p].id}
    /\ login' = [login EXCEPT ![p] = NoLogin]
    /\ UNCHANGED <<rowVars, open, req>>

(* A statement of the callback fails, or the browser goes away. *)
LoginFails(p) ==
    /\ login[p].pc # "idle"
    /\ login' = [login EXCEPT ![p] = NoLogin]
    /\ UNCHANGED <<rowVars, signedIn, open, req>>

(* Logout, or the session's time is up. *)
SessionEnds(i) ==
    /\ i \in signedIn
    /\ signedIn' = signedIn \ {i}
    /\ UNCHANGED <<rowVars, open, login, req>>

SetOpenRegistration(i) ==
    /\ i \in signedIn /\ status[i] = "approved" /\ role[i] = "superadmin"
    /\ open' = ~open
    /\ UNCHANGED <<rowVars, signedIn, login, req>>

----------------------------------------------------------------------------
(* The admin API. *)

Finish(r) == req' = [req EXCEPT ![r] = NoRequest]
Goto(r, pc) == req' = [req EXCEPT ![r].pc = pc]

(* The role a route asks for (router.go). *)
MayCall(ro, kind) ==
    IF kind \in {"approve", "block"} THEN IsAdmin(ro) ELSE ro = "superadmin"

(***************************************************************************)
(* requireAuth, requireAdmin and requireSuperadmin read the actor, once    *)
(* (its two queries are one step here; module Access tells them apart);    *)
(* nobody blocks or forgets themselves.                                    *)
(***************************************************************************)
Authenticate(r, i, kind, target) ==
    /\ req[r].pc = "idle"
    /\ i \in signedIn
    /\ status[i] = "approved"
    /\ MayCall(role[i], kind)
    /\ kind \in {"block", "forget"} => target # i
    /\ req' = [req EXCEPT ![r] = [pc |-> "authed", kind |-> kind, as |-> role[i],
                                  target |-> target]]
    /\ UNCHANGED <<rowVars, signedIn, open, login>>

(* Mutant of Permitted: a block looks at nothing. *)
PermittedBlockUnchecked(q, ro) ==
    CASE q.kind = "block"   -> TRUE
      [] q.kind = "approve" -> IsAdmin(ro) => q.as = "superadmin"
      [] q.kind = "promote" -> TRUE
      [] q.kind = "demote"  -> ro # "superadmin"
      [] q.kind = "forget"  -> ro # "superadmin"

(* What the handler asks of the target's row before it goes ahead. *)
Permitted(q, ro) ==
    CASE q.kind = "block"   -> ro # "superadmin" /\ (IsAdmin(ro) => q.as = "superadmin")
      [] q.kind = "approve" -> IsAdmin(ro) => q.as = "superadmin"
      [] q.kind = "promote" -> TRUE
      [] q.kind = "demote"  -> ro # "superadmin"
      [] q.kind = "forget"  -> ro # "superadmin"

(***************************************************************************)
(* GetByID on the target, and the checks on what it returned.  The actor's *)
(* role is not looked at again, so it is not kept.                         *)
(***************************************************************************)
ReadTarget(r) ==
    LET q == req[r] IN
    /\ q.pc = "authed"
    /\ IF q.target \in rows /\ Permitted(q, role[q.target])
       THEN req' = [req EXCEPT ![r].pc = IF q.kind = "forget" THEN "revoke" ELSE "checked",
                               ![r].as = NoRequest.as]
       ELSE Finish(r)
    /\ UNCHANGED <<rowVars, signedIn, open, login>>

(* The UPDATE of approve, block, promote and demote: it looks at the id only. *)
Apply(r) ==
    LET q == req[r] IN
    /\ q.pc = "checked"
    /\ q.kind # "forget"
    /\ role' = [role EXCEPT ![q.target] =
                    CASE q.kind = "promote" -> "admin"
                      [] q.kind = "demote"  -> "user"
                      [] OTHER -> @]
    /\ status' = [status EXCEPT ![q.target] =
                    CASE q.kind \in {"approve", "promote"} -> "approved"
                      [] q.kind = "block" -> "blocked"
                      [] OTHER -> @]
    /\ IF q.kind = "block" THEN Goto(r, "revoke") ELSE Finish(r)
    /\ UNCHANGED <<rows, identity, forgotten, signedIn, open, login>>

(* RevokeAllForAccount; a failure is logged and the handler goes on. *)
RevokeAll(r) ==
    LET q == req[r] IN
    /\ q.pc = "revoke"
    /\ signedIn' \in {signedIn, signedIn \ {q.target}}
    /\ IF q.kind = "block" THEN Finish(r) ELSE Goto(r, "checked")
    /\ UNCHANGED <<rowVars, open, login>>

(* Mutant of Forget: the blind index survives. *)
ForgetKeepingIndex(r) ==
    LET i == req[r].target IN
    /\ req[r].pc = "checked"
    /\ req[r].kind = "forget"
    /\ i \notin forgotten
    /\ role' = [role EXCEPT ![i] = "user"]
    /\ status' = [status EXCEPT ![i] = "blocked"]
    /\ forgotten' = forgotten \cup {i}
    /\ Finish(r)
    /\ UNCHANGED <<rows, identity, signedIn, open, login>>

(* Service.Forget: random bytes in place of the index, which no login will match. *)
Anonymised == [identity |-> Nobody, role |-> "user", status |-> "blocked"]

(* The anonymising UPDATE; a row that is already forgotten is left alone. *)
Forget(r) ==
    LET i == req[r].target IN
    /\ req[r].pc = "checked"
    /\ req[r].kind = "forget"
    /\ IF i \in forgotten
       THEN UNCHANGED <<identity, role, status, forgotten>>
       ELSE /\ identity' = [identity EXCEPT ![i] = Anonymised.identity]
            /\ role' = [role EXCEPT ![i] = Anonymised.role]
            /\ status' = [status EXCEPT ![i] = Anonymised.status]
            /\ forgotten' = forgotten \cup {i}
    /\ Finish(r)
    /\ UNCHANGED <<rows, signedIn, open, login>>

(* A statement fails: the request answers 500 and is over. *)
RequestFails(r) ==
    /\ req[r].pc \in {"authed", "checked"}
    /\ Finish(r)
    /\ UNCHANGED <<rowVars, signedIn, open, login>>

----------------------------------------------------------------------------
LoginNext ==
    \E p \in People :
        ReadSetting(p) \/ Upsert(p) \/ CreateSession(p) \/ LoginFails(p)

RequestNext ==
    \E r \in Requests :
        \/ \E i \in signedIn, k \in Kinds, t \in Ids : Authenticate(r, i, k, t)
        \/ ReadTarget(r) \/ Apply(r) \/ RevokeAll(r) \/ Forget(r) \/ RequestFails(r)

Next ==
    \/ LoginNext
    \/ RequestNext
    \/ \E i \in signedIn : SessionEnds(i) \/ SetOpenRegistration(i)

Spec == Init /\ [][Next]_vars

----------------------------------------------------------------------------
(***************************************************************************)
(* "The superadmin is unrevokable: nobody can block them" (adminSetStatus) *)
(* nor forget them (handleAdminForget): whoever holds the role keeps       *)
(* access, although the checks are made on a row that may have changed by  *)
(* the time the statement runs.                                            *)
(***************************************************************************)
SuperadminKeepsAccess ==
    \A i \in rows :
        role[i] = "superadmin" => status[i] = "approved" /\ i \notin forgotten

(***************************************************************************)
(* A person is one account: at most one row carries their blind index, and *)
(* that row is not a forgotten one (Upsert and Forget, which frees it).    *)
(***************************************************************************)
OneRowPerPerson ==
    \A p \in People :
        /\ Cardinality({i \in rows : identity[i] = p}) <= 1
        /\ \A i \in forgotten : identity[i] # p

(***************************************************************************)
(* A login, open registration included, "never affects an existing         *)
(* account": it changes neither the role nor the status of a row that was  *)
(* there before it (UpsertOnLogin).                                        *)
(***************************************************************************)
LoginKeepsStanding ==
    [][LoginNext => \A i \in rows : role'[i] = role[i] /\ status'[i] = status[i]]_vars

(***************************************************************************)
(* "the superadmin themselves cannot be demoted (unrevokable)"             *)
(* (handleAdminDemote), "One unrevokable root" (ADR-009).                  *)
(***************************************************************************)
RootIsUnrevokable == role[root] = "superadmin"

(***************************************************************************)
(* "the login path must never resurrect one" (migrations/011): a forgotten *)
(* account never has both a live session and approval.                     *)
(***************************************************************************)
ForgottenStaysOut ==
    \A i \in forgotten : ~(i \in signedIn /\ status[i] = "approved")

(***************************************************************************)
(* The table after any interleaving of logins and admin requests: a person *)
(* is one row, and the superadmin is not locked out.                       *)
(***************************************************************************)
AccountsAreSound == TypeOK /\ SuperadminKeepsAccess /\ OneRowPerPerson

=============================================================================
