------------------------------- MODULE Access -------------------------------
(***************************************************************************)
(* One account and its sessions: signing in, refreshing, signing out,      *)
(* resetting a password and changing a temporary one                       *)
(* (auth.service.js), and the administrator's changes of the account       *)
(* (user.service.js).                                                      *)
(*                                                                         *)
(* The handlers hold no locks and use no transaction over what they read:  *)
(* each reads the account or a session, awaits, and writes the fields that *)
(* differ from what it read (Saved). A token is identified by the second   *)
(* it was signed in, the only part of it that changes: within one second a *)
(* session is given the same token again. A handler may end between any    *)
(* two of its calls: what it refuses for other reasons (policy, expiry,    *)
(* tenant) is such an end.                                                 *)
(*                                                                         *)
(* Nothing in the code creates activation tokens, so that activateAccount  *)
(* is never reached.                                                       *)
(***************************************************************************)
EXTENDS Naturals, Sequelize

CONSTANTS
    Requests,           \* the requests that may be in progress together
    MaxFailed,          \* MAX_FAILED_LOGIN_ATTEMPTS
    MaxCalls,           \* bound on the requests made
    MaxSecond,          \* bound on the clock
    MaxSessions         \* bound on the sessions opened

AccessAssumption ==
    /\ MaxFailed \in Nat \ {0}
    /\ MaxCalls \in Nat /\ MaxSecond \in Nat \ {0} /\ MaxSessions \in Nat

VARIABLES
    user,       \* the PlatformUser row: status, lock, failed logins, must_change_password
    session,    \* the LoginSession rows
    tokens,     \* unused PasswordResetToken rows
    request,    \* where each request is, with what it has read
    entered,    \* a login with the temporary password was answered
    second,     \* the clock that tokens are dated with
    resets,     \* history: how often a reset has revoked the sessions
    calls       \* how many requests were made

vars == <<user, session, tokens, request, entered, second, resets, calls>>

-----------------------------------------------------------------------------
Statuses == {"active", "inactive", "locked"}
Orders == {"activate", "deactivate", "lock", "password"}
Places == {"idle", "wrong", "pass", "open", "sign", "refreshUser", "refreshSave", "logoutSave",
           "resetRead", "resetSave", "resetUse", "resetRevoke",
           "changeRead", "changeRevoke", "changeSave", "adminSave"}
Sessions == 1 .. MaxSessions
Seconds == 1 .. MaxSecond
Draft == 0          \* the hash of a token that is given to nobody

User(status, locked, failed, mustChange) ==
    [status |-> status, locked |-> locked, failed |-> failed, mustChange |-> mustChange]
NothingSeen == User("inactive", "none", 0, FALSE)
Idle == [at |-> "idle", seen |-> NothingSeen, session |-> 0, token |-> 0, next |-> 0, order |-> "password"]
NoSession == [state |-> "none", hash |-> Draft, issued |-> {}, spent |-> {}, raced |-> FALSE, opened |-> 0]

Live == {s \in Sessions : session[s].state = "live"}

\* An account made by an administrator, or by an import with a temporary password.
Init ==
    /\ \E mustChange \in BOOLEAN : user = User("active", "none", 0, mustChange)
    /\ session = [s \in Sessions |-> NoSession]
    /\ tokens = {}
    /\ request = [r \in Requests |-> Idle]
    /\ entered = FALSE
    /\ second = 1
    /\ resets = 0
    /\ calls = 0

Begins(r, reading) ==
    /\ request[r].at = "idle"
    /\ calls < MaxCalls
    /\ calls' = calls + 1
    /\ request' = [request EXCEPT ![r] = reading]
Goes(r, from, to) ==
    /\ request[r].at = from
    /\ request' = [request EXCEPT ![r].at = to]
Ends(r, from) ==
    /\ request[r].at = from
    /\ request' = [request EXCEPT ![r] = Idle]

\* user.update with what the request has read.
UserSaved(r, values) == user' = Saved(user, request[r].seen, values)

\* LoginSession.update where revoked_at is null.
Revoked == [s \in Sessions |-> IF s \in Live THEN [session[s] EXCEPT !.state = "revoked"] ELSE session[s]]

-----------------------------------------------------------------------------
(* login                                                                   *)

\* A locked account is refused. The right password goes on for an active or locked status.
LoginRead(r) ==
    /\ user.locked # "future"
    /\ \/ Begins(r, [Idle EXCEPT !.at = "wrong", !.seen = user])
       \/ /\ user.status \in {"active", "locked"}
          /\ Begins(r, [Idle EXCEPT !.at = "pass", !.seen = user])
    /\ UNCHANGED <<user, session, tokens, entered, second, resets>>

\* The wrong password counts, and locks the account, whatever its status.
LoginFail(r) ==
    LET seen == request[r].seen
        lock == seen.failed + 1 >= MaxFailed
    IN  /\ Ends(r, "wrong")
        /\ UserSaved(r, User(IF lock THEN "locked" ELSE seen.status,
                             IF lock THEN "future" ELSE "none", seen.failed + 1, seen.mustChange))
        /\ UNCHANGED <<session, tokens, entered, second, resets, calls>>

\* A temporary password opens no session.
LoginPass(r) ==
    LET seen == request[r].seen
    IN  /\ IF seen.mustChange THEN Ends(r, "pass") ELSE Goes(r, "pass", "open")
        /\ UserSaved(r, User("active", "none", 0, seen.mustChange))
        /\ entered' = (entered \/ seen.mustChange)
        /\ UNCHANGED <<session, tokens, second, resets, calls>>

\* createSession: the row is made with the hash of a draft.
OpenSession(r) ==
    \E s \in Sessions :
        /\ \A t \in Sessions : session[t].state = "none" <=> t >= s
        /\ request[r].at = "open"
        /\ request' = [request EXCEPT ![r] = [Idle EXCEPT !.at = "sign", !.session = s]]
        /\ session' = [session EXCEPT ![s] = [NoSession EXCEPT !.state = "live", !.opened = resets]]
        /\ UNCHANGED <<user, tokens, entered, second, resets, calls>>

\* createAuthenticatedSessionPayload: the token that is answered replaces the draft.
SignSession(r) ==
    /\ Ends(r, "sign")
    /\ session' = [session EXCEPT ![request[r].session].hash = second,
                                  ![request[r].session].issued = {second}]
    /\ UNCHANGED <<user, tokens, entered, second, resets, calls>>

-----------------------------------------------------------------------------
(* refresh and logout                                                      *)

\* The session is read and compared with a token that was answered at some time.
RefreshRead(r) ==
    \E s \in Live : \E t \in session[s].issued :
        /\ session[s].hash = t
        /\ Begins(r, [Idle EXCEPT !.at = "refreshUser", !.session = s, !.token = t])
        /\ session' = [session EXCEPT ![s].raced =
                          @ \/ \E q \in Requests : request[q].at \in {"refreshUser", "refreshSave"}
                                                   /\ request[q].session = s]
        /\ UNCHANGED <<user, tokens, entered, second, resets>>

\* The account is read, and the next token is signed.
RefreshUser(r) ==
    /\ request[r].at = "refreshUser"
    /\ user.status = "active"
    /\ request' = [request EXCEPT ![r].at = "refreshSave", ![r].next = second]
    /\ UNCHANGED <<user, session, tokens, entered, second, resets, calls>>

\* Mutant: the session keeps the hash it had.
RefreshSave_Keeps(r) ==
    LET s == request[r].session  next == request[r].next
    IN  /\ Ends(r, "refreshSave")
        /\ session' = [session EXCEPT
              ![s].issued = @ \cup {next},
              ![s].spent = @ \cup ({request[r].token} \ {next})]
        /\ UNCHANGED <<user, tokens, entered, second, resets, calls>>

\* session.update: the hash is written when it differs from the one that was read.
RefreshSave(r) ==
    LET s == request[r].session  next == request[r].next
    IN  /\ Ends(r, "refreshSave")
        /\ session' = [session EXCEPT
              ![s].hash = IF next = request[r].token THEN @ ELSE next,
              ![s].issued = @ \cup {next},
              ![s].spent = @ \cup ({request[r].token} \ {next})]
        /\ UNCHANGED <<user, tokens, entered, second, resets, calls>>

\* Any token of the session will do.
LogoutRead(r) ==
    /\ \E s \in Live :
          /\ session[s].issued # {}
          /\ Begins(r, [Idle EXCEPT !.at = "logoutSave", !.session = s])
    /\ UNCHANGED <<user, session, tokens, entered, second, resets>>

LogoutSave(r) ==
    /\ Ends(r, "logoutSave")
    /\ session' = [session EXCEPT ![request[r].session].state = "revoked"]
    /\ UNCHANGED <<user, tokens, entered, second, resets, calls>>

-----------------------------------------------------------------------------
(* forgotPassword and resetPassword                                        *)

forgotPassword(r) ==
    /\ Begins(r, Idle)
    /\ tokens' = tokens \cup {calls'}
    /\ UNCHANGED <<user, session, entered, second, resets>>

\* The token is found unused; others may find it too until it is marked.
ResetFind(r) ==
    /\ \E t \in tokens : Begins(r, [Idle EXCEPT !.at = "resetRead", !.token = t])
    /\ UNCHANGED <<user, session, tokens, entered, second, resets>>

ResetRead(r) ==
    /\ request[r].at = "resetRead"
    /\ request' = [request EXCEPT ![r].at = "resetSave", ![r].seen = user]
    /\ UNCHANGED <<user, session, tokens, entered, second, resets, calls>>

\* The status is left alone.
ResetSave(r) ==
    /\ Goes(r, "resetSave", "resetUse")
    /\ UserSaved(r, User(request[r].seen.status, "none", 0, FALSE))
    /\ UNCHANGED <<session, tokens, entered, second, resets, calls>>

ResetUse(r) ==
    /\ Goes(r, "resetUse", "resetRevoke")
    /\ tokens' = tokens \ {request[r].token}
    /\ UNCHANGED <<user, session, entered, second, resets, calls>>

\* Mutant: only the sessions whose token was answered are revoked.
ResetRevoke_Signed(r) ==
    /\ Ends(r, "resetRevoke")
    /\ resets' = resets + 1
    /\ session' = [s \in Sessions |-> IF session[s].hash # Draft THEN Revoked[s] ELSE session[s]]
    /\ UNCHANGED <<user, tokens, entered, second, calls>>

ResetRevoke(r) ==
    /\ Ends(r, "resetRevoke")
    /\ resets' = resets + 1
    /\ session' = Revoked
    /\ UNCHANGED <<user, tokens, entered, second, calls>>

-----------------------------------------------------------------------------
(* changeTemporaryPassword                                                 *)

\* protect lets a token of a temporary password through to this call while it is temporary.
ChangeProtect(r) ==
    /\ entered
    /\ user.status = "active" /\ user.mustChange
    /\ Begins(r, [Idle EXCEPT !.at = "changeRead"])
    /\ UNCHANGED <<user, session, tokens, entered, second, resets>>

\* The account is read again, and its status is not asked again.
ChangeRead(r) ==
    /\ request[r].at = "changeRead"
    /\ user.mustChange
    /\ request' = [request EXCEPT ![r].at = "changeRevoke", ![r].seen = user]
    /\ UNCHANGED <<user, session, tokens, entered, second, resets, calls>>

ChangeRevoke(r) ==
    /\ Goes(r, "changeRevoke", "changeSave")
    /\ session' = Revoked
    /\ UNCHANGED <<user, tokens, entered, second, resets, calls>>

ChangeSave(r) ==
    /\ Goes(r, "changeSave", "open")
    /\ UserSaved(r, User("active", "none", 0, FALSE))
    /\ UNCHANGED <<session, tokens, entered, second, resets, calls>>

-----------------------------------------------------------------------------
(* patchUser and deleteUser: the account is read before the transaction,   *)
(* which changes its status or its password and revokes nothing.           *)

AdminRead(r) ==
    /\ \E order \in Orders : Begins(r, [Idle EXCEPT !.at = "adminSave", !.seen = user, !.order = order])
    /\ UNCHANGED <<user, session, tokens, entered, second, resets>>

AdminSave(r) ==
    LET seen == request[r].seen
    IN  /\ Ends(r, "adminSave")
        /\ UserSaved(r, CASE request[r].order = "activate" -> [seen EXCEPT !.status = "active"]
                          [] request[r].order = "deactivate" -> [seen EXCEPT !.status = "inactive"]
                          [] request[r].order = "lock" -> [seen EXCEPT !.status = "locked"]
                          [] request[r].order = "password" -> [seen EXCEPT !.mustChange = FALSE])
        /\ UNCHANGED <<session, tokens, entered, second, resets, calls>>

-----------------------------------------------------------------------------
\* A refusal, an error of the database or the end of the process.
Abandon(r) ==
    /\ request[r].at # "idle"
    /\ Ends(r, request[r].at)
    /\ UNCHANGED <<user, session, tokens, entered, second, resets, calls>>

Tick ==
    /\ second < MaxSecond
    /\ second' = second + 1
    /\ UNCHANGED <<user, session, tokens, request, entered, resets, calls>>

\* locked_until passes.
LockLapses ==
    /\ user.locked = "future"
    /\ user' = [user EXCEPT !.locked = "past"]
    /\ UNCHANGED <<session, tokens, request, entered, second, resets, calls>>

ResetPassword(r) == ResetFind(r) \/ ResetRead(r) \/ ResetSave(r) \/ ResetUse(r) \/ ResetRevoke(r)
ChangeTemporaryPassword(r) == ChangeProtect(r) \/ ChangeRead(r) \/ ChangeRevoke(r) \/ ChangeSave(r)

Next ==
    \/ \E r \in Requests :
          \/ LoginRead(r) \/ LoginFail(r) \/ LoginPass(r) \/ OpenSession(r) \/ SignSession(r)
          \/ RefreshRead(r) \/ RefreshUser(r) \/ RefreshSave(r) \/ LogoutRead(r) \/ LogoutSave(r)
          \/ forgotPassword(r) \/ ResetPassword(r) \/ ChangeTemporaryPassword(r)
          \/ AdminRead(r) \/ AdminSave(r) \/ Abandon(r)
    \/ Tick \/ LockLapses

Spec == Init /\ [][Next]_vars

-----------------------------------------------------------------------------
\* Every variable has the shape the code gives it.
TypeOK ==
    /\ user \in [status : Statuses, locked : {"none", "future", "past"}, failed : Nat, mustChange : BOOLEAN]
    /\ session \in [Sessions -> [state : {"none", "live", "revoked"}, hash : Seconds \cup {Draft},
                                 issued : SUBSET Seconds, spent : SUBSET Seconds,
                                 raced : BOOLEAN, opened : Nat]]
    /\ tokens \subseteq 1 .. MaxCalls
    /\ DOMAIN request = Requests
    /\ \A r \in Requests : request[r].at \in Places
    /\ entered \in BOOLEAN
    /\ second \in Seconds
    /\ resets \in Nat /\ calls \in 0 .. MaxCalls

\* refresh, auth.service.js: a refresh token that was exchanged for a newer one is not
\* accepted again, however the requests interleave, unless two refreshes of one session
\* were in progress together.
RefreshOnce == \A s \in Live : session[s].hash \in session[s].spent => session[s].raced

\* resetPassword, auth.service.js: a session that was open when a reset ended is revoked,
\* and no refresh or login that was under way brings it back.
ResetEndsSessions == \A s \in Live : session[s].opened = resets

\* deleteUser and patchUser: an account that was made inactive is active again only by an
\* administrator, or by a request that had found it locked, or inactive after protect, before.
\* A login or a change of password that was under way does not undo it.
Reactivates(r) ==
    /\ request'[r] # request[r]
    /\ \/ request[r].at = "adminSave" /\ request[r].order = "activate"
       \/ request[r].at = "pass" /\ request[r].seen.status = "locked"
       \/ request[r].at = "changeSave" /\ request[r].seen.status # "active"
DeactivatedStays ==
    [][user.status = "inactive" /\ user'.status = "active" => \E r \in Requests : Reactivates(r)]_vars
=============================================================================
