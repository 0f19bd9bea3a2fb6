--------------------------- MODULE ServicesProofs ----------------------------
(***************************************************************************)
(* Proofs about the services beside the inspections (MCServices), for any  *)
(* value of their constants: accounts and their sessions, the keys of the  *)
(* public API, the alerts of a sensor and the imports of the geography.    *)
(***************************************************************************)
EXTENDS MCServices, FiniteSetTheorems, TLAPS

\* A step of the whole is, for each part, a step of that part or none.
LEMMA StepOfParts ==
    ASSUME [MCNext]_all
    PROVE  /\ [A!Next]_accessVars /\ [K!Next]_keyVars
           /\ [S!Next]_sensorVars /\ [G!Next]_geographyVars
BY DEF MCNext, all

-----------------------------------------------------------------------------
(* Accounts and their sessions (Access).                                   *)

Refreshing == {"refreshUser", "refreshSave"}

Accounts ==
    [status : A!Statuses, locked : {"none", "future", "past"}, failed : Nat, mustChange : BOOLEAN]
Logins ==
    [state : {"none", "live", "revoked"}, hash : Nat, issued : SUBSET Nat, spent : SUBSET Nat,
     raced : BOOLEAN, opened : Nat]
AtWork ==
    [at : A!Places, seen : Accounts, session : Nat, token : Nat, next : Nat, order : A!Orders]

AccessTypes ==
    /\ user \in Accounts
    /\ session \in [A!Sessions -> Logins]
    /\ request \in [Requests -> AtWork]
    /\ second \in Nat \ {0} /\ resets \in Nat /\ calls \in Nat /\ tokens \subseteq Nat

\* Tokens are dated no later than now, and a token that was exchanged is older than the one
\* the session has.
TokensInOrder ==
    \A s \in A!Sessions :
        /\ session[s].state = "none" => session[s].issued = {} /\ session[s].spent = {}
        /\ session[s].hash <= second
        /\ \A t \in session[s].issued : t <= second
        /\ ~session[s].raced => \A t \in session[s].spent : t < session[s].hash

\* A refresh goes on from the token that the session has, and is the only one, or the
\* session is marked.
OneRefresh ==
    \A r \in Requests : request[r].at \in Refreshing =>
        LET s == request[r].session IN
        /\ s \in A!Sessions
        /\ request[r].token \in session[s].issued
        /\ request[r].at = "refreshSave" => request[r].next <= second /\ request[r].token <= request[r].next
        /\ ~session[s].raced =>
            /\ request[r].token = session[s].hash
            /\ \A q \in Requests \ {r} : request[q].at \in Refreshing => request[q].session # s

\* A session that is about to be signed is of one login and has answered no token.
OneSigns ==
    \A r \in Requests :
        /\ request[r].at \in {"sign", "logoutSave"} => request[r].session \in A!Sessions
        /\ request[r].at = "sign" =>
            /\ session[request[r].session].state # "none"
            /\ session[request[r].session].issued = {} /\ session[request[r].session].spent = {}
            /\ \A q \in Requests \ {r} : request[q].at = "sign" => request[q].session # request[r].session

\* The password was right for an account that is active or locked.
RightFor == \A r \in Requests : request[r].at = "pass" => request[r].seen.status \in {"active", "locked"}

RefreshInv == AccessTypes /\ TokensInOrder /\ OneRefresh /\ OneSigns
EndedInv == A!ResetEndsSessions /\ RightFor

\* What instance.update makes of the account.
LEMMA SavedAccount ==
    ASSUME NEW row \in Accounts, NEW read \in Accounts, NEW values \in Accounts
    PROVE  /\ A!Saved(row, read, values) \in Accounts
           /\ A!Saved(row, read, values).status = IF values.status = read.status THEN row.status ELSE values.status
BY DEF A!Saved, Accounts

\* A request that begins, goes on or ends keeps the shape of a request.
LEMMA IdleTyped == A!Idle \in AtWork /\ A!Idle.at = "idle"
BY DEF A!Idle, A!NothingSeen, A!User, AtWork, Accounts, A!Places, A!Orders, A!Statuses

\* Nobody but request r moves.
Others(r) == request' \in [Requests -> AtWork] /\ \A q \in Requests \ {r} : request'[q] = request[q]

LEMMA Beginning ==
    ASSUME AccessTypes, NEW r \in Requests, NEW reading \in AtWork, A!Begins(r, reading)
    PROVE  Others(r) /\ request[r].at = "idle" /\ request'[r] = reading
BY DEF AccessTypes, A!Begins, Others

LEMMA Going ==
    ASSUME AccessTypes, NEW r \in Requests, NEW from \in A!Places, NEW to \in A!Places, A!Goes(r, from, to)
    PROVE  /\ Others(r) /\ request[r].at = from /\ request'[r] = [request[r] EXCEPT !.at = to]
           /\ request'[r].at = to
<1>1. request[r] \in AtWork
  BY DEF AccessTypes
<1>2. [request[r] EXCEPT !.at = to] \in AtWork /\ [request[r] EXCEPT !.at = to].at = to
  BY <1>1 DEF AtWork
<1> QED
  BY <1>2 DEF AccessTypes, A!Goes, Others

LEMMA Ending ==
    ASSUME AccessTypes, NEW r \in Requests, NEW from \in A!Places, A!Ends(r, from)
    PROVE  Others(r) /\ request[r].at = from /\ request'[r].at = "idle"
BY IdleTyped DEF AccessTypes, A!Ends, Others

\* The requests that move are none of those that work on a session, and of the sessions no more
\* than the state changes.
LEMMA RefreshQuiet ==
    ASSUME RefreshInv,
           user' \in Accounts, request' \in [Requests -> AtWork], session' \in [A!Sessions -> Logins],
           resets' \in Nat, second' \in Nat \ {0}, second <= second', calls' \in Nat, tokens' \subseteq Nat,
           \A s \in A!Sessions :
                /\ session'[s].hash = session[s].hash /\ session'[s].raced = session[s].raced
                /\ session'[s].issued = session[s].issued /\ session'[s].spent = session[s].spent
                /\ session'[s].state = "none" => session[s].state = "none",
           \A q \in Requests :
                \/ request'[q] = request[q]
                \/ /\ request'[q].at \notin Refreshing \cup {"sign"}
                   /\ request'[q].at = "logoutSave" => request'[q].session \in A!Sessions
    PROVE  RefreshInv'
<1>1. AccessTypes'
  BY DEF AccessTypes
<1>2. TokensInOrder'
  BY DEF RefreshInv, AccessTypes, TokensInOrder, Logins
<1>3. OneRefresh'
  BY DEF RefreshInv, AccessTypes, OneRefresh, Logins, AtWork, Refreshing
<1>4. OneSigns'
  BY DEF RefreshInv, AccessTypes, OneSigns, Logins, AtWork
<1> QED
  BY <1>1, <1>2, <1>3, <1>4 DEF RefreshInv

LEMMA AccessInit ==
    ASSUME A!Init
    PROVE  RefreshInv /\ EndedInv
<1>1. A!NoSession \in Logins /\ A!NoSession.state = "none" /\ A!NoSession.issued = {} /\ A!NoSession.spent = {}
      /\ A!NoSession.hash = 0
  BY DEF A!NoSession, Logins, A!Draft
<1>2. user \in Accounts
  BY DEF A!Init, A!User, Accounts, A!Statuses
<1>3. AccessTypes
  BY <1>1, <1>2, IdleTyped DEF A!Init, AccessTypes, A!Seconds
<1>4. \A s \in A!Sessions : session[s] = A!NoSession
  BY DEF A!Init
<1>5. \A r \in Requests : request[r].at = "idle"
  BY IdleTyped DEF A!Init
<1>6. second = 1
  BY DEF A!Init
<1> QED
  BY <1>1, <1>3, <1>4, <1>5, <1>6 DEF RefreshInv, EndedInv, TokensInOrder, OneRefresh, OneSigns, RightFor,
     A!ResetEndsSessions, A!Live, Refreshing

\* The handlers of an account move no request to one that works on a session, and at most
\* revoke sessions.
LEMMA AccountSteps ==
    ASSUME RefreshInv, EndedInv, NEW r \in Requests,
           \/ A!LoginRead(r) \/ A!LoginFail(r) \/ A!LoginPass(r) \/ A!LogoutRead(r) \/ A!LogoutSave(r)
           \/ A!forgotPassword(r) \/ A!ResetPassword(r) \/ A!ChangeTemporaryPassword(r)
           \/ A!AdminRead(r) \/ A!AdminSave(r) \/ A!Abandon(r)
    PROVE  RefreshInv' /\ EndedInv'
<1> USE DEF A!Places
<1>t. AccessTypes /\ request[r] \in AtWork /\ request[r].seen \in Accounts
  BY DEF RefreshInv, AccessTypes, AtWork
<1>s. \A s \in A!Sessions : session[s] \in Logins
  BY <1>t DEF AccessTypes
<1>r. /\ A!Revoked \in [A!Sessions -> Logins]
      /\ \A s \in A!Sessions :
            /\ A!Revoked[s].hash = session[s].hash /\ A!Revoked[s].raced = session[s].raced
            /\ A!Revoked[s].issued = session[s].issued /\ A!Revoked[s].spent = session[s].spent
            /\ A!Revoked[s].state = IF session[s].state = "live" THEN "revoked" ELSE session[s].state
  <2>1. \A s \in A!Sessions : A!Revoked[s] = IF s \in A!Live THEN [session[s] EXCEPT !.state = "revoked"] ELSE session[s]
    BY DEF A!Revoked
  <2>2. A!Revoked = [s \in A!Sessions |-> A!Revoked[s]]
    BY DEF A!Revoked
  <2> QED
    BY <1>s, <2>1, <2>2 DEF Logins, A!Live
<1>c. calls' \in Nat /\ tokens' \subseteq Nat
  <2>1. calls' = calls \/ calls' = calls + 1
    BY DEF A!Begins, A!LoginRead, A!LoginFail, A!LoginPass, A!LogoutRead, A!LogoutSave, A!forgotPassword,
       A!ResetPassword, A!ResetFind, A!ResetRead, A!ResetSave, A!ResetUse, A!ResetRevoke,
       A!ChangeTemporaryPassword, A!ChangeProtect, A!ChangeRead, A!ChangeRevoke, A!ChangeSave, A!AdminRead,
       A!AdminSave, A!Abandon
  <2>2. tokens' \subseteq tokens \/ tokens' = tokens \cup {calls'}
    BY DEF A!LoginRead, A!LoginFail, A!LoginPass, A!LogoutRead, A!LogoutSave, A!forgotPassword,
       A!ResetPassword, A!ResetFind, A!ResetRead, A!ResetSave, A!ResetUse, A!ResetRevoke,
       A!ChangeTemporaryPassword, A!ChangeProtect, A!ChangeRead, A!ChangeRevoke, A!ChangeSave, A!AdminRead,
       A!AdminSave, A!Abandon
  <2>3. calls \in Nat /\ tokens \subseteq Nat
    BY <1>t DEF AccessTypes
  <2>4. calls' \in Nat
    BY <2>1, <2>3
  <2> QED
    BY <2>2, <2>3, <2>4
<1> DEFINE Kept ==
        /\ Others(r)
        /\ request'[r].at \notin Refreshing \cup {"sign"}
        /\ request'[r].at = "logoutSave" => request'[r].session \in A!Sessions
        /\ request'[r].at = "pass" => request'[r].seen.status \in {"active", "locked"}
<1>q. ASSUME Kept, user' \in Accounts, second' = second,
             \/ session' = session /\ resets' = resets
             \/ session' = A!Revoked /\ resets' \in Nat
      PROVE  RefreshInv' /\ EndedInv'
  <2>1. /\ session' \in [A!Sessions -> Logins]
        /\ resets' \in Nat /\ second' \in Nat \ {0} /\ second <= second'
        /\ \A s \in A!Sessions :
                /\ session'[s].hash = session[s].hash /\ session'[s].raced = session[s].raced
                /\ session'[s].issued = session[s].issued /\ session'[s].spent = session[s].spent
                /\ session'[s].state = "none" => session[s].state = "none"
    BY <1>q, <1>t, <1>r DEF AccessTypes
  <2>2. RefreshInv'
    BY <1>q, <1>c, <2>1, RefreshQuiet DEF Others
  <2>3. A!ResetEndsSessions'
    BY <1>q, <1>r DEF EndedInv, A!ResetEndsSessions, A!Live
  <2>4. RightFor'
    BY <1>q DEF EndedInv, RightFor, Others
  <2> QED
    BY <2>2, <2>3, <2>4 DEF EndedInv
<1>u. ASSUME NEW values \in Accounts, A!UserSaved(r, values)
      PROVE  user' \in Accounts
  BY <1>u, <1>t, SavedAccount DEF A!UserSaved, AccessTypes
<1>a. user \in Accounts
  BY <1>t DEF AccessTypes
<1>1. CASE A!LoginRead(r)
  <2>1. /\ [A!Idle EXCEPT !.at = "wrong", !.seen = user] \in AtWork
        /\ [A!Idle EXCEPT !.at = "wrong", !.seen = user].at = "wrong"
        /\ [A!Idle EXCEPT !.at = "pass", !.seen = user] \in AtWork
        /\ [A!Idle EXCEPT !.at = "pass", !.seen = user].at = "pass"
        /\ [A!Idle EXCEPT !.at = "pass", !.seen = user].seen = user
    BY <1>a, IdleTyped DEF AtWork
  <2>2. Kept
    <3>1. CASE A!Begins(r, [A!Idle EXCEPT !.at = "wrong", !.seen = user])
      BY <2>1, <3>1, <1>t, Beginning DEF Refreshing
    <3>2. CASE user.status \in {"active", "locked"} /\ A!Begins(r, [A!Idle EXCEPT !.at = "pass", !.seen = user])
      BY <2>1, <3>2, <1>t, Beginning DEF Refreshing
    <3> QED
      BY <1>1, <3>1, <3>2 DEF A!LoginRead
  <2> QED
    BY <1>1, <1>a, <2>2, <1>q DEF A!LoginRead
<1>2. CASE A!LoginFail(r)
  <2>1. PICK status \in A!Statuses, locked \in {"none", "future", "past"} :
            A!UserSaved(r, A!User(status, locked, request[r].seen.failed + 1, request[r].seen.mustChange))
    BY <1>2, <1>t DEF A!LoginFail, Accounts, A!Statuses
  <2>2. A!User(status, locked, request[r].seen.failed + 1, request[r].seen.mustChange) \in Accounts
    BY <1>t DEF A!User, Accounts
  <2>3. user' \in Accounts
    BY <1>u, <2>1, <2>2
  <2>4. Kept
    BY <1>2, <1>t, Ending DEF A!LoginFail, Refreshing
  <2> QED
    BY <1>2, <2>3, <2>4, <1>q DEF A!LoginFail
<1>3. CASE A!LoginPass(r)
  <2>1. A!User("active", "none", 0, request[r].seen.mustChange) \in Accounts
    BY <1>t DEF A!User, Accounts, A!Statuses
  <2>2. user' \in Accounts
    BY <1>u, <2>1, <1>3 DEF A!LoginPass
  <2>3. A!Ends(r, "pass") \/ A!Goes(r, "pass", "open")
    BY <1>3 DEF A!LoginPass
  <2>4. Kept
    BY <2>3, <1>t, Going, Ending DEF Refreshing
  <2> QED
    BY <1>3, <2>2, <2>4, <1>q DEF A!LoginPass
<1>4. CASE A!LogoutRead(r)
  <2>1. PICK s \in A!Live : A!Begins(r, [A!Idle EXCEPT !.at = "logoutSave", !.session = s])
    BY <1>4 DEF A!LogoutRead
  <2>2. s \in A!Sessions /\ s \in Nat
    BY DEF A!Live, A!Sessions
  <2>3. /\ [A!Idle EXCEPT !.at = "logoutSave", !.session = s] \in AtWork
        /\ [A!Idle EXCEPT !.at = "logoutSave", !.session = s].at = "logoutSave"
        /\ [A!Idle EXCEPT !.at = "logoutSave", !.session = s].session = s
    BY <2>2, <1>a, IdleTyped DEF AtWork
  <2>4. Kept
    BY <2>1, <2>2, <2>3, <1>t, Beginning DEF Refreshing
  <2> QED
    BY <1>4, <1>a, <2>4, <1>q DEF A!LogoutRead
<1>5. CASE A!LogoutSave(r)
  <2>1. Kept
    BY <1>5, <1>t, Ending DEF A!LogoutSave, Refreshing
  <2>2. request[r].at = "logoutSave" /\ request[r].session \in A!Sessions
    BY <1>5, <1>t, Ending DEF A!LogoutSave, RefreshInv, OneSigns
  <2>3. PICK s \in A!Sessions : session' = [session EXCEPT ![s].state = "revoked"]
    BY <1>5, <2>2 DEF A!LogoutSave
  <2>4. session' \in [A!Sessions -> Logins]
    BY <2>3, <1>t DEF AccessTypes, Logins
  <2>5. \A t \in A!Sessions :
          /\ session'[t].hash = session[t].hash /\ session'[t].raced = session[t].raced
          /\ session'[t].issued = session[t].issued /\ session'[t].spent = session[t].spent
          /\ session'[t].opened = session[t].opened
          /\ session'[t].state = session[t].state \/ session'[t].state = "revoked"
    BY <2>3, <1>t DEF AccessTypes, Logins
  <2>6. user' = user /\ resets' = resets /\ second' = second
    BY <1>5 DEF A!LogoutSave
  <2>7. RefreshInv'
    BY <1>a, <1>c, <1>t, <2>1, <2>4, <2>5, <2>6, RefreshQuiet DEF AccessTypes, Others
  <2>8. A!ResetEndsSessions'
    BY <2>5, <2>6 DEF EndedInv, A!ResetEndsSessions, A!Live
  <2>9. RightFor'
    BY <2>1 DEF EndedInv, RightFor, Others
  <2> QED
    BY <2>7, <2>8, <2>9 DEF EndedInv
<1>6. CASE A!forgotPassword(r)
  <2>1. Kept
    BY <1>6, <1>t, Beginning, IdleTyped DEF A!forgotPassword, Refreshing
  <2> QED
    BY <1>6, <1>a, <2>1, <1>q DEF A!forgotPassword
<1>7. CASE A!ResetFind(r)
  <2>1. PICK t \in tokens : A!Begins(r, [A!Idle EXCEPT !.at = "resetRead", !.token = t])
    BY <1>7 DEF A!ResetFind
  <2>2. t \in Nat
    BY <1>t DEF AccessTypes
  <2>3. /\ [A!Idle EXCEPT !.at = "resetRead", !.token = t] \in AtWork
        /\ [A!Idle EXCEPT !.at = "resetRead", !.token = t].at = "resetRead"
    BY <2>2, <1>a, IdleTyped DEF AtWork
  <2>4. Kept
    BY <2>1, <2>3, <1>t, Beginning DEF Refreshing
  <2> QED
    BY <1>7, <1>a, <2>4, <1>q DEF A!ResetFind
<1>8. CASE A!ResetRead(r) \/ A!ChangeRead(r)
  <2>1. PICK to \in {"resetSave", "changeRevoke"} : request' = [request EXCEPT ![r].at = to, ![r].seen = user]
    BY <1>8 DEF A!ResetRead, A!ChangeRead
  <2>2. [request[r] EXCEPT !.at = to, !.seen = user] \in AtWork /\ [request[r] EXCEPT !.at = to, !.seen = user].at = to
    BY <1>t, <1>a DEF AtWork
  <2>3. Kept
    BY <1>t, <2>1, <2>2 DEF AccessTypes, Refreshing, Others
  <2> QED
    BY <1>8, <1>a, <2>3, <1>q DEF A!ResetRead, A!ChangeRead
<1>9. CASE A!ResetSave(r)
  <2>1. A!User(request[r].seen.status, "none", 0, FALSE) \in Accounts
    BY <1>t DEF A!User, Accounts
  <2>2. user' \in Accounts
    BY <1>u, <2>1, <1>9 DEF A!ResetSave
  <2>3. Kept
    BY <1>9, <1>t, Going DEF A!ResetSave, Refreshing
  <2> QED
    BY <1>9, <2>2, <2>3, <1>q DEF A!ResetSave
<1>10. CASE A!ResetUse(r)
  <2>1. Kept
    BY <1>10, <1>t, Going DEF A!ResetUse, Refreshing
  <2> QED
    BY <1>10, <1>a, <2>1, <1>q DEF A!ResetUse
<1>11. CASE A!ResetRevoke(r)
  <2>1. Kept
    BY <1>11, <1>t, Ending DEF A!ResetRevoke, Refreshing
  <2> QED
    BY <1>11, <1>a, <1>t, <2>1, <1>q DEF A!ResetRevoke, AccessTypes
<1>12. CASE A!ChangeProtect(r)
  <2>1. /\ [A!Idle EXCEPT !.at = "changeRead"] \in AtWork
        /\ [A!Idle EXCEPT !.at = "changeRead"].at = "changeRead"
    BY <1>a, IdleTyped DEF AtWork
  <2>2. Kept
    BY <1>12, <2>1, <1>t, Beginning DEF A!ChangeProtect, Refreshing
  <2> QED
    BY <1>12, <1>a, <2>2, <1>q DEF A!ChangeProtect
<1>13. CASE A!ChangeRevoke(r)
  <2>1. Kept
    BY <1>13, <1>t, Going DEF A!ChangeRevoke, Refreshing
  <2> QED
    BY <1>13, <1>a, <1>t, <2>1, <1>q DEF A!ChangeRevoke, AccessTypes
<1>14. CASE A!ChangeSave(r)
  <2>1. A!User("active", "none", 0, FALSE) \in Accounts
    BY DEF A!User, Accounts, A!Statuses
  <2>2. user' \in Accounts
    BY <1>u, <2>1, <1>14 DEF A!ChangeSave
  <2>3. Kept
    BY <1>14, <1>t, Going DEF A!ChangeSave, Refreshing
  <2> QED
    BY <1>14, <2>2, <2>3, <1>q DEF A!ChangeSave
<1>15. CASE A!AdminRead(r)
  <2>1. PICK kind \in A!Orders : A!Begins(r, [A!Idle EXCEPT !.at = "adminSave", !.seen = user, !.order = kind])
    BY <1>15 DEF A!AdminRead
  <2>2. /\ [A!Idle EXCEPT !.at = "adminSave", !.seen = user, !.order = kind] \in AtWork
        /\ [A!Idle EXCEPT !.at = "adminSave", !.seen = user, !.order = kind].at = "adminSave"
    BY <1>a, IdleTyped DEF AtWork
  <2>3. Kept
    BY <2>1, <2>2, <1>t, Beginning DEF Refreshing
  <2> QED
    BY <1>15, <1>a, <2>3, <1>q DEF A!AdminRead
<1>16. CASE A!AdminSave(r)
  <2>1. PICK values \in Accounts : A!UserSaved(r, values)
    <3>1. request[r].order \in A!Orders
      BY <1>t DEF AtWork
    <3>2. /\ [request[r].seen EXCEPT !.status = "active"] \in Accounts
          /\ [request[r].seen EXCEPT !.status = "inactive"] \in Accounts
          /\ [request[r].seen EXCEPT !.status = "locked"] \in Accounts
          /\ [request[r].seen EXCEPT !.mustChange = FALSE] \in Accounts
      BY <1>t DEF Accounts, A!Statuses
    <3> QED
      BY <1>16, <3>1, <3>2 DEF A!AdminSave, A!Orders
  <2>2. Kept
    BY <1>16, <1>t, Ending DEF A!AdminSave, Refreshing
  <2> QED
    BY <1>16, <2>1, <2>2, <1>u, <1>q DEF A!AdminSave
<1>17. CASE A!Abandon(r)
  <2>1. request[r].at \in A!Places
    BY <1>t DEF AtWork
  <2>2. Kept
    BY <1>17, <1>t, <2>1, Ending DEF A!Abandon, Refreshing
  <2> QED
    BY <1>17, <1>a, <2>2, <1>q DEF A!Abandon
<1> QED
  BY <1>1, <1>2, <1>3, <1>4, <1>5, <1>6, <1>7, <1>8, <1>9, <1>10, <1>11, <1>12, <1>13, <1>14, <1>15, <1>16, <1>17
     DEF A!ResetPassword, A!ChangeTemporaryPassword

\* A session is made for one login, which alone signs it.
LEMMA OpeningStep ==
    ASSUME RefreshInv, EndedInv, NEW r \in Requests, A!OpenSession(r)
    PROVE  RefreshInv' /\ EndedInv'
<1>0. PICK s \in A!Sessions :
        /\ \A t \in A!Sessions : session[t].state = "none" <=> t >= s
        /\ request[r].at = "open"
        /\ request' = [request EXCEPT ![r] = [A!Idle EXCEPT !.at = "sign", !.session = s]]
        /\ session' = [session EXCEPT ![s] = [A!NoSession EXCEPT !.state = "live", !.opened = resets]]
        /\ UNCHANGED <<user, tokens, second, resets, calls>>
  BY DEF A!OpenSession
<1>1. s >= s /\ session[s].state = "none"
  BY <1>0 DEF A!Sessions
<1>2. AccessTypes /\ s \in Nat /\ resets \in Nat
  BY DEF RefreshInv, AccessTypes, A!Sessions
<1> DEFINE made == [A!NoSession EXCEPT !.state = "live", !.opened = resets]
           signing == [A!Idle EXCEPT !.at = "sign", !.session = s]
<1>3. /\ made \in Logins /\ made.state = "live" /\ made.opened = resets /\ made.hash = 0
      /\ made.issued = {} /\ made.spent = {} /\ made.raced = FALSE
  BY <1>2 DEF A!NoSession, Logins, A!Draft
<1>4. signing \in AtWork /\ signing.at = "sign" /\ signing.session = s
  BY <1>2, IdleTyped DEF AtWork, A!Places
<1> HIDE DEF made, signing
<1>5. /\ session' = [session EXCEPT ![s] = made] /\ request' = [request EXCEPT ![r] = signing]
  BY <1>0 DEF made, signing
<1>6. /\ session'[s] = made /\ \A t \in A!Sessions \ {s} : session'[t] = session[t]
      /\ request'[r] = signing /\ \A q \in Requests \ {r} : request'[q] = request[q]
  BY <1>2, <1>5 DEF AccessTypes
<1>7. AccessTypes'
  BY <1>0, <1>2, <1>3, <1>4, <1>5 DEF AccessTypes
<1>8. TokensInOrder'
  <2>1. second \in Nat /\ second' = second /\ 0 <= second
    BY <1>0, <1>2 DEF AccessTypes
  <2> QED
    BY <1>3, <1>6, <2>1 DEF RefreshInv, TokensInOrder
<1>9. \A q \in Requests \ {r} : request[q].at \in Refreshing => request[q].session # s
  BY <1>1 DEF RefreshInv, OneRefresh, TokensInOrder
<1>10. OneRefresh'
  BY <1>0, <1>4, <1>6, <1>9 DEF RefreshInv, OneRefresh, Refreshing
<1>11. \A q \in Requests \ {r} : request[q].at = "sign" => request[q].session # s
  BY <1>1 DEF RefreshInv, OneSigns
<1>12. OneSigns'
  <2>1. ASSUME NEW q \in Requests \ {r}
        PROVE  /\ request'[q] = request[q]
               /\ request[q].at \in {"sign", "logoutSave"} => request[q].session \in A!Sessions
               /\ request[q].at = "sign" =>
                    /\ request[q].session # s /\ session'[request[q].session] = session[request[q].session]
                    /\ session[request[q].session].state # "none"
                    /\ session[request[q].session].issued = {} /\ session[request[q].session].spent = {}
                    /\ \A p \in Requests \ {q, r} :
                        request'[p].at = "sign" => request'[p].session # request[q].session
    BY <1>6, <1>11 DEF RefreshInv, OneSigns
  <2>2. session'[s].state # "none" /\ session'[s].issued = {} /\ session'[s].spent = {}
    BY <1>3, <1>6
  <2>3. \A q \in Requests \ {r} : request'[q].at = "sign" => request'[q].session # s
    BY <2>1
  <2>4. request'[r].session = s /\ request'[r].at = "sign"
    BY <1>4, <1>6
  <2> QED
    BY <2>1, <2>2, <2>3, <2>4 DEF OneSigns
<1>13. EndedInv'
  BY <1>0, <1>3, <1>4, <1>6 DEF EndedInv, A!ResetEndsSessions, A!Live, RightFor
<1> QED
  BY <1>7, <1>8, <1>10, <1>12, <1>13 DEF RefreshInv

LEMMA SigningStep ==
    ASSUME RefreshInv, EndedInv, NEW r \in Requests, A!SignSession(r)
    PROVE  RefreshInv' /\ EndedInv'
<1>1. AccessTypes /\ second \in Nat
  BY DEF RefreshInv, AccessTypes
<1>2. Others(r) /\ request[r].at = "sign" /\ request'[r].at = "idle"
  BY <1>1, Ending DEF A!SignSession, A!Places
<1>3. PICK s \in A!Sessions :
        /\ s = request[r].session /\ session[s].state # "none"
        /\ session[s].issued = {} /\ session[s].spent = {}
        /\ \A q \in Requests \ {r} : request[q].at = "sign" => request[q].session # s
  BY <1>2 DEF RefreshInv, OneSigns
<1>4. /\ session' = [session EXCEPT ![s].hash = second, ![s].issued = {second}]
      /\ UNCHANGED <<user, tokens, second, resets, calls>>
  BY <1>3 DEF A!SignSession
<1>5. session[s] \in Logins
  BY <1>1 DEF AccessTypes
<1>6. /\ \A t \in A!Sessions \ {s} : session'[t] = session[t]
      /\ session'[s] = [session[s] EXCEPT !.hash = second, !.issued = {second}]
  BY <1>1, <1>4 DEF AccessTypes
<1>7. /\ session'[s] \in Logins /\ session'[s].hash = second /\ session'[s].issued = {second}
      /\ session'[s].spent = session[s].spent /\ session'[s].state = session[s].state
      /\ (session'[s].raced <=> session[s].raced) /\ session'[s].opened = session[s].opened
  <2>1. {second} \in SUBSET Nat
    BY <1>1
  <2>2. \A set \in SUBSET Nat : LET new == [session[s] EXCEPT !.hash = second, !.issued = set] IN
            /\ new \in Logins /\ new.hash = second /\ new.issued = set
            /\ new.spent = session[s].spent /\ new.state = session[s].state
            /\ (new.raced <=> session[s].raced) /\ new.opened = session[s].opened
    BY <1>1, <1>5 DEF Logins
  <2> QED
    BY <1>6, <2>1, <2>2
<1>e. session[s].issued = {} /\ session[s].spent = {} /\ session[s].state # "none"
  BY <1>3
<1>u. second' = second /\ resets' = resets
  BY <1>4
<1>8. AccessTypes'
  BY <1>1, <1>2, <1>4, <1>6, <1>7 DEF AccessTypes, Others
<1>9. TokensInOrder'
  <2>1. \A t \in {second} : t <= second
    BY <1>1
  <2> QED
    BY <1>1, <1>e, <1>u, <1>6, <1>7, <2>1 DEF RefreshInv, TokensInOrder
<1>10. \A q \in Requests : request[q].at \in Refreshing => request[q].session # s
  BY <1>3 DEF RefreshInv, OneRefresh
<1>11. OneRefresh'
  <2>1. \A q \in Requests : request'[q].at \in Refreshing =>
            q # r /\ request'[q] = request[q] /\ session'[request[q].session] = session[request[q].session]
    <3>1. \A q \in Requests : request[q].at \in Refreshing => request[q].session \in A!Sessions
      BY DEF RefreshInv, OneRefresh
    <3> QED
      BY <1>2, <1>6, <1>10, <3>1 DEF Refreshing, Others
  <2> QED
    BY <1>u, <2>1 DEF RefreshInv, OneRefresh
<1>12. OneSigns'
  <2>1. \A q \in Requests : request'[q].at \in {"sign", "logoutSave"} => q # r /\ request'[q] = request[q]
    BY <1>2 DEF Others
  <2>2. \A q \in Requests \ {r} :
            request[q].at = "sign" => session'[request[q].session] = session[request[q].session]
    BY <1>3, <1>6 DEF RefreshInv, OneSigns
  <2> QED
    BY <2>1, <2>2 DEF RefreshInv, OneSigns
<1>13. EndedInv'
  <2>0. \A t \in A!Sessions : session'[t].state = session[t].state /\ session'[t].opened = session[t].opened
    BY <1>6, <1>7
  <2>1. A!ResetEndsSessions'
    BY <1>u, <2>0 DEF EndedInv, A!ResetEndsSessions, A!Live
  <2> QED
    BY <1>2, <2>1 DEF EndedInv, RightFor, Others
<1> QED
  BY <1>8, <1>9, <1>11, <1>12, <1>13 DEF RefreshInv

\* A refresh begins with the token the session has; one that finds another at work marks the session.
LEMMA RefreshBegins ==
    ASSUME RefreshInv, EndedInv, NEW r \in Requests, A!RefreshRead(r)
    PROVE  RefreshInv' /\ EndedInv'
<1>1. AccessTypes
  BY DEF RefreshInv
<1>2. PICK s \in A!Live : \E t \in session[s].issued :
        /\ session[s].hash = t
        /\ A!Begins(r, [A!Idle EXCEPT !.at = "refreshUser", !.session = s, !.token = t])
        /\ session' = [session EXCEPT ![s].raced =
              @ \/ \E q \in Requests : request[q].at \in {"refreshUser", "refreshSave"} /\ request[q].session = s]
        /\ UNCHANGED <<user, tokens, second, resets>>
  BY DEF A!RefreshRead
<1>a. PICK t \in session[s].issued :
        /\ session[s].hash = t
        /\ A!Begins(r, [A!Idle EXCEPT !.at = "refreshUser", !.session = s, !.token = t])
        /\ session' = [session EXCEPT ![s].raced =
              @ \/ \E q \in Requests : request[q].at \in {"refreshUser", "refreshSave"} /\ request[q].session = s]
        /\ UNCHANGED <<user, tokens, second, resets>>
  BY <1>2
<1>3. s \in A!Sessions /\ s \in Nat /\ session[s] \in Logins /\ t \in Nat
  BY <1>1 DEF A!Live, AccessTypes, Logins, A!Sessions
<1> DEFINE reading == [A!Idle EXCEPT !.at = "refreshUser", !.session = s, !.token = t]
<1>4. reading \in AtWork /\ reading.at = "refreshUser" /\ reading.session = s /\ reading.token = t
  BY <1>3, IdleTyped DEF AtWork, A!Places
<1>5. A!Begins(r, reading) /\ calls' \in Nat
  BY <1>1, <1>a DEF A!Begins, AccessTypes
<1> HIDE DEF reading
<1>6. Others(r) /\ request[r].at = "idle" /\ request'[r] = reading
  BY <1>1, <1>4, <1>5, Beginning
<1>7. PICK b \in BOOLEAN :
        /\ session' = [session EXCEPT ![s].raced = b]
        /\ session[s].raced => b
        /\ \A q \in Requests : request[q].at \in Refreshing /\ request[q].session = s => b
  BY <1>a, <1>3 DEF Logins, Refreshing
<1>8. /\ \A u \in A!Sessions \ {s} : session'[u] = session[u]
      /\ session'[s] = [session[s] EXCEPT !.raced = b]
  BY <1>1, <1>3, <1>7 DEF AccessTypes
<1>9. /\ session'[s] \in Logins /\ session'[s].hash = session[s].hash /\ session'[s].issued = session[s].issued
      /\ session'[s].spent = session[s].spent /\ session'[s].state = session[s].state
      /\ session'[s].opened = session[s].opened /\ (session'[s].raced <=> b)
  BY <1>3, <1>8 DEF Logins
<1>10. AccessTypes'
  BY <1>1, <1>a, <1>5, <1>6, <1>3, <1>7, <1>8, <1>9 DEF AccessTypes, Others
<1>11. TokensInOrder'
  BY <1>a, <1>7, <1>8, <1>9 DEF RefreshInv, TokensInOrder
<1>12. OneRefresh'
  <2>1. ASSUME NEW q \in Requests \ {r}, request[q].at \in Refreshing
        PROVE  /\ request[q].session \in A!Sessions
               /\ request[q].token \in session'[request[q].session].issued
               /\ request[q].at = "refreshSave" =>
                    request[q].next <= second' /\ request[q].token <= request[q].next
               /\ ~session'[request[q].session].raced =>
                    /\ request[q].session # s
                    /\ request[q].token = session'[request[q].session].hash
                    /\ \A p \in Requests \ {q, r} : request[p].at \in Refreshing => request[p].session # request[q].session
    BY <1>a, <1>7, <1>8, <1>9, <2>1 DEF RefreshInv, OneRefresh
  <2>2. ~session'[s].raced => \A q \in Requests : request[q].at \in Refreshing => request[q].session # s
    BY <1>7, <1>9
  <2>3. ASSUME NEW q \in Requests, request'[q].at \in Refreshing
        PROVE  /\ request'[q].session \in A!Sessions
               /\ request'[q].token \in session'[request'[q].session].issued
               /\ request'[q].at = "refreshSave" =>
                    request'[q].next <= second' /\ request'[q].token <= request'[q].next
               /\ ~session'[request'[q].session].raced =>
                    /\ request'[q].token = session'[request'[q].session].hash
                    /\ \A p \in Requests \ {q} :
                        request'[p].at \in Refreshing => request'[p].session # request'[q].session
    <3>1. CASE q = r
      BY <1>a, <1>3, <1>4, <1>6, <1>9, <2>2, <3>1 DEF Others, Refreshing
    <3>2. CASE q # r
      BY <1>4, <1>6, <2>1, <2>3, <3>2 DEF Others
    <3> QED
      BY <3>1, <3>2
  <2> QED
    BY <2>3 DEF OneRefresh
<1>13. OneSigns'
  <2>1. \A q \in Requests : request'[q].at \in {"sign", "logoutSave"} => q # r /\ request'[q] = request[q]
    BY <1>4, <1>6 DEF Others
  <2>2. \A u \in A!Sessions : /\ session'[u].state = session[u].state
                               /\ session'[u].issued = session[u].issued /\ session'[u].spent = session[u].spent
    BY <1>8, <1>9
  <2> QED
    BY <2>1, <2>2 DEF RefreshInv, OneSigns
<1>14. EndedInv'
  BY <1>a, <1>4, <1>6, <1>8, <1>9 DEF EndedInv, A!ResetEndsSessions, A!Live, RightFor, Others
<1> QED
  BY <1>10, <1>11, <1>12, <1>13, <1>14 DEF RefreshInv

\* The next token is signed while the account is active, later than the one it replaces or in
\* the same second.
LEMMA RefreshSigns ==
    ASSUME RefreshInv, EndedInv, NEW r \in Requests, A!RefreshUser(r)
    PROVE  RefreshInv' /\ EndedInv'
<1>1. /\ request[r].at = "refreshUser" /\ UNCHANGED <<user, session, tokens, second, resets, calls>>
      /\ request' = [request EXCEPT ![r].at = "refreshSave", ![r].next = second]
  BY DEF A!RefreshUser
<1>2. AccessTypes /\ second \in Nat /\ request[r] \in AtWork
  BY DEF RefreshInv, AccessTypes
<1> DEFINE signed == [request[r] EXCEPT !.at = "refreshSave", !.next = second]
<1>3. /\ signed \in AtWork /\ signed.at = "refreshSave" /\ signed.next = second
      /\ signed.session = request[r].session /\ signed.token = request[r].token
  BY <1>2 DEF AtWork, A!Places
<1> HIDE DEF signed
<1>4. request' = [request EXCEPT ![r] = signed]
  BY <1>1, <1>2 DEF signed, AccessTypes
<1>5. Others(r) /\ request'[r] = signed
  BY <1>2, <1>3, <1>4 DEF Others, AccessTypes
<1>6. AccessTypes'
  BY <1>1, <1>2, <1>5 DEF AccessTypes, Others
<1>7. TokensInOrder'
  BY <1>1 DEF RefreshInv, TokensInOrder
<1>8. OneRefresh'
  <2>1. \A q \in Requests :
            /\ request'[q].session = request[q].session /\ request'[q].token = request[q].token
            /\ request'[q].at \in Refreshing => request[q].at \in Refreshing
            /\ q # r => request'[q] = request[q]
    BY <1>1, <1>3, <1>5 DEF Others, Refreshing
  <2>2. request'[r].next <= second' /\ request'[r].token <= request'[r].next
    <3>1. request[r].session \in A!Sessions /\ request[r].token \in session[request[r].session].issued
      BY <1>1 DEF RefreshInv, OneRefresh, Refreshing
    <3> QED
      BY <1>1, <1>2, <1>3, <1>5, <3>1 DEF RefreshInv, TokensInOrder
  <2>3. \A q \in Requests \ {r} : request'[q].at = "refreshSave" =>
            request'[q].next <= second' /\ request'[q].token <= request'[q].next
    BY <1>1, <2>1 DEF RefreshInv, OneRefresh, Refreshing
  <2>4. session' = session
    BY <1>1
  <2> QED
    BY <2>1, <2>2, <2>3, <2>4 DEF RefreshInv, OneRefresh
<1>9. OneSigns'
  <2>1. \A q \in Requests : request'[q].at \in {"sign", "logoutSave"} => q # r /\ request'[q] = request[q]
    BY <1>3, <1>5 DEF Others
  <2>2. session' = session
    BY <1>1
  <2> QED
    BY <2>1, <2>2 DEF RefreshInv, OneSigns
<1>10. EndedInv'
  <2>1. A!ResetEndsSessions'
    BY <1>1 DEF EndedInv, A!ResetEndsSessions, A!Live
  <2> QED
    BY <1>3, <1>5, <2>1 DEF EndedInv, RightFor, Others
<1> QED
  BY <1>6, <1>7, <1>8, <1>9, <1>10 DEF RefreshInv

\* The token that was exchanged is older than the one that the session gets, or the same.
LEMMA RefreshEnds ==
    ASSUME RefreshInv, EndedInv, NEW r \in Requests, A!RefreshSave(r)
    PROVE  RefreshInv' /\ EndedInv'
<1>1. AccessTypes /\ second \in Nat /\ request[r] \in AtWork
  BY DEF RefreshInv, AccessTypes
<1>2. Others(r) /\ request[r].at = "refreshSave" /\ request'[r].at = "idle"
  BY <1>1, Ending DEF A!RefreshSave, A!Places
<1>3. PICK s \in A!Sessions, token \in Nat, next \in Nat :
        s = request[r].session /\ token = request[r].token /\ next = request[r].next
  BY <1>1, <1>2 DEF RefreshInv, OneRefresh, Refreshing, AtWork
<1>4. /\ session' = [session EXCEPT
            ![s].hash = IF next = token THEN @ ELSE next,
            ![s].issued = @ \cup {next},
            ![s].spent = @ \cup ({token} \ {next})]
      /\ user' = user /\ tokens' = tokens /\ second' = second /\ resets' = resets /\ calls' = calls
  BY <1>3 DEF A!RefreshSave
<1>5. session[s] \in Logins
  BY <1>1 DEF AccessTypes
<1>6. PICK hash \in Nat, issued \in SUBSET Nat, spent \in SUBSET Nat :
        /\ hash = (IF next = token THEN session[s].hash ELSE next)
        /\ issued = session[s].issued \cup {next} /\ spent = session[s].spent \cup ({token} \ {next})
  <2>1. session[s].hash \in Nat /\ session[s].issued \in SUBSET Nat /\ session[s].spent \in SUBSET Nat
    BY <1>5 DEF Logins
  <2> QED
    BY <1>3, <2>1
<1>7. /\ \A t \in A!Sessions \ {s} : session'[t] = session[t]
      /\ session'[s] = [session[s] EXCEPT !.hash = hash, !.issued = issued, !.spent = spent]
      /\ DOMAIN session' = A!Sessions /\ session' = [t \in A!Sessions |-> session'[t]]
  BY <1>1, <1>4, <1>6 DEF AccessTypes
<1>8. /\ session'[s] \in Logins /\ session'[s].hash = hash /\ session'[s].issued = issued
      /\ session'[s].spent = spent /\ session'[s].state = session[s].state
      /\ (session'[s].raced <=> session[s].raced) /\ session'[s].opened = session[s].opened
  BY <1>5, <1>6, <1>7 DEF Logins
<1>u. second' = second /\ resets' = resets /\ user' = user /\ calls' = calls /\ tokens' = tokens
  BY <1>4
<1>9. AccessTypes'
  <2>1. \A t \in A!Sessions : session'[t] \in Logins
    BY <1>1, <1>7, <1>8 DEF AccessTypes
  <2>2. session' \in [A!Sessions -> Logins]
    BY <1>7, <2>1
  <2> QED
    BY <1>1, <1>2, <1>u, <2>2 DEF AccessTypes, Others
<1>10. /\ next <= second /\ token <= next /\ token \in session[s].issued
       /\ ~session[s].raced =>
            /\ token = session[s].hash
            /\ \A q \in Requests \ {r} : request[q].at \in Refreshing => request[q].session # s
  BY <1>2, <1>3 DEF RefreshInv, OneRefresh, Refreshing
<1>11. TokensInOrder'
  <2>1. /\ session[s].hash <= second /\ \A t \in session[s].issued : t <= second
        /\ ~session[s].raced => \A t \in session[s].spent : t < session[s].hash
        /\ session[s].state # "none"
    BY <1>10 DEF RefreshInv, TokensInOrder
  <2>2. hash <= second /\ \A t \in issued : t <= second
    BY <1>6, <1>10, <2>1
  <2>3. ASSUME ~session[s].raced, NEW t \in spent PROVE t < hash
    <3>1. CASE next = token
      BY <1>6, <2>1, <2>3, <3>1
    <3>2. CASE next # token
      <4>1. session[s].hash \in Nat /\ session[s].spent \in SUBSET Nat
        BY <1>5 DEF Logins
      <4>2. token = session[s].hash /\ token < next /\ hash = next
        BY <1>3, <1>6, <1>10, <2>3, <3>2
      <4> QED
        BY <1>3, <1>6, <2>1, <2>3, <4>1, <4>2
    <3> QED
      BY <3>1, <3>2
  <2>4. \A t \in A!Sessions \ {s} :
            /\ session[t].state = "none" => session[t].issued = {} /\ session[t].spent = {}
            /\ session[t].hash <= second
            /\ \A u \in session[t].issued : u <= second
            /\ ~session[t].raced => \A u \in session[t].spent : u < session[t].hash
    BY DEF RefreshInv, TokensInOrder
  <2>5. /\ session'[s].state # "none" /\ session'[s].hash <= second'
        /\ \A u \in session'[s].issued : u <= second'
        /\ ~session'[s].raced => \A u \in session'[s].spent : u < session'[s].hash
    BY <1>u, <1>8, <2>1, <2>2, <2>3
  <2>6. ASSUME NEW t \in A!Sessions \ {s}
        PROVE  session'[t] = session[t] /\ second' = second
    BY <1>u, <1>7
  <2> QED
    BY <2>4, <2>5, <2>6 DEF TokensInOrder
<1>12. OneRefresh'
  <2>1. \A q \in Requests : request'[q].at \in Refreshing => q # r /\ request'[q] = request[q]
    BY <1>2 DEF Others, Refreshing
  <2>2. \A t \in A!Sessions :
            /\ session[t].issued \subseteq session'[t].issued /\ (session'[t].raced <=> session[t].raced)
            /\ t # s => session'[t].hash = session[t].hash
    BY <1>6, <1>7, <1>8
  <2> QED
    BY <1>u, <1>10, <2>1, <2>2 DEF RefreshInv, OneRefresh
<1>13. OneSigns'
  <2>1. \A q \in Requests : request'[q].at \in {"sign", "logoutSave"} => q # r /\ request'[q] = request[q]
    BY <1>2 DEF Others
  <2>2. \A q \in Requests :
            request[q].at = "sign" => request[q].session # s /\ session'[request[q].session] = session[request[q].session]
    BY <1>7, <1>10 DEF RefreshInv, OneSigns
  <2> QED
    BY <2>1, <2>2 DEF RefreshInv, OneSigns
<1>14. EndedInv'
  <2>1. \A t \in A!Sessions : session'[t].state = session[t].state /\ session'[t].opened = session[t].opened
    BY <1>7, <1>8
  <2>2. A!ResetEndsSessions'
    BY <1>u, <2>1 DEF EndedInv, A!ResetEndsSessions, A!Live
  <2> QED
    BY <1>2, <2>2 DEF EndedInv, RightFor, Others
<1> QED
  BY <1>9, <1>11, <1>12, <1>13, <1>14 DEF RefreshInv

LEMMA AccessNext ==
    ASSUME RefreshInv, EndedInv, [A!Next]_accessVars
    PROVE  RefreshInv' /\ EndedInv'
<1>1. CASE A!Tick
  <2>1. second' = second + 1 /\ second \in Nat \ {0} /\ second' \in Nat \ {0} /\ second <= second'
        /\ UNCHANGED <<user, session, tokens, request, resets, calls>>
    BY <1>1 DEF A!Tick, RefreshInv, AccessTypes
  <2>2. RefreshInv'
    BY <2>1, RefreshQuiet DEF RefreshInv, AccessTypes
  <2> QED
    BY <2>1, <2>2 DEF EndedInv, A!ResetEndsSessions, A!Live, RightFor
<1>2. CASE A!LockLapses
  <2>1. user' \in Accounts /\ UNCHANGED <<session, tokens, request, second, resets, calls>>
    BY <1>2 DEF A!LockLapses, RefreshInv, AccessTypes, Accounts
  <2>2. second \in Nat \ {0} /\ second <= second'
    BY <2>1 DEF RefreshInv, AccessTypes
  <2>3. RefreshInv'
    BY <2>1, <2>2, RefreshQuiet DEF RefreshInv, AccessTypes
  <2> QED
    BY <2>1, <2>3 DEF EndedInv, A!ResetEndsSessions, A!Live, RightFor
<1>3. CASE UNCHANGED accessVars
  BY <1>3 DEF accessVars, RefreshInv, EndedInv, AccessTypes, TokensInOrder, OneRefresh, OneSigns,
              A!ResetEndsSessions, A!Live, RightFor
<1> QED
  BY <1>1, <1>2, <1>3, AccountSteps, OpeningStep, SigningStep, RefreshBegins, RefreshSigns, RefreshEnds
     DEF A!Next

LEMMA AccessHolds == MCSpec => [](RefreshInv /\ EndedInv)
<1>1. MCInit => RefreshInv /\ EndedInv
  BY AccessInit DEF MCInit
<1>2. RefreshInv /\ EndedInv /\ [MCNext]_all => RefreshInv' /\ EndedInv'
  BY AccessNext, StepOfParts
<1> QED
  BY <1>1, <1>2, PTL DEF MCSpec

\* refresh, auth.service.js: a refresh token that was exchanged opens nothing more, for any
\* number of requests and sessions, unless two refreshes of its session were in progress together.
THEOREM ExchangedOnce == MCSpec => []RefreshOnce
<1>1. RefreshInv => RefreshOnce
  <2> SUFFICES ASSUME RefreshInv, NEW s \in A!Live, session[s].hash \in session[s].spent, ~session[s].raced
               PROVE  FALSE
    BY DEF RefreshOnce, A!RefreshOnce
  <2>1. s \in A!Sessions /\ session[s].hash \in Nat
    BY DEF A!Live, RefreshInv, AccessTypes, Logins
  <2>2. session[s].hash < session[s].hash
    BY <2>1 DEF RefreshInv, TokensInOrder
  <2> QED
    BY <2>1, <2>2
<1> QED
  BY <1>1, AccessHolds, PTL

\* resetPassword, deleteUser and patchUser: no request under way brings back a session that a
\* reset has ended, or makes an account active that was made inactive.
THEOREM EndedForGood == MCSpec => SessionsStayEnded
<1>1. EndedInv' => A!ResetEndsSessions'
  BY DEF EndedInv
<1>2. ASSUME RefreshInv, EndedInv, [A!Next]_accessVars, user.status = "inactive", user'.status = "active"
      PROVE  \E r \in Requests : A!Reactivates(r)
  <2>1. user \in Accounts /\ \A r \in Requests : request[r] \in AtWork /\ request[r].seen \in Accounts
    BY <1>2 DEF RefreshInv, AccessTypes, AtWork
  <2>2. ASSUME NEW r \in Requests, NEW values \in Accounts, A!UserSaved(r, values)
        PROVE  values.status = "active" /\ request[r].seen.status # "active"
    BY <1>2, <2>1, <2>2, SavedAccount DEF A!UserSaved
  <2>3. ASSUME NEW r \in Requests, A!LoginFail(r) PROVE FALSE
    <3>1. PICK status \in A!Statuses, locked \in {"none", "future", "past"} :
            /\ status \in {"locked", request[r].seen.status}
            /\ A!UserSaved(r, A!User(status, locked, request[r].seen.failed + 1, request[r].seen.mustChange))
      BY <2>1, <2>3 DEF A!LoginFail, Accounts, A!Statuses
    <3>2. /\ A!User(status, locked, request[r].seen.failed + 1, request[r].seen.mustChange) \in Accounts
          /\ A!User(status, locked, request[r].seen.failed + 1, request[r].seen.mustChange).status = status
      BY <2>1 DEF A!User, Accounts
    <3> QED
      BY <2>2, <3>1, <3>2
  <2>4. ASSUME NEW r \in Requests, A!LoginPass(r) PROVE A!Reactivates(r)
    <3>1. /\ A!User("active", "none", 0, request[r].seen.mustChange) \in Accounts
      BY <2>1 DEF A!User, Accounts, A!Statuses
    <3>2. request[r].seen.status # "active"
      BY <2>2, <2>4, <3>1 DEF A!LoginPass
    <3>3. request[r].at = "pass" /\ request'[r].at # "pass"
      BY <1>2, <2>4, Going, Ending DEF A!LoginPass, A!Places, RefreshInv
    <3> QED
      BY <1>2, <3>2, <3>3 DEF EndedInv, RightFor, A!Reactivates
  <2>5. ASSUME NEW r \in Requests, A!ResetSave(r) PROVE FALSE
    <3>1. /\ A!User(request[r].seen.status, "none", 0, FALSE) \in Accounts
          /\ A!User(request[r].seen.status, "none", 0, FALSE).status = request[r].seen.status
      BY <2>1 DEF A!User, Accounts
    <3> QED
      BY <2>2, <2>5, <3>1 DEF A!ResetSave
  <2>6. ASSUME NEW r \in Requests, A!ChangeSave(r) PROVE A!Reactivates(r)
    <3>1. A!User("active", "none", 0, FALSE) \in Accounts
      BY DEF A!User, Accounts, A!Statuses
    <3>2. request[r].seen.status # "active"
      BY <2>2, <2>6, <3>1 DEF A!ChangeSave
    <3>3. request[r].at = "changeSave" /\ request'[r].at # "changeSave"
      BY <1>2, <2>6, Going DEF A!ChangeSave, A!Places, RefreshInv
    <3> QED
      BY <3>2, <3>3 DEF A!Reactivates
  <2>7. ASSUME NEW r \in Requests, A!AdminSave(r) PROVE A!Reactivates(r)
    <3>1. request[r].at = "adminSave" /\ request'[r].at = "idle"
      BY <1>2, <2>7, Ending DEF A!AdminSave, A!Places, RefreshInv
    <3>2. request[r].order \in A!Orders
      BY <2>1 DEF AtWork
    <3>3. CASE request[r].order = "deactivate"
      <4>1. [request[r].seen EXCEPT !.status = "inactive"] \in Accounts
            /\ [request[r].seen EXCEPT !.status = "inactive"].status = "inactive"
        BY <2>1 DEF Accounts, A!Statuses
      <4> QED
        BY <2>2, <2>7, <3>3, <4>1 DEF A!AdminSave
    <3>4. CASE request[r].order = "lock"
      <4>1. [request[r].seen EXCEPT !.status = "locked"] \in Accounts
            /\ [request[r].seen EXCEPT !.status = "locked"].status = "locked"
        BY <2>1 DEF Accounts, A!Statuses
      <4> QED
        BY <2>2, <2>7, <3>4, <4>1 DEF A!AdminSave
    <3>5. CASE request[r].order = "password"
      <4>1. [request[r].seen EXCEPT !.mustChange = FALSE] \in Accounts
            /\ [request[r].seen EXCEPT !.mustChange = FALSE].status = request[r].seen.status
        BY <2>1 DEF Accounts
      <4> QED
        BY <2>2, <2>7, <3>5, <4>1 DEF A!AdminSave
    <3> QED
      BY <3>1, <3>2, <3>3, <3>4, <3>5 DEF A!Orders, A!Reactivates
  <2>8. ASSUME A!LockLapses PROVE FALSE
    BY <1>2, <2>1, <2>8 DEF A!LockLapses, Accounts
  <2>9. \/ A!LockLapses
        \/ \E r \in Requests : \/ A!LoginFail(r) \/ A!LoginPass(r) \/ A!ResetSave(r)
                               \/ A!ChangeSave(r) \/ A!AdminSave(r)
    <3>1. user' # user
      BY <1>2
    <3> QED
      BY <1>2, <3>1 DEF A!Next, accessVars, A!Tick, A!LoginRead, A!OpenSession, A!SignSession, A!RefreshRead,
         A!RefreshUser, A!RefreshSave, A!LogoutRead, A!LogoutSave, A!forgotPassword, A!ResetPassword, A!ResetFind,
         A!ResetRead, A!ResetUse, A!ResetRevoke, A!ChangeTemporaryPassword, A!ChangeProtect, A!ChangeRead,
         A!ChangeRevoke, A!AdminRead, A!Abandon
  <2> QED
    BY <2>3, <2>4, <2>5, <2>6, <2>7, <2>8, <2>9
<1>3. RefreshInv /\ EndedInv /\ [MCNext]_all =>
        [user.status = "inactive" /\ user'.status = "active" => \E r \in Requests : A!Reactivates(r)]_A!vars
  BY <1>2, StepOfParts DEF A!vars, accessVars
<1>4. RefreshInv /\ EndedInv /\ [MCNext]_all => [A!ResetEndsSessions']_accessVars
  BY <1>1, AccessNext, StepOfParts
<1> QED
  BY <1>3, <1>4, AccessHolds, PTL DEF MCSpec, SessionsStayEnded, A!DeactivatedStays

-----------------------------------------------------------------------------
(* A key of the public API (ApiKeys).                                      *)

CallPlaces == {"idle", "log"} \cup K!Checking \cup K!Logging
Keys == [status : K!KeyStatuses, expiry : {"none", "future", "past"}]
Asks ==
    [at : CallPlaces, mine : Nat, read : Nat, through : BOOLEAN, alone : BOOLEAN, late : BOOLEAN]
Given == [kind : K!Orders \cup {"none"}, seen : Keys, fresh : BOOLEAN]

Tallies == [through : Nat, lost : Nat, calls : Nat, orders : Nat, errors : Nat]

KeyTypes ==
    /\ key \in Keys /\ call \in [Requests -> Asks] /\ change \in [Admins -> Given]
    /\ bucket \in Nat /\ logs \in Nat /\ summary \in Nat
    /\ redisDisabled \in BOOLEAN /\ revoked \in BOOLEAN /\ resumed \in BOOLEAN /\ settled \in BOOLEAN
    /\ tally \in Tallies

\* A key that was revoked is not active, and the order that was given last has the status
\* before its eyes, or one that has expired since.
KeyRefused ==
    /\ revoked => key.status # "active"
    /\ \A a \in Admins : change[a].kind # "none" /\ change[a].fresh =>
            key.status \in {change[a].seen.status, "expired"}
    /\ K!RevokedRefused

\* Once settled nobody is at the summary; who is there alone has the logs in hand.
Summed ==
    /\ settled =>
        /\ summary = logs /\ K!Highest(K!Threshold(logs)) \subseteq events
        /\ \A c \in Requests : call[c].at \notin K!Logging
    /\ \A c \in Requests : call[c].alone =>
        /\ call[c].at \in K!Logging
        /\ \A d \in Requests \ {c} : call[d].at \notin K!Logging
        /\ call[c].at \in {"find", "update", "alert"} => call[c].mine = logs
        /\ call[c].at = "update" => call[c].read = summary
        /\ call[c].at = "alert" => summary = logs

\* Who was let through is logged, lost, or about to be logged. By Redis no more are let
\* through than it has counted; by the logs one is, while there is place for it.
InUse == {c \in Requests : call[c].at = "use"}
ToLog == {c \in Requests : call[c].at = "log" /\ call[c].through}
ByLogs == \A c \in Requests : call[c].at = "count" => redisDisabled
LimitKept ==
    /\ ByLogs
    /\ tally.through <= logs + tally.lost + Cardinality(ToLog)
    /\ ~resumed =>
        /\ tally.through + Cardinality(InUse) <= DayLimit + Cardinality(Requests) - 1 + tally.lost
        /\ ~redisDisabled =>
            tally.through + Cardinality(InUse) <= bucket /\ tally.through + Cardinality(InUse) <= DayLimit

KeyFacts == KeyTypes /\ KeyRefused /\ Summed /\ LimitKept

\* The instance has its own name for the cardinality of a set.
LEMMA SameCardinality == \A some : K!Cardinality(some) = Cardinality(some)
                                  /\ (K!IsFiniteSet(some) <=> IsFiniteSet(some))
BY DEF K!Cardinality, Cardinality, K!IsFiniteSet, IsFiniteSet

\* What is counted of a failure.
LEMMA TallyLost ==
    ASSUME NEW row \in Tallies, NEW n \in Nat
    PROVE  /\ [row EXCEPT !.errors = @ + 1, !.lost = n] \in Tallies
           /\ [row EXCEPT !.errors = @ + 1, !.lost = n].lost = n
           /\ [row EXCEPT !.errors = @ + 1, !.lost = n].through = row.through
<1>1. PICK errors \in Nat : errors = row.errors + 1
  BY DEF Tallies
<1>2. [row EXCEPT !.errors = @ + 1, !.lost = n] = [row EXCEPT !.errors = errors, !.lost = n]
  BY <1>1
<1>3. /\ [row EXCEPT !.errors = errors, !.lost = n] \in Tallies
      /\ [row EXCEPT !.errors = errors, !.lost = n].lost = n
      /\ [row EXCEPT !.errors = errors, !.lost = n].through = row.through
  BY DEF Tallies
<1> QED
  BY <1>2, <1>3

LEMMA RequestsFinite == IsFiniteSet(Requests) /\ DayLimit \in Nat \ {0} /\ Cardinality(Requests) \in Nat
<1>1. IsFiniteSet(Requests) /\ DayLimit \in Nat \ {0}
  BY ServicesAssumption, SameCardinality DEF K!ApiKeysAssumption
<1> QED
  BY <1>1, FS_CardinalityType

\* Sets of requests are counted.
LEMMA Fewer ==
    ASSUME NEW most \in SUBSET Requests, NEW some \in SUBSET most
    PROVE  Cardinality(most) \in Nat /\ Cardinality(some) \in Nat /\ Cardinality(some) <= Cardinality(most)
<1>1. IsFiniteSet(most)
  BY RequestsFinite, FS_Subset
<1>2. IsFiniteSet(some) /\ Cardinality(some) <= Cardinality(most)
  BY <1>1, FS_Subset
<1> QED
  BY <1>1, <1>2, FS_CardinalityType

LEMMA OneMore ==
    ASSUME NEW most \in SUBSET Requests, NEW c \in Requests, c \notin most
    PROVE  Cardinality(most \cup {c}) = Cardinality(most) + 1
<1>1. IsFiniteSet(most)
  BY RequestsFinite, FS_Subset
<1> QED
  BY <1>1, FS_AddElement

LEMMA OneLess ==
    ASSUME NEW most \in SUBSET Requests, NEW c \in most
    PROVE  Cardinality(most \ {c}) = Cardinality(most) - 1
<1>1. IsFiniteSet(most)
  BY RequestsFinite, FS_Subset
<1> QED
  BY <1>1, FS_RemoveElement

\* Those with the key in use and those to be logged are different requests.
LEMMA UseAndLog ==
    /\ InUse \subseteq Requests /\ ToLog \subseteq Requests
    /\ Cardinality(InUse) \in Nat /\ Cardinality(ToLog) \in Nat
    /\ Cardinality(InUse) + Cardinality(ToLog) <= Cardinality(Requests)
<1>1. InUse \subseteq Requests /\ ToLog \subseteq Requests /\ InUse \cap ToLog = {}
  BY DEF InUse, ToLog
<1>2. IsFiniteSet(InUse) /\ IsFiniteSet(ToLog)
  BY <1>1, RequestsFinite, FS_Subset
<1>3. Cardinality(InUse \cup ToLog) = Cardinality(InUse) + Cardinality(ToLog)
  <2>1. Cardinality(InUse \cap ToLog) = 0
    BY <1>1, FS_EmptySet
  <2>2. Cardinality(InUse) \in Nat /\ Cardinality(ToLog) \in Nat
    BY <1>2, FS_CardinalityType
  <2>3. Cardinality(InUse \cup ToLog) = Cardinality(InUse) + Cardinality(ToLog) - Cardinality(InUse \cap ToLog)
    BY <1>2, FS_Union
  <2> QED
    BY <2>1, <2>2, <2>3
<1>4. Cardinality(InUse \cup ToLog) <= Cardinality(Requests)
  BY <1>1, Fewer
<1> QED
  BY <1>1, <1>2, <1>3, <1>4, FS_CardinalityType

\* Request c moves, and nobody else.
CallMoves(c) == call' \in [Requests -> Asks] /\ \A d \in Requests \ {c} : call'[d] = call[d]

LEMMA KeyGoes ==
    ASSUME KeyTypes, NEW c \in Requests, NEW place \in CallPlaces, K!Goes(c, place)
    PROVE  /\ CallMoves(c) /\ call'[c].at = place
           /\ call'[c].mine = call[c].mine /\ call'[c].read = call[c].read
           /\ call'[c].through <=> call[c].through
           /\ call'[c].alone <=> call[c].alone
           /\ call'[c].late <=> call[c].late
<1>1. call[c] \in Asks
  BY DEF KeyTypes, Tallies
<1>2. PICK new \in Asks : new = [call[c] EXCEPT !.at = place]
  BY <1>1 DEF Asks
<1>3. call' = [call EXCEPT ![c] = new]
  BY <1>2 DEF K!Goes, KeyTypes
<1>4. CallMoves(c) /\ call'[c] = new
  BY <1>3 DEF CallMoves, KeyTypes
<1> QED
  BY <1>1, <1>2, <1>4 DEF Asks

LEMMA KeyFree ==
    ASSUME KeyTypes, NEW c \in Requests, call' = [call EXCEPT ![c] = K!Free]
    PROVE  CallMoves(c) /\ call'[c] = K!Free
<1>1. K!Free \in Asks
  BY DEF K!Free, Asks, CallPlaces
<1> QED
  BY <1>1 DEF KeyTypes, CallMoves

LEMMA FreeTyped ==
    /\ K!Free \in Asks /\ K!Free.at = "idle"
    /\ ~K!Free.through /\ ~K!Free.alone /\ ~K!Free.late
BY DEF K!Free, Asks, CallPlaces

\* What is left of the summary for a step that is not about it.
LEMMA SummedQuiet ==
    ASSUME Summed, UNCHANGED <<logs, summary, events, settled>>,
           \A d \in Requests : \/ call'[d] = call[d]
                               \/ call'[d].at \notin K!Logging /\ ~call'[d].alone
    PROVE  Summed'
<1>1. settled => \A d \in Requests : call'[d].at \notin K!Logging
  BY DEF Summed
<1>2. ASSUME NEW c \in Requests, call'[c].alone
      PROVE  /\ call'[c].at \in K!Logging
             /\ \A d \in Requests \ {c} : call'[d].at \notin K!Logging
             /\ call'[c].at \in {"find", "update", "alert"} => call'[c].mine = logs'
             /\ call'[c].at = "update" => call'[c].read = summary'
             /\ call'[c].at = "alert" => summary' = logs'
  BY <1>2 DEF Summed
<1>3. settled => summary' = logs' /\ K!Highest(K!Threshold(logs')) \subseteq events'
  BY DEF Summed
<1> QED
  BY <1>1, <1>2, <1>3 DEF Summed

\* What is left of the refusals for a step that leaves the key and the orders alone.
LEMMA RefusedQuiet ==
    ASSUME KeyRefused, UNCHANGED <<key, change, revoked>>,
           \A d \in Requests : call'[d].late =>
                /\ call[d].late
                /\ call'[d].at \in K!Checking => call[d].at \in K!Checking
                /\ call'[d].through => call[d].through
    PROVE  KeyRefused'
BY DEF KeyRefused, K!RevokedRefused

\* What is left of the limit for a step that lets nobody through and counts nobody.
LEMMA LimitQuiet ==
    ASSUME KeyTypes, KeyTypes', LimitKept,
           InUse' \subseteq InUse, ToLog \subseteq ToLog',
           tally'.through = tally.through, tally'.lost = tally.lost, logs' = logs, bucket <= bucket',
           ~resumed' => ~resumed, ~resumed' /\ ~redisDisabled' => ~redisDisabled, ByLogs'
    PROVE  LimitKept'
<1>1. InUse \subseteq Requests /\ ToLog' \subseteq Requests
  BY DEF InUse, ToLog
<1>2. /\ Cardinality(InUse') <= Cardinality(InUse) /\ Cardinality(InUse) \in Nat /\ Cardinality(InUse') \in Nat
      /\ Cardinality(ToLog) <= Cardinality(ToLog') /\ Cardinality(ToLog) \in Nat /\ Cardinality(ToLog') \in Nat
  BY <1>1, Fewer
<1>3. /\ tally.through \in Nat /\ tally.lost \in Nat /\ logs \in Nat /\ bucket \in Nat /\ bucket' \in Nat
      /\ resumed \in BOOLEAN /\ redisDisabled \in BOOLEAN
  BY DEF KeyTypes, Tallies
<1> QED
  BY <1>2, <1>3, RequestsFinite DEF LimitKept

\* A request moves that is not at the summary and goes nowhere near it, while the key, the
\* orders and what has been let through stay as they are.
LEMMA CheckingStep ==
    ASSUME KeyFacts, KeyTypes', NEW c \in Requests, CallMoves(c),
           UNCHANGED <<key, change, revoked, logs, summary, events, settled>>,
           call'[c].at \notin K!Logging /\ ~call'[c].alone,
           call'[c].late => /\ call[c].late
                            /\ call'[c].at \in K!Checking => call[c].at \in K!Checking
                            /\ call'[c].through => call[c].through
    PROVE  Summed' /\ KeyRefused'
<1>1. Summed'
  BY SummedQuiet DEF KeyFacts, CallMoves
<1>2. KeyRefused'
  BY RefusedQuiet DEF KeyFacts, CallMoves
<1> QED
  BY <1>1, <1>2

LEMMA KeyInit ==
    ASSUME K!Init
    PROVE  KeyFacts
<1>1. KeyTypes
  <2>1. key \in Keys
    BY DEF K!Init, Keys, K!KeyStatuses
  <2>2. K!NoOrder \in Given
    BY DEF K!NoOrder, Given, Keys, K!KeyStatuses
  <2> QED
    BY <2>1, <2>2, FreeTyped DEF K!Init, KeyTypes, Tallies
<1>2. \A c \in Requests : call[c] = K!Free
  BY DEF K!Init
<1>3. \A a \in Admins : change[a].kind = "none"
  BY DEF K!Init, K!NoOrder
<1>4. /\ revoked = FALSE /\ logs = 0 /\ summary = 0 /\ events = {} /\ bucket = 0
      /\ tally.through = 0 /\ tally.lost = 0
  BY DEF K!Init
<1>5. KeyRefused
  BY <1>2, <1>3, <1>4, FreeTyped DEF KeyRefused, K!RevokedRefused
<1>6. K!Highest(K!Threshold(0)) = {}
  <2>1. K!Threshold(0) = {}
    BY RequestsFinite DEF K!Threshold, K!Thresholds
  <2> QED
    BY <2>1 DEF K!Highest
<1>7. Summed
  BY <1>2, <1>4, <1>6, FreeTyped DEF Summed, K!Logging
<1>8. InUse = {} /\ ToLog = {}
  BY <1>2, FreeTyped DEF InUse, ToLog
<1>9. Cardinality(InUse) = 0 /\ Cardinality(ToLog) = 0
  BY <1>8, FS_EmptySet
<1>10. LimitKept
  BY <1>2, <1>4, <1>9, RequestsFinite, FreeTyped DEF LimitKept, ByLogs
<1> QED
  BY <1>1, <1>5, <1>7, <1>10 DEF KeyFacts

\* The request is read in, refused, or goes on to be counted.
LEMMA CheckSteps ==
    ASSUME KeyFacts, NEW c \in Requests, K!Authenticate(c) \/ K!Expire(c) \/ K!RedisFails(c)
    PROVE  KeyFacts'
<1> USE DEF CallPlaces, K!Checking, K!Logging
<1>t. KeyTypes /\ call[c] \in Asks /\ key \in Keys
  BY DEF KeyFacts, KeyTypes
<1>1. CASE K!Authenticate(c)
  <2>1. PICK next \in {"log", "expire", "limit"} :
            /\ call' = [call EXCEPT ![c] = [K!Free EXCEPT !.at = next, !.late = revoked]]
            /\ key.status # "active" => next = "log"
    BY <1>1 DEF K!Authenticate
  <2>2. PICK new \in Asks : /\ call' = [call EXCEPT ![c] = new]
                            /\ new.at = next /\ ~new.through /\ ~new.alone /\ (new.late <=> revoked)
    <3>1. revoked \in BOOLEAN
      BY <1>t DEF KeyTypes, Tallies
    <3>2. PICK new \in Asks : new = [K!Free EXCEPT !.at = next, !.late = revoked]
      BY <3>1, FreeTyped DEF Asks
    <3>3. new.at = next /\ (new.through <=> K!Free.through) /\ (new.alone <=> K!Free.alone) /\ (new.late <=> revoked)
      BY <3>1, <3>2, FreeTyped DEF Asks
    <3> QED
      BY <2>1, <3>2, <3>3, FreeTyped
  <2>3. CallMoves(c) /\ call'[c] = new
    BY <1>t, <2>2 DEF KeyTypes, CallMoves
  <2>4. /\ K!At(c, "idle") /\ tally' = [tally EXCEPT !.calls = @ + 1]
        /\ UNCHANGED <<key, change, revoked, bucket, redisDisabled, resumed, logs, summary, events, settled>>
    BY <1>1 DEF K!Authenticate, K!counters, K!usage
  <2>5. KeyTypes'
    BY <1>t, <2>3, <2>4 DEF KeyTypes, Tallies, CallMoves
  <2>6. revoked => call'[c].at = "log"
    BY <2>1, <2>2, <2>3 DEF KeyFacts, KeyRefused
  <2>7. Summed'
    <3>1. \A d \in Requests : \/ call'[d] = call[d]
                              \/ call'[d].at \notin K!Logging /\ ~call'[d].alone
      BY <2>2, <2>3 DEF CallMoves
    <3> QED
      BY <2>4, <3>1, SummedQuiet DEF KeyFacts
  <2>8. KeyRefused'
    BY <2>2, <2>3, <2>4, <2>6 DEF KeyFacts, KeyRefused, K!RevokedRefused, CallMoves
  <2>9. InUse' \subseteq InUse /\ ToLog \subseteq ToLog' /\ ByLogs'
    BY <2>2, <2>3, <2>4 DEF InUse, ToLog, CallMoves, K!At, KeyFacts, LimitKept, ByLogs
  <2>10. tally'.through = tally.through /\ tally'.lost = tally.lost /\ bucket <= bucket'
    BY <1>t, <2>4 DEF KeyTypes, Tallies
  <2>11. LimitKept'
    BY <1>t, <2>4, <2>5, <2>9, <2>10, LimitQuiet DEF KeyFacts
  <2> QED
    BY <2>5, <2>7, <2>8, <2>11 DEF KeyFacts
<1>2. CASE K!Expire(c)
  <2>1. /\ K!At(c, "expire") /\ K!Goes(c, "log") /\ key' = [key EXCEPT !.status = "expired"]
        /\ UNCHANGED <<change, tally, revoked, bucket, redisDisabled, resumed, logs, summary, events, settled>>
    BY <1>2 DEF K!Expire, K!counters, K!usage
  <2>2. /\ CallMoves(c) /\ call'[c].at = "log" /\ call[c].at = "expire"
        /\ (call'[c].through <=> call[c].through) /\ (call'[c].alone <=> call[c].alone)
        /\ (call'[c].late <=> call[c].late)
    BY <1>t, <2>1, KeyGoes DEF K!At
  <2>3. key' \in Keys /\ key'.status = "expired"
    BY <1>t, <2>1 DEF Keys, K!KeyStatuses
  <2>4. KeyTypes'
    BY <1>t, <2>1, <2>2, <2>3 DEF KeyTypes, CallMoves
  <2>5. ~call[c].alone
    BY <2>2 DEF KeyFacts, Summed
  <2>6. Summed'
    <3>1. \A d \in Requests : \/ call'[d] = call[d]
                              \/ call'[d].at \notin K!Logging /\ ~call'[d].alone
      BY <2>2, <2>5 DEF CallMoves
    <3> QED
      BY <2>1, <3>1, SummedQuiet DEF KeyFacts
  <2>7. KeyRefused'
    BY <2>1, <2>2, <2>3 DEF KeyFacts, KeyRefused, K!RevokedRefused, CallMoves
  <2>8. InUse' \subseteq InUse /\ ToLog \subseteq ToLog' /\ ByLogs' /\ bucket <= bucket'
    BY <1>t, <2>1, <2>2 DEF InUse, ToLog, CallMoves, KeyTypes, KeyFacts, LimitKept, ByLogs
  <2>9. LimitKept'
    BY <1>t, <2>1, <2>4, <2>8, LimitQuiet DEF KeyFacts
  <2> QED
    BY <2>4, <2>6, <2>7, <2>9 DEF KeyFacts
<1>3. CASE K!RedisFails(c)
  <2>1. /\ K!At(c, "limit") /\ K!Goes(c, "count") /\ redisDisabled' = TRUE
        /\ tally' = [tally EXCEPT !.errors = @ + 1]
        /\ UNCHANGED <<key, change, revoked, resumed, logs, summary, events, settled>>
    BY <1>3 DEF K!RedisFails, K!Fault, K!usage
  <2>2. bucket' \in Nat /\ bucket <= bucket'
    <3>1. PICK more \in {0, 1} : bucket' = bucket + more
      BY <1>3 DEF K!RedisFails
    <3> QED
      BY <1>t, <3>1 DEF KeyTypes, Tallies
  <2>3. /\ CallMoves(c) /\ call'[c].at = "count" /\ call[c].at = "limit"
        /\ (call'[c].through <=> call[c].through) /\ (call'[c].alone <=> call[c].alone)
        /\ (call'[c].late <=> call[c].late)
    BY <1>t, <2>1, KeyGoes DEF K!At
  <2>4. KeyTypes'
    BY <1>t, <2>1, <2>2, <2>3 DEF KeyTypes, Tallies, CallMoves
  <2>5. ~call[c].alone
    BY <2>3 DEF KeyFacts, Summed
  <2>6. Summed' /\ KeyRefused'
    BY <2>1, <2>3, <2>4, <2>5, CheckingStep
  <2>7. InUse' \subseteq InUse /\ ToLog \subseteq ToLog' /\ ByLogs'
    BY <2>1, <2>3 DEF InUse, ToLog, CallMoves, ByLogs
  <2>8. tally'.through = tally.through /\ tally'.lost = tally.lost
    BY <1>t, <2>1 DEF KeyTypes, Tallies
  <2>9. LimitKept'
    BY <1>t, <2>1, <2>2, <2>4, <2>7, <2>8, LimitQuiet DEF KeyFacts
  <2> QED
    BY <2>4, <2>6, <2>9 DEF KeyFacts
<1> QED
  BY <1>1, <1>2, <1>3

\* Redis or the logs let the request through, or refuse it.
LEMMA LimitSteps ==
    ASSUME KeyFacts, NEW c \in Requests, K!LimitByRedis(c) \/ K!LimitByLogs(c)
    PROVE  KeyFacts'
<1> USE DEF CallPlaces, K!Checking, K!Logging
<1>t. KeyTypes /\ call[c] \in Asks
  BY DEF KeyFacts, KeyTypes
<1>1. PICK to \in {"log", "use"} :
        /\ K!Goes(c, to) /\ call[c].at \in {"limit", "count"}
        /\ to = "use" => \/ ~redisDisabled /\ bucket' = bucket + 1 /\ bucket' <= DayLimit
                         \/ (call[c].at = "count" \/ redisDisabled) /\ logs < DayLimit
  <2>1. CASE K!LimitByRedis(c)
    <3>1. bucket' = bucket + 1 /\ ~redisDisabled /\ call[c].at = "limit"
          /\ K!Goes(c, IF bucket' > DayLimit THEN "log" ELSE "use")
      BY <2>1 DEF K!LimitByRedis, K!At
    <3> QED
      BY <1>t, <3>1, RequestsFinite DEF KeyTypes, Tallies
  <2>2. CASE K!LimitByLogs(c)
    <3>1. /\ call[c].at = "count" \/ (call[c].at = "limit" /\ redisDisabled)
          /\ K!Goes(c, IF logs >= DayLimit THEN "log" ELSE "use")
      BY <2>2 DEF K!LimitByLogs, K!At
    <3> QED
      BY <1>t, <3>1, RequestsFinite DEF KeyTypes, Tallies
  <2> QED
    BY <2>1, <2>2
<1>2. /\ UNCHANGED <<key, change, tally, revoked, redisDisabled, resumed, logs, summary, events, settled>>
      /\ bucket' \in Nat /\ bucket <= bucket'
  BY <1>t DEF K!LimitByRedis, K!LimitByLogs, K!usage, K!counters, KeyTypes
<1>3. /\ CallMoves(c) /\ call'[c].at = to
      /\ (call'[c].through <=> call[c].through) /\ (call'[c].alone <=> call[c].alone)
      /\ (call'[c].late <=> call[c].late)
  BY <1>t, <1>1, KeyGoes
<1>4. KeyTypes'
  BY <1>t, <1>2, <1>3 DEF KeyTypes, CallMoves
<1>5. ~call[c].alone
  BY <1>1 DEF KeyFacts, Summed
<1>6. Summed' /\ KeyRefused'
  BY <1>1, <1>2, <1>3, <1>4, <1>5, CheckingStep
<1>7. c \notin InUse /\ c \notin ToLog /\ ToLog \subseteq ToLog'
  BY <1>1, <1>3 DEF InUse, ToLog, CallMoves
<1>b. ByLogs'
  BY <1>1, <1>2, <1>3 DEF CallMoves, KeyFacts, LimitKept, ByLogs
<1>8. CASE to = "log"
  <2>1. InUse' \subseteq InUse
    BY <1>3, <1>8 DEF InUse, CallMoves
  <2>2. LimitKept'
    BY <1>t, <1>2, <1>4, <1>7, <1>b, <2>1, LimitQuiet DEF KeyFacts
  <2> QED
    BY <1>4, <1>6, <2>2 DEF KeyFacts
<1>9. CASE to = "use"
  <2>1. InUse' = InUse \cup {c} /\ ToLog' = ToLog
    BY <1>1, <1>3, <1>7, <1>9 DEF InUse, ToLog, CallMoves
  <2>2. Cardinality(InUse') = Cardinality(InUse) + 1
    BY <1>7, <2>1, UseAndLog, OneMore
  <2>3. /\ Cardinality(InUse) \in Nat /\ Cardinality(ToLog) \in Nat
        /\ Cardinality(InUse) + 1 + Cardinality(ToLog) <= Cardinality(Requests)
    <3>1. InUse \cup {c} \subseteq Requests \ ToLog
      BY <1>7 DEF InUse, ToLog
    <3>2. Cardinality(Requests \ ToLog) = Cardinality(Requests) - Cardinality(ToLog)
      <4>1. Requests \cap ToLog = ToLog
        BY DEF ToLog
      <4> QED
        BY <4>1, RequestsFinite, FS_Difference
    <3>3. Cardinality(InUse \cup {c}) <= Cardinality(Requests \ ToLog)
      BY <3>1, Fewer
    <3> QED
      BY <2>1, <2>2, <3>2, <3>3, UseAndLog, RequestsFinite
  <2>4. /\ tally.through \in Nat /\ tally.lost \in Nat /\ logs \in Nat /\ bucket \in Nat
        /\ resumed \in BOOLEAN /\ redisDisabled \in BOOLEAN
    BY <1>t DEF KeyTypes, Tallies
  <2>5. tally'.through = tally.through /\ tally'.lost = tally.lost /\ logs' = logs
        /\ resumed' = resumed /\ redisDisabled' = redisDisabled
    BY <1>2
  <2>6. tally.through <= logs + tally.lost + Cardinality(ToLog)
    BY DEF KeyFacts, LimitKept
  <2>7. CASE ~redisDisabled /\ bucket' = bucket + 1 /\ bucket' <= DayLimit
    <3>1. ~resumed => tally.through + Cardinality(InUse) <= bucket
      BY <2>7 DEF KeyFacts, LimitKept
    <3>2. ~resumed => /\ tally.through + Cardinality(InUse) + 1 <= bucket'
                      /\ tally.through + Cardinality(InUse) + 1 <= DayLimit
      BY <2>3, <2>4, <2>7, <3>1, RequestsFinite
    <3>3. ~resumed => tally.through + Cardinality(InUse) + 1
                        <= DayLimit + Cardinality(Requests) - 1 + tally.lost
      BY <2>3, <2>4, <3>2, RequestsFinite
    <3>4. LimitKept'
      BY <1>b, <2>1, <2>2, <2>3, <2>4, <2>5, <2>6, <3>2, <3>3 DEF LimitKept
    <3> QED
      BY <1>4, <1>6, <3>4 DEF KeyFacts
  <2>8. CASE (call[c].at = "count" \/ redisDisabled) /\ logs < DayLimit
    <3>1. tally.through + Cardinality(InUse) + 1 <= DayLimit + Cardinality(Requests) - 1 + tally.lost
      BY <2>3, <2>4, <2>6, <2>8, RequestsFinite
    <3>2. redisDisabled
      BY <2>8 DEF KeyFacts, LimitKept, ByLogs
    <3>3. LimitKept'
      BY <1>b, <2>1, <2>2, <2>3, <2>4, <2>5, <2>6, <3>1, <3>2 DEF LimitKept
    <3> QED
      BY <1>4, <1>6, <3>3 DEF KeyFacts
  <2> QED
    BY <1>1, <1>9, <2>7, <2>8
<1> QED
  BY <1>1, <1>8, <1>9

\* The request is answered, and counts as let through until it is logged.
LEMMA UseStep ==
    ASSUME KeyFacts, NEW c \in Requests, K!Use(c)
    PROVE  KeyFacts'
<1> USE DEF CallPlaces, K!Checking, K!Logging
<1>t. KeyTypes /\ call[c] \in Asks
  BY DEF KeyFacts, KeyTypes
<1>1. /\ call[c].at = "use" /\ tally' = [tally EXCEPT !.through = @ + 1]
      /\ call' = [call EXCEPT ![c].at = "log", ![c].through = TRUE]
      /\ UNCHANGED <<key, change, revoked, bucket, redisDisabled, resumed, logs, summary, events, settled>>
  BY DEF K!Use, K!At, K!counters, K!usage
<1>2. PICK new \in Asks : /\ new = [call[c] EXCEPT !.at = "log", !.through = TRUE]
  BY <1>t DEF Asks
<1>3. new.at = "log" /\ new.through /\ (new.alone <=> call[c].alone) /\ (new.late <=> call[c].late)
  BY <1>t, <1>2 DEF Asks
<1>4. CallMoves(c) /\ call'[c] = new
  BY <1>t, <1>1, <1>2 DEF KeyTypes, CallMoves
<1>5. tally'.through = tally.through + 1 /\ tally'.lost = tally.lost
  BY <1>t, <1>1 DEF KeyTypes, Tallies
<1>6. KeyTypes'
  BY <1>t, <1>1, <1>4 DEF KeyTypes, Tallies, CallMoves
<1>7. ~call[c].alone /\ ~call[c].late
  BY <1>1 DEF KeyFacts, Summed, KeyRefused, K!RevokedRefused
<1>8. Summed' /\ KeyRefused'
  BY <1>1, <1>3, <1>4, <1>6, <1>7, CheckingStep
<1>9. /\ c \in InUse /\ InUse' = InUse \ {c}
      /\ c \notin ToLog /\ ToLog' = ToLog \cup {c}
  BY <1>1, <1>3, <1>4 DEF InUse, ToLog, CallMoves
<1>10. /\ Cardinality(InUse') = Cardinality(InUse) - 1 /\ Cardinality(ToLog') = Cardinality(ToLog) + 1
       /\ Cardinality(InUse) \in Nat /\ Cardinality(ToLog) \in Nat
  BY <1>9, UseAndLog, OneMore, OneLess
<1>11. ByLogs'
  BY <1>1, <1>3, <1>4 DEF KeyFacts, LimitKept, ByLogs, CallMoves
<1>12. LimitKept'
  <2>1. /\ tally.through \in Nat /\ tally.lost \in Nat /\ logs \in Nat /\ bucket \in Nat
        /\ resumed \in BOOLEAN /\ redisDisabled \in BOOLEAN
    BY <1>t DEF KeyTypes, Tallies
  <2>2. logs' = logs /\ bucket' = bucket /\ resumed' = resumed /\ redisDisabled' = redisDisabled
    BY <1>1
  <2> QED
    BY <1>5, <1>10, <1>11, <2>1, <2>2, RequestsFinite DEF KeyFacts, LimitKept
<1> QED
  BY <1>6, <1>8, <1>12 DEF KeyFacts

\* The request is logged: it is the last at the summary, and those before it are not alone now.
LEMMA LogStep ==
    ASSUME KeyFacts, NEW c \in Requests, K!Log(c)
    PROVE  KeyFacts'
<1> USE DEF CallPlaces, K!Checking, K!Logging
<1>t. KeyTypes /\ \A d \in Requests : call[d] \in Asks
  BY DEF KeyFacts, KeyTypes
<1>1. PICK alone \in BOOLEAN :
        /\ alone => \A d \in Requests : call[d].at \notin K!Logging
        /\ call' = [d \in Requests |-> IF d = c THEN [call[c] EXCEPT !.at = "sum", !.alone = alone]
                                       ELSE [call[d] EXCEPT !.alone = FALSE]]
  <2>1. PICK alone \in BOOLEAN : alone = \A d \in Requests : call[d].at \notin K!Logging
    OBVIOUS
  <2> QED
    BY <2>1 DEF K!Log
<1>2. /\ call[c].at = "log" /\ logs' = logs + 1 /\ settled' = FALSE
      /\ UNCHANGED <<key, change, tally, revoked, bucket, redisDisabled, resumed, summary, events>>
  BY DEF K!Log, K!At, K!counters
<1>3. /\ \A d \in Requests \ {c} :
            /\ call'[d] \in Asks /\ call'[d].at = call[d].at /\ ~call'[d].alone
            /\ (call'[d].through <=> call[d].through) /\ (call'[d].late <=> call[d].late)
      /\ call'[c] \in Asks /\ call'[c].at = "sum" /\ (call'[c].alone <=> alone)
      /\ (call'[c].through <=> call[c].through) /\ (call'[c].late <=> call[c].late)
  BY <1>t, <1>1 DEF Asks
<1>4. KeyTypes'
  <2>1. call' \in [Requests -> Asks]
    BY <1>1, <1>3
  <2>2. logs \in Nat
    BY <1>t DEF KeyTypes, Tallies
  <2>3. logs' \in Nat
    BY <1>2, <2>2
  <2>4. settled' \in BOOLEAN
    BY <1>2, Zenon
  <2> QED
    BY <1>t, <1>2, <2>1, <2>3, <2>4 DEF KeyTypes, Tallies
<1>5. Summed'
  BY <1>1, <1>2, <1>3 DEF Summed
<1>6. KeyRefused'
  <2>1. \A d \in Requests : call'[d].late =>
                /\ call[d].late
                /\ call'[d].at \in K!Checking => call[d].at \in K!Checking
                /\ call'[d].through => call[d].through
    BY <1>3
  <2> QED
    BY <1>2, <2>1, RefusedQuiet DEF KeyFacts
<1>7. InUse' = InUse /\ ToLog \ {c} = ToLog' /\ ByLogs'
  BY <1>2, <1>3 DEF InUse, ToLog, KeyFacts, LimitKept, ByLogs
<1>8. Cardinality(ToLog) <= Cardinality(ToLog') + 1 /\ Cardinality(ToLog) \in Nat /\ Cardinality(ToLog') \in Nat
  <2>1. CASE c \in ToLog
    <3>1. ToLog \in SUBSET Requests /\ ToLog' \in SUBSET ToLog
      BY <1>7, UseAndLog
    <3>2. Cardinality(ToLog') \in Nat /\ Cardinality(ToLog) \in Nat
      BY <3>1, Fewer
    <3>3. Cardinality(ToLog') = Cardinality(ToLog) - 1
      BY <1>7, <2>1, <3>1, OneLess
    <3> QED
      BY <3>2, <3>3
  <2>2. CASE c \notin ToLog
    <3>1. ToLog' = ToLog
      BY <1>7, <2>2
    <3> QED
      BY <3>1, UseAndLog
  <2> QED
    BY <2>1, <2>2
<1>9. LimitKept'
  <2>1. /\ tally.through \in Nat /\ tally.lost \in Nat /\ logs \in Nat
    BY <1>t DEF KeyTypes, Tallies
  <2>2. bucket' = bucket /\ resumed' = resumed /\ redisDisabled' = redisDisabled /\ tally' = tally
    BY <1>2
  <2>3. tally.through <= logs' + tally.lost + Cardinality(ToLog')
    BY <1>2, <1>8, <2>1 DEF KeyFacts, LimitKept
  <2> QED
    BY <1>7, <2>2, <2>3 DEF KeyFacts, LimitKept
<1> QED
  BY <1>4, <1>5, <1>6, <1>9 DEF KeyFacts

\* A step of one request between the log and its end, or a failure: the limit and the
\* refusals stay.
LEMMA LoggingRest ==
    ASSUME KeyFacts, KeyTypes', NEW c \in Requests, CallMoves(c),
           call[c].at \in K!Logging \cup K!Checking,
           call'[c].at \in K!Logging \cup {"log", "idle"},
           call'[c].late => call[c].late /\ (call'[c].through => call[c].through),
           UNCHANGED <<key, change, revoked, bucket, redisDisabled, resumed, logs>>,
           tally'.through = tally.through, tally'.lost = tally.lost
    PROVE  KeyRefused' /\ LimitKept'
<1> USE DEF CallPlaces, K!Checking, K!Logging
<1>1. KeyRefused'
  <2>1. \A d \in Requests : call'[d].late =>
                /\ call[d].late
                /\ call'[d].at \in K!Checking => call[d].at \in K!Checking
                /\ call'[d].through => call[d].through
    BY DEF CallMoves
  <2> QED
    BY <2>1, RefusedQuiet DEF KeyFacts
<1>2. InUse' \subseteq InUse /\ ToLog \subseteq ToLog' /\ ByLogs'
  BY DEF InUse, ToLog, CallMoves, KeyFacts, LimitKept, ByLogs
<1>3. bucket <= bucket'
  BY DEF KeyFacts, KeyTypes
<1>4. LimitKept'
  BY <1>2, <1>3, LimitQuiet DEF KeyFacts
<1> QED
  BY <1>1, <1>4

LEMMA SummarySteps ==
    ASSUME KeyFacts, NEW c \in Requests,
           K!ReadLogs(c) \/ K!FindOrCreate(c) \/ K!Update(c) \/ K!RecordAlert(c)
    PROVE  KeyFacts'
<1> USE DEF CallPlaces, K!Checking, K!Logging
<1>t. KeyTypes /\ call[c] \in Asks /\ logs \in Nat /\ summary \in Nat /\ call[c].mine \in Nat
  BY DEF KeyFacts, KeyTypes, Asks
<1>u. /\ UNCHANGED <<key, change, tally, revoked, bucket, redisDisabled, resumed, logs>>
      /\ tally'.through = tally.through /\ tally'.lost = tally.lost
  BY DEF K!ReadLogs, K!FindOrCreate, K!Update, K!RecordAlert, K!counters, K!usage
<1>1. CASE K!ReadLogs(c)
  <2>1. /\ call[c].at = "sum" /\ call' = [call EXCEPT ![c].at = "find", ![c].mine = logs]
        /\ UNCHANGED <<summary, events, settled>>
    BY <1>1 DEF K!ReadLogs, K!At, K!usage
  <2>2. PICK new \in Asks : new = [call[c] EXCEPT !.at = "find", !.mine = logs]
    BY <1>t DEF Asks
  <2>3. /\ new.at = "find" /\ new.mine = logs /\ (new.alone <=> call[c].alone) /\ (new.late <=> call[c].late)
        /\ (new.through <=> call[c].through)
    BY <1>t, <2>2 DEF Asks
  <2>4. CallMoves(c) /\ call'[c] = new
    BY <1>t, <2>1, <2>2 DEF KeyTypes, CallMoves
  <2>5. KeyTypes'
    BY <1>t, <1>u, <2>1, <2>4 DEF KeyTypes, CallMoves
  <2>6. KeyRefused' /\ LimitKept'
    BY <1>u, <2>1, <2>3, <2>4, <2>5, LoggingRest
  <2>7. Summed'
    BY <1>u, <2>1, <2>3, <2>4 DEF KeyFacts, Summed, CallMoves
  <2> QED
    BY <2>5, <2>6, <2>7 DEF KeyFacts
<1>2. CASE K!FindOrCreate(c)
  <2>1. /\ call[c].at = "find" /\ summary' = (IF summary = 0 THEN call[c].mine ELSE summary)
        /\ call' = [call EXCEPT ![c].at = "update", ![c].read = summary']
        /\ UNCHANGED <<events, settled>>
    BY <1>2 DEF K!FindOrCreate, K!At
  <2>2. summary' \in Nat
    BY <1>t, <2>1
  <2>3. PICK new \in Asks : new = [call[c] EXCEPT !.at = "update", !.read = summary']
    BY <1>t, <2>2 DEF Asks
  <2>4. /\ new.at = "update" /\ new.mine = call[c].mine /\ new.read = summary'
        /\ (new.alone <=> call[c].alone) /\ (new.late <=> call[c].late) /\ (new.through <=> call[c].through)
    BY <1>t, <2>2, <2>3 DEF Asks
  <2>5. CallMoves(c) /\ call'[c] = new
    BY <1>t, <2>1, <2>3 DEF KeyTypes, CallMoves
  <2>6. KeyTypes'
    BY <1>t, <1>u, <2>1, <2>2, <2>5 DEF KeyTypes, CallMoves
  <2>7. KeyRefused' /\ LimitKept'
    BY <1>u, <2>1, <2>4, <2>5, <2>6, LoggingRest
  <2>8. ~settled /\ \A d \in Requests \ {c} : ~call[d].alone
    BY <2>1 DEF KeyFacts, Summed
  <2>9. Summed'
    BY <1>u, <2>1, <2>4, <2>5, <2>8 DEF KeyFacts, Summed, CallMoves
  <2> QED
    BY <2>6, <2>7, <2>9 DEF KeyFacts
<1>3. CASE K!Update(c)
  <2>1. /\ call[c].at = "update" /\ K!Goes(c, "alert")
        /\ summary' = (IF call[c].mine = call[c].read THEN summary ELSE call[c].mine)
        /\ UNCHANGED <<events, settled>>
    BY <1>3 DEF K!Update, K!At
  <2>2. summary' \in Nat
    BY <1>t, <2>1
  <2>3. /\ CallMoves(c) /\ call'[c].at = "alert" /\ call'[c].mine = call[c].mine
        /\ (call'[c].through <=> call[c].through) /\ (call'[c].alone <=> call[c].alone)
        /\ (call'[c].late <=> call[c].late)
    BY <1>t, <2>1, KeyGoes
  <2>4. KeyTypes'
    BY <1>t, <1>u, <2>1, <2>2, <2>3 DEF KeyTypes, CallMoves
  <2>5. KeyRefused' /\ LimitKept'
    BY <1>u, <2>1, <2>3, <2>4, LoggingRest
  <2>6. ~settled /\ \A d \in Requests \ {c} : ~call[d].alone
    BY <2>1 DEF KeyFacts, Summed
  <2>7. call[c].alone => call[c].mine = logs /\ call[c].read = summary
    BY <2>1 DEF KeyFacts, Summed
  <2>8. call[c].alone => summary' = logs /\ \A d \in Requests \ {c} : call[d].at \notin K!Logging
    BY <2>1, <2>7 DEF KeyFacts, Summed
  <2>9. Summed'
    BY <1>u, <2>1, <2>3, <2>6, <2>7, <2>8 DEF Summed, CallMoves
  <2> QED
    BY <2>4, <2>5, <2>9 DEF KeyFacts
<1>4. CASE K!RecordAlert(c)
  <2>1. /\ call[c].at = "alert" /\ events' = events \cup K!Highest(K!Threshold(call[c].mine))
        /\ call' = [call EXCEPT ![c] = K!Free] /\ settled' = (settled \/ call[c].alone)
        /\ UNCHANGED summary
    BY <1>4 DEF K!RecordAlert, K!At
  <2>2. CallMoves(c) /\ call'[c] = K!Free
    BY <1>t, <2>1, KeyFree
  <2>3. KeyTypes'
    <3>1. settled' \in BOOLEAN
      BY <2>1
    <3> QED
      BY <1>t, <1>u, <2>1, <2>2, <3>1 DEF KeyTypes, CallMoves
  <2>4. KeyRefused' /\ LimitKept'
    BY <1>u, <2>1, <2>2, <2>3, FreeTyped, LoggingRest
  <2>5. ~settled /\ \A d \in Requests \ {c} : ~call[d].alone
    BY <2>1 DEF KeyFacts, Summed
  <2>6. call[c].alone => /\ summary = logs /\ call[c].mine = logs
                         /\ \A d \in Requests \ {c} : call[d].at \notin K!Logging
    BY <2>1 DEF KeyFacts, Summed
  <2>7. \A d \in Requests : ~call'[d].alone
    BY <2>2, <2>5, FreeTyped DEF CallMoves
  <2>8. settled' => /\ summary = logs /\ K!Highest(K!Threshold(logs)) \subseteq events'
                    /\ \A d \in Requests : call'[d].at \notin K!Logging
    BY <2>1, <2>2, <2>5, <2>6, FreeTyped DEF CallMoves
  <2>9. Summed'
    BY <1>u, <2>1, <2>7, <2>8 DEF Summed
  <2> QED
    BY <2>3, <2>4, <2>9 DEF KeyFacts
<1> QED
  BY <1>1, <1>2, <1>3, <1>4

\* What a failure or a restart takes away.
LEMMA BreakSteps ==
    ASSUME KeyFacts, NEW c \in Requests, K!Breaks(c) \/ K!LogLost(c)
    PROVE  KeyFacts'
<1> USE DEF CallPlaces, K!Checking, K!Logging
<1>t. KeyTypes /\ call[c] \in Asks
  BY DEF KeyFacts, KeyTypes
<1>u. UNCHANGED <<key, change, revoked, bucket, redisDisabled, resumed, logs, summary, events, settled>>
  BY DEF K!Breaks, K!LogLost, K!counters, K!usage
<1>1. CASE K!Breaks(c)
  <2>1. /\ tally' = [tally EXCEPT !.errors = @ + 1]
        /\ \/ call[c].at \in K!Checking /\ K!Goes(c, "log")
           \/ call[c].at \in K!Logging /\ call' = [call EXCEPT ![c] = K!Free]
    BY <1>1 DEF K!Breaks, K!Fault
  <2>2. /\ CallMoves(c) /\ call[c].at \in K!Checking \cup K!Logging /\ call'[c].at \in {"log", "idle"}
        /\ ~call'[c].alone
        /\ call'[c].late => call[c].late /\ (call'[c].through => call[c].through)
    <3>1. CASE call[c].at \in K!Checking /\ K!Goes(c, "log")
      <4>1. ~call[c].alone
        BY <3>1 DEF KeyFacts, Summed
      <4> QED
        BY <1>t, <3>1, <4>1, KeyGoes
    <3>2. CASE call[c].at \in K!Logging /\ call' = [call EXCEPT ![c] = K!Free]
      BY <1>t, <3>2, KeyFree, FreeTyped
    <3> QED
      BY <2>1, <3>1, <3>2
  <2>3. tally'.through = tally.through /\ tally'.lost = tally.lost
    BY <1>t, <2>1 DEF KeyTypes, Tallies
  <2>4. KeyTypes'
    BY <1>t, <1>u, <2>1, <2>2 DEF KeyTypes, Tallies, CallMoves
  <2>5. KeyRefused' /\ LimitKept'
    BY <1>u, <2>2, <2>3, <2>4, LoggingRest
  <2>6. Summed'
    <3>1. \A d \in Requests : \/ call'[d] = call[d]
                              \/ call'[d].at \notin K!Logging /\ ~call'[d].alone
      BY <2>2 DEF CallMoves
    <3> QED
      BY <1>u, <3>1, SummedQuiet DEF KeyFacts
  <2> QED
    BY <2>4, <2>5, <2>6 DEF KeyFacts
<1>2. CASE K!LogLost(c)
  <2>1. /\ call[c].at = "log" /\ call' = [call EXCEPT ![c] = K!Free]
        /\ tally' = [tally EXCEPT !.errors = @ + 1, !.lost = @ + IF call[c].through THEN 1 ELSE 0]
    BY <1>2 DEF K!LogLost, K!At
  <2>2. CallMoves(c) /\ call'[c] = K!Free
    BY <1>t, <2>1, KeyFree
  <2>3. PICK gone \in {0, 1} : gone = IF call[c].through THEN 1 ELSE 0
    OBVIOUS
  <2>4. /\ tally'.through = tally.through /\ tally'.lost = tally.lost + gone
        /\ tally' \in Tallies
    <3>1. PICK lost \in Nat : lost = tally.lost + gone
      BY <1>t, <2>3 DEF KeyTypes, Tallies
    <3>2. tally' = [tally EXCEPT !.errors = @ + 1, !.lost = lost]
      BY <1>t, <2>1, <2>3, <3>1 DEF KeyTypes, Tallies
    <3> QED
      BY <1>t, <3>1, <3>2, TallyLost DEF KeyTypes
  <2>5. KeyTypes'
    BY <1>t, <1>u, <2>2, <2>4 DEF KeyTypes, CallMoves
  <2>6. Summed' /\ KeyRefused'
    BY <1>u, <2>2, <2>5, FreeTyped, CheckingStep
  <2>7. InUse' = InUse /\ ToLog' = ToLog \ {c} /\ (c \in ToLog <=> gone = 1) /\ ByLogs'
    BY <1>u, <2>1, <2>2, <2>3, FreeTyped DEF InUse, ToLog, CallMoves, KeyFacts, LimitKept, ByLogs
  <2>8. /\ Cardinality(ToLog) = Cardinality(ToLog') + gone
        /\ Cardinality(ToLog) \in Nat /\ Cardinality(ToLog') \in Nat /\ Cardinality(InUse) \in Nat
    <3>1. CASE c \in ToLog
      <4>1. ToLog \in SUBSET Requests /\ ToLog' \in SUBSET ToLog
        BY <2>7, UseAndLog
      <4>2. Cardinality(ToLog') \in Nat /\ Cardinality(ToLog) \in Nat
        BY <4>1, Fewer
      <4>3. Cardinality(ToLog') = Cardinality(ToLog) - 1
        BY <2>7, <3>1, <4>1, OneLess
      <4> QED
        BY <2>7, <3>1, <4>2, <4>3, UseAndLog
    <3>2. CASE c \notin ToLog
      <4>1. ToLog' = ToLog /\ gone = 0
        BY <2>7, <3>2
      <4> QED
        BY <4>1, UseAndLog
    <3> QED
      BY <3>1, <3>2
  <2>9. LimitKept'
    <3>1. /\ tally.through \in Nat /\ tally.lost \in Nat /\ logs \in Nat /\ bucket \in Nat
      BY <1>t DEF KeyTypes, Tallies
    <3>2. tally'.through <= logs + tally'.lost + Cardinality(ToLog')
      BY <2>4, <2>8, <3>1 DEF KeyFacts, LimitKept
    <3>3. Cardinality(InUse') = Cardinality(InUse) /\ tally.lost <= tally'.lost /\ tally'.lost \in Nat
      BY <2>4, <2>7, <3>1
    <3>4. ~resumed => tally'.through + Cardinality(InUse') <= DayLimit + Cardinality(Requests) - 1 + tally'.lost
      BY <2>4, <2>8, <3>1, <3>3, RequestsFinite DEF KeyFacts, LimitKept
    <3>5. ~resumed /\ ~redisDisabled =>
            /\ tally'.through + Cardinality(InUse') <= bucket
            /\ tally'.through + Cardinality(InUse') <= DayLimit
      BY <2>4, <3>3 DEF KeyFacts, LimitKept
    <3>6. logs' = logs /\ bucket' = bucket /\ resumed' = resumed /\ redisDisabled' = redisDisabled
      BY <1>u
    <3> QED
      BY <2>7, <3>2, <3>4, <3>5, <3>6 DEF LimitKept
  <2> QED
    BY <2>5, <2>6, <2>9 DEF KeyFacts
<1> QED
  BY <1>1, <1>2

LEMMA RestartStep ==
    ASSUME KeyFacts, K!Restart
    PROVE  KeyFacts'
<1>t. KeyTypes
  BY DEF KeyFacts
<1>1. /\ tally' = [tally EXCEPT !.errors = @ + 1, !.lost = @ + Cardinality(ToLog)]
      /\ call' = [c \in Requests |-> K!Free] /\ change' = [a \in Admins |-> K!NoOrder]
      /\ resumed' = (resumed \/ redisDisabled) /\ redisDisabled' = FALSE
      /\ UNCHANGED <<key, bucket, revoked, logs, summary, events, settled>>
  BY SameCardinality DEF K!Restart, K!usage, K!At, ToLog
<1>2. /\ tally'.through = tally.through /\ tally'.lost = tally.lost + Cardinality(ToLog)
      /\ tally' \in Tallies
  <2>1. PICK lost \in Nat : lost = tally.lost + Cardinality(ToLog)
    BY <1>t, UseAndLog DEF KeyTypes, Tallies
  <2>2. tally' = [tally EXCEPT !.errors = @ + 1, !.lost = lost]
    BY <1>t, <1>1, <2>1 DEF KeyTypes, Tallies
  <2> QED
    BY <1>t, <2>1, <2>2, TallyLost DEF KeyTypes
<1>3. K!NoOrder \in Given /\ K!NoOrder.kind = "none"
  BY DEF K!NoOrder, Given, Keys, K!KeyStatuses
<1>4. /\ \A c \in Requests : call'[c] = K!Free
      /\ \A a \in Admins : change'[a] = K!NoOrder
      /\ call' \in [Requests -> Asks] /\ change' \in [Admins -> Given]
  BY <1>1, <1>3, FreeTyped
<1>5. KeyTypes'
  <2>1. resumed' \in BOOLEAN
    BY <1>1
  <2> QED
    BY <1>t, <1>1, <1>2, <1>4, <2>1 DEF KeyTypes, Tallies
<1>6. Summed'
  <2>1. \A d \in Requests : call'[d].at \notin K!Logging /\ ~call'[d].alone
    BY <1>4, FreeTyped DEF K!Logging
  <2> QED
    BY <1>1, <2>1, SummedQuiet DEF KeyFacts
<1>7. KeyRefused'
  BY <1>1, <1>3, <1>4, FreeTyped DEF KeyFacts, KeyRefused, K!RevokedRefused
<1>8. InUse' = {} /\ ToLog' = {} /\ ByLogs'
  BY <1>4, FreeTyped DEF InUse, ToLog, ByLogs
<1>9. Cardinality(InUse') = 0 /\ Cardinality(ToLog') = 0
  BY <1>8, FS_EmptySet
<1>10. LimitKept'
  <2>1. /\ tally.through \in Nat /\ tally.lost \in Nat /\ logs \in Nat /\ bucket \in Nat
        /\ resumed \in BOOLEAN /\ redisDisabled \in BOOLEAN /\ Cardinality(InUse) \in Nat /\ Cardinality(ToLog) \in Nat
    BY <1>t, UseAndLog DEF KeyTypes, Tallies
  <2>2. logs' = logs /\ bucket' = bucket /\ (~resumed' => ~resumed /\ ~redisDisabled)
    BY <1>1
  <2>3. tally'.through <= logs + tally'.lost + 0
    BY <1>2, <2>1 DEF KeyFacts, LimitKept
  <2>4. ~resumed' => /\ tally'.through + 0 <= DayLimit + Cardinality(Requests) - 1 + tally'.lost
                     /\ tally'.through + 0 <= bucket /\ tally'.through + 0 <= DayLimit
    BY <1>2, <2>1, <2>2, RequestsFinite DEF KeyFacts, LimitKept
  <2> QED
    BY <1>8, <1>9, <2>2, <2>3, <2>4 DEF LimitKept
<1> QED
  BY <1>5, <1>6, <1>7, <1>10 DEF KeyFacts

\* The orders of a super admin: what was read fresh has the status of the key, unless it
\* expired meanwhile.
LEMMA OrderSteps ==
    ASSUME KeyFacts, NEW a \in Admins, K!GiveOrder(a) \/ K!Carry(a)
    PROVE  KeyFacts'
<1>t. KeyTypes /\ change[a] \in Given /\ key \in Keys
  BY DEF KeyFacts, KeyTypes
<1>u. UNCHANGED <<call, bucket, redisDisabled, resumed, logs, summary, events, settled>>
  BY DEF K!GiveOrder, K!Carry, K!counters, K!usage
<1>v. /\ tally'.through = tally.through /\ tally'.lost = tally.lost
      /\ tally' \in Tallies
  <2>1. tally' = tally \/ tally' = [tally EXCEPT !.orders = @ + 1]
    BY DEF K!GiveOrder, K!Carry
  <2> QED
    BY <1>t, <2>1 DEF KeyTypes, Tallies
<1>w. Summed' /\ (KeyTypes' => LimitKept')
  <2>1. Summed'
    BY <1>u, SummedQuiet DEF KeyFacts
  <2>2. InUse' = InUse /\ ToLog' = ToLog /\ ByLogs' /\ bucket <= bucket'
    BY <1>t, <1>u DEF InUse, ToLog, ByLogs, KeyFacts, LimitKept, KeyTypes
  <2>3. KeyTypes' => LimitKept'
    BY <1>t, <1>u, <1>v, <2>2, LimitQuiet DEF KeyFacts
  <2> QED
    BY <2>1, <2>3
<1>r. K!RevokedRefused'
  BY <1>u DEF KeyFacts, KeyRefused, K!RevokedRefused
<1>1. CASE K!GiveOrder(a)
  <2>1. PICK kind \in K!Orders : change' = [change EXCEPT ![a] = [kind |-> kind, seen |-> key, fresh |-> TRUE]]
    BY <1>1 DEF K!GiveOrder
  <2>2. key' = key /\ revoked' = revoked
    BY <1>1 DEF K!GiveOrder
  <2>3. PICK new \in Given : new = [kind |-> kind, seen |-> key, fresh |-> TRUE]
    BY <1>t DEF Given
  <2>4. change' \in [Admins -> Given] /\ new.seen = key
        /\ change'[a] = new /\ \A b \in Admins \ {a} : change'[b] = change[b]
    BY <1>t, <2>1, <2>3 DEF KeyTypes, Tallies
  <2>5. KeyTypes'
    BY <1>t, <1>u, <1>v, <2>2, <2>4 DEF KeyTypes, Tallies
  <2>6. KeyRefused'
    BY <1>r, <2>2, <2>4 DEF KeyFacts, KeyRefused
  <2> QED
    BY <1>w, <2>5, <2>6 DEF KeyFacts
<1>2. CASE K!Carry(a)
  <2>1. PICK kind \in K!Orders, seen \in Keys, fresh \in BOOLEAN :
            kind = change[a].kind /\ seen = change[a].seen /\ (fresh <=> change[a].fresh)
    BY <1>2, <1>t DEF K!Carry, Given
  <2>2. /\ key' = K!Saved(key, seen, K!Ordered(kind, seen))
        /\ change' = [b \in Admins |-> IF b = a THEN K!NoOrder ELSE [change[b] EXCEPT !.fresh = FALSE]]
    BY <1>2, <2>1 DEF K!Carry
  <2>3. /\ kind = "revoke" => (revoked' <=> revoked \/ fresh)
        /\ kind \in {"regenerate", "activate"} => revoked' = FALSE
        /\ kind \in {"deactivate", "extend"} => revoked' = revoked
        /\ revoked' \in BOOLEAN
    BY <1>2, <1>t, <2>1 DEF K!Carry, K!Orders, KeyTypes
  <2>4. PICK values \in Keys :
            /\ values = K!Ordered(kind, seen)
            /\ kind = "revoke" => values.status = "revoked"
            /\ kind = "deactivate" => values.status = "inactive"
            /\ kind = "extend" => values.status = seen.status
    <3>1. \A status \in K!KeyStatuses : [seen EXCEPT !.status = status] \in Keys
                                       /\ [seen EXCEPT !.status = status].status = status
      BY <2>1 DEF Keys
    <3>2. [seen EXCEPT !.expiry = "future"] \in Keys /\ [seen EXCEPT !.expiry = "future"].status = seen.status
      BY <2>1 DEF Keys
    <3>3. CASE kind = "revoke"
      BY <3>1, <3>3 DEF K!Ordered, K!KeyStatuses
    <3>4. CASE kind \in {"regenerate", "activate"}
      BY <3>1, <3>4 DEF K!Ordered, K!KeyStatuses
    <3>5. CASE kind = "deactivate"
      BY <3>1, <3>5 DEF K!Ordered, K!KeyStatuses
    <3>6. CASE kind = "extend"
      BY <3>2, <3>6 DEF K!Ordered
    <3> QED
      BY <2>1, <3>3, <3>4, <3>5, <3>6 DEF K!Orders
  <2>5. key' \in Keys /\ key'.status = IF values.status = seen.status THEN key.status ELSE values.status
    BY <1>t, <2>1, <2>2, <2>4 DEF K!Saved, Keys
  <2>6. /\ change' \in [Admins -> Given]
        /\ \A b \in Admins : change'[b].kind # "none" => ~change'[b].fresh
    <3>1. K!NoOrder \in Given /\ K!NoOrder.kind = "none"
      BY DEF K!NoOrder, Given, Keys, K!KeyStatuses
    <3>2. \A b \in Admins : change[b] \in Given
      BY <1>t DEF KeyTypes, Tallies
    <3>3. \A b \in Admins : /\ [change[b] EXCEPT !.fresh = FALSE] \in Given
                            /\ ~[change[b] EXCEPT !.fresh = FALSE].fresh
      BY <3>2 DEF Given
    <3> QED
      BY <2>2, <3>1, <3>3
  <2>7. KeyTypes'
    BY <1>t, <1>u, <1>v, <2>3, <2>5, <2>6 DEF KeyTypes, Tallies
  <2>8. fresh => key.status \in {seen.status, "expired"}
    BY <1>t, <2>1 DEF KeyFacts, KeyRefused, K!Orders
  <2>9. revoked' => key'.status # "active"
    BY <2>3, <2>4, <2>5, <2>8 DEF KeyFacts, KeyRefused, K!Orders
  <2>10. KeyRefused'
    BY <1>r, <2>6, <2>9 DEF KeyRefused
  <2> QED
    BY <1>w, <2>7, <2>10 DEF KeyFacts
<1> QED
  BY <1>1, <1>2

LEMMA KeyNext ==
    ASSUME KeyFacts, [K!Next]_keyVars
    PROVE  KeyFacts'
<1>1. CASE K!ExpiryPasses
  <2>1. /\ key' = [key EXCEPT !.expiry = "past"] /\ key \in Keys
        /\ UNCHANGED <<call, change, tally, revoked, bucket, redisDisabled, resumed, logs, summary, events, settled>>
    BY <1>1 DEF K!ExpiryPasses, K!counters, K!usage, KeyFacts, KeyTypes
  <2>2. key' \in Keys /\ key'.status = key.status
    BY <2>1 DEF Keys
  <2>3. KeyTypes'
    BY <2>1, <2>2 DEF KeyFacts, KeyTypes
  <2>4. KeyRefused' /\ Summed'
    BY <2>1, <2>2 DEF KeyFacts, KeyRefused, K!RevokedRefused, Summed
  <2>5. LimitKept'
    BY <2>1 DEF KeyFacts, LimitKept, InUse, ToLog, ByLogs
  <2> QED
    BY <2>3, <2>4, <2>5 DEF KeyFacts
<1>2. CASE UNCHANGED keyVars
  BY <1>2 DEF keyVars, KeyFacts, KeyTypes, KeyRefused, K!RevokedRefused, Summed, LimitKept, InUse, ToLog, ByLogs
<1> QED
  BY <1>1, <1>2, CheckSteps, LimitSteps, UseStep, LogStep, SummarySteps, BreakSteps, RestartStep, OrderSteps
     DEF K!Next, K!createUsageLog

\* The limit of a key, the refusals after it was revoked, and the summary of its day, for any
\* number of requests, orders and failures, and whatever the limit is.
THEOREM KeysAreHeld == MCSpec => []KeysHold
<1>1. MCInit => KeyFacts
  BY KeyInit DEF MCInit
<1>2. KeyFacts /\ [MCNext]_all => KeyFacts'
  BY KeyNext, StepOfParts
<1>3. KeyFacts => KeysHold
  <2> SUFFICES ASSUME KeyFacts
               PROVE  K!RateLimitHeld /\ K!RevokedRefused /\ K!SummaryFollowsLogs
    BY DEF KeysHold
  <2>1. K!RateLimitHeld
    <3>1. tally.through \in Nat /\ tally.lost \in Nat /\ Cardinality(InUse) \in Nat
      BY UseAndLog DEF KeyFacts, KeyTypes, Tallies
    <3>2. ~resumed => tally.through <= DayLimit + Cardinality(Requests) - 1 + tally.lost
      BY <3>1, RequestsFinite DEF KeyFacts, LimitKept
    <3> QED
      BY <3>2, SameCardinality DEF K!RateLimitHeld
  <2>2. K!RevokedRefused /\ K!SummaryFollowsLogs
    BY DEF KeyFacts, KeyRefused, Summed, K!SummaryFollowsLogs
  <2> QED
    BY <2>1, <2>2
<1> QED
  BY <1>1, <1>2, <1>3, PTL DEF MCSpec

-----------------------------------------------------------------------------
(* The alerts of a sensor (SensorAlerts).                                  *)

AlertOf == {S!NoAlert} \cup [type : S!Types, status : S!ActiveStatuses \cup {"resolved"}]
Handling ==
    [at : S!Places, type : S!Types, reading : Readings \cup {NoReading}, left : Nat \ {0}, row : Nat,
     seen : {"none", "open", "acknowledged", "resolved"}, order : {"none", "acknowledged", "resolved"},
     alone : BOOLEAN]

AlertTypes ==
    /\ alerts \in [S!Rows -> AlertOf]
    /\ handler \in [Handlers -> Handling]
    /\ expected \in [S!Types -> {"active", "clear", "any"}]
    /\ doubled \in BOOLEAN

\* The alert that is about to be written is of the type the handler works on.
RowsMeant ==
    \A h \in Handlers :
        /\ handler[h].at \in {"resolve", "save"} =>
              handler[h].row \in S!Rows /\ alerts[handler[h].row].type = handler[h].type
        /\ handler[h].at = "save" => handler[h].order # "none"

\* A handler that ran alone so far has no other beside it; where there is one, nothing is expected.
AloneIsAlone ==
    \A g \in Handlers :
        /\ handler[g].alone => /\ handler[g].at # "idle"
                               /\ \A h \in Handlers \ {g} : handler[h].at = "idle"
        /\ handler[g].at # "idle" /\ ~handler[g].alone => \A t \in S!Types : expected[t] = "any"

\* What is expected of a handler that is alone: nothing before its work on a type is done; and
\* it counts the alerts of the threshold that are still to be resolved.
InTurn(h) ==
    /\ handler[h].at \in {"store", "seen", "save"} \/ handler[h].type = "HIGH_TEMPERATURE"
          => \A t \in S!Types : expected[t] = "any"
    /\ expected["SENSOR_OFFLINE"] = "any"
    /\ handler[h].at \in {"find", "resolve"} /\ handler[h].type = "HIGH_TEMPERATURE" =>
          /\ handler[h].left = Cardinality(S!ActiveRows("HIGH_TEMPERATURE"))
          /\ handler[h].at = "resolve" => handler[h].row \in S!ActiveRows("HIGH_TEMPERATURE")
AloneInTurn == \A h \in Handlers : handler[h].alone => InTurn(h)

\* Unless an alert was doubled there is one of a type, or one that is about to be made.
OneEach ==
    ~doubled =>
        /\ \A t \in S!Types : \A a, b \in S!ActiveRows(t) : a = b
        /\ \A g \in Handlers : handler[g].at = "insert" =>
              /\ S!ActiveRows(handler[g].type) = {}
              /\ \A h \in Handlers \ {g} : handler[h].at = "insert" => handler[h].type # handler[g].type

AlertFacts == AlertTypes /\ RowsMeant /\ AloneIsAlone /\ AloneInTurn /\ OneEach /\ S!AlertsFollowReadings

AlertMoves(h) == handler' \in [Handlers -> Handling] /\ \A g \in Handlers \ {h} : handler'[g] = handler[g]
TypesKept == \A a \in S!Rows : alerts[a].type \in S!Types => alerts'[a].type = alerts[a].type
AlertsTyped ==
    alerts' \in [S!Rows -> AlertOf] /\ expected' \in [S!Types -> {"active", "clear", "any"}] /\ doubled' \in BOOLEAN

LEMMA AlertShapes ==
    ASSUME AlertFacts
    PROVE  /\ alerts \in [S!Rows -> AlertOf] /\ handler \in [Handlers -> Handling] /\ doubled \in BOOLEAN
           /\ expected \in [S!Types -> {"active", "clear", "any"}]
           /\ \A h \in Handlers : handler[h] \in Handling
BY DEF AlertFacts, AlertTypes

\* The instance has its own name for the cardinality of a set.
LEMMA SameCount == \A some : S!Cardinality(some) = Cardinality(some)
BY DEF S!Cardinality, Cardinality, S!IsFiniteSet, IsFiniteSet

LEMMA RowsFinite == IsFiniteSet(S!Rows)
BY FS_Interval, ServicesAssumption DEF S!SensorAlertsAssumption, S!Rows

LEMMA ActiveAreCounted ==
    ASSUME NEW some \in SUBSET S!Rows
    PROVE  /\ IsFiniteSet(some) /\ Cardinality(some) \in Nat
           /\ Cardinality(some) = 0 <=> some = {}
           /\ \A a \in some : Cardinality(some \ {a}) = Cardinality(some) - 1
<1>1. IsFiniteSet(some)
  BY RowsFinite, FS_Subset
<1> QED
  BY <1>1, FS_CardinalityType, FS_EmptySet, FS_RemoveElement

\* Where a request goes, and what it keeps.
LEMMA AlertGoes ==
    ASSUME AlertFacts, NEW h \in Handlers, NEW place \in S!Places, S!Goes(h, place)
    PROVE  /\ AlertMoves(h) /\ handler'[h].at = place
           /\ handler'[h].type = handler[h].type /\ handler'[h].row = handler[h].row
           /\ handler'[h].left = handler[h].left /\ (handler'[h].alone <=> handler[h].alone)
<1>t. handler \in [Handlers -> Handling] /\ handler[h] \in Handling
  BY AlertShapes
<1>1. handler' = [handler EXCEPT ![h] = [handler[h] EXCEPT !.at = place]]
  BY DEF S!Goes
<1>2. /\ [handler[h] EXCEPT !.at = place] \in Handling
      /\ handler'[h] = [handler[h] EXCEPT !.at = place]
      /\ \A g \in Handlers \ {h} : handler'[g] = handler[g]
  BY <1>t, <1>1 DEF Handling
<1>3. handler' \in [Handlers -> Handling]
  BY <1>t, <1>1, <1>2
<1>4. /\ handler'[h].at = place /\ handler'[h].type = handler[h].type /\ handler'[h].row = handler[h].row
      /\ handler'[h].left = handler[h].left
  BY <1>t, <1>2 DEF Handling
<1>5. handler'[h].alone <=> handler[h].alone
  BY <1>t, <1>2 DEF Handling
<1> QED
  BY <1>2, <1>3, <1>4, <1>5 DEF AlertMoves

LEMMA AlertEnds ==
    ASSUME AlertFacts, NEW h \in Handlers, S!Ends(h)
    PROVE  AlertMoves(h) /\ handler'[h].at = "idle" /\ ~handler'[h].alone
<1>t. handler \in [Handlers -> Handling]
  BY AlertShapes
<1>1. S!Resting \in Handling /\ S!Resting.at = "idle" /\ ~S!Resting.alone
  BY DEF S!Resting, Handling, S!Places, S!Types
<1> QED
  BY <1>t, <1>1 DEF S!Ends, AlertMoves

LEMMA AlertProceeds ==
    ASSUME AlertFacts, NEW h \in Handlers, S!Proceeds(h)
    PROVE  /\ AlertMoves(h)
           /\ \/ /\ handler[h].type = "HIGH_TEMPERATURE" /\ handler'[h].at = "find"
                 /\ handler'[h].type = "SENSOR_OFFLINE" /\ (handler'[h].alone <=> handler[h].alone)
              \/ /\ handler[h].type = "SENSOR_OFFLINE" /\ handler'[h].at = "idle" /\ ~handler'[h].alone
<1>t. handler \in [Handlers -> Handling] /\ handler[h] \in Handling
  BY AlertShapes
<1>1. CASE handler[h].type = "HIGH_TEMPERATURE"
  <2>1. PICK doing \in Handling :
          /\ doing.at = "find" /\ doing.type = "SENSOR_OFFLINE" /\ (doing.alone <=> handler[h].alone)
          /\ handler' = [handler EXCEPT ![h] = doing]
    <3> DEFINE doing == [S!Resting EXCEPT !.at = "find", !.reading = handler[h].reading,
                                         !.alone = handler[h].alone]
    <3>1. doing \in Handling
      <4>1. S!Resting \in Handling
        BY DEF S!Resting, Handling, S!Places, S!Types
      <4>2. handler[h].reading \in Readings \cup {NoReading} /\ handler[h].alone \in BOOLEAN
        BY <1>t DEF Handling
      <4> HIDE DEF doing
      <4> QED
        BY <4>1, <4>2 DEF doing, Handling, S!Places
    <3>2. doing.at = "find" /\ doing.type = "SENSOR_OFFLINE"
      BY DEF S!Resting
    <3>3. doing.alone <=> handler[h].alone
      BY DEF S!Resting
    <3> QED
      BY <1>1, <3>1, <3>2, <3>3 DEF S!Proceeds
  <2> QED
    BY <1>t, <1>1, <2>1 DEF AlertMoves
<1>2. CASE handler[h].type = "SENSOR_OFFLINE"
  BY <1>2, AlertEnds DEF S!Proceeds
<1> QED
  BY <1>t, <1>1, <1>2 DEF Handling, S!Types

\* Nothing is expected yet of the type that a handler works on.
LEMMA NotYet ==
    ASSUME AlertFacts, NEW h \in Handlers, handler[h].at # "idle"
    PROVE  /\ expected[handler[h].type] = "any"
           /\ ~handler[h].alone => \A t \in S!Types : expected[t] = "any"
<1>1. handler[h].type \in S!Types /\ handler[h].alone \in BOOLEAN
  BY AlertShapes DEF Handling
<1>2. ~handler[h].alone => \A t \in S!Types : expected[t] = "any"
  BY DEF AlertFacts, AloneIsAlone
<1>3. handler[h].alone => expected[handler[h].type] = "any"
  BY <1>1 DEF AlertFacts, AloneInTurn, InTurn, S!Types
<1> QED
  BY <1>1, <1>2, <1>3

\* What is left to show of a step of a handler that is under way.
LEMMA AlertStep ==
    ASSUME AlertFacts, NEW h \in Handlers, handler[h].at # "idle", AlertMoves(h), AlertsTyped, TypesKept,
           handler'[h].at # "save",
           handler'[h].at = "resolve" =>
              handler'[h].row \in S!Rows /\ alerts'[handler'[h].row].type = handler'[h].type,
           \/ handler'[h].at = "idle" /\ ~handler'[h].alone
           \/ handler'[h].at # "idle" /\ (handler'[h].alone <=> handler[h].alone),
           ~handler[h].alone => expected' = expected,
           handler'[h].alone => InTurn(h)'
    PROVE  AlertTypes' /\ RowsMeant' /\ AloneIsAlone' /\ AloneInTurn'
<1>1. AlertTypes'
  BY DEF AlertTypes, AlertsTyped, AlertMoves
<1>2. RowsMeant'
  <2> SUFFICES ASSUME NEW g \in Handlers, handler'[g].at \in {"resolve", "save"}
               PROVE  /\ handler'[g].row \in S!Rows /\ alerts'[handler'[g].row].type = handler'[g].type
                      /\ handler'[g].at = "save" => handler'[g].order # "none"
    BY DEF RowsMeant, S!Rows
  <2>1. CASE g = h
    BY <2>1
  <2>2. CASE g # h
    <3>1. handler'[g] = handler[g] /\ handler[g].type \in S!Types
      BY <2>2, AlertShapes DEF AlertMoves, Handling
    <3>2. /\ handler[g].row \in S!Rows /\ alerts[handler[g].row].type = handler[g].type
          /\ handler[g].at = "save" => handler[g].order # "none"
      BY <3>1 DEF AlertFacts, RowsMeant
    <3> QED
      BY <3>1, <3>2 DEF TypesKept
  <2> QED
    BY <2>1, <2>2
<1>3. \A g \in Handlers \ {h} : handler'[g] = handler[g] /\ ~handler[g].alone
  BY DEF AlertMoves, AlertFacts, AloneIsAlone
<1>4. AloneIsAlone'
  <2> SUFFICES ASSUME NEW g \in Handlers
               PROVE  /\ handler'[g].alone => /\ handler'[g].at # "idle"
                                              /\ \A q \in Handlers \ {g} : handler'[q].at = "idle"
                      /\ handler'[g].at # "idle" /\ ~handler'[g].alone => \A t \in S!Types : expected'[t] = "any"
    BY DEF AloneIsAlone, S!Types
  <2>1. CASE g = h
    <3>1. handler[h].alone => \A q \in Handlers \ {h} : handler[q].at = "idle"
      BY DEF AlertFacts, AloneIsAlone
    <3> QED
      BY <1>3, <2>1, <3>1, NotYet
  <2>2. CASE g # h
    <3>1. handler[g].at # "idle" => ~handler[h].alone
      BY <2>2 DEF AlertFacts, AloneIsAlone
    <3> QED
      BY <1>3, <2>2, <3>1, NotYet
  <2> QED
    BY <2>1, <2>2
<1>5. AloneInTurn'
  <2> SUFFICES ASSUME NEW g \in Handlers, handler'[g].alone
               PROVE  InTurn(g)'
    BY DEF AloneInTurn
  <2>1. g = h
    BY <1>3
  <2> QED
    BY <2>1
<1> QED
  BY <1>1, <1>2, <1>4, <1>5

\* A type is done: one type more is expected, and nothing where the handler is not alone.
LEMMA AlertDone ==
    ASSUME AlertFacts, NEW h \in Handlers, S!Proceeds(h), AlertsTyped, TypesKept,
           handler[h].at \in {"raise", "insert", "scan", "find", "resolve"},
           NEW type, type = handler[h].type, NEW outcome \in {"active", "clear"},
           expected' = expected \/ (handler[h].alone /\ expected' = [expected EXCEPT ![type] = outcome]),
           \A t \in S!Types \ {type} : S!ActiveRows(t)' = S!ActiveRows(t),
           expected' # expected => (outcome = "active" <=> S!ActiveRows(type)' # {})
    PROVE  AlertTypes' /\ RowsMeant' /\ AloneIsAlone' /\ AloneInTurn' /\ S!AlertsFollowReadings'
<1>t. /\ handler[h] \in Handling /\ type \in S!Types
      /\ expected \in [S!Types -> {"active", "clear", "any"}]
  BY AlertShapes DEF Handling
<1>1. expected[type] = "any"
  BY NotYet
<1>2. handler'[h].alone => InTurn(h)'
  <2> SUFFICES ASSUME handler'[h].alone
               PROVE  /\ handler'[h].at \in {"store", "seen", "save"} \/ handler'[h].type = "HIGH_TEMPERATURE"
                            => \A t \in S!Types : expected'[t] = "any"
                      /\ expected'["SENSOR_OFFLINE"] = "any"
                      /\ handler'[h].at \in {"find", "resolve"} /\ handler'[h].type = "HIGH_TEMPERATURE" =>
                            /\ handler'[h].left = Cardinality(S!ActiveRows("HIGH_TEMPERATURE")')
                            /\ handler'[h].at = "resolve" =>
                                  handler'[h].row \in S!ActiveRows("HIGH_TEMPERATURE")'
    BY DEF InTurn, S!Types
  <2>1. /\ type = "HIGH_TEMPERATURE" /\ handler[h].alone
        /\ handler'[h].at = "find" /\ handler'[h].type = "SENSOR_OFFLINE"
    BY AlertProceeds
  <2>2. expected["SENSOR_OFFLINE"] = "any"
    BY <2>1 DEF AlertFacts, AloneInTurn, InTurn
  <2>3. expected'["SENSOR_OFFLINE"] = "any"
    BY <1>t, <2>1, <2>2 DEF S!Types
  <2> QED
    BY <2>1, <2>3
<1>3. AlertTypes' /\ RowsMeant' /\ AloneIsAlone' /\ AloneInTurn'
  BY <1>2, AlertProceeds, AlertStep
<1>4. S!AlertsFollowReadings'
  <2> SUFFICES ASSUME NEW t \in S!Types
               PROVE  /\ expected'[t] = "active" => S!ActiveRows(t)' # {}
                      /\ expected'[t] = "clear" => S!ActiveRows(t)' = {}
    BY DEF S!AlertsFollowReadings, S!Types
  <2>1. CASE t # type
    <3>1. expected'[t] = expected[t]
      BY <1>t, <2>1
    <3> QED
      BY <2>1, <3>1 DEF AlertFacts, S!AlertsFollowReadings
  <2>2. CASE t = type /\ expected' = expected
    BY <1>1, <2>2
  <2>3. CASE t = type /\ expected' # expected
    <3>1. expected'[t] = outcome
      BY <1>t, <2>3
    <3> QED
      BY <2>3, <3>1
  <2> QED
    BY <2>1, <2>2, <2>3
<1> QED
  BY <1>3, <1>4

\* A handler that is not about to make an alert, and makes none, leaves one of each.
LEMMA OneEachQuiet ==
    ASSUME AlertFacts, NEW h \in Handlers, AlertMoves(h), doubled => doubled', handler'[h].at # "insert",
           \A t \in S!Types : S!ActiveRows(t)' \subseteq S!ActiveRows(t)
    PROVE  OneEach'
<1>1. ASSUME ~doubled'
      PROVE  /\ \A t \in S!Types : \A a, b \in S!ActiveRows(t) : a = b
             /\ \A g \in Handlers : handler[g].at = "insert" =>
                   /\ S!ActiveRows(handler[g].type) = {}
                   /\ \A q \in Handlers \ {g} : handler[q].at = "insert" => handler[q].type # handler[g].type
  BY <1>1 DEF AlertFacts, OneEach
<1>2. \A g \in Handlers : handler'[g].at = "insert" =>
        handler'[g] = handler[g] /\ handler[g].type \in S!Types
  BY AlertShapes DEF AlertMoves, Handling
<1>3. ASSUME ~doubled', NEW g \in Handlers, handler'[g].at = "insert"
      PROVE  S!ActiveRows(handler[g].type)' = {}
  <2>1. PICK t \in S!Types : t = handler'[g].type
    BY <1>2, <1>3
  <2>2. S!ActiveRows(t) = {}
    BY <1>1, <1>2, <1>3, <2>1
  <2>3. S!ActiveRows(t)' = {}
    BY <2>2
  <2> QED
    BY <2>1, <2>3
<1> QED
  BY <1>1, <1>2, <1>3 DEF OneEach, S!Types

\* A handler that begins: nothing is expected, and it is alone if the others are idle.
LEMMA AlertBegins ==
    ASSUME AlertFacts, NEW h \in Handlers, NEW doing \in Handling, S!Begins(h, doing),
           alerts' = alerts, doubled' = doubled, doing.at \in {"store", "raise", "find", "save"},
           doing.type = "SENSOR_OFFLINE" \/ doing.at = "save",
           doing.at = "save" => doing.row \in S!Rows /\ alerts[doing.row].type = doing.type /\ doing.order # "none"
    PROVE  AlertFacts'
<1>t. handler \in [Handlers -> Handling] /\ \A g \in Handlers : handler[g] \in Handling
  BY AlertShapes
<1>1. PICK alone \in BOOLEAN :
        /\ alone <=> \A g \in Handlers : handler[g].at = "idle"
        /\ handler' = [g \in Handlers |-> IF g = h THEN [doing EXCEPT !.alone = alone]
                                          ELSE [handler[g] EXCEPT !.alone = FALSE]]
        /\ expected' = [t \in S!Types |-> "any"]
  <2>1. PICK alone \in BOOLEAN : alone = \A g \in Handlers : handler[g].at = "idle"
    OBVIOUS
  <2> QED
    BY <2>1 DEF S!Begins, S!At
<1>2. handler[h].at = "idle"
  BY DEF S!Begins, S!At
<1>3. \A this \in Handling, b \in BOOLEAN :
        LET that == [this EXCEPT !.alone = b] IN
        /\ that \in Handling /\ that.at = this.at /\ that.type = this.type /\ that.row = this.row
        /\ that.order = this.order
        /\ (that.alone <=> b)
  BY DEF Handling
<1>4. \A g \in Handlers \ {h} :
        /\ handler'[g] \in Handling /\ handler'[g].at = handler[g].at /\ ~handler'[g].alone
        /\ handler'[g].type = handler[g].type /\ handler'[g].row = handler[g].row
        /\ handler'[g].order = handler[g].order
  <2> SUFFICES ASSUME NEW g \in Handlers \ {h}
               PROVE  /\ handler'[g] \in Handling /\ handler'[g].at = handler[g].at /\ ~handler'[g].alone
                      /\ handler'[g].type = handler[g].type /\ handler'[g].row = handler[g].row
                      /\ handler'[g].order = handler[g].order
    OBVIOUS
  <2>1. handler'[g] = [handler[g] EXCEPT !.alone = FALSE] /\ handler[g] \in Handling
    BY <1>t, <1>1
  <2> QED
    BY <1>3, <2>1
<1>5. /\ handler'[h] \in Handling /\ handler'[h].at = doing.at /\ (handler'[h].alone <=> alone)
      /\ handler'[h].type = doing.type /\ handler'[h].row = doing.row /\ handler'[h].order = doing.order
  <2>1. handler'[h] = [doing EXCEPT !.alone = alone]
    BY <1>1
  <2> QED
    BY <1>3, <2>1
<1>6. AlertTypes'
  <2>1. handler' \in [Handlers -> Handling]
    BY <1>1, <1>4, <1>5
  <2>2. expected' \in [S!Types -> {"active", "clear", "any"}]
    BY <1>1
  <2> QED
    BY <2>1, <2>2 DEF AlertFacts, AlertTypes
<1>7. \A t \in S!Types : expected'[t] = "any"
  BY <1>1
<1>8. RowsMeant'
  <2>1. \A g \in Handlers :
          /\ handler[g].at \in {"resolve", "save"} =>
                handler[g].row \in S!Rows /\ alerts[handler[g].row].type = handler[g].type
          /\ handler[g].at = "save" => handler[g].order # "none"
    BY DEF AlertFacts, RowsMeant
  <2>2. \A g \in Handlers :
          /\ handler'[g].at \in {"resolve", "save"} =>
                handler'[g].row \in S!Rows /\ alerts[handler'[g].row].type = handler'[g].type
          /\ handler'[g].at = "save" => handler'[g].order # "none"
    BY <1>4, <1>5, <2>1
  <2> QED
    BY <2>2 DEF RowsMeant, S!Rows
<1>9. AloneIsAlone'
  BY <1>1, <1>4, <1>5, <1>7 DEF AloneIsAlone
<1>10. AloneInTurn'
  <2>1. \A g \in Handlers : handler'[g].alone =>
          g = h /\ handler'[g].at # "resolve"
            /\ (handler'[g].at = "find" => handler'[g].type = "SENSOR_OFFLINE")
    BY <1>4, <1>5
  <2> QED
    BY <1>7, <2>1 DEF AloneInTurn, InTurn, S!Types
<1>11. OneEach'
  <2>1. \A t \in S!Types : S!ActiveRows(t)' = S!ActiveRows(t)
    BY DEF S!ActiveRows, S!Rows
  <2>2. ASSUME ~doubled
        PROVE  /\ \A t \in S!Types : \A a, b \in S!ActiveRows(t) : a = b
               /\ \A g \in Handlers : handler[g].at = "insert" =>
                     /\ S!ActiveRows(handler[g].type) = {}
                     /\ \A q \in Handlers \ {g} : handler[q].at = "insert" => handler[q].type # handler[g].type
    BY <2>2 DEF AlertFacts, OneEach
  <2>3. ASSUME ~doubled, NEW g \in Handlers, handler'[g].at = "insert"
        PROVE  S!ActiveRows(handler[g].type)' = {}
    <3>1. g # h /\ handler[g].at = "insert" /\ handler'[g].type = handler[g].type
      BY <1>4, <1>5, <2>3
    <3>2. PICK t \in S!Types : t = handler[g].type
      BY <1>t DEF Handling
    <3>3. S!ActiveRows(t)' = {}
      BY <2>1, <2>2, <2>3, <3>1, <3>2
    <3> QED
      BY <3>1, <3>2, <3>3
  <2> QED
    BY <1>4, <1>5, <2>1, <2>2, <2>3 DEF OneEach, S!Types
<1>12. S!AlertsFollowReadings'
  BY <1>7 DEF S!AlertsFollowReadings, S!Types
<1> QED
  BY <1>6, <1>8, <1>9, <1>10, <1>11, <1>12 DEF AlertFacts

LEMMA AlertInit ==
    ASSUME S!Init
    PROVE  AlertFacts
<1>1. S!Resting \in Handling /\ S!Resting.at = "idle" /\ ~S!Resting.alone
  BY DEF S!Resting, Handling, S!Places, S!Types
<1>2. \A h \in Handlers : handler[h] = S!Resting
  BY DEF S!Init
<1>3. AlertTypes
  BY <1>1, <1>2 DEF S!Init, AlertTypes, AlertOf
<1>4. RowsMeant /\ AloneIsAlone /\ AloneInTurn
  BY <1>1, <1>2 DEF RowsMeant, AloneIsAlone, AloneInTurn
<1>5. \A t \in S!Types : S!ActiveRows(t) = {}
  BY DEF S!Init, S!ActiveRows, S!NoAlert, S!Types, S!ActiveStatuses
<1>6. OneEach
  BY <1>1, <1>2, <1>5 DEF OneEach
<1>7. S!AlertsFollowReadings
  BY DEF S!Init, S!AlertsFollowReadings
<1> QED
  BY <1>3, <1>4, <1>6, <1>7 DEF AlertFacts

\* A reading begins, a sweep, or an operation on an alert.
LEMMA AlertBeginSteps ==
    ASSUME AlertFacts, NEW h \in Handlers, S!Ingest(h) \/ S!Sweep(h) \/ S!Operate(h)
    PROVE  AlertFacts'
<1>r. S!Resting \in Handling
  BY DEF S!Resting, Handling, S!Places, S!Types
<1>1. CASE S!Ingest(h)
  <2>1. PICK r \in Readings : S!Begins(h, [S!Resting EXCEPT !.at = "store", !.reading = r])
    BY <1>1 DEF S!Ingest
  <2>2. PICK doing \in Handling :
          /\ doing = [S!Resting EXCEPT !.at = "store", !.reading = r]
          /\ doing.at = "store" /\ doing.type = "SENSOR_OFFLINE"
    <3>1. [S!Resting EXCEPT !.at = "store", !.reading = r] \in Handling
      BY <1>r DEF Handling, S!Places
    <3> QED
      BY <3>1 DEF S!Resting
  <2> QED
    BY <1>1, <2>1, <2>2, AlertBegins DEF S!Ingest
<1>2. CASE S!Sweep(h)
  <2>1. PICK place \in {"raise", "find"} : S!Begins(h, [S!Resting EXCEPT !.at = place])
    BY <1>2 DEF S!Sweep
  <2>2. PICK doing \in Handling :
          doing = [S!Resting EXCEPT !.at = place] /\ doing.at = place /\ doing.type = "SENSOR_OFFLINE"
    <3>1. [S!Resting EXCEPT !.at = place] \in Handling
      BY <1>r DEF Handling, S!Places
    <3> QED
      BY <3>1 DEF S!Resting
  <2> QED
    BY <1>2, <2>1, <2>2, AlertBegins DEF S!Sweep
<1>3. CASE S!Operate(h)
  <2>1. PICK a \in S!Rows : \E verb \in {"acknowledged", "resolved"} :
          /\ alerts[a] # S!NoAlert
          /\ S!Begins(h, [S!Resting EXCEPT !.at = "save", !.row = a, !.order = verb,
                                           !.type = alerts[a].type, !.seen = alerts[a].status])
    BY <1>3 DEF S!Operate
  <2>2. PICK verb \in {"acknowledged", "resolved"} :
          /\ alerts[a] # S!NoAlert
          /\ S!Begins(h, [S!Resting EXCEPT !.at = "save", !.row = a, !.order = verb,
                                           !.type = alerts[a].type, !.seen = alerts[a].status])
    BY <2>1
  <2>3. alerts[a].type \in S!Types /\ alerts[a].status \in {"open", "acknowledged", "resolved"} /\ a \in Nat
    BY <2>2, AlertShapes DEF AlertOf, S!ActiveStatuses, S!Rows
  <2>4. PICK doing \in Handling :
          /\ doing = [S!Resting EXCEPT !.at = "save", !.row = a, !.order = verb,
                                      !.type = alerts[a].type, !.seen = alerts[a].status]
          /\ doing.at = "save" /\ doing.row = a /\ doing.type = alerts[a].type /\ doing.order = verb
    <3>1. [S!Resting EXCEPT !.at = "save", !.row = a, !.order = verb,
                            !.type = alerts[a].type, !.seen = alerts[a].status] \in Handling
      BY <1>r, <2>3 DEF Handling, S!Places
    <3> QED
      BY <3>1 DEF S!Resting
  <2> QED
    BY <1>3, <2>2, <2>4, AlertBegins DEF S!Operate
<1> QED
  BY <1>1, <1>2, <1>3

\* A handler moves and writes no alert.
LEMMA AlertUnwritten ==
    ASSUME AlertFacts, alerts' = alerts, doubled' = doubled, expected' = expected
    PROVE  /\ AlertsTyped /\ TypesKept /\ S!AlertsFollowReadings'
           /\ \A t : S!ActiveRows(t)' = S!ActiveRows(t)
<1>1. \A t : S!ActiveRows(t)' = S!ActiveRows(t)
  BY DEF S!ActiveRows, S!Rows
<1>2. AlertsTyped /\ TypesKept
  BY AlertShapes DEF AlertsTyped, TypesKept
<1>3. S!AlertsFollowReadings'
  BY <1>1 DEF AlertFacts, S!AlertsFollowReadings, S!Types
<1> QED
  BY <1>1, <1>2, <1>3

\* The reading is stored, or found to be a duplicate; the sensor is seen; a handler breaks.
LEMMA ReadingSteps ==
    ASSUME AlertFacts, NEW h \in Handlers, S!Store(h) \/ S!Seen(h) \/ S!Breaks(h)
    PROVE  AlertFacts'
<1>t. handler \in [Handlers -> Handling] /\ handler[h] \in Handling
  BY AlertShapes
<1>u. /\ alerts' = alerts /\ doubled' = doubled /\ expected' = expected /\ handler[h].at # "idle"
      /\ (S!Store(h) \/ S!Seen(h)) => handler[h].at \in {"store", "seen"}
  BY DEF S!Store, S!Seen, S!Breaks, S!At
<1>1. S!Store(h) \/ S!Breaks(h) => S!Ends(h) \/ (S!Store(h) /\ S!Goes(h, "seen"))
  BY DEF S!Store, S!Breaks
<1>2. AlertMoves(h) /\ \/ handler'[h].at = "idle" /\ ~handler'[h].alone
                       \/ /\ handler'[h].at \in {"seen", "raise", "scan"} /\ handler[h].at \in {"store", "seen"}
                          /\ (handler'[h].alone <=> handler[h].alone)
  <2>1. CASE S!Store(h) \/ S!Breaks(h)
    BY <1>u, <1>1, <2>1, AlertEnds, AlertGoes DEF S!Places
  <2>2. CASE S!Seen(h)
    <3>1. PICK place \in {"raise", "scan"} :
            handler' = [handler EXCEPT ![h].at = place, ![h].type = "HIGH_TEMPERATURE"]
      BY <2>2 DEF S!Seen
    <3>2. PICK doing \in Handling :
            /\ doing = [handler[h] EXCEPT !.at = place, !.type = "HIGH_TEMPERATURE"]
            /\ doing.at = place /\ (doing.alone <=> handler[h].alone)
      <4>1. [handler[h] EXCEPT !.at = place, !.type = "HIGH_TEMPERATURE"] \in Handling
        BY <1>t DEF Handling, S!Places, S!Types
      <4>2. [handler[h] EXCEPT !.at = place, !.type = "HIGH_TEMPERATURE"].alone <=> handler[h].alone
        BY <1>t DEF Handling
      <4>3. [handler[h] EXCEPT !.at = place, !.type = "HIGH_TEMPERATURE"].at = place
        BY <1>t DEF Handling
      <4> QED
        BY <4>1, <4>2, <4>3
    <3>3. handler' = [handler EXCEPT ![h] = doing]
      BY <1>t, <3>1, <3>2
    <3> QED
      BY <1>t, <1>u, <2>2, <3>2, <3>3 DEF AlertMoves
  <2> QED
    BY <2>1, <2>2
<1>3. handler'[h].alone => InTurn(h)'
  <2> SUFFICES ASSUME handler'[h].alone
               PROVE  /\ \A t \in S!Types : expected'[t] = "any"
                      /\ handler'[h].at \notin {"find", "resolve"}
    BY DEF InTurn, S!Types
  <2>1. \A t \in S!Types : expected[t] = "any"
    BY <1>2 DEF AlertFacts, AloneInTurn, InTurn
  <2> QED
    BY <1>2, <1>u, <2>1
<1>4. AlertTypes' /\ RowsMeant' /\ AloneIsAlone' /\ AloneInTurn'
  BY <1>2, <1>3, <1>u, AlertUnwritten, AlertStep
<1>5. OneEach'
  BY <1>2, <1>u, AlertUnwritten, OneEachQuiet
<1> QED
  BY <1>4, <1>5, <1>u, AlertUnwritten DEF AlertFacts

\* What is expected once a type is done, in the words of AlertDone.
LEMMA WhatIsExpected ==
    ASSUME NEW h \in Handlers, NEW outcome, S!Expects(h, handler[h].type, outcome)
    PROVE  \/ expected' = expected
           \/ handler[h].alone /\ expected' = [expected EXCEPT ![handler[h].type] = outcome]
BY DEF S!Expects

\* An active alert is found, or none, and the handler goes on to make one.
LEMMA RaiseStep ==
    ASSUME AlertFacts, NEW h \in Handlers, S!Raise(h)
    PROVE  AlertFacts'
<1>t. handler[h] \in Handling /\ handler[h].at = "raise" /\ doubled \in BOOLEAN /\ doubled' \in BOOLEAN
      /\ alerts' = alerts
  BY AlertShapes DEF S!Raise, S!At
<1>y. PICK type \in S!Types : type = handler[h].type
  BY <1>t DEF Handling
<1>a. \A t : S!ActiveRows(t)' = S!ActiveRows(t)
  BY <1>t DEF S!ActiveRows, S!Rows
<1>1. CASE S!ActiveRows(handler[h].type) # {}
  <2>1. S!Proceeds(h) /\ S!Expects(h, handler[h].type, "active") /\ doubled' = doubled
    BY <1>1 DEF S!Raise
  <2>2. AlertsTyped /\ TypesKept
    <3>1. expected' = expected \/ expected' = [expected EXCEPT ![type] = "active"]
      BY <1>y, <2>1, WhatIsExpected
    <3>2. expected' \in [S!Types -> {"active", "clear", "any"}]
      BY <3>1, AlertShapes
    <3> QED
      BY <1>t, <3>2, AlertShapes DEF AlertsTyped, TypesKept
  <2>3. AlertTypes' /\ RowsMeant' /\ AloneIsAlone' /\ AloneInTurn' /\ S!AlertsFollowReadings'
    <3>1. \/ expected' = expected
          \/ handler[h].alone /\ expected' = [expected EXCEPT ![type] = "active"]
      BY <1>y, <2>1, WhatIsExpected
    <3>2. S!ActiveRows(type)' # {}
      BY <1>1, <1>a, <1>y
    <3> QED
      BY <1>t, <1>a, <1>y, <2>1, <2>2, <3>1, <3>2, AlertDone
  <2>4. OneEach'
    BY <1>a, <2>1, AlertProceeds, OneEachQuiet
  <2> QED
    BY <2>3, <2>4 DEF AlertFacts
<1>2. CASE S!ActiveRows(handler[h].type) = {}
  <2>1. /\ S!Goes(h, "insert") /\ doubled' = (doubled \/ S!Making(handler[h].type, Handlers \ {h}))
        /\ expected' = expected
    BY <1>2 DEF S!Raise
  <2>2. /\ AlertMoves(h) /\ handler'[h].at = "insert"
        /\ handler'[h].type = handler[h].type /\ (handler'[h].alone <=> handler[h].alone)
    BY <2>1, AlertGoes DEF S!Places
  <2>3. AlertsTyped /\ TypesKept
    BY <1>t, <2>1, AlertShapes DEF AlertsTyped, TypesKept
  <2>4. handler'[h].alone => InTurn(h)'
    <3>1. handler[h].alone => /\ handler[h].type = "HIGH_TEMPERATURE" => \A t \in S!Types : expected[t] = "any"
                              /\ expected["SENSOR_OFFLINE"] = "any"
      BY <1>t DEF AlertFacts, AloneInTurn, InTurn
    <3> QED
      BY <2>1, <2>2, <3>1 DEF InTurn, S!Types
  <2>5. AlertTypes' /\ RowsMeant' /\ AloneIsAlone' /\ AloneInTurn'
    BY <1>t, <2>1, <2>2, <2>3, <2>4, AlertStep
  <2>6. OneEach'
    <3> SUFFICES ASSUME ~doubled'
                 PROVE  /\ \A t \in S!Types : \A a, b \in S!ActiveRows(t)' : a = b
                        /\ \A g \in Handlers : handler'[g].at = "insert" =>
                              /\ S!ActiveRows(handler[g].type)' = {}
                              /\ \A q \in Handlers \ {g} :
                                    handler'[q].at = "insert" => handler'[q].type # handler'[g].type
      BY DEF OneEach, S!Types
    <3>1. ~doubled /\ \A g \in Handlers \ {h} : handler[g].at = "insert" => handler[g].type # handler[h].type
      BY <1>t, <2>1 DEF S!Making, S!At
    <3>2. /\ \A t \in S!Types : \A a, b \in S!ActiveRows(t) : a = b
          /\ \A g \in Handlers : handler[g].at = "insert" =>
                /\ S!ActiveRows(handler[g].type) = {}
                /\ \A q \in Handlers \ {g} : handler[q].at = "insert" => handler[q].type # handler[g].type
      BY <3>1 DEF AlertFacts, OneEach
    <3>3. ASSUME NEW g \in Handlers, handler'[g].at = "insert"
          PROVE  S!ActiveRows(handler[g].type)' = {}
      <4>1. handler'[g].type = handler[g].type /\ S!ActiveRows(handler[g].type) = {}
        BY <1>2, <2>2, <3>2, <3>3 DEF AlertMoves
      <4>2. PICK t : t = handler[g].type
        OBVIOUS
      <4>3. S!ActiveRows(t)' = {}
        BY <1>a, <4>1, <4>2
      <4> QED
        BY <4>1, <4>2, <4>3
    <3>4. \A g \in Handlers \ {h} : handler'[g] = handler[g]
      BY <2>2 DEF AlertMoves
    <3>5. ASSUME NEW g \in Handlers, handler'[g].at = "insert", NEW q \in Handlers \ {g}, handler'[q].at = "insert"
          PROVE  handler'[q].type # handler'[g].type
      BY <2>2, <3>1, <3>2, <3>4, <3>5
    <3> QED
      BY <1>a, <3>2, <3>3, <3>5
  <2>7. S!AlertsFollowReadings'
    BY <1>a, <2>1 DEF AlertFacts, S!AlertsFollowReadings, S!Types
  <2> QED
    BY <2>5, <2>6, <2>7 DEF AlertFacts
<1> QED
  BY <1>1, <1>2

\* A row is written: its type stays, and it is active or not.
LEMMA Rewritten ==
    ASSUME AlertFacts, NEW a \in S!Rows, alerts[a].type \in S!Types,
           NEW status \in {"acknowledged", "resolved"}, alerts' = [alerts EXCEPT ![a].status = status]
    PROVE  /\ alerts' \in [S!Rows -> AlertOf] /\ TypesKept
           /\ \A t : S!ActiveRows(t)' = IF status = "acknowledged" /\ t = alerts[a].type
                                        THEN S!ActiveRows(t) \cup {a} ELSE S!ActiveRows(t) \ {a}
<1>t. alerts \in [S!Rows -> AlertOf]
  BY AlertShapes
<1>1. alerts[a] \in [type : S!Types, status : S!ActiveStatuses \cup {"resolved"}]
  BY <1>t DEF AlertOf, S!NoAlert, S!Types
<1>2. PICK row \in [type : S!Types, status : S!ActiveStatuses \cup {"resolved"}] :
        row = [alerts[a] EXCEPT !.status = status] /\ row.type = alerts[a].type /\ row.status = status
  <2>1. status \in S!ActiveStatuses \cup {"resolved"}
    BY DEF S!ActiveStatuses
  <2>2. \A one \in [type : S!Types, status : S!ActiveStatuses \cup {"resolved"}] :
          LET other == [one EXCEPT !.status = status] IN
          /\ other \in [type : S!Types, status : S!ActiveStatuses \cup {"resolved"}]
          /\ other.type = one.type /\ other.status = status
    BY <2>1
  <2> QED
    BY <1>1, <2>2
<1>3. alerts' = [alerts EXCEPT ![a] = row]
  BY <1>t, <1>2
<1>4. alerts'[a] = row /\ \A b \in S!Rows \ {a} : alerts'[b] = alerts[b]
  BY <1>t, <1>3
<1>5. alerts' \in [S!Rows -> AlertOf]
  BY <1>t, <1>2, <1>3 DEF AlertOf
<1>6. TypesKept
  BY <1>2, <1>4 DEF TypesKept
<1>7. \A t : \A b \in S!Rows :
        /\ b # a => (b \in S!ActiveRows(t)' <=> b \in S!ActiveRows(t))
        /\ a \in S!ActiveRows(t)' <=> status = "acknowledged" /\ t = alerts[a].type
  BY <1>2, <1>4 DEF S!ActiveRows, S!ActiveStatuses, S!Rows
<1>8. \A t : S!ActiveRows(t) \subseteq S!Rows /\ S!ActiveRows(t)' \subseteq S!Rows
  BY DEF S!ActiveRows, S!Rows
<1> QED
  BY <1>5, <1>6, <1>7, <1>8

\* An alert is made.
LEMMA InsertStep ==
    ASSUME AlertFacts, NEW h \in Handlers, S!Insert(h)
    PROVE  AlertFacts'
<1>t. /\ handler[h] \in Handling /\ handler[h].at = "insert" /\ doubled' = doubled /\ doubled \in BOOLEAN
      /\ alerts \in [S!Rows -> AlertOf]
  BY AlertShapes DEF S!Insert, S!At
<1>y. PICK type \in S!Types : type = handler[h].type
  BY <1>t DEF Handling
<1>1. PICK a \in S!Rows :
        /\ \A b \in S!Rows : alerts[b] = S!NoAlert <=> b >= a
        /\ alerts' = [alerts EXCEPT ![a] = [type |-> handler[h].type, status |-> "open"]]
        /\ S!Proceeds(h) /\ S!Expects(h, handler[h].type, "active")
  BY DEF S!Insert
<1>2. alerts[a] = S!NoAlert
  BY <1>1 DEF S!Rows
<1>3. /\ alerts'[a] = [type |-> type, status |-> "open"]
      /\ \A b \in S!Rows \ {a} : alerts'[b] = alerts[b]
      /\ alerts' \in [S!Rows -> AlertOf]
  BY <1>t, <1>y, <1>1 DEF AlertOf, S!ActiveStatuses
<1>4. TypesKept
  BY <1>2, <1>3 DEF TypesKept, S!NoAlert, S!Types
<1>5. /\ S!ActiveRows(type)' = S!ActiveRows(type) \cup {a}
      /\ \A t \in S!Types \ {type} : S!ActiveRows(t)' = S!ActiveRows(t)
  <2>1. \A t \in S!Types : /\ a \notin S!ActiveRows(t)
                           /\ a \in S!ActiveRows(t)' <=> t = type
                           /\ \A b \in S!Rows \ {a} : b \in S!ActiveRows(t)' <=> b \in S!ActiveRows(t)
    BY <1>2, <1>3 DEF S!ActiveRows, S!NoAlert, S!ActiveStatuses, S!Types, S!Rows
  <2>2. \A t : S!ActiveRows(t) \subseteq S!Rows /\ S!ActiveRows(t)' \subseteq S!Rows
    BY DEF S!ActiveRows, S!Rows
  <2> QED
    BY <2>1, <2>2
<1>6. \/ expected' = expected
      \/ handler[h].alone /\ expected' = [expected EXCEPT ![type] = "active"]
  BY <1>y, <1>1, WhatIsExpected
<1>7. AlertsTyped
  BY <1>t, <1>3, <1>6, AlertShapes DEF AlertsTyped
<1>8. AlertTypes' /\ RowsMeant' /\ AloneIsAlone' /\ AloneInTurn' /\ S!AlertsFollowReadings'
  <2>1. S!ActiveRows(type)' # {}
    BY <1>5
  <2> QED
    BY <1>t, <1>y, <1>1, <1>4, <1>5, <1>6, <1>7, <2>1, AlertDone
<1>9. AlertMoves(h) /\ handler'[h].at # "insert"
  BY <1>1, AlertProceeds
<1>10. ASSUME ~doubled
       PROVE  /\ \A t \in S!Types : \A c, b \in S!ActiveRows(t) : c = b
              /\ S!ActiveRows(type) = {}
              /\ \A g \in Handlers \ {h} : handler[g].at = "insert" =>
                    /\ S!ActiveRows(handler[g].type) = {} /\ handler[g].type # type
                    /\ \A q \in Handlers \ {g} : handler[q].at = "insert" => handler[q].type # handler[g].type
  BY <1>t, <1>y, <1>10 DEF AlertFacts, OneEach
<1>11. OneEach'
  <2>1. ASSUME ~doubled, NEW g \in Handlers, handler'[g].at = "insert"
        PROVE  S!ActiveRows(handler[g].type)' = {} /\ g # h /\ handler'[g] = handler[g]
    <3>1. g # h /\ handler'[g] = handler[g]
      BY <1>9, <2>1 DEF AlertMoves
    <3>2. PICK t \in S!Types : t = handler[g].type
      BY AlertShapes DEF Handling
    <3>3. S!ActiveRows(t)' = {}
      BY <1>5, <1>10, <2>1, <3>1, <3>2
    <3> QED
      BY <3>1, <3>2, <3>3
  <2>2. ASSUME ~doubled, NEW t \in S!Types, NEW c \in S!ActiveRows(t)', NEW b \in S!ActiveRows(t)'
        PROVE  c = b
    BY <1>5, <1>10, <2>2
  <2> QED
    BY <1>t, <1>10, <2>1, <2>2 DEF OneEach, S!Types
<1> QED
  BY <1>8, <1>11 DEF AlertFacts

\* The alerts of the threshold are counted, or there is none.
LEMMA ScanStep ==
    ASSUME AlertFacts, NEW h \in Handlers, S!Scan(h)
    PROVE  AlertFacts'
<1>t. /\ handler \in [Handlers -> Handling] /\ handler[h] \in Handling /\ handler[h].at = "scan"
      /\ doubled \in BOOLEAN /\ alerts' = alerts /\ doubled' = doubled
  BY AlertShapes DEF S!Scan, S!At
<1>y. PICK type \in S!Types : type = handler[h].type
  BY <1>t DEF Handling
<1>a. \A t : S!ActiveRows(t)' = S!ActiveRows(t)
  BY <1>t DEF S!ActiveRows, S!Rows
<1>1. CASE S!ActiveRows(type) = {}
  <2>1. S!Proceeds(h) /\ S!Expects(h, type, "clear")
    BY <1>y, <1>1 DEF S!Scan
  <2>2. \/ expected' = expected
        \/ handler[h].alone /\ expected' = [expected EXCEPT ![type] = "clear"]
    BY <1>y, <2>1, WhatIsExpected
  <2>3. AlertsTyped /\ TypesKept
    BY <1>t, <2>2, AlertShapes DEF AlertsTyped, TypesKept
  <2>4. AlertTypes' /\ RowsMeant' /\ AloneIsAlone' /\ AloneInTurn' /\ S!AlertsFollowReadings'
    BY <1>t, <1>a, <1>y, <1>1, <2>1, <2>2, <2>3, AlertDone
  <2>5. OneEach'
    BY <1>t, <1>a, <2>1, AlertProceeds, OneEachQuiet
  <2> QED
    BY <2>4, <2>5 DEF AlertFacts
<1>2. CASE S!ActiveRows(type) # {}
  <2>1. /\ handler' = [handler EXCEPT ![h].at = "find", ![h].left = S!Cardinality(S!ActiveRows(type))]
        /\ expected' = expected
    BY <1>y, <1>2 DEF S!Scan
  <2>2. PICK n \in Nat \ {0} : n = Cardinality(S!ActiveRows(type)) /\ n = S!Cardinality(S!ActiveRows(type))
    <3>1. S!ActiveRows(type) \in SUBSET S!Rows
      BY DEF S!ActiveRows, S!Rows
    <3> QED
      BY <1>2, <3>1, ActiveAreCounted, SameCount
  <2>3. PICK doing \in Handling :
          /\ doing = [handler[h] EXCEPT !.at = "find", !.left = n]
          /\ doing.at = "find" /\ doing.left = n /\ doing.type = type /\ (doing.alone <=> handler[h].alone)
    <3>1. [handler[h] EXCEPT !.at = "find", !.left = n] \in Handling
      BY <1>t DEF Handling, S!Places
    <3>2. [handler[h] EXCEPT !.at = "find", !.left = n].alone <=> handler[h].alone
      BY <1>t DEF Handling
    <3>3. /\ [handler[h] EXCEPT !.at = "find", !.left = n].at = "find"
          /\ [handler[h] EXCEPT !.at = "find", !.left = n].left = n
          /\ [handler[h] EXCEPT !.at = "find", !.left = n].type = type
      BY <1>t, <1>y DEF Handling
    <3> QED
      BY <3>1, <3>2, <3>3
  <2>4. handler' = [handler EXCEPT ![h] = doing]
    BY <1>t, <2>1, <2>2, <2>3
  <2>5. AlertMoves(h) /\ handler'[h] = doing
    BY <1>t, <2>4 DEF AlertMoves
  <2>6. handler'[h].alone => InTurn(h)'
    <3> SUFFICES ASSUME handler'[h].alone
                 PROVE  /\ type = "HIGH_TEMPERATURE" => \A t \in S!Types : expected'[t] = "any"
                        /\ expected'["SENSOR_OFFLINE"] = "any"
                        /\ type = "HIGH_TEMPERATURE" =>
                              handler'[h].left = Cardinality(S!ActiveRows("HIGH_TEMPERATURE")')
      BY <2>3, <2>5 DEF InTurn, S!Types
    <3>1. handler[h].alone
      BY <2>3, <2>5
    <3>2. /\ type = "HIGH_TEMPERATURE" => \A t \in S!Types : expected[t] = "any"
          /\ expected["SENSOR_OFFLINE"] = "any"
      BY <1>y, <3>1 DEF AlertFacts, AloneInTurn, InTurn
    <3>3. type = "HIGH_TEMPERATURE" =>
            handler'[h].left = Cardinality(S!ActiveRows("HIGH_TEMPERATURE")')
      BY <1>a, <2>2, <2>3, <2>5
    <3> QED
      BY <2>1, <3>2, <3>3
  <2>7. AlertTypes' /\ RowsMeant' /\ AloneIsAlone' /\ AloneInTurn'
    BY <1>t, <2>1, <2>3, <2>5, <2>6, AlertUnwritten, AlertStep
  <2>8. OneEach'
    BY <1>t, <2>1, <2>3, <2>5, AlertUnwritten, OneEachQuiet
  <2> QED
    BY <1>t, <2>1, <2>7, <2>8, AlertUnwritten DEF AlertFacts
<1> QED
  BY <1>1, <1>2

\* An alert is resolved, or was not found: one fewer is left.
LEMMA AlertCounted ==
    ASSUME AlertFacts, NEW h \in Handlers, handler[h].at \in {"find", "resolve"}, S!Counted(h),
           alerts' \in [S!Rows -> AlertOf], doubled' = doubled, TypesKept,
           NEW type \in S!Types, type = handler[h].type,
           \A t \in S!Types \ {type} : S!ActiveRows(t)' = S!ActiveRows(t),
           S!ActiveRows(type)' \subseteq S!ActiveRows(type),
           handler[h].alone /\ type = "HIGH_TEMPERATURE" =>
              Cardinality(S!ActiveRows(type)') = handler[h].left - 1
    PROVE  AlertFacts'
<1>t. /\ handler \in [Handlers -> Handling] /\ handler[h] \in Handling /\ doubled \in BOOLEAN
      /\ expected \in [S!Types -> {"active", "clear", "any"}]
  BY AlertShapes
<1>1. CASE handler[h].left > 1
  <2>1. handler' = [handler EXCEPT ![h].at = "find", ![h].left = @ - 1] /\ expected' = expected
    BY <1>1 DEF S!Counted
  <2>2. PICK n \in Nat \ {0} : n = handler[h].left - 1
    BY <1>t, <1>1 DEF Handling
  <2>3. PICK doing \in Handling :
          /\ doing = [handler[h] EXCEPT !.at = "find", !.left = n]
          /\ doing.at = "find" /\ doing.left = n /\ doing.type = type /\ (doing.alone <=> handler[h].alone)
    <3>1. [handler[h] EXCEPT !.at = "find", !.left = n] \in Handling
      BY <1>t DEF Handling, S!Places
    <3>2. [handler[h] EXCEPT !.at = "find", !.left = n].alone <=> handler[h].alone
      BY <1>t DEF Handling
    <3>3. /\ [handler[h] EXCEPT !.at = "find", !.left = n].at = "find"
          /\ [handler[h] EXCEPT !.at = "find", !.left = n].left = n
          /\ [handler[h] EXCEPT !.at = "find", !.left = n].type = type
      BY <1>t DEF Handling
    <3> QED
      BY <3>1, <3>2, <3>3
  <2>4. handler' = [handler EXCEPT ![h] = doing]
    BY <1>t, <2>1, <2>2, <2>3
  <2>5. AlertMoves(h) /\ handler'[h] = doing
    BY <1>t, <2>4 DEF AlertMoves
  <2>6. handler'[h].alone => InTurn(h)'
    <3> SUFFICES ASSUME handler'[h].alone
                 PROVE  /\ type = "HIGH_TEMPERATURE" => \A t \in S!Types : expected'[t] = "any"
                        /\ expected'["SENSOR_OFFLINE"] = "any"
                        /\ type = "HIGH_TEMPERATURE" =>
                              handler'[h].left = Cardinality(S!ActiveRows("HIGH_TEMPERATURE")')
      BY <2>3, <2>5 DEF InTurn, S!Types
    <3>1. handler[h].alone
      BY <2>3, <2>5
    <3>2. /\ type = "HIGH_TEMPERATURE" => \A t \in S!Types : expected[t] = "any"
          /\ expected["SENSOR_OFFLINE"] = "any"
      BY <3>1 DEF AlertFacts, AloneInTurn, InTurn
    <3>3. type = "HIGH_TEMPERATURE" =>
            handler'[h].left = Cardinality(S!ActiveRows("HIGH_TEMPERATURE")')
      BY <2>2, <2>3, <2>5, <3>1
    <3> QED
      BY <2>1, <3>2, <3>3
  <2>7. AlertTypes' /\ RowsMeant' /\ AloneIsAlone' /\ AloneInTurn'
    <3>1. AlertsTyped
      BY <1>t, <2>1 DEF AlertsTyped
    <3> QED
      BY <2>1, <2>3, <2>5, <2>6, <3>1, AlertStep
  <2>8. OneEach'
    BY <2>3, <2>5, OneEachQuiet
  <2>9. S!AlertsFollowReadings'
    <3> SUFFICES ASSUME NEW t \in S!Types
                 PROVE  /\ expected'[t] = "active" => S!ActiveRows(t)' # {}
                        /\ expected'[t] = "clear" => S!ActiveRows(t)' = {}
      BY DEF S!AlertsFollowReadings, S!Types
    <3>1. expected[type] = "any"
      BY NotYet
    <3> QED
      BY <2>1, <3>1 DEF AlertFacts, S!AlertsFollowReadings
  <2> QED
    BY <2>7, <2>8, <2>9 DEF AlertFacts
<1>2. CASE ~(handler[h].left > 1)
  <2>1. S!Proceeds(h)
    BY <1>2 DEF S!Counted
  <2>2. \/ expected' = expected
        \/ /\ type = "HIGH_TEMPERATURE" /\ handler[h].alone
           /\ expected' = [expected EXCEPT ![type] = "clear"]
    BY <1>2 DEF S!Counted, S!Expects
  <2>3. AlertsTyped
    BY <1>t, <2>2 DEF AlertsTyped
  <2>4. expected' # expected => S!ActiveRows(type)' = {}
    <3> SUFFICES ASSUME expected' # expected
                 PROVE  S!ActiveRows(type)' = {}
      OBVIOUS
    <3>1. Cardinality(S!ActiveRows(type)') = handler[h].left - 1 /\ handler[h].left \in Nat \ {0}
      BY <1>t, <2>2 DEF Handling
    <3>2. Cardinality(S!ActiveRows(type)') = 0
      BY <1>2, <3>1
    <3>3. S!ActiveRows(type)' \in SUBSET S!Rows
      BY DEF S!ActiveRows, S!Rows
    <3> QED
      BY <3>2, <3>3, ActiveAreCounted
  <2>5. AlertTypes' /\ RowsMeant' /\ AloneIsAlone' /\ AloneInTurn' /\ S!AlertsFollowReadings'
    <3>1. \/ expected' = expected
          \/ handler[h].alone /\ expected' = [expected EXCEPT ![type] = "clear"]
      BY <2>2
    <3> QED
      BY <2>1, <2>3, <2>4, <3>1, AlertDone
  <2>6. OneEach'
    BY <2>1, AlertProceeds, OneEachQuiet
  <2> QED
    BY <2>5, <2>6 DEF AlertFacts
<1> QED
  BY <1>1, <1>2

\* The newest active alert is found, or none.
LEMMA FindStep ==
    ASSUME AlertFacts, NEW h \in Handlers, S!Find(h)
    PROVE  AlertFacts'
<1>t. /\ handler \in [Handlers -> Handling] /\ handler[h] \in Handling /\ handler[h].at = "find"
      /\ doubled \in BOOLEAN /\ alerts' = alerts /\ doubled' = doubled
      /\ alerts \in [S!Rows -> AlertOf]
  BY AlertShapes DEF S!Find, S!At
<1>y. PICK type \in S!Types : type = handler[h].type
  BY <1>t DEF Handling
<1>a. \A t : S!ActiveRows(t)' = S!ActiveRows(t)
  BY <1>t DEF S!ActiveRows, S!Rows
<1>1. CASE S!ActiveRows(type) = {}
  <2>1. S!Counted(h)
    BY <1>y, <1>1 DEF S!Find
  <2>2. ~(handler[h].alone /\ type = "HIGH_TEMPERATURE")
    <3> SUFFICES ASSUME handler[h].alone, type = "HIGH_TEMPERATURE"
                 PROVE  FALSE
      OBVIOUS
    <3>1. handler[h].left = Cardinality(S!ActiveRows(type))
      BY <1>t, <1>y DEF AlertFacts, AloneInTurn, InTurn
    <3>2. handler[h].left \in Nat \ {0}
      BY <1>t DEF Handling
    <3> QED
      BY <1>1, <3>1, <3>2, FS_EmptySet
  <2>3. TypesKept
    BY <1>t DEF TypesKept
  <2> QED
    BY <1>t, <1>a, <1>y, <2>1, <2>2, <2>3, AlertCounted
<1>2. CASE S!ActiveRows(type) # {}
  <2>1. PICK a \in S!ActiveRows(type) :
          handler' = [handler EXCEPT ![h].at = "resolve", ![h].row = a] /\ expected' = expected
    BY <1>y, <1>2 DEF S!Find, S!Newest
  <2>2. a \in S!Rows /\ a \in Nat /\ alerts[a].type = type
    BY <2>1 DEF S!ActiveRows, S!Rows
  <2>3. PICK doing \in Handling :
          /\ doing = [handler[h] EXCEPT !.at = "resolve", !.row = a]
          /\ doing.at = "resolve" /\ doing.row = a /\ doing.type = type /\ doing.left = handler[h].left
          /\ (doing.alone <=> handler[h].alone)
    <3>1. [handler[h] EXCEPT !.at = "resolve", !.row = a] \in Handling
      BY <1>t, <2>2 DEF Handling, S!Places
    <3>2. [handler[h] EXCEPT !.at = "resolve", !.row = a].alone <=> handler[h].alone
      BY <1>t DEF Handling
    <3>3. /\ [handler[h] EXCEPT !.at = "resolve", !.row = a].at = "resolve"
          /\ [handler[h] EXCEPT !.at = "resolve", !.row = a].row = a
          /\ [handler[h] EXCEPT !.at = "resolve", !.row = a].type = type
          /\ [handler[h] EXCEPT !.at = "resolve", !.row = a].left = handler[h].left
      BY <1>t, <1>y DEF Handling
    <3> QED
      BY <3>1, <3>2, <3>3
  <2>4. handler' = [handler EXCEPT ![h] = doing]
    BY <1>t, <2>1, <2>3
  <2>5. AlertMoves(h) /\ handler'[h] = doing
    BY <1>t, <2>4 DEF AlertMoves
  <2>6. handler'[h].alone => InTurn(h)'
    <3> SUFFICES ASSUME handler'[h].alone
                 PROVE  /\ type = "HIGH_TEMPERATURE" => \A t \in S!Types : expected'[t] = "any"
                        /\ expected'["SENSOR_OFFLINE"] = "any"
                        /\ type = "HIGH_TEMPERATURE" =>
                              /\ handler'[h].left = Cardinality(S!ActiveRows("HIGH_TEMPERATURE")')
                              /\ a \in S!ActiveRows("HIGH_TEMPERATURE")'
      BY <2>3, <2>5 DEF InTurn, S!Types
    <3>1. handler[h].alone
      BY <2>3, <2>5
    <3>2. /\ type = "HIGH_TEMPERATURE" => /\ \A t \in S!Types : expected[t] = "any"
                                          /\ handler[h].left = Cardinality(S!ActiveRows("HIGH_TEMPERATURE"))
          /\ expected["SENSOR_OFFLINE"] = "any"
      BY <1>t, <1>y, <3>1 DEF AlertFacts, AloneInTurn, InTurn
    <3> QED
      BY <1>a, <2>1, <2>3, <2>5, <3>2
  <2>7. AlertTypes' /\ RowsMeant' /\ AloneIsAlone' /\ AloneInTurn'
    <3>1. handler'[h].row \in S!Rows /\ alerts'[handler'[h].row].type = handler'[h].type
      BY <1>t, <2>2, <2>3, <2>5
    <3> QED
      BY <1>t, <2>1, <2>3, <2>5, <2>6, <3>1, AlertUnwritten, AlertStep
  <2>8. OneEach'
    BY <1>t, <2>1, <2>3, <2>5, AlertUnwritten, OneEachQuiet
  <2> QED
    BY <1>t, <2>1, <2>7, <2>8, AlertUnwritten DEF AlertFacts
<1> QED
  BY <1>1, <1>2

LEMMA ResolveStep ==
    ASSUME AlertFacts, NEW h \in Handlers, S!Resolve(h)
    PROVE  AlertFacts'
<1>t. /\ handler[h] \in Handling /\ handler[h].at = "resolve" /\ doubled' = doubled
      /\ alerts' = [alerts EXCEPT ![handler[h].row].status = "resolved"] /\ S!Counted(h)
  BY AlertShapes DEF S!Resolve, S!At
<1>y. PICK type \in S!Types : type = handler[h].type
  BY <1>t DEF Handling
<1>1. PICK a \in S!Rows : a = handler[h].row /\ alerts[a].type = type
  BY <1>t, <1>y DEF AlertFacts, RowsMeant
<1>2. /\ alerts' \in [S!Rows -> AlertOf] /\ TypesKept
      /\ \A t : S!ActiveRows(t)' = S!ActiveRows(t) \ {a}
  <2>1. alerts' = [alerts EXCEPT ![a].status = "resolved"]
    BY <1>t, <1>1
  <2> QED
    BY <1>1, <2>1, Rewritten
<1>3. \A t \in S!Types \ {type} : S!ActiveRows(t)' = S!ActiveRows(t)
  <2>1. \A t \in S!Types \ {type} : a \notin S!ActiveRows(t)
    BY <1>1 DEF S!ActiveRows
  <2> QED
    BY <1>2, <2>1
<1>4. handler[h].alone /\ type = "HIGH_TEMPERATURE" =>
        Cardinality(S!ActiveRows(type)') = handler[h].left - 1
  <2> SUFFICES ASSUME handler[h].alone, type = "HIGH_TEMPERATURE"
               PROVE  Cardinality(S!ActiveRows(type)') = handler[h].left - 1
    OBVIOUS
  <2>1. handler[h].left = Cardinality(S!ActiveRows(type)) /\ a \in S!ActiveRows(type)
    BY <1>t, <1>y, <1>1 DEF AlertFacts, AloneInTurn, InTurn
  <2>2. S!ActiveRows(type) \in SUBSET S!Rows
    BY DEF S!ActiveRows, S!Rows
  <2> QED
    BY <1>2, <2>1, <2>2, ActiveAreCounted
<1> QED
  BY <1>t, <1>y, <1>2, <1>3, <1>4, AlertCounted

\* An operator's status is written, unless it was read so.
LEMMA SaveStep ==
    ASSUME AlertFacts, NEW h \in Handlers, S!Save(h)
    PROVE  AlertFacts'
<1>t. /\ handler[h] \in Handling /\ handler[h].at = "save" /\ S!Ends(h) /\ expected' = expected
      /\ alerts \in [S!Rows -> AlertOf] /\ doubled \in BOOLEAN
      /\ handler[h].order \in {"acknowledged", "resolved"}
  <2>1. handler[h] \in Handling /\ handler[h].at = "save"
    BY AlertShapes DEF S!Save, S!At
  <2>2. handler[h].order # "none"
    BY <2>1 DEF AlertFacts, RowsMeant
  <2> QED
    BY <2>1, <2>2, AlertShapes DEF S!Save, Handling
<1>1. PICK a \in S!Rows, type \in S!Types :
        a = handler[h].row /\ type = handler[h].type /\ alerts[a].type = type
  BY <1>t DEF AlertFacts, RowsMeant, Handling
<1>2. PICK verb \in {"acknowledged", "resolved"} : verb = handler[h].order
  BY <1>t
<1>3. /\ alerts' = alerts \/ alerts' = [alerts EXCEPT ![a].status = verb]
      /\ alerts' # alerts /\ verb = "acknowledged" /\ alerts[a].status = "resolved" /\ ~doubled' =>
            S!ActiveRows(type) = {} /\ ~S!Making(type, Handlers)
      /\ doubled' \in BOOLEAN /\ (doubled => doubled')
  BY <1>t, <1>1, <1>2 DEF S!Save
<1>4. AlertMoves(h) /\ handler'[h].at = "idle" /\ ~handler'[h].alone
  BY <1>t, AlertEnds
<1>5. alerts' \in [S!Rows -> AlertOf] /\ TypesKept
  <2>1. CASE alerts' = alerts
    BY <1>t, <2>1 DEF TypesKept
  <2>2. CASE alerts' = [alerts EXCEPT ![a].status = verb]
    BY <1>1, <2>2, Rewritten
  <2> QED
    BY <1>3, <2>1, <2>2
<1>6. AlertTypes' /\ RowsMeant' /\ AloneIsAlone' /\ AloneInTurn'
  <2>1. AlertsTyped
    BY <1>t, <1>3, <1>5, AlertShapes DEF AlertsTyped
  <2> QED
    BY <1>t, <1>4, <1>5, <2>1, AlertStep
<1>7. S!AlertsFollowReadings'
  <2>1. \A t \in S!Types : expected[t] = "any"
    BY <1>t, NotYet DEF AlertFacts, AloneInTurn, InTurn
  <2> QED
    BY <1>t, <2>1 DEF S!AlertsFollowReadings, S!Types
<1>8. OneEach'
  <2>1. CASE \A t \in S!Types : S!ActiveRows(t)' \subseteq S!ActiveRows(t)
    BY <1>3, <1>4, <2>1, OneEachQuiet
  <2>2. CASE ~ \A t \in S!Types : S!ActiveRows(t)' \subseteq S!ActiveRows(t)
    <3>1. \A t : S!ActiveRows(t)' = IF verb = "acknowledged" /\ t = type
                                    THEN S!ActiveRows(t) \cup {a} ELSE S!ActiveRows(t) \ {a}
      <4>1. alerts' # alerts
        BY <2>2 DEF S!ActiveRows, S!Rows
      <4>2. alerts' = [alerts EXCEPT ![a].status = verb]
        BY <1>3, <4>1
      <4> QED
        BY <1>1, <4>2, Rewritten
    <3>2. verb = "acknowledged" /\ a \notin S!ActiveRows(type)
      BY <2>2, <3>1
    <3>3. alerts[a].status = "resolved"
      <4>1. alerts[a].status \in S!ActiveStatuses \cup {"resolved"}
        BY <1>t, <1>1 DEF AlertOf, S!NoAlert, S!Types
      <4> QED
        BY <1>1, <3>2, <4>1 DEF S!ActiveRows
    <3>4. alerts' # alerts
      BY <2>2 DEF S!ActiveRows, S!Rows
    <3>5. ASSUME ~doubled'
          PROVE  /\ \A t \in S!Types : \A c, b \in S!ActiveRows(t) : c = b
                 /\ S!ActiveRows(type) = {} /\ ~S!Making(type, Handlers)
                 /\ \A g \in Handlers : handler[g].at = "insert" =>
                       /\ S!ActiveRows(handler[g].type) = {}
                       /\ \A q \in Handlers \ {g} : handler[q].at = "insert" => handler[q].type # handler[g].type
      BY <1>3, <3>2, <3>3, <3>4, <3>5 DEF AlertFacts, OneEach
    <3>6. ASSUME ~doubled', NEW g \in Handlers, handler'[g].at = "insert"
          PROVE  handler'[g] = handler[g] /\ S!ActiveRows(handler[g].type)' = {}
      <4>1. handler'[g] = handler[g] /\ handler[g].type # type /\ handler[g].at = "insert"
        BY <1>4, <3>5, <3>6 DEF AlertMoves, S!Making, S!At
      <4>2. PICK t : t = handler[g].type
        OBVIOUS
      <4>3. S!ActiveRows(t)' = {}
        BY <3>1, <3>5, <3>6, <4>1, <4>2
      <4> QED
        BY <4>1, <4>2, <4>3
    <3>7. ASSUME ~doubled', NEW t \in S!Types, NEW c \in S!ActiveRows(t)', NEW b \in S!ActiveRows(t)'
          PROVE  c = b
      BY <3>1, <3>5, <3>7
    <3> QED
      BY <3>5, <3>6, <3>7 DEF OneEach, S!Types
  <2> QED
    BY <2>1, <2>2
<1> QED
  BY <1>6, <1>7, <1>8 DEF AlertFacts

LEMMA AlertNext ==
    ASSUME AlertFacts, [S!Next]_sensorVars
    PROVE  AlertFacts'
<1>1. CASE S!FallsQuiet \/ UNCHANGED sensorVars
  <2>1. UNCHANGED <<alerts, handler, expected, doubled>>
    BY <1>1 DEF S!FallsQuiet, sensorVars
  <2>2. \A t : S!ActiveRows(t)' = S!ActiveRows(t)
    BY <2>1 DEF S!ActiveRows, S!Rows
  <2>3. AlertTypes' /\ RowsMeant' /\ AloneIsAlone'
    BY <2>1 DEF AlertFacts, AlertTypes, RowsMeant, AloneIsAlone, S!Rows
  <2>4. AloneInTurn' /\ S!AlertsFollowReadings'
    BY <2>1, <2>2 DEF AlertFacts, AloneInTurn, InTurn, S!AlertsFollowReadings, S!Types
  <2>5. OneEach'
    <3>1. ASSUME ~doubled, NEW g \in Handlers, handler[g].at = "insert"
          PROVE  S!ActiveRows(handler[g].type)' = {}
      <4>1. S!ActiveRows(handler[g].type) = {}
        BY <3>1 DEF AlertFacts, OneEach
      <4>2. PICK t : t = handler[g].type
        OBVIOUS
      <4>3. S!ActiveRows(t)' = {}
        BY <2>2, <4>1, <4>2
      <4> QED
        BY <2>1, <4>2, <4>3
    <3> QED
      BY <2>1, <2>2, <3>1 DEF AlertFacts, OneEach, S!Types
  <2> QED
    BY <2>3, <2>4, <2>5 DEF AlertFacts
<1>2. CASE S!Next /\ ~S!FallsQuiet
  <2>1. PICK h \in Handlers :
          \/ S!Ingest(h) \/ S!Store(h) \/ S!Seen(h) \/ S!Scan(h) \/ S!Raise(h) \/ S!Insert(h)
          \/ S!Find(h) \/ S!Resolve(h) \/ S!Sweep(h) \/ S!Operate(h) \/ S!Save(h) \/ S!Breaks(h)
    BY <1>2 DEF S!Next, S!ingestSensorReading
  <2> QED
    BY <2>1, AlertBeginSteps, ReadingSteps, RaiseStep, InsertStep, ScanStep, FindStep, ResolveStep, SaveStep
<1> QED
  BY <1>1, <1>2

\* sensor.service.js and alert.service.js: after a handler that ran alone the alerts are those
\* its reading asks for, and there is one of a type unless two handlers found none together or
\* one was opened again; for any number of handlers, readings and alerts.
THEOREM AlertsAreRight == MCSpec => []AlertsFollowReadings
<1>1. MCInit => AlertFacts
  BY AlertInit DEF MCInit
<1>2. AlertFacts /\ [MCNext]_all => AlertFacts'
  BY AlertNext, StepOfParts
<1>3. AlertFacts => AlertsFollowReadings
  <2> SUFFICES ASSUME AlertFacts
               PROVE  S!AlertsFollowReadings /\ S!OneActiveAlert
    BY DEF AlertsFollowReadings
  <2>1. ASSUME ~doubled, NEW t \in S!Types
        PROVE  S!Cardinality(S!ActiveRows(t)) <= 1
    <3>1. \A a, b \in S!ActiveRows(t) : a = b
      BY <2>1 DEF AlertFacts, OneEach
    <3>2. S!ActiveRows(t) = {} \/ \E a \in S!ActiveRows(t) : S!ActiveRows(t) = {a}
      BY <3>1
    <3>3. CASE S!ActiveRows(t) = {}
      BY <3>3, FS_EmptySet, SameCount
    <3>4. ASSUME NEW a \in S!ActiveRows(t), S!ActiveRows(t) = {a}
          PROVE  S!Cardinality(S!ActiveRows(t)) <= 1
      <4>1. Cardinality({a}) = 1
        BY FS_Singleton
      <4> QED
        BY <3>4, <4>1, SameCount
    <3> QED
      BY <3>2, <3>3, <3>4
  <2> QED
    BY <2>1 DEF AlertFacts, S!OneActiveAlert
<1> QED
  BY <1>1, <1>2, <1>3, PTL DEF MCSpec

-----------------------------------------------------------------------------
(* The geography master (GeographyImport).                                 *)

Stagings == [at : {"stage"}, version : Versions, left : SUBSET Codes]
Importings ==
    [at : {"import", "retired"}, version : Versions, retire : BOOLEAN, level : Nat, taken : SUBSET Codes]

GeographyTypes ==
    /\ file \in [Versions -> [Codes -> G!Contents]]
    /\ batch \in [Versions -> {"none", "staging", "staged", "importing", "completed", "failed"}]
    /\ staged \in [Versions -> [Codes -> {"none", "valid", "rejected", "processed", "orphaned"}]]
    /\ geography \in [Codes -> {"none", "active", "retired"}]
    /\ run \in {G!Idle} \cup Stagings \cup Importings
    /\ torn \subseteq Versions /\ dropped \in [Versions -> SUBSET Codes]

BeingStaged(v) == run.at = "stage" /\ run.version = v

\* What is not listed has no row; and what was flushed is what the file says.
RowsListed ==
    \A v \in Versions : \A c \in Codes :
        /\ file[v][c] = "absent" => staged[v][c] = "none" /\ ~(BeingStaged(v) /\ c \in run.left)
        /\ BeingStaged(v) /\ file[v][c] # "absent" /\ c \notin run.left => staged[v][c] = G!Validated(v, c)

\* The rows of a version that was staged to the end, and what became of them.
RowsFollow(v) ==
    \A c \in Codes :
        /\ file[v][c] = "rejected" => staged[v][c] = "rejected"
        /\ file[v][c] \in {"valid", "inactive"} => staged[v][c] \in {"valid", "processed", "orphaned"}
        /\ staged[v][c] = "orphaned" => Level[c] > 0 /\ staged[v][Parent[c]] \notin {"valid", "processed"}
StagedFollow ==
    \A v \in Versions \ torn : batch[v] # "none" /\ ~BeingStaged(v) => RowsFollow(v)

\* The import leaves no valid row behind, level by level.
LevelByLevel ==
    /\ run.at # "idle" => batch[run.version] \notin {"none", "completed"}
    /\ run.at = "import" => \A c \in Codes : Level[c] < run.level => staged[run.version][c] # "valid"
    /\ run.at = "retired" => \A c \in Codes : staged[run.version][c] # "valid"
    /\ \A v \in Versions : batch[v] = "completed" => \A c \in Codes : staged[v][c] # "valid"

\* What was processed is in the master, and active or not as its version says, but for what was
\* changed since.
ProcessedStay ==
    \A v \in Versions : \A c \in Codes : staged[v][c] = "processed" =>
        geography[c] # "none" /\ (c \notin dropped[v] => geography[c] = G!Activity(v, c))

\* What is active after the retirement is processed.
OthersRetired ==
    run.at = "retired" /\ run.retire =>
        \A c \in Codes : geography[c] = "active" /\ Level[c] \in G!ImportedLevels(run.version) =>
            staged[run.version][c] = "processed"

GeographyFacts ==
    GeographyTypes /\ RowsListed /\ StagedFollow /\ LevelByLevel /\ ProcessedStay /\ OthersRetired

LEMMA GeographyShapes ==
    ASSUME GeographyFacts
    PROVE  /\ file \in [Versions -> [Codes -> G!Contents]]
           /\ batch \in [Versions -> {"none", "staging", "staged", "importing", "completed", "failed"}]
           /\ staged \in [Versions -> [Codes -> {"none", "valid", "rejected", "processed", "orphaned"}]]
           /\ geography \in [Codes -> {"none", "active", "retired"}]
           /\ torn \subseteq Versions /\ dropped \in [Versions -> SUBSET Codes]
           /\ G!Idle.at = "idle"
           /\ run.at = "idle" => run = G!Idle
           /\ run.at = "stage" => run \in Stagings /\ run.version \in Versions /\ run.left \subseteq Codes
           /\ run.at \in {"import", "retired"} => /\ run \in Importings /\ run.version \in Versions
                                                  /\ run.level \in Nat /\ run.retire \in BOOLEAN
           /\ run.at \in {"idle", "stage", "import", "retired"}
<1>1. run \in {G!Idle} \cup Stagings \cup Importings
  BY DEF GeographyFacts, GeographyTypes
<1>2. G!Idle.at = "idle"
  BY DEF G!Idle
<1>3. run.at = "stage" => run \in Stagings
  BY <1>1, <1>2 DEF Importings
<1>4. run.at \in {"import", "retired"} => run \in Importings
  BY <1>1, <1>2 DEF Stagings
<1>5. run.at = "idle" => run = G!Idle
  BY <1>1 DEF Stagings, Importings
<1>6. run.at \in {"idle", "stage", "import", "retired"}
  BY <1>1, <1>2 DEF Stagings, Importings
<1>7. /\ run.at = "stage" => run.version \in Versions /\ run.left \subseteq Codes
      /\ run.at \in {"import", "retired"} => run.version \in Versions /\ run.level \in Nat
  BY <1>3, <1>4 DEF Stagings, Importings
<1>8. run.at \in {"import", "retired"} => run.retire \in BOOLEAN
  BY <1>4 DEF Importings
<1> QED
  BY <1>2, <1>3, <1>4, <1>5, <1>6, <1>7, <1>8 DEF GeographyFacts, GeographyTypes

LEMMA GeographyInit ==
    ASSUME G!Init
    PROVE  GeographyFacts
<1>1. run.at = "idle" /\ \A v \in Versions : batch[v] = "none" /\ \A c \in Codes : staged[v][c] = "none"
  BY DEF G!Init, G!Idle
<1>2. GeographyTypes
  BY ServicesAssumption DEF G!Init, GeographyTypes, G!GeographyAssumption
<1> QED
  BY <1>1, <1>2 DEF GeographyFacts, RowsListed, StagedFollow, LevelByLevel, ProcessedStay, OthersRetired, BeingStaged

\* A step that leaves the rows and the master as they are.
LEMMA GeographyQuiet ==
    ASSUME GeographyFacts, UNCHANGED <<file, staged, geography, dropped>>,
           batch' \in [Versions -> {"none", "staging", "staged", "importing", "completed", "failed"}],
           run' \in {G!Idle} \cup Stagings \cup Importings, torn' \subseteq Versions
    PROVE  GeographyTypes' /\ ProcessedStay' /\ \A v : RowsFollow(v)' <=> RowsFollow(v)
<1>1. GeographyTypes'
  BY DEF GeographyFacts, GeographyTypes
<1>2. ProcessedStay'
  BY DEF GeographyFacts, ProcessedStay, G!Activity
<1>3. \A v : RowsFollow(v)' <=> RowsFollow(v)
  BY DEF RowsFollow
<1> QED
  BY <1>1, <1>2, <1>3

LEMMA BeginStagingStep ==
    ASSUME GeographyFacts, NEW v \in Versions, G!BeginStaging(v)
    PROVE  GeographyFacts'
<1>1. /\ run.at = "idle" /\ batch[v] # "completed"
      /\ UNCHANGED <<file, staged, geography, torn, dropped>>
      /\ run' = [at |-> "stage", version |-> v, left |-> G!Listed(v)]
  BY GeographyShapes DEF G!BeginStaging, G!Starts
<1>2. /\ batch' \in [Versions -> {"none", "staging", "staged", "importing", "completed", "failed"}]
      /\ batch'[v] \notin {"none", "completed"}
      /\ \A u \in Versions \ {v} : batch'[u] = batch[u]
  BY <1>1, GeographyShapes DEF G!BeginStaging
<1>3. /\ run' \in Stagings /\ run'.at = "stage" /\ run'.version = v
      /\ \A c \in Codes : c \in run'.left <=> file[v][c] # "absent"
  BY <1>1 DEF Stagings, G!Listed
<1>4. GeographyTypes' /\ ProcessedStay' /\ \A u : RowsFollow(u)' <=> RowsFollow(u)
  BY <1>1, <1>2, <1>3, GeographyQuiet, GeographyShapes
<1>5. RowsListed'
  BY <1>1, <1>3 DEF GeographyFacts, RowsListed, BeingStaged, G!Validated
<1>6. StagedFollow'
  <2> SUFFICES ASSUME NEW u \in Versions \ torn, u # v, batch[u] # "none"
               PROVE  RowsFollow(u)
    BY <1>1, <1>2, <1>3, <1>4 DEF StagedFollow, BeingStaged
  <2> QED
    BY <1>1 DEF GeographyFacts, StagedFollow, BeingStaged
<1>7. LevelByLevel' /\ OthersRetired'
  BY <1>1, <1>2, <1>3 DEF GeographyFacts, LevelByLevel, OthersRetired
<1> QED
  BY <1>4, <1>5, <1>6, <1>7 DEF GeographyFacts

\* Some rows are written as the file has them.
LEMMA FlushStep ==
    ASSUME GeographyFacts, G!Flush
    PROVE  GeographyFacts'
<1>1. run.at = "stage" /\ UNCHANGED <<file, batch, geography, torn, dropped>>
  BY DEF G!Flush
<1>2. PICK v \in Versions : v = run.version
  BY <1>1, GeographyShapes
<1>3. PICK some \in SUBSET run.left : staged' = G!Staged(some) /\ run' = [run EXCEPT !.left = @ \ some]
  BY DEF G!Flush
<1>4. /\ \A u \in Versions \ {v} : staged'[u] = staged[u]
      /\ \A c \in Codes : staged'[v][c] = IF c \in some THEN G!Validated(v, c) ELSE staged[v][c]
      /\ staged' \in [Versions -> [Codes -> {"none", "valid", "rejected", "processed", "orphaned"}]]
  <2>1. \A c \in some : G!Validated(v, c) \in {"valid", "rejected"}
    <3>1. \A c \in some : c \in Codes /\ file[v][c] # "absent"
      BY <1>1, <1>2, <1>3, GeographyShapes DEF GeographyFacts, RowsListed, BeingStaged
    <3> QED
      BY <3>1, GeographyShapes DEF G!Contents, G!Validated
  <2>2. \A c \in Codes : staged[v][c] \in {"none", "valid", "rejected", "processed", "orphaned"}
    BY GeographyShapes
  <2>3. PICK rows \in [Codes -> {"none", "valid", "rejected", "processed", "orphaned"}] :
          rows = [c \in Codes |-> IF c \in some THEN G!Validated(v, c) ELSE staged[v][c]]
    BY <2>1, <2>2
  <2>4. staged' = [staged EXCEPT ![v] = rows]
    BY <1>2, <1>3, <2>3 DEF G!Staged
  <2> QED
    BY <2>3, <2>4, GeographyShapes
<1>5. /\ run' \in Stagings /\ run'.at = "stage" /\ run'.version = v /\ run'.left = run.left \ some
  <2>1. run \in Stagings
    BY <1>1, GeographyShapes
  <2> QED
    BY <1>2, <1>3, <2>1 DEF Stagings
<1>6. batch[v] \notin {"none", "completed"}
  BY <1>1, <1>2 DEF GeographyFacts, LevelByLevel
<1>7. \A u \in Versions : \A c \in Codes : file[u][c] \in G!Contents
  BY GeographyShapes
<1>8. GeographyTypes'
  BY <1>1, <1>4, <1>5 DEF GeographyFacts, GeographyTypes
<1>9. RowsListed'
  <2> SUFFICES ASSUME NEW u \in Versions, NEW c \in Codes
               PROVE  /\ file[u][c] = "absent" => staged'[u][c] = "none" /\ ~(u = v /\ c \in run.left \ some)
                      /\ u = v /\ file[u][c] # "absent" /\ c \notin run.left \ some => staged'[u][c] = G!Validated(u, c)
    BY <1>1, <1>5 DEF RowsListed, BeingStaged, G!Validated
  <2>1. /\ file[u][c] = "absent" => staged[u][c] = "none" /\ ~(u = v /\ c \in run.left)
        /\ u = v /\ file[u][c] # "absent" /\ c \notin run.left => staged[u][c] = G!Validated(u, c)
    BY <1>1, <1>2 DEF GeographyFacts, RowsListed, BeingStaged
  <2> QED
    BY <1>3, <1>4, <2>1
<1>10. StagedFollow'
  <2> SUFFICES ASSUME NEW u \in Versions \ torn, u # v, batch[u] # "none"
               PROVE  RowsFollow(u)'
    BY <1>1, <1>5 DEF StagedFollow, BeingStaged
  <2>1. RowsFollow(u)
    BY <1>2 DEF GeographyFacts, StagedFollow, BeingStaged
  <2> QED
    BY <1>1, <1>4, <2>1 DEF RowsFollow
<1>11. LevelByLevel'
  <2>1. \A u \in Versions : batch[u] = "completed" => u # v /\ \A c \in Codes : staged'[u][c] # "valid"
    BY <1>4, <1>6 DEF GeographyFacts, LevelByLevel
  <2> QED
    BY <1>1, <1>5, <1>6, <2>1 DEF LevelByLevel
<1>12. ProcessedStay'
  <2>1. \A u \in Versions : \A c \in Codes : staged'[u][c] = "processed" => staged[u][c] = "processed"
    BY <1>4, <1>7 DEF G!Contents, G!Validated
  <2> QED
    BY <1>1, <2>1 DEF GeographyFacts, ProcessedStay, G!Activity
<1>13. OthersRetired'
  BY <1>5 DEF OthersRetired
<1> QED
  BY <1>8, <1>9, <1>10, <1>11, <1>12, <1>13 DEF GeographyFacts

LEMMA EndStagingStep ==
    ASSUME GeographyFacts, G!EndStaging
    PROVE  GeographyFacts'
<1>1. run.at = "stage" /\ run.left = {} /\ run' = G!Idle /\ UNCHANGED <<file, staged, geography, dropped>>
  BY DEF G!EndStaging
<1>2. PICK v \in Versions : v = run.version
  BY <1>1, GeographyShapes
<1>3. /\ batch' \in [Versions -> {"none", "staging", "staged", "importing", "completed", "failed"}]
      /\ batch'[v] = "staged" /\ \A u \in Versions \ {v} : batch'[u] = batch[u]
      /\ torn' = torn \ {v} /\ torn' \subseteq Versions
  BY <1>2, GeographyShapes DEF G!EndStaging
<1>4. run'.at = "idle"
  BY <1>1, GeographyShapes
<1>5. GeographyTypes' /\ ProcessedStay' /\ \A u : RowsFollow(u)' <=> RowsFollow(u)
  BY <1>1, <1>3, GeographyQuiet
<1>6. RowsListed'
  BY <1>1, <1>4 DEF GeographyFacts, RowsListed, BeingStaged
<1>7. StagedFollow'
  <2> SUFFICES ASSUME NEW u \in Versions \ torn', batch'[u] # "none"
               PROVE  RowsFollow(u)
    BY <1>5 DEF StagedFollow
  <2>1. CASE u = v
    <3>1. \A c \in Codes : /\ file[v][c] \in {"absent", "valid", "inactive", "rejected"}
                           /\ file[v][c] = "absent" => staged[v][c] = "none"
                           /\ file[v][c] # "absent" => staged[v][c] = G!Validated(v, c)
      BY <1>1, <1>2, GeographyShapes DEF GeographyFacts, RowsListed, BeingStaged, G!Contents
    <3> QED
      BY <2>1, <3>1 DEF RowsFollow, G!Validated
  <2>2. CASE u # v
    BY <1>2, <1>3, <2>2 DEF GeographyFacts, StagedFollow, BeingStaged
  <2> QED
    BY <2>1, <2>2
<1>8. LevelByLevel' /\ OthersRetired'
  BY <1>1, <1>3, <1>4 DEF GeographyFacts, LevelByLevel, OthersRetired
<1> QED
  BY <1>5, <1>6, <1>7, <1>8 DEF GeographyFacts

LEMMA BeginImportStep ==
    ASSUME GeographyFacts, NEW v \in Versions, NEW retire \in BOOLEAN, G!BeginImport(v, retire)
    PROVE  GeographyFacts'
<1>1. /\ run.at = "idle" /\ batch[v] \notin {"none", "completed"}
      /\ UNCHANGED <<file, staged, geography, torn, dropped>>
      /\ run' = [at |-> "import", version |-> v, retire |-> retire, level |-> 0, taken |-> {}]
  BY GeographyShapes DEF G!BeginImport, G!Starts
<1>2. /\ batch' \in [Versions -> {"none", "staging", "staged", "importing", "completed", "failed"}]
      /\ batch'[v] = "importing" /\ \A u \in Versions \ {v} : batch'[u] = batch[u]
  BY GeographyShapes DEF G!BeginImport
<1>3. run' \in Importings /\ run'.at = "import" /\ run'.version = v /\ run'.level = 0
  <2>1. run' \in Importings
    BY <1>1 DEF Importings
  <2> QED
    BY <1>1, <2>1
<1>4. GeographyTypes' /\ ProcessedStay' /\ \A u : RowsFollow(u)' <=> RowsFollow(u)
  BY <1>1, <1>2, <1>3, GeographyQuiet, GeographyShapes
<1>5. RowsListed'
  BY <1>1, <1>3 DEF GeographyFacts, RowsListed, BeingStaged
<1>6. StagedFollow'
  BY <1>1, <1>2, <1>3, <1>4 DEF GeographyFacts, StagedFollow, BeingStaged
<1>7. LevelByLevel' /\ OthersRetired'
  <2>1. \A c \in Codes : ~(Level[c] < 0)
    BY ServicesAssumption DEF G!GeographyAssumption
  <2> QED
    BY <1>1, <1>2, <1>3, <2>1 DEF GeographyFacts, LevelByLevel, OthersRetired
<1> QED
  BY <1>4, <1>5, <1>6, <1>7 DEF GeographyFacts

\* The rows that have a parent are written, and the others explained.
LEMMA PageStep ==
    ASSUME GeographyFacts, G!Page
    PROVE  GeographyFacts'
<1>1. run.at = "import" /\ UNCHANGED <<file, batch, torn>>
  BY DEF G!Page
<1>2. PICK v \in Versions : v = run.version
  BY <1>1, GeographyShapes
<1>3. PICK some \in SUBSET G!ValidRows(run.version, run.level) :
        LET written == {c \in some : G!Resolved(c)} IN
            /\ staged' = [staged EXCEPT ![run.version] =
                [c \in Codes |-> IF c \in written THEN "processed" ELSE IF c \in some THEN "orphaned" ELSE @[c]]]
            /\ geography' = [c \in Codes |-> IF c \in written THEN G!Activity(run.version, c) ELSE geography[c]]
            /\ run' = [run EXCEPT !.taken = @ \cup written]
            /\ dropped' = [u \in Versions |-> IF u = run.version THEN dropped[u] \ written ELSE
                 dropped[u] \cup {c \in written : G!Activity(u, c) # G!Activity(run.version, c)}]
  BY DEF G!Page
<1>4. PICK written \in SUBSET some :
        /\ written = {c \in some : G!Resolved(c)}
        /\ staged' = [staged EXCEPT ![v] =
             [c \in Codes |-> IF c \in written THEN "processed" ELSE IF c \in some THEN "orphaned" ELSE staged[v][c]]]
        /\ geography' = [c \in Codes |-> IF c \in written THEN G!Activity(v, c) ELSE geography[c]]
        /\ run' = [run EXCEPT !.taken = @ \cup written]
        /\ dropped' = [u \in Versions |-> IF u = v THEN dropped[u] \ written ELSE
             dropped[u] \cup {c \in written : G!Activity(u, c) # G!Activity(v, c)}]
  BY <1>2, <1>3
<1>5. \A c \in some : c \in Codes /\ Level[c] = run.level /\ staged[v][c] = "valid"
  BY <1>2, <1>3 DEF G!ValidRows
<1>6. /\ \A u \in Versions \ {v} : staged'[u] = staged[u]
      /\ \A c \in Codes : staged'[v][c] = IF c \in written THEN "processed"
                                          ELSE IF c \in some THEN "orphaned" ELSE staged[v][c]
      /\ staged' \in [Versions -> [Codes -> {"none", "valid", "rejected", "processed", "orphaned"}]]
  <2>1. PICK rows \in [Codes -> {"none", "valid", "rejected", "processed", "orphaned"}] :
          rows = [c \in Codes |-> IF c \in written THEN "processed"
                                  ELSE IF c \in some THEN "orphaned" ELSE staged[v][c]]
    BY GeographyShapes
  <2>2. staged' = [staged EXCEPT ![v] = rows]
    BY <1>4, <2>1
  <2> QED
    BY <2>1, <2>2, GeographyShapes
<1>7. /\ geography' \in [Codes -> {"none", "active", "retired"}]
      /\ \A c \in Codes : geography'[c] = IF c \in written THEN G!Activity(v, c) ELSE geography[c]
      /\ dropped' \in [Versions -> SUBSET Codes]
      /\ dropped'[v] = dropped[v] \ written
      /\ \A u \in Versions \ {v} :
            dropped'[u] = dropped[u] \cup {c \in written : G!Activity(u, c) # G!Activity(v, c)}
  <2>1. written \subseteq Codes
    BY <1>5
  <2>2. \A c \in Codes : G!Activity(v, c) \in {"none", "active", "retired"}
    BY DEF G!Activity
  <2>3. /\ \A c \in Codes : geography[c] \in {"none", "active", "retired"}
        /\ \A u \in Versions : dropped[u] \in SUBSET Codes
    BY GeographyShapes
  <2>4. geography' \in [Codes -> {"none", "active", "retired"}]
    BY <1>4, <2>2, <2>3
  <2>5. dropped' \in [Versions -> SUBSET Codes]
    BY <1>4, <2>1, <2>3
  <2> QED
    BY <1>4, <2>4, <2>5
<1>8. run' \in Importings /\ run'.at = "import" /\ run'.version = v /\ run'.level = run.level
  <2>1. run \in Importings /\ written \subseteq Codes
    BY <1>1, <1>5, GeographyShapes
  <2> QED
    BY <1>1, <1>2, <1>4, <2>1 DEF Importings
<1>9. batch[v] \notin {"none", "completed"}
  BY <1>1, <1>2 DEF GeographyFacts, LevelByLevel
<1>10. GeographyTypes'
  BY <1>1, <1>6, <1>7, <1>8 DEF GeographyFacts, GeographyTypes
<1>11. RowsListed'
  <2>1. \A u \in Versions : \A c \in Codes : file[u][c] = "absent" => staged[u][c] = "none"
    BY DEF GeographyFacts, RowsListed
  <2>2. \A u \in Versions : \A c \in Codes : file[u][c] = "absent" => staged'[u][c] = "none"
    BY <1>5, <1>6, <2>1
  <2> QED
    BY <1>1, <1>8, <2>2 DEF RowsListed, BeingStaged
<1>12. StagedFollow'
  <2> SUFFICES ASSUME NEW u \in Versions \ torn, batch[u] # "none"
               PROVE  RowsFollow(u)'
    BY <1>1 DEF StagedFollow
  <2>1. RowsFollow(u)
    BY <1>1 DEF GeographyFacts, StagedFollow, BeingStaged
  <2>2. CASE u # v
    BY <1>1, <1>6, <2>1, <2>2 DEF RowsFollow
  <2>3. CASE u = v
    <3>1. ASSUME NEW c \in Codes
          PROVE  /\ file[v][c] = "rejected" => staged'[v][c] = "rejected"
                 /\ file[v][c] \in {"valid", "inactive"} => staged'[v][c] \in {"valid", "processed", "orphaned"}
      BY <1>5, <1>6, <2>1, <2>3 DEF RowsFollow
    <3>2. ASSUME NEW c \in Codes, staged'[v][c] = "orphaned"
          PROVE  Level[c] > 0 /\ staged'[v][Parent[c]] \notin {"valid", "processed"}
      <4>p. Parent[c] \in Codes
        BY ServicesAssumption DEF G!GeographyAssumption
      <4>1. CASE staged[v][c] = "orphaned"
        <5>1. Level[c] > 0 /\ staged[v][Parent[c]] \notin {"valid", "processed"}
          BY <2>1, <2>3, <4>1 DEF RowsFollow
        <5>2. Parent[c] \notin some
          BY <1>5, <5>1
        <5> QED
          BY <1>6, <4>p, <5>1, <5>2
      <4>2. CASE staged[v][c] # "orphaned"
        <5>1. c \in some /\ ~G!Resolved(c)
          BY <1>4, <1>6, <3>2, <4>2
        <5>2. Level[c] # 0 /\ geography[Parent[c]] = "none" /\ Level[c] = run.level
          BY <1>5, <5>1 DEF G!Resolved
        <5>3. Level[c] \in Nat /\ Level[c] > 0 /\ Level[Parent[c]] < Level[c]
          BY <5>2, ServicesAssumption DEF G!GeographyAssumption
        <5>4. staged[v][Parent[c]] # "valid"
          BY <1>1, <1>2, <4>p, <5>2, <5>3 DEF GeographyFacts, LevelByLevel
        <5>5. staged[v][Parent[c]] # "processed"
          BY <4>p, <5>2 DEF GeographyFacts, ProcessedStay
        <5>6. Parent[c] \notin some
          BY <1>5, <5>4
        <5> QED
          BY <1>6, <4>p, <5>3, <5>4, <5>5, <5>6
      <4> QED
        BY <4>1, <4>2
    <3>3. RowsFollow(v)'
      BY <1>1, <3>1, <3>2 DEF RowsFollow
    <3> QED
      BY <2>3, <3>3
  <2> QED
    BY <2>2, <2>3
<1>13. LevelByLevel'
  <2>1. \A c \in Codes : staged'[v][c] = "valid" => staged[v][c] = "valid"
    BY <1>6
  <2>2. \A c \in Codes : Level[c] < run.level => staged'[v][c] # "valid"
    BY <1>1, <1>2, <2>1 DEF GeographyFacts, LevelByLevel
  <2>3. \A u \in Versions : batch[u] = "completed" => \A c \in Codes : staged'[u][c] # "valid"
    BY <1>6, <1>9 DEF GeographyFacts, LevelByLevel
  <2> QED
    BY <1>1, <1>8, <1>9, <2>2, <2>3 DEF LevelByLevel
<1>14. ProcessedStay'
  <2> SUFFICES ASSUME NEW u \in Versions, NEW c \in Codes, staged'[u][c] = "processed"
               PROVE  geography'[c] # "none" /\ (c \notin dropped'[u] => geography'[c] = G!Activity(u, c))
    BY <1>1 DEF ProcessedStay, G!Activity
  <2>1. CASE c \in written
    <3>1. geography'[c] = G!Activity(v, c) /\ G!Activity(v, c) # "none"
      BY <1>7, <2>1 DEF G!Activity
    <3>2. u # v => (c \in dropped'[u] \/ G!Activity(u, c) = G!Activity(v, c))
      BY <1>7, <2>1
    <3> QED
      BY <3>1, <3>2
  <2>2. CASE c \notin written
    <3>1. staged[u][c] = "processed"
      BY <1>6, <2>2
    <3>2. c \in dropped[u] => c \in dropped'[u]
      BY <1>7, <2>2
    <3> QED
      BY <1>7, <2>2, <3>1, <3>2 DEF GeographyFacts, ProcessedStay
  <2> QED
    BY <2>1, <2>2
<1>15. OthersRetired'
  BY <1>8 DEF OthersRetired
<1> QED
  BY <1>10, <1>11, <1>12, <1>13, <1>14, <1>15 DEF GeographyFacts

\* The import goes on to the next level, ends, fails or dies, or staging dies.
LEMMA RunSteps ==
    ASSUME GeographyFacts, G!NextLevel \/ G!Complete \/ G!Fail \/ G!Crash
    PROVE  GeographyFacts'
<1>1. UNCHANGED <<file, staged, geography, dropped>> /\ run.at # "idle"
  BY GeographyShapes DEF G!NextLevel, G!Complete, G!Fail, G!Crash, G!Idle
<1>2. PICK v \in Versions : v = run.version
  BY <1>1, GeographyShapes
<1>3. CASE G!NextLevel
  <2>1. run.at = "import" /\ batch' = batch /\ torn' = torn /\ G!ValidRows(v, run.level) = {}
    BY <1>2, <1>3 DEF G!NextLevel
  <2>2. PICK level \in Nat : level = run.level + 1 /\ run' = [run EXCEPT !.level = level]
    <3>1. run.level \in Nat /\ run' = [run EXCEPT !.level = run.level + 1]
      BY <1>3, <2>1, GeographyShapes DEF G!NextLevel, G!LevelAfter
    <3> QED
      BY <3>1
  <2>3. run' \in Importings /\ run'.at = "import" /\ run'.version = v /\ run'.level = level
    <3>1. run \in Importings
      BY <2>1, GeographyShapes
    <3> QED
      BY <1>2, <2>1, <2>2, <3>1 DEF Importings
  <2>4. GeographyTypes' /\ ProcessedStay' /\ \A u : RowsFollow(u)' <=> RowsFollow(u)
    BY <1>1, <2>1, <2>3, GeographyQuiet, GeographyShapes
  <2>5. RowsListed' /\ StagedFollow' /\ OthersRetired'
    BY <1>1, <2>1, <2>3, <2>4 DEF GeographyFacts, RowsListed, StagedFollow, OthersRetired, BeingStaged
  <2>6. LevelByLevel'
    <3>1. ASSUME NEW c \in Codes, Level[c] < level
          PROVE  staged[v][c] # "valid"
      <4>1. Level[c] \in Nat /\ run.level \in Nat
        BY <2>1, GeographyShapes, ServicesAssumption DEF G!GeographyAssumption
      <4>2. Level[c] < run.level \/ Level[c] = run.level
        BY <2>2, <3>1, <4>1
      <4> QED
        BY <1>2, <2>1, <4>2 DEF GeographyFacts, LevelByLevel, G!ValidRows
    <3> QED
      BY <1>1, <1>2, <2>1, <2>3, <3>1 DEF GeographyFacts, LevelByLevel
  <2> QED
    BY <2>4, <2>5, <2>6 DEF GeographyFacts
<1>4. CASE G!Complete \/ G!Fail \/ G!Crash
  <2>1. run' = G!Idle /\ run'.at = "idle"
    BY <1>4, GeographyShapes DEF G!Complete, G!Fail, G!Crash
  <2>2. /\ batch' \in [Versions -> {"none", "staging", "staged", "importing", "completed", "failed"}]
        /\ batch'[v] # "none" /\ batch[v] # "none" /\ \A u \in Versions \ {v} : batch'[u] = batch[u]
        /\ batch'[v] = "completed" => run.at = "retired"
    <3>1. batch[v] \notin {"none", "completed"}
      BY <1>1, <1>2 DEF GeographyFacts, LevelByLevel
    <3> QED
      BY <1>2, <1>4, <3>1, GeographyShapes DEF G!Complete, G!Fail, G!Crash
  <2>3. torn \subseteq torn' /\ torn' \subseteq Versions /\ (run.at = "stage" => v \in torn')
    BY <1>2, <1>4, GeographyShapes DEF G!Complete, G!Fail, G!Crash
  <2>4. GeographyTypes' /\ ProcessedStay' /\ \A u : RowsFollow(u)' <=> RowsFollow(u)
    BY <1>1, <2>1, <2>2, <2>3, GeographyQuiet
  <2>5. RowsListed' /\ OthersRetired'
    BY <1>1, <2>1 DEF GeographyFacts, RowsListed, OthersRetired, BeingStaged
  <2>6. StagedFollow'
    <3> SUFFICES ASSUME NEW u \in Versions \ torn', batch'[u] # "none"
                 PROVE  RowsFollow(u)
      BY <2>4 DEF StagedFollow
    <3>1. u \notin torn /\ batch[u] # "none" /\ ~BeingStaged(u)
      BY <1>2, <2>2, <2>3 DEF BeingStaged
    <3> QED
      BY <3>1 DEF GeographyFacts, StagedFollow
  <2>7. LevelByLevel'
    <3>1. \A u \in Versions : batch'[u] = "completed" => \A c \in Codes : staged[u][c] # "valid"
      BY <1>2, <2>2 DEF GeographyFacts, LevelByLevel
    <3> QED
      BY <1>1, <2>1, <3>1 DEF LevelByLevel
  <2> QED
    BY <2>4, <2>5, <2>6, <2>7 DEF GeographyFacts
<1> QED
  BY <1>3, <1>4

\* Codes are taken out of the master: by the retirement of a version, or by a file of deletions.
LEMMA TakenOut ==
    ASSUME GeographyFacts, UNCHANGED <<file, batch, staged, torn>>,
           run'.at = "stage" => run' = run,
           run' \in {G!Idle} \cup Stagings \cup Importings, NEW gone \in SUBSET Codes,
           \A c \in Codes : geography'[c] = geography[c] \/ (c \in gone /\ geography'[c] = "retired"),
           geography' \in [Codes -> {"none", "active", "retired"}], dropped' \in [Versions -> SUBSET Codes],
           \A v \in Versions : \A c \in gone : c \in dropped'[v] \/ staged[v][c] # "processed",
           \A v \in Versions : dropped[v] \subseteq dropped'[v], run.at # "stage"
    PROVE  GeographyTypes' /\ RowsListed' /\ StagedFollow' /\ ProcessedStay'
<1>1. GeographyTypes'
  BY DEF GeographyFacts, GeographyTypes
<1>2. RowsListed'
  BY DEF GeographyFacts, RowsListed, BeingStaged
<1>3. StagedFollow'
  <2>1. \A v : RowsFollow(v)' <=> RowsFollow(v)
    BY DEF RowsFollow
  <2> QED
    BY <2>1 DEF GeographyFacts, StagedFollow, BeingStaged
<1>4. ProcessedStay'
  <2> SUFFICES ASSUME NEW v \in Versions, NEW c \in Codes, staged[v][c] = "processed"
               PROVE  geography'[c] # "none" /\ (c \notin dropped'[v] => geography'[c] = G!Activity(v, c))
    BY DEF ProcessedStay, G!Activity
  <2>1. geography[c] # "none" /\ (c \notin dropped[v] => geography[c] = G!Activity(v, c))
    BY DEF GeographyFacts, ProcessedStay
  <2> QED
    BY <2>1
<1> QED
  BY <1>1, <1>2, <1>3, <1>4

LEMMA RetireStep ==
    ASSUME GeographyFacts, G!Retire
    PROVE  GeographyFacts'
<1>1. run.at = "import" /\ run.level \notin G!Levels /\ UNCHANGED <<file, batch, staged, torn>>
  BY DEF G!Retire
<1>2. PICK v \in Versions : v = run.version
  BY <1>1, GeographyShapes
<1>3. PICK gone \in SUBSET Codes :
        /\ gone = IF run.retire /\ G!Spared # {} THEN G!Missing ELSE {}
        /\ geography' = [c \in Codes |-> IF c \in gone THEN "retired" ELSE geography[c]]
        /\ dropped' = [u \in Versions |-> IF u = v THEN dropped[u] ELSE dropped[u] \cup gone]
  BY <1>2 DEF G!Retire, G!Missing
<1>4. \A c \in gone : staged[v][c] # "processed"
  BY <1>2, <1>3 DEF G!Missing, G!Spared, G!Processed
<1>5. /\ run' \in Importings /\ run'.at = "retired" /\ run'.version = v
      /\ (run'.retire <=> run.retire)
  <2>1. run \in Importings /\ run' = [run EXCEPT !.at = "retired"]
    BY <1>1, GeographyShapes DEF G!Retire
  <2>2. run' \in Importings /\ run'.at = "retired" /\ run'.version = v
    BY <1>2, <2>1 DEF Importings
  <2>3. run'.retire <=> run.retire
    BY <2>1 DEF Importings
  <2> QED
    BY <2>2, <2>3
<1>6. GeographyTypes' /\ RowsListed' /\ StagedFollow' /\ ProcessedStay'
  <2>1. /\ \A c \in Codes : geography'[c] = geography[c] \/ (c \in gone /\ geography'[c] = "retired")
        /\ geography' \in [Codes -> {"none", "active", "retired"}]
    <3>1. \A c \in Codes : geography[c] \in {"none", "active", "retired"}
      BY GeographyShapes
    <3>2. \A c \in Codes : geography'[c] = IF c \in gone THEN "retired" ELSE geography[c]
      BY <1>3
    <3>3. \A c \in Codes : (IF c \in gone THEN "retired" ELSE geography[c]) \in {"none", "active", "retired"}
      BY <3>1
    <3> QED
      BY <1>3, <3>2, <3>3
  <2>2. /\ dropped' \in [Versions -> SUBSET Codes]
        /\ \A u \in Versions : dropped[u] \subseteq dropped'[u]
        /\ \A u \in Versions \ {v} : gone \subseteq dropped'[u]
    BY <1>3, GeographyShapes
  <2>3. \A u \in Versions : \A c \in gone : c \in dropped'[u] \/ staged[u][c] # "processed"
    BY <1>4, <2>2
  <2> QED
    BY <1>1, <1>5, <2>1, <2>2, <2>3, TakenOut
<1>7. LevelByLevel'
  <2>1. ASSUME NEW c \in Codes
        PROVE  staged[v][c] # "valid"
    <3>1. Level[c] \in Nat /\ run.level \in Nat /\ \A level \in 0 .. Level[c] : level \in G!Levels
      BY <1>1, GeographyShapes, ServicesAssumption DEF G!GeographyAssumption
    <3>2. Level[c] < run.level
      BY <1>1, <3>1
    <3> QED
      BY <1>1, <1>2, <3>2 DEF GeographyFacts, LevelByLevel
  <2> QED
    BY <1>1, <1>2, <1>5, <2>1 DEF GeographyFacts, LevelByLevel
<1>8. OthersRetired'
  <2> SUFFICES ASSUME run.retire, NEW c \in Codes, geography'[c] = "active", Level[c] \in G!ImportedLevels(v)
               PROVE  staged[v][c] = "processed"
    BY <1>1, <1>5 DEF OthersRetired, G!ImportedLevels, G!Processed
  <2>1. G!Spared # {}
    BY <1>2 DEF G!ImportedLevels, G!Spared
  <2>2. c \notin G!Missing /\ geography[c] = "active"
    BY <1>3, <2>1
  <2> QED
    BY <1>2, <2>2 DEF G!Missing, G!Spared, G!Processed
<1> QED
  BY <1>6, <1>7, <1>8 DEF GeographyFacts

LEMMA DeleteStep ==
    ASSUME GeographyFacts, NEW c \in Codes, G!Delete({c})
    PROVE  GeographyFacts'
<1>1. run.at = "idle" /\ UNCHANGED <<file, batch, staged, run, torn>>
  BY GeographyShapes DEF G!Delete, G!Starts
<1>2. PICK gone \in SUBSET Codes :
        /\ gone = {c}
        /\ geography' = [d \in Codes |-> IF d \in gone /\ geography[d] # "none" THEN "retired" ELSE geography[d]]
        /\ dropped' = [v \in Versions |-> dropped[v] \cup gone]
  BY DEF G!Delete
<1>3. GeographyTypes' /\ RowsListed' /\ StagedFollow' /\ ProcessedStay'
  <2>1. /\ \A d \in Codes : geography'[d] = geography[d] \/ (d \in gone /\ geography'[d] = "retired")
        /\ geography' \in [Codes -> {"none", "active", "retired"}]
    <3>1. \A d \in Codes : geography[d] \in {"none", "active", "retired"}
      BY GeographyShapes
    <3>2. \A d \in Codes :
            geography'[d] = IF d \in gone /\ geography[d] # "none" THEN "retired" ELSE geography[d]
      BY <1>2
    <3>3. \A d \in Codes :
            (IF d \in gone /\ geography[d] # "none" THEN "retired" ELSE geography[d])
               \in {"none", "active", "retired"}
      BY <3>1
    <3> QED
      BY <1>2, <3>2, <3>3
  <2>2. /\ dropped' \in [Versions -> SUBSET Codes]
        /\ \A v \in Versions : dropped[v] \subseteq dropped'[v] /\ gone \subseteq dropped'[v]
    BY <1>2, GeographyShapes
  <2>3. run' \in {G!Idle} \cup Stagings \cup Importings
    BY <1>1 DEF GeographyFacts, GeographyTypes
  <2> QED
    BY <1>1, <2>1, <2>2, <2>3, TakenOut
<1>4. LevelByLevel' /\ OthersRetired'
  BY <1>1 DEF GeographyFacts, LevelByLevel, OthersRetired
<1> QED
  BY <1>3, <1>4 DEF GeographyFacts

LEMMA GeographyNext ==
    ASSUME GeographyFacts, [G!Next]_geographyVars
    PROVE  GeographyFacts'
<1>1. CASE UNCHANGED geographyVars
  <2>1. UNCHANGED <<file, batch, staged, geography, run, torn, dropped>>
    BY <1>1 DEF geographyVars
  <2>2. GeographyTypes' /\ ProcessedStay' /\ \A v : RowsFollow(v)' <=> RowsFollow(v)
    BY <2>1, GeographyQuiet DEF GeographyFacts, GeographyTypes
  <2>3. RowsListed' /\ StagedFollow' /\ LevelByLevel'
    BY <2>1, <2>2 DEF GeographyFacts, RowsListed, StagedFollow, LevelByLevel, BeingStaged, G!Validated
  <2>4. OthersRetired'
    BY <2>1 DEF GeographyFacts, OthersRetired, G!ImportedLevels, G!Processed
  <2> QED
    BY <2>2, <2>3, <2>4 DEF GeographyFacts
<1>2. CASE G!Next
  BY <1>2, BeginStagingStep, BeginImportStep, DeleteStep, FlushStep, EndStagingStep, PageStep, RetireStep, RunSteps
     DEF G!Next
<1> QED
  BY <1>1, <1>2

LEMMA GeographyHolds == MCSpec => []GeographyFacts
<1>1. MCInit => GeographyFacts
  BY GeographyInit DEF MCInit
<1>2. GeographyFacts /\ [MCNext]_all => GeographyFacts'
  BY GeographyNext, StepOfParts
<1> QED
  BY <1>1, <1>2, PTL DEF MCSpec

\* import.service.js: a completed batch has imported all that its version lists and could be
\* imported, whatever runs failed or died before, for any codes, levels, files and page size;
\* but for a version whose staging died.
THEOREM CompletedImports == MCSpec => []CompletedIsWhole
<1>1. GeographyFacts => CompletedIsWhole
  <2> SUFFICES ASSUME GeographyFacts, NEW v \in Versions \ torn, batch[v] = "completed", NEW c \in Codes
               PROVE  /\ file[v][c] = "absent" => staged[v][c] = "none"
                      /\ file[v][c] = "rejected" => staged[v][c] = "rejected"
                      /\ file[v][c] \in {"valid", "inactive"} =>
                            \/ staged[v][c] = "processed"
                            \/ /\ staged[v][c] = "orphaned"
                               /\ Level[c] > 0 /\ staged[v][Parent[c]] # "processed"
    <3>1. GeographyFacts => \A v \in Versions : \A c \in Codes : file[v][c] \in G!Contents
      BY GeographyShapes
    <3> QED
      BY <3>1 DEF CompletedIsWhole, G!CompletedIsWhole, G!Contents
  <2>1. RowsFollow(v)
    <3>1. ~BeingStaged(v)
      BY DEF GeographyFacts, LevelByLevel, BeingStaged
    <3> QED
      BY <3>1 DEF GeographyFacts, StagedFollow
  <2>2. staged[v][c] # "valid" /\ (file[v][c] = "absent" => staged[v][c] = "none")
    BY DEF GeographyFacts, LevelByLevel, RowsListed
  <2> QED
    BY <2>1, <2>2 DEF RowsFollow
<1> QED
  BY <1>1, GeographyHolds, PTL

\* import.service.js: retirement leaves active no more than what was processed, and that is active
\* or not as the source says, but for what was taken out or written otherwise since.
THEOREM RetirementIsRight == MCSpec => RetiredAreMissing
<1>1. ASSUME GeographyFacts, [G!Next]_geographyVars, NEW v \in Versions,
             batch'[v] = "completed", batch[v] # "completed"
      PROVE  run.at = "retired" /\ run.version = v
  <2>1. G!Complete
    <3>1. CASE UNCHANGED geographyVars
      BY <1>1, <3>1 DEF geographyVars
    <3>2. ASSUME NEW u \in Versions, G!BeginStaging(u)
          PROVE  FALSE
      BY <1>1, <3>2, GeographyShapes DEF G!BeginStaging
    <3>3. ASSUME NEW u \in Versions, NEW retire \in BOOLEAN, G!BeginImport(u, retire)
          PROVE  FALSE
      BY <1>1, <3>3, GeographyShapes DEF G!BeginImport
    <3>4. ASSUME NEW c \in Codes, G!Delete({c})
          PROVE  FALSE
      BY <1>1, <3>4 DEF G!Delete
    <3>5. CASE G!EndStaging \/ G!Fail
      BY <1>1, <3>5, GeographyShapes DEF G!EndStaging, G!Fail
    <3>6. CASE G!Flush \/ G!Page \/ G!NextLevel \/ G!Retire \/ G!Crash
      BY <1>1, <3>6 DEF G!Flush, G!Page, G!NextLevel, G!Retire, G!Crash
    <3> QED
      BY <1>1, <3>1, <3>2, <3>3, <3>4, <3>5, <3>6 DEF G!Next
  <2> QED
    BY <1>1, <2>1, GeographyShapes DEF G!Complete
<1>2. ASSUME GeographyFacts, [MCNext]_all
      PROVE  [\A v \in Versions :
                (batch'[v] = "completed" /\ batch[v] # "completed" /\ run.retire) =>
                   \A c \in Codes : Level[c] \in G!ImportedLevels(v) =>
                      /\ geography[c] = "active" => c \in G!Processed(v)
                      /\ c \in G!Processed(v) \ dropped[v] => geography[c] = G!Activity(v, c)]_G!vars
  <2> SUFFICES ASSUME NEW v \in Versions, batch'[v] = "completed", batch[v] # "completed", run.retire,
                      NEW c \in Codes, Level[c] \in G!ImportedLevels(v)
               PROVE  /\ geography[c] = "active" => c \in G!Processed(v)
                      /\ c \in G!Processed(v) \ dropped[v] => geography[c] = G!Activity(v, c)
    OBVIOUS
  <2>1. run.at = "retired" /\ run.version = v
    BY <1>1, <1>2, StepOfParts
  <2> QED
    BY <1>2, <2>1 DEF GeographyFacts, OthersRetired, ProcessedStay, G!Processed
<1> QED
  BY <1>2, GeographyHolds, PTL DEF MCSpec, RetiredAreMissing, G!RetiredAreMissing
=============================================================================
