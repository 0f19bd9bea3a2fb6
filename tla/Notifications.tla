--------------------------- MODULE Notifications ----------------------------
(***************************************************************************)
(* Notifications of one event (notifications/notification.service.js): the *)
(* publishers that tell its recipients of it under one dedupe key, once as *)
(* they mean, the push that follows each row, and the registration of the  *)
(* device that pushes go to, which changes hands. Nothing is in a          *)
(* transaction, and no unique index is on the dedupe key: the look-up is   *)
(* all there is. Pushes run side by side, for there are as many lanes as   *)
(* recipients here, and the provider of them may call a token invalid.     *)
(***************************************************************************)
EXTENDS Sequelize

CONSTANTS
    Users,          \* recipients
    NoUser,         \* the owner of a token that is not registered
    Publishers,     \* those who publish the event: handlers, sweeps, retries
    Requests        \* requests about the device's token

NotificationsAssumption == NoUser \notin Users

VARIABLES
    rows,       \* the notification of each publisher to each user, and where its push is
    publisher,  \* where each publisher is, and whom it has to tell
    token,      \* the NotificationDeviceToken row: its owner, and whether it is disabled
    request,    \* where each request is, with what it has read
    strayed,    \* history: the pushes that have reached another user's device, of those not moved
    lookedUp,   \* history: two publishers were between look-up and insert
    moved,      \* history: the pushes under way since before the token was registered anew
    holder,     \* history: the user of the device since it was registered last
    raced       \* history: the token changed under a registration or a refused push

vars == <<rows, publisher, token, request, strayed, lookedUp, moved, holder, raced>>

-----------------------------------------------------------------------------
NoToken == [owner |-> NoUser, disabled |-> FALSE]
Pushes == Publishers \X Users

At(place) == {x \in Pushes : rows[x[1]][x[2]] = place}

Init ==
    /\ rows = [p \in Publishers |-> [u \in Users |-> "none"]]
    /\ publisher = [p \in Publishers |-> [at |-> "idle", tell |-> {}]]
    /\ token \in {NoToken} \cup [owner: Users, disabled: {FALSE}]
    /\ holder = token.owner
    /\ request = [q \in Requests |-> [at |-> "idle", user |-> NoUser, seen |-> NoToken]]
    /\ strayed = {}
    /\ lookedUp = FALSE /\ moved = {} /\ raced = FALSE

-----------------------------------------------------------------------------
(* createNotificationRows and maybeDeliverPushForNotification.             *)

Tells(p, tell) ==
    /\ publisher[p].at = "idle"
    /\ publisher' = [publisher EXCEPT ![p].at = "insert", ![p].tell = tell]
    /\ lookedUp' = (lookedUp \/ \E q \in Publishers \ {p} : publisher[q].at = "insert")
    /\ UNCHANGED <<rows, token, request, strayed, moved, holder, raced>>

\* Mutant: the rows of the dedupe key are not looked for.
Look_Anew(p) == \E tell \in SUBSET Users : Tells(p, tell)

\* The recipients that have no row of the key yet, but for those who are inactive or want
\* no such notification. A key is stored cut to 220 characters and looked for whole; those
\* that the code makes, of one or two ids and a few fixed words, are shorter, and one that
\* comes with a request is cut first.
Look(p) ==
    \E tell \in SUBSET {u \in Users : \A q \in Publishers : rows[q][u] = "none"} : Tells(p, tell)

\* bulkCreate
Insert(p) ==
    /\ publisher[p].at = "insert"
    /\ rows' = [rows EXCEPT ![p] = [u \in Users |-> IF u \in publisher[p].tell THEN "created" ELSE "none"]]
    /\ publisher' = [publisher EXCEPT ![p] = [at |-> "push", tell |-> {}]]
    /\ UNCHANGED <<token, request, strayed, lookedUp, moved, holder, raced>>

\* A user without a device is written down as such.
ReadToken(p, u) ==
    /\ publisher[p].at = "push" /\ rows[p][u] = "created"
    /\ rows' = [rows EXCEPT ![p][u] =
                    IF token.owner = u /\ ~token.disabled THEN "pushing" ELSE "done"]
    /\ UNCHANGED <<publisher, token, request, strayed, lookedUp, moved, holder, raced>>

\* sendPushBatch and its log: the push reaches the device, whoever has it by now, it fails,
\* or the provider does not know the token any more.
Send(p, u) ==
    /\ publisher[p].at = "push" /\ rows[p][u] = "pushing"
    /\ \/ rows' = [rows EXCEPT ![p][u] = "done"]
          /\ strayed' = IF token.owner = u \/ <<p, u>> \in moved THEN strayed ELSE strayed \cup {<<p, u>>}
       \/ \E to \in {"done", "refused"} : rows' = [rows EXCEPT ![p][u] = to] /\ UNCHANGED strayed
    /\ moved' = moved \ {<<p, u>>}
    /\ UNCHANGED <<publisher, token, request, lookedUp, holder, raced>>

\* The token changes; whoever has read it before, writes or disables it from now on.
TokenBecomes(new) ==
    /\ token' = new
    /\ raced' = (raced \/ \E q \in Requests : request'[q].at = "write"
                       \/ \E x \in Pushes : rows'[x[1]][x[2]] = "refused")

disableInvalidTokens(p, u) ==
    /\ publisher[p].at = "push" /\ rows[p][u] = "refused"
    /\ rows' = [rows EXCEPT ![p][u] = "done"]
    /\ UNCHANGED <<publisher, request, strayed, lookedUp, moved>>
    /\ TokenBecomes([token EXCEPT !.disabled = TRUE]) /\ holder' = NoUser

\* A query is rejected: the other pushes go on.
Break(p, u) ==
    /\ publisher[p].at = "push" /\ rows[p][u] \in {"created", "pushing", "refused"}
    /\ rows' = [rows EXCEPT ![p][u] = "done"]
    /\ moved' = moved \ {<<p, u>>}
    /\ UNCHANGED <<publisher, token, request, strayed, lookedUp, holder, raced>>

Die(p) ==
    /\ publisher[p].at \in {"insert", "push"}
    /\ publisher' = [publisher EXCEPT ![p] = [at |-> "dead", tell |-> {}]]
    /\ rows' = [rows EXCEPT ![p] = [u \in Users |-> IF @[u] = "none" THEN "none" ELSE "done"]]
    /\ moved' = moved \ ({p} \X Users)
    /\ UNCHANGED <<token, request, strayed, lookedUp, holder, raced>>

publishNotification(p) ==
    \/ Look(p) \/ Insert(p) \/ Die(p)
    \/ \E u \in Users : ReadToken(p, u) \/ Send(p, u) \/ disableInvalidTokens(p, u) \/ Break(p, u)

-----------------------------------------------------------------------------
(* registerDeviceToken and removeDeviceToken, of one device.               *)

ReadRegistration(q, u) ==
    /\ request[q].at = "idle"
    /\ request' = [request EXCEPT ![q] = [at |-> "write", user |-> u, seen |-> token]]
    /\ UNCHANGED <<rows, publisher, token, strayed, lookedUp, moved, holder, raced>>

\* The token's unique index refuses a second row; of a row that was there, what differs
\* is written.
WriteRegistration(q) ==
    /\ request[q].at = "write"
    /\ request' = [request EXCEPT ![q].at = "done"]
    /\ moved' = moved \cup At("pushing")
    /\ UNCHANGED <<rows, publisher, strayed, lookedUp>>
    /\ LET new == [owner |-> request[q].user, disabled |-> FALSE]
       IN  TokenBecomes(IF request[q].seen # NoToken THEN Saved(token, request[q].seen, new)
                        ELSE IF token # NoToken THEN token ELSE new)
           /\ holder' = request[q].user

\* One update of what is the user's and not disabled.
removeDeviceToken(q, u) ==
    /\ request[q].at = "idle" /\ token.owner = u /\ ~token.disabled
    /\ request' = [request EXCEPT ![q] = [@ EXCEPT !.at = "removed", !.user = u]]
    /\ UNCHANGED <<rows, publisher, strayed, lookedUp, moved>>
    /\ TokenBecomes([token EXCEPT !.disabled = TRUE]) /\ holder' = NoUser

Next ==
    \/ \E p \in Publishers : publishNotification(p)
    \/ \E q \in Requests :
        \/ WriteRegistration(q)
        \/ \E u \in Users : ReadRegistration(q, u) \/ removeDeviceToken(q, u)

Spec == Init /\ [][Next]_vars

-----------------------------------------------------------------------------
\* Every variable has the shape the code gives it.
TypeOK ==
    /\ rows \in [Publishers -> [Users -> {"none", "created", "pushing", "refused", "done"}]]
    /\ \A p \in Publishers : publisher[p].tell \subseteq Users
    /\ token \in [owner: Users \cup {NoUser}, disabled: BOOLEAN] /\ holder \in Users \cup {NoUser}
    /\ strayed \subseteq Pushes /\ moved \subseteq Pushes /\ lookedUp \in BOOLEAN /\ raced \in BOOLEAN

\* A recipient is told of an event once, whoever publishes it again, unless two publishers
\* both looked before either wrote. A push reaches the recipient's device, unless the
\* device was registered anew while it was under way; and pushes are for the user who
\* registered the device last, and until it is removed or refused by the provider, unless
\* the token changed between two steps of those who did.
ToldOnce ==
    /\ \A x, y \in Pushes :
        x # y /\ x[2] = y[2] /\ rows[x[1]][x[2]] # "none" /\ rows[y[1]][y[2]] # "none" => lookedUp
    /\ strayed = {}
    /\ raced \/ holder = IF token.disabled THEN NoUser ELSE token.owner
=============================================================================
