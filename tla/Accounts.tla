------------------------------ MODULE Accounts ------------------------------
(***************************************************************************)
(* Who works with the dashboard: the first-run wizard (onboarding/         *)
(* server.ts), users and their sessions (users), the admin's pages         *)
(* (dashboard/server.ts) and single sign-on (auth/sso.ts).  A request      *)
(* looks at its session once, when it arrives, and acts when its body has  *)
(* been read; in between other requests are served.                        *)
(*                                                                         *)
(* Passwords, and the lock-out of those who mistype them, are left out.    *)
(* The session of a single sign-on is left out too: it goes to the browser *)
(* in a cookie of another name than the one parseSessionCookie reads.      *)
(***************************************************************************)
EXTENDS Handlers, FiniteSets

CONSTANTS
  Person,        \* their mail addresses
  Browser,       \* requests that can be in flight at once
  MaxUsers,      \* the licence's limit
  SessionLife,   \* 12 hours
  LastHour       \* bound: the clock

Wizard == "wizard"
Nobody == "nobody"

ASSUME AccountAssumption ==
  /\ {MaxUsers, SessionLife, LastHour} \subseteq Nat
  /\ IsFiniteSet(Browser)
  /\ Wizard \notin Person /\ Nobody \notin Person

VARIABLES
  hour,        \* the time
  user,        \* users: the row of each address, if there is one
  sessions,    \* sessions
  setUp,       \* setup_state.completed
  request,     \* the requests that wait for their bodies
  late,        \* (history) acts of each person who is no admin any more
  inFlight     \* (history) requests it had in flight when it ceased to be one

accountVars == <<hour, user, sessions, setUp, request, late, inFlight>>

UserState == [status : {"none", "active", "suspended"}, role : {"admin", "lawyer"}]
AccountSession == [of : Person, until : Nat]

(* The request's kind, and whom it was let in for.                         *)
RequestState == [kind : {"none", "admin", "setup", "sso"}, by : Person \cup {Wizard, Nobody}]
NoRequest == [kind |-> "none", by |-> Nobody]

AccountsTypeOK ==
  /\ hour \in Nat
  /\ user \in [Person -> UserState]
  /\ sessions \subseteq AccountSession
  /\ setUp \in BOOLEAN
  /\ request \in [Browser -> RequestState]
  /\ late \in [Person -> Nat] /\ inFlight \in [Person -> Nat]

AccountsInit ==
  /\ hour = 0
  /\ user = [u \in Person |-> [status |-> "none", role |-> "lawyer"]]
  /\ sessions = {}
  /\ setUp = FALSE
  /\ request = [b \in Browser |-> NoRequest]
  /\ late = [u \in Person |-> 0] /\ inFlight = [u \in Person |-> 0]

-----------------------------------------------------------------------------

IsActive(u) == user[u].status = "active"
IsAdmin(u) == IsActive(u) /\ user[u].role = "admin"
ActiveUsers == {u \in Person : IsActive(u)}

(* assertCanAddUser, under a valid licence.                                *)
CanAddUser == Cardinality(ActiveUsers) < MaxUsers

(* Seeded fault: only the expiry is looked at.                             *)
LoadSessionUnexpired(s) == s.until >= hour

(* loadSession: neither expired nor of somebody suspended meanwhile.       *)
LoadSession(s) == s.until >= hour /\ IsActive(s.of)

CreateSession(u) == sessions \cup {[of |-> u, until |-> hour + SessionLife]}

(* An act that somebody was let in for, and the book the histories keep of *)
(* those who ceased to be admins.                                          *)
Acts(by) ==
  /\ late' = [u \in Person |->
       IF IsAdmin(u) \/ IsAdmin(u)' THEN 0 ELSE late[u] + (IF u = by THEN 1 ELSE 0)]
  /\ inFlight' = [u \in Person |->
       IF IsAdmin(u)' THEN 0
       ELSE IF IsAdmin(u) THEN Cardinality({b \in Browser : request'[b].by = u})
       ELSE inFlight[u]]

-----------------------------------------------------------------------------

NextHour ==
  /\ hour < LastHour
  /\ hour' = hour + 1
  /\ UNCHANGED <<handlerVars, user, sessions, setUp, request, late, inFlight>>

(* A request whose session is not there, is gone or has ended is sent to   *)
(* the login page, the session's row removed.                              *)
TurnAway(s) ==
  /\ ~LoadSession(s)
  /\ sessions' = sessions \ {s}
  /\ UNCHANGED <<handlerVars, hour, user, setUp, request, late, inFlight>>

PurgeExpiredSessions ==
  /\ sessions' = {s \in sessions : s.until >= hour}
  /\ UNCHANGED <<handlerVars, hour, user, setUp, request, late, inFlight>>

(* POST /login and GET /logout, each after its last await.                 *)
Login(u) ==
  /\ setUp /\ IsActive(u)
  /\ Request
  /\ sessions' = CreateSession(u)
  /\ UNCHANGED <<mishaps, hurt, hour, user, setUp, request, late, inFlight>>

Logout(s) ==
  /\ setUp /\ LoadSession(s)
  /\ sessions' = sessions \ {s}
  /\ UNCHANGED <<handlerVars, hour, user, setUp, request, late, inFlight>>

(* A request is let in: to the wizard while set-up is not complete, to the *)
(* admin's pages with an admin's session, to the sign-on's callback with   *)
(* anybody's, for it lies behind the login like every other page.          *)
LetIn(b) ==
  /\ request[b] = NoRequest
  /\ Request
  /\ \/ ~setUp /\ request' = [request EXCEPT ![b] = [kind |-> "setup", by |-> Wizard]]
     \/ /\ setUp
        /\ \E s \in sessions :
             /\ LoadSession(s)
             /\ \/ /\ IsAdmin(s.of)
                   /\ request' = [request EXCEPT ![b] = [kind |-> "admin", by |-> s.of]]
                \/ request' = [request EXCEPT ![b] = [kind |-> "sso", by |-> s.of]]
  /\ UNCHANGED <<mishaps, hurt, hour, user, sessions, setUp, late, inFlight>>

Dismiss(b) == request' = [request EXCEPT ![b] = NoRequest]

(* POST /users/create, when the body is there.                             *)
CreateUser(b, u, role) ==
  /\ request[b].kind = "admin"
  /\ Dismiss(b)
  /\ \/ /\ user[u].status = "none" /\ CanAddUser
        /\ user' = [user EXCEPT ![u] = [status |-> "active", role |-> role]]
        /\ Acts(request[b].by)
     \/ /\ user[u].status # "none" \/ ~CanAddUser
        /\ UNCHANGED <<user, late, inFlight>>
  /\ UNCHANGED <<handlerVars, hour, sessions, setUp>>

(* POST /users/:id/role, when the body is there.                           *)
SetRole(b, u, role) ==
  /\ request[b].kind = "admin" /\ user[u].status # "none"
  /\ Dismiss(b)
  /\ user' = [user EXCEPT ![u].role = role]
  /\ Acts(request[b].by)
  /\ UNCHANGED <<handlerVars, hour, sessions, setUp>>

(* POST /users/:id/suspend and /reactivate read no body; an admin may do   *)
(* either to anybody, itself included.                                     *)
SetStatus(s, u, status) ==
  /\ setUp /\ LoadSession(s) /\ user[s.of].role = "admin" /\ user[u].status # "none"
  /\ status = "active" => CanAddUser
  /\ Request
  /\ user' = [user EXCEPT ![u].status = status]
  /\ UNCHANGED request
  /\ Acts(s.of)
  /\ UNCHANGED <<mishaps, hurt, hour, sessions, setUp>>

(* POST /setup/admin, when the form is there: whether set-up was completed *)
(* meanwhile is not asked again.  The session comes in a write of its own. *)
SetupAdmin(b, u) ==
  /\ request[b].kind = "setup"
  /\ user[u].status = "none" /\ CanAddUser
  /\ Dismiss(b)
  /\ user' = [user EXCEPT ![u] = [status |-> "active", role |-> "admin"]]
  /\ \E done \in {sessions, CreateSession(u)} :
       sessions' = done /\ Leaves(u, <<sessions, CreateSession(u)>>, done)
  /\ Acts(Wizard)
  /\ UNCHANGED <<edits, hour, setUp>>

(* POST /setup/finish.                                                     *)
SetupFinish ==
  /\ ~setUp /\ \E u \in Person : IsAdmin(u)
  /\ setUp' = TRUE
  /\ UNCHANGED <<handlerVars, hour, user, sessions, request, late, inFlight>>

(* handleSsoCallback, when the provider has named the address: a lawyer's  *)
(* row is made for one that has none, and the licence is not asked.        *)
HandleSsoCallback(b, u) ==
  /\ request[b].kind = "sso"
  /\ Dismiss(b)
  /\ \/ /\ user[u].status = "none"
        /\ user' = [user EXCEPT ![u] = [status |-> "active", role |-> "lawyer"]]
     \/ user[u].status # "none" /\ UNCHANGED user
  /\ UNCHANGED <<handlerVars, hour, sessions, setUp, late, inFlight>>

AccountStep ==
  \/ NextHour \/ PurgeExpiredSessions \/ SetupFinish
  \/ \E u \in Person : Login(u)
  \/ \E s \in sessions :
       \/ TurnAway(s) \/ Logout(s)
       \/ \E u \in Person, status \in {"active", "suspended"} : SetStatus(s, u, status)
  \/ \E b \in Browser :
       \/ LetIn(b)
       \/ \E u \in Person : SetupAdmin(b, u) \/ HandleSsoCallback(b, u)
       \/ \E u \in Person, role \in {"admin", "lawyer"} : CreateUser(b, u, role) \/ SetRole(b, u, role)

-----------------------------------------------------------------------------

(* An admin who is suspended or made a lawyer again acts no more, but for  *)
(* the requests that were already let in: sessions are not destroyed with  *)
(* the right to use them, so each request has to look (session.ts:65-82,   *)
(* dashboard/server.ts:820-905).                                           *)
LostPowersEnd == \A u \in Person : late[u] <= inFlight[u]

=============================================================================
