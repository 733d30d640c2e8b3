-------------------------------- MODULE Sessions --------------------------------
(***************************************************************************)
(* Who may use the program: user rows in the database, sessions and the    *)
(* count of failed logins in memory, and HTTP requests that read the one   *)
(* and write the other in several steps.                                   *)
(*                                                                         *)
(* A request is a goroutine.  It reads a user row, works on the copy (a    *)
(* password check takes a tenth of a second) and writes the whole row or a *)
(* session later; a session is looked up, then extended, then its copy is  *)
(* used by the handler.  Nothing holds a lock from one step to the next.   *)
(*                                                                         *)
(* Source: internal/usecase/auth, internal/usecase/admin,                  *)
(* internal/infrastructure/session, internal/delivery/http,                *)
(* internal/repository/postgres/user.go.                                   *)
(***************************************************************************)
EXTENDS Naturals, FiniteSets

CONSTANTS
  Users,        \* user names; lower(username) is unique
  Admins,       \* those with the admin role: no call changes a role
  FirstAdmin,   \* the admin the program creates for an empty database
  Passwords,    \* what people type, and what the rows hash
  NewPasswords, \* those an administrator gives
  FirstPassword,
  Sites,
  DefaultSite,
  Assignments,  \* a bound: the sets of sites a new user may be given
  SessionIds,   \* random ids newID may draw, each at most once
  Tickets,      \* ids of password reset requests
  Requests,     \* requests in flight at the same time
  Managed,      \* a bound: users whose rows are edited, and whose passwords
                \* are mistyped and forgotten
  FailLimit,    \* refused passwords before a minute of silence: 5 in the code
  None

ASSUME SessionConstants ==
  /\ FirstAdmin \in Admins /\ Admins \subseteq Users
  /\ FirstPassword \in Passwords /\ NewPasswords \subseteq Passwords
  /\ DefaultSite \in Sites /\ Assignments \subseteq SUBSET Sites
  /\ FailLimit \in Nat \ {0} /\ IsFiniteSet(Requests)
  /\ None \notin Users \cup Passwords \cup Sites \cup SessionIds \cup Tickets

VARIABLES
  places,     \* the rows of sites: never deleted
  users,      \* the rows of users and user_sites: a function from those that exist
  resets,     \* [Tickets -> row of password_reset_requests, or None]
  sessions,   \* Store.items: a function from the ids that exist
  drawn,      \* session ids drawn so far
  fails,      \* [Users -> count of Service.loginFails]
  blocked,    \* users whose name may not log in for a minute
  req,        \* [Requests -> what the goroutine is at, and its locals]
  tried,      \* history: passwords refused since a name was last free
  answered    \* history: tickets whose user was given a password since

dbVars     == <<places, users, resets>>
memoryVars == <<sessions, drawn, fails, blocked>>
history    == <<tried, answered>>
vars == <<places, users, resets, sessions, drawn, fails, blocked, req, tried, answered>>

-----------------------------------------------------------------------------
(* Rows, sessions and requests.                                            *)

UserRow == [password : Passwords, active : BOOLEAN, sites : SUBSET Sites]
\* late is history: the row was deactivated between its reading and the session.
Session == [user : Users, sites : SUBSET Sites, active : Sites, expired : BOOLEAN,
            late : BOOLEAN]
Ticket  == [user : Users, status : {"open", "done"}]

ASSUME NoneIsNoRow == None \notin UserRow \cup Ticket

Idle == [step |-> "idle", op |-> None, user |-> None, pass |-> None,
         row |-> None, id |-> None, sites |-> {}, ticket |-> None]

Put(f, k, v) == [x \in DOMAIN f \cup {k} |-> IF x = k THEN v ELSE f[x]]
Without(f, S) == [x \in DOMAIN f \ S |-> f[x]]

\* The goroutine goes on with some of its locals changed, or returns.
Goto(r, step) == req' = [req EXCEPT ![r].step = step]
Return(r)     == req' = [req EXCEPT ![r] = Idle]

-----------------------------------------------------------------------------
(* Login.                                                                  *)

\* Mutant: one failure too many before the minute of silence
RecordLoginFailLate(u) ==
  /\ tried' = [tried EXCEPT ![u] = @ + 1]
  /\ IF fails[u] >= FailLimit
       THEN fails' = [fails EXCEPT ![u] = 0] /\ blocked' = blocked \cup {u}
       ELSE fails' = [fails EXCEPT ![u] = @ + 1] /\ UNCHANGED blocked

RecordLoginFail(u) ==
  /\ tried' = [tried EXCEPT ![u] = @ + 1]
  /\ IF fails[u] + 1 >= FailLimit
       THEN fails' = [fails EXCEPT ![u] = 0] /\ blocked' = blocked \cup {u}
       ELSE fails' = [fails EXCEPT ![u] = @ + 1] /\ UNCHANGED blocked

ClearLoginFail(u) ==
  /\ fails' = [fails EXCEPT ![u] = 0]
  /\ blocked' = blocked \ {u}
  /\ tried' = [tried EXCEPT ![u] = 0]

\* A refusal here is not counted.
CheckLoginRate(u) == u \notin blocked

\* The handler, up to checkLoginRate: nothing has been read yet.
LoginArrives(r, u, pass) ==
  /\ req[r].step = "idle"
  /\ CheckLoginRate(u)
  /\ u \notin Managed => u \in DOMAIN users /\ users[u].password = pass
  /\ req' = [req EXCEPT ![r] = [Idle EXCEPT !.step = "read", !.op = "login",
                                            !.user = u, !.pass = pass]]
  /\ UNCHANGED <<dbVars, memoryVars, history>>

GetByUsername(u) == IF u \in DOMAIN users THEN users[u] ELSE None

\* An unknown name and a user who is not active count as a wrong password.
LoginReads(r) ==
  LET u == req[r].user
      found == GetByUsername(u) # None /\ GetByUsername(u).active IN
  /\ req[r].step = "read"
  /\ \/ /\ found
        /\ req' = [req EXCEPT ![r].step = "verify", ![r].row = GetByUsername(u)]
        /\ UNCHANGED <<fails, blocked, tried>>
     \/ /\ ~found
        /\ RecordLoginFail(u)
        /\ Return(r)
  /\ UNCHANGED <<dbVars, sessions, drawn, answered>>

LoginRefused(r) ==
  /\ req[r].step = "verify"
  /\ req[r].row.password # req[r].pass
  /\ RecordLoginFail(req[r].user)
  /\ Return(r)
  /\ UNCHANGED <<dbVars, sessions, drawn, answered>>

\* Mutant: a user without a site is not refused and works on the nil site
FirstSitesOrNil(u, sites) == IF sites = {} THEN {None} ELSE sites

\* The first site of the row; an admin without one gets the default site
FirstSites(u, sites) ==
  IF sites = {} /\ u \in Admins THEN {DefaultSite} ELSE sites

\* Store.Create: the session holds what the row said when it was read.
OpenSession(u, row, site) ==
  \E id \in SessionIds \ drawn :
    /\ sessions' = Put(sessions, id,
                       [user |-> u, sites |-> row.sites, active |-> site,
                        expired |-> FALSE, late |-> row.active /\ ~users[u].active])
    /\ drawn' = drawn \cup {id}

LoginGranted(r) ==
  LET u == req[r].user IN
  /\ req[r].step = "verify"
  /\ req[r].row.password = req[r].pass
  /\ ClearLoginFail(u)
  /\ \/ /\ FirstSites(u, req[r].row.sites) = {}
        /\ UNCHANGED <<sessions, drawn>>
     \/ \E site \in FirstSites(u, req[r].row.sites) : OpenSession(u, req[r].row, site)
  /\ Return(r)
  /\ UNCHANGED <<dbVars, answered>>

-----------------------------------------------------------------------------
(* A request with a session cookie: Store.Get, Store.Touch, the handler.   *)

\* Store.Get copies the session out of the map.
Authenticate(r, id) ==
  /\ req[r].step = "idle"
  /\ id \in DOMAIN sessions
  /\ req' = [req EXCEPT ![r] =
       [Idle EXCEPT !.step  = IF sessions[id].expired THEN "drop" ELSE "touch",
                    !.user  = sessions[id].user,
                    !.id    = id,
                    !.sites = sessions[id].sites]]
  /\ UNCHANGED <<dbVars, memoryVars, history>>

\* Get deletes what it saw expired, in a step of its own.
DropExpired(r) ==
  /\ req[r].step = "drop"
  /\ sessions' = Without(sessions, {req[r].id})
  /\ Return(r)
  /\ UNCHANGED <<dbVars, drawn, fails, blocked, history>>

\* Mutant: the copy that Get returned is stored again with a later expiry
TouchRestores(r) ==
  /\ req[r].step = "touch"
  /\ \E site \in Sites :
       sessions' = IF req[r].id \in DOMAIN sessions
                   THEN [sessions EXCEPT ![req[r].id].expired = FALSE]
                   ELSE Put(sessions, req[r].id,
                            [user |-> req[r].user, sites |-> req[r].sites,
                             active |-> site, expired |-> FALSE, late |-> FALSE])
  /\ Goto(r, "handle")
  /\ UNCHANGED <<dbVars, drawn, fails, blocked, history>>

\* Store.Touch
Extended(id) == [sessions EXCEPT ![id].expired = FALSE]

\* Touch looks the session up again: it may be gone, or have run out since.
Touch(r) ==
  /\ req[r].step = "touch"
  /\ sessions' = IF req[r].id \in DOMAIN sessions
                 THEN Extended(req[r].id)
                 ELSE sessions
  /\ Goto(r, "handle")
  /\ UNCHANGED <<dbVars, drawn, fails, blocked, history>>

\* Mutant: any site will do
MayUseAnySite(r, site) == site \in Sites

\* An administrator may name any site, one that is not there too.
MayUseSite(r, site) == req[r].user \in Admins \/ site \in req[r].sites

\* Store.SetActiveSite
Moved(id, site) == [sessions EXCEPT ![id].active = site, ![id].expired = FALSE]

SetActiveSite(r, site) ==
  /\ req[r].step = "handle"
  /\ MayUseSite(r, site)
  /\ sessions' = IF req[r].id \in DOMAIN sessions
                 THEN Moved(req[r].id, site)
                 ELSE sessions
  /\ Return(r)
  /\ UNCHANGED <<dbVars, drawn, fails, blocked, history>>

Logout(r) ==
  /\ req[r].step = "handle"
  /\ sessions' = Without(sessions, {req[r].id})
  /\ Return(r)
  /\ UNCHANGED <<dbVars, drawn, fails, blocked, history>>

\* Every request that leaves this state alone, and every refusal
Answered(r) ==
  /\ req[r].step = "handle"
  /\ Return(r)
  /\ UNCHANGED <<dbVars, memoryVars, history>>

-----------------------------------------------------------------------------
(* Administration: requireAdmin looks at the copy of the session.          *)

AdminCall(r) == req[r].step = "handle" /\ req[r].user \in Admins

\* What SetUserPassword and SetUserActive change in the row they have read
Edited(op, row, pass) ==
  CASE op = "password"   -> [row EXCEPT !.password = pass]
    [] op = "activate"   -> [row EXCEPT !.active = TRUE]
    [] op = "deactivate" -> [row EXCEPT !.active = FALSE]

\* What Update writes of a row: not its sites
Columns(row) == [row EXCEPT !.sites = {}]

\* SetUserPassword and SetUserActive: GetByID
AdminReads(r, op, u, pass) ==
  /\ AdminCall(r)
  /\ u \in DOMAIN users \cap Managed
  /\ req' = [req EXCEPT ![r] =
       [Idle EXCEPT !.step = "write", !.op = op, !.user = u, !.pass = pass,
                 !.row = Columns(users[u])]]
  /\ UNCHANGED <<dbVars, memoryVars, history>>

\* Mutant: the ticket is closed before the password is set
ResolvesFirst(r, t, pass) ==
  /\ AdminCall(r)
  /\ resets[t] # None
  /\ resets[t].user \in DOMAIN users
  /\ resets' = [resets EXCEPT ![t].status = "done"]
  /\ req' = [req EXCEPT ![r] =
       [Idle EXCEPT !.step = "write", !.op = "password", !.user = resets[t].user,
                 !.pass = pass, !.row = Columns(users[resets[t].user]),
                    !.ticket = t]]
  /\ UNCHANGED <<places, users, memoryVars, history>>

\* ResolveResetAndSetPassword: the ticket is read, open or not.
ResolveReads(r, t, pass) ==
  /\ AdminCall(r)
  /\ resets[t] # None
  /\ resets[t].user \in DOMAIN users
  /\ req' = [req EXCEPT ![r] =
       [Idle EXCEPT !.step = "write", !.op = "password", !.user = resets[t].user,
                 !.pass = pass, !.row = Columns(users[resets[t].user]),
                    !.ticket = t]]
  /\ UNCHANGED <<dbVars, memoryVars, history>>

\* The tickets a new password answers
Answer(r) ==
  answered' = answered \cup
    {t \in Tickets : /\ req[r].op = "password"
                     /\ resets[t] # None /\ resets[t].user = req[r].user}

\* Of what the goroutine holds, only the user and the ticket are used again.
Invalidates(r) ==
  req' = [req EXCEPT ![r] = [Idle EXCEPT !.step = "invalidate",
                                         !.user = req[r].user,
                                         !.ticket = req[r].ticket]]

\* Mutant: a deactivated user keeps the sessions there are
AdminWritesOnly(r) ==
  /\ req[r].step = "write"
  /\ users' = [users EXCEPT ![req[r].user] =
       [Edited(req[r].op, req[r].row, req[r].pass)
          EXCEPT !.sites = users[req[r].user].sites]]
  /\ IF req[r].op # "password" THEN Return(r) ELSE Invalidates(r)
  /\ Answer(r)
  /\ UNCHANGED <<places, resets, memoryVars, tried>>

\* UserRepository.Update writes every column of the copy but not the sites.
AdminWrites(r) ==
  LET u == req[r].user IN
  /\ req[r].step = "write"
  /\ users' = [users EXCEPT ![u] = [Edited(req[r].op, req[r].row, req[r].pass)
                                      EXCEPT !.sites = users[u].sites]]
  /\ IF req[r].op = "activate" THEN Return(r) ELSE Invalidates(r)
  /\ Answer(r)
  /\ UNCHANGED <<places, resets, memoryVars, tried>>

SessionsOf(u) == {id \in DOMAIN sessions : sessions[id].user = u}

\* InvalidateUserSessions, then the ticket if there is one
AdminInvalidates(r) ==
  /\ req[r].step = "invalidate"
  /\ sessions' = Without(sessions, SessionsOf(req[r].user))
  /\ IF req[r].ticket = None THEN Return(r) ELSE Goto(r, "resolve")
  /\ UNCHANGED <<dbVars, drawn, fails, blocked, history>>

\* UPDATE ... WHERE status = 'open'
Closed(t) == [resets EXCEPT ![t].status = "done"]

\* A second answer to a ticket is an error, after the password has been set.
Resolve(r) ==
  /\ req[r].step = "resolve"
  /\ resets' = Closed(req[r].ticket)
  /\ Return(r)
  /\ UNCHANGED <<places, users, memoryVars, history>>

\* resolveOrganization and CreateSite; a name may be used by several.
CreateSite(r, site) ==
  /\ AdminCall(r)
  /\ site \notin places
  /\ places' = places \cup {site}
  /\ Return(r)
  /\ UNCHANGED <<users, resets, memoryVars, history>>

\* lower(username) is unique: an INSERT of a name there is changes nothing.
InsertUser(u, pass) ==
  /\ u \notin DOMAIN users
  /\ users' = Put(users, u, [password |-> pass, active |-> TRUE, sites |-> {}])

\* The row is inserted without its sites, which are a transaction of their own.
SitesGiven(u, sites) == IF sites = {} /\ u \in Admins THEN {DefaultSite} ELSE sites

CreateUser(r, u, sites, pass) ==
  /\ AdminCall(r)
  /\ SitesGiven(u, sites) # {}
  /\ InsertUser(u, pass)
  /\ req' = [req EXCEPT ![r] = [Idle EXCEPT !.step = "sites", !.user = u,
                                            !.sites = SitesGiven(u, sites)]]
  /\ UNCHANGED <<places, resets, memoryVars, history>>

\* SetSites is all or nothing: with a site that is not there the user stays,
\* without sites.  The repository and the service call it, with the same sites.
SetSites(u, sites) ==
  users' = IF sites \subseteq places THEN [users EXCEPT ![u].sites = sites] ELSE users

AssignSites(r) ==
  /\ req[r].step = "sites"
  /\ SetSites(req[r].user, req[r].sites)
  /\ Return(r)
  /\ UNCHANGED <<places, resets, memoryVars, history>>

InsertTicket(t, u) ==
  /\ resets[t] = None
  /\ resets' = [resets EXCEPT ![t] = [user |-> u, status |-> "open"]]

\* RequestPasswordReset needs no session, and an open ticket does not stop it.
ForgotPassword(u, t) ==
  /\ u \in DOMAIN users \cap Managed
  /\ InsertTicket(t, u)
  /\ UNCHANGED <<places, users, memoryVars, req, history>>

-----------------------------------------------------------------------------
(* The clock, and a restart: rows stay, sessions and counts do not.        *)

Expire(id) ==
  /\ id \in DOMAIN sessions
  /\ sessions' = [sessions EXCEPT ![id].expired = TRUE]
  /\ UNCHANGED <<dbVars, drawn, fails, blocked, req, history>>

Unblock(u) ==
  /\ u \in blocked
  /\ blocked' = blocked \ {u}
  /\ tried' = [tried EXCEPT ![u] = 0]
  /\ UNCHANGED <<dbVars, sessions, drawn, fails, req, answered>>

\* EnsureDefaults and BootstrapAdmin run at every start; once there are rows they
\* change nothing.
Restart ==
  /\ sessions' = [id \in {} |-> {}]
  /\ fails' = [u \in Users |-> 0] /\ blocked' = {}
  /\ req' = [r \in Requests |-> Idle]
  /\ tried' = [u \in Users |-> 0]
  /\ UNCHANGED <<dbVars, drawn, answered>>

EnsureDefaults == {DefaultSite}

BootstrapAdmin ==
  [u \in {FirstAdmin} |->
     [password |-> FirstPassword, active |-> TRUE, sites |-> {DefaultSite}]]

-----------------------------------------------------------------------------
Init ==
  /\ places = EnsureDefaults /\ users = BootstrapAdmin
  /\ resets = [t \in Tickets |-> None]
  /\ sessions = [id \in {} |-> {}] /\ drawn = {}
  /\ fails = [u \in Users |-> 0] /\ blocked = {}
  /\ req = [r \in Requests |-> Idle]
  /\ tried = [u \in Users |-> 0] /\ answered = {}

LoginNext(r) ==
  \/ \E u \in Users, pass \in Passwords : LoginArrives(r, u, pass)
  \/ LoginReads(r) \/ LoginRefused(r) \/ LoginGranted(r)

CookieNext(r) ==
  \/ \E id \in SessionIds : Authenticate(r, id)
  \/ DropExpired(r) \/ Touch(r) \/ Logout(r) \/ Answered(r)
  \/ \E site \in Sites : SetActiveSite(r, site)

\* The handlers under /api/admin: sites, users, users/{id}, password-resets/{id}
SitesHandler(r) == \E site \in Sites : CreateSite(r, site)

UsersHandler(r) ==
  \E u \in Users, sites \in Assignments, pass \in NewPasswords :
    CreateUser(r, u, sites, pass)

UserHandler(r) ==
  \E u \in Users : \/ \E pass \in NewPasswords : AdminReads(r, "password", u, pass)
                   \/ AdminReads(r, "activate", u, None)
                   \/ AdminReads(r, "deactivate", u, None)

ResetHandler(r) == \E t \in Tickets, pass \in NewPasswords : ResolveReads(r, t, pass)

AdminNext(r) ==
  \/ SitesHandler(r) \/ UsersHandler(r) \/ UserHandler(r) \/ ResetHandler(r)
  \/ AdminWrites(r) \/ AdminInvalidates(r) \/ Resolve(r) \/ AssignSites(r)

ClockNext ==
  \/ \E id \in SessionIds : Expire(id)
  \/ \E u \in Users : Unblock(u)

Next ==
  \/ \E r \in Requests : LoginNext(r) \/ CookieNext(r) \/ AdminNext(r)
  \/ \E u \in Users, t \in Tickets : ForgotPassword(u, t)
  \/ ClockNext
  \/ Restart

Spec == Init /\ [][Next]_vars

-----------------------------------------------------------------------------
(* What must hold.                                                         *)

\* What a goroutine holds: before a login or a cookie is looked at, nothing
Request == [step : {"idle", "read", "verify", "drop", "touch", "handle", "write",
                    "invalidate", "resolve", "sites"},
            op : {"login", "password", "activate", "deactivate", None},
            user : Users \cup {None}, pass : Passwords \cup {None},
            row : UserRow \cup {None}, id : SessionIds \cup {None},
            sites : SUBSET Sites, ticket : Tickets \cup {None}]

\* Types of the rows, of the session store, of the login counts and of what
\* each request carries from step to step.
TypeOK ==
  /\ places \subseteq Sites
  /\ DOMAIN users \subseteq Users
  /\ \A u \in DOMAIN users : users[u] \in UserRow
  /\ resets \in [Tickets -> Ticket \cup {None}]
  /\ drawn \subseteq SessionIds
  /\ DOMAIN sessions \subseteq SessionIds
  /\ \A id \in DOMAIN sessions : sessions[id] \in Session
  /\ fails \in [Users -> Nat]
  /\ blocked \subseteq Users
  /\ req \in [Requests -> Request]
  /\ tried \in [Users -> Nat]
  /\ answered \subseteq Tickets

\* Some request has deactivated u or set its password and has yet to drop its
\* sessions.
AboutToInvalidate(u) ==
  \E r \in Requests : req[r].step = "invalidate" /\ req[r].user = u

\* A deactivated user has no session, but for the moment between the row and
\* InvalidateUserSessions, and but for a login that had read the row before:
\* whatever two administrators do to the same row at the same time.
RevokedUserIsOut ==
  \A id \in DOMAIN sessions :
    \/ users[sessions[id].user].active
    \/ sessions[id].late
    \/ AboutToInvalidate(sessions[id].user)

\* A session that logged out, ran out or was dropped stays away: a request that
\* looked it up before (Store.Get) and extends it or moves it to a site after
\* (Touch, SetActiveSite) does not bring it back.
EndedSessionNeverReturns ==
  [][DOMAIN sessions' \cap drawn \subseteq DOMAIN sessions]_vars

\* Whatever site a user who is not an administrator works on is one of those
\* the database gives it, although login and SetActiveSite look at copies and a
\* user row is there for a while without its sites.
ActiveSiteIsAssigned ==
  \A id \in DOMAIN sessions :
    LET u == sessions[id].user IN
    u \notin Admins => sessions[id].active \in users[u].sites

\* No more than FailLimit passwords are refused for a name before its minute of
\* silence, plus those already past checkLoginRate: one per request in flight.
GuessesBounded ==
  \A u \in Users : tried[u] < FailLimit + Cardinality(Requests)

\* A closed ticket has been answered: a crash or an error between the steps of
\* ResolveResetAndSetPassword leaves it open rather than lost.
ClosedTicketIsAnswered ==
  \A t \in Tickets : (resets[t] # None /\ resets[t].status = "done") => t \in answered
=============================================================================
