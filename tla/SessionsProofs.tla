---------------------------- MODULE SessionsProofs ----------------------------
(***************************************************************************)
(* Proofs about Sessions, for any users, sites, ids and requests in        *)
(* flight: the types of what is stored and of what every request carries,  *)
(* and that a session which ended stays away and that of a deactivated     *)
(* user is dropped.                                                        *)
(***************************************************************************)
EXTENDS Sessions, FiniteSetTheorems, TLAPS

\* The ticket that a request answers is there.
TicketFits(t) == t # None => t \in Tickets /\ resets[t] # None

\* What a request carries by the step that it is at
RequestFits(q) ==
  /\ q.step = "read" => q.user \in Users
  /\ q.step = "verify" => q.user \in DOMAIN users /\ q.row \in UserRow /\ q.row.active
  /\ q.step \in {"drop", "touch", "handle"} => q.user \in DOMAIN users /\ q.id \in drawn
  /\ q.step = "write" => /\ q.user \in DOMAIN users /\ q.row \in UserRow
                         /\ q.op \in {"password", "activate", "deactivate"}
                         /\ q.op = "password" => q.pass \in Passwords
                         /\ TicketFits(q.ticket)
  /\ q.step = "invalidate" => q.user \in DOMAIN users /\ TicketFits(q.ticket)
  /\ q.step = "resolve" => q.ticket # None /\ TicketFits(q.ticket)
  /\ q.step = "sites" => q.user \in DOMAIN users

\* Sessions are of users that are there, with ids that were drawn.
SessionsFit ==
  \A id \in DOMAIN sessions : id \in drawn /\ sessions[id].user \in DOMAIN users

\* The inductive invariant for the types
Inv == TypeOK /\ SessionsFit /\ \A r \in Requests : RequestFits(req[r])

\* Rows and ids are added, never taken away.
Grown ==
  /\ DOMAIN users \subseteq DOMAIN users'
  /\ drawn \subseteq drawn'
  /\ \A t \in Tickets : resets[t] # None => resets'[t] # None

\* The parts of TypeOK other than the requests
StoresOK ==
  /\ places \subseteq Sites
  /\ DOMAIN users \subseteq Users
  /\ \A u \in DOMAIN users : users[u] \in UserRow
  /\ resets \in [Tickets -> Ticket \cup {None}]
  /\ drawn \subseteq SessionIds
  /\ DOMAIN sessions \subseteq SessionIds
  /\ \A id \in DOMAIN sessions : sessions[id] \in Session
  /\ fails \in [Users -> Nat]
  /\ blocked \subseteq Users
  /\ tried \in [Users -> Nat]
  /\ answered \subseteq Tickets

\* What fits a step fits it still when rows and ids have been added.
LEMMA FitStays ==
  ASSUME NEW q, RequestFits(q), Grown
  PROVE  RequestFits(q)'
BY DEF RequestFits, Grown, TicketFits

\* A step of one request, seen from the others
LEMMA OneRequestMoves ==
  ASSUME Inv, NEW r \in Requests, NEW q \in Request, RequestFits(q)',
         req' = [req EXCEPT ![r] = q], Grown, StoresOK', SessionsFit'
  PROVE  Inv'
<1>1. /\ req' \in [Requests -> Request]
      /\ \A s \in Requests : req'[s] = IF s = r THEN q ELSE req[s]
  BY DEF Inv, TypeOK
<1>2. \A s \in Requests : RequestFits(req[s])'
  <2> SUFFICES ASSUME NEW s \in Requests PROVE RequestFits(req[s])'
    OBVIOUS
  <2>1. CASE s = r
    BY <1>1, <2>1 DEF RequestFits, TicketFits
  <2>2. CASE s # r
    <3>1. RequestFits(req[s])
      BY DEF Inv
    <3>2. req'[s] = req[s]
      BY <1>1, <2>2
    <3> QED
      BY <3>1, <3>2 DEF Grown, RequestFits, TicketFits
  <2> QED
    BY <2>1, <2>2
<1> QED
  BY <1>1, <1>2 DEF Inv, TypeOK, StoresOK

\* A step of no request
LEMMA NoRequestMoves ==
  ASSUME Inv, req' = req, Grown, StoresOK', SessionsFit'
  PROVE  Inv'
<1>1. \A s \in Requests : RequestFits(req[s])'
  BY DEF Inv, RequestFits, Grown, TicketFits
<1> QED
  BY <1>1 DEF Inv, TypeOK, StoresOK

\* A request that does nothing carries nothing.
LEMMA IdleFits == Idle \in Request /\ RequestFits(Idle)
BY DEF Idle, Request, RequestFits

\* A request that returns carries nothing.
LEMMA OneRequestReturns ==
  ASSUME Inv, NEW r \in Requests, Return(r), Grown, StoresOK', SessionsFit'
  PROVE  Inv'
<1>1. RequestFits(Idle)'
  BY DEF RequestFits, Idle
<1> QED
  BY <1>1, IdleFits, OneRequestMoves DEF Return

\* A step that only moves a request
LEMMA StoresStay ==
  ASSUME Inv, UNCHANGED <<dbVars, memoryVars, history>>
  PROVE  Grown /\ StoresOK' /\ SessionsFit'
BY DEF Inv, TypeOK, SessionsFit, StoresOK, Grown, dbVars, memoryVars, history

\* A step that changes nothing but sessions
LEMMA SessionsChange ==
  ASSUME Inv, UNCHANGED <<dbVars, drawn, fails, blocked, history>>,
         DOMAIN sessions' \subseteq DOMAIN sessions,
         \A id \in DOMAIN sessions' :
           sessions'[id] \in Session /\ sessions'[id].user = sessions[id].user
  PROVE  Grown /\ StoresOK' /\ SessionsFit'
BY DEF Inv, TypeOK, SessionsFit, StoresOK, Grown, dbVars, history

-----------------------------------------------------------------------------
(* Login.                                                                  *)

LEMMA RecordLoginFailTypes ==
  ASSUME Inv, NEW u \in Users, RecordLoginFail(u)
  PROVE  fails' \in [Users -> Nat] /\ blocked' \subseteq Users /\ tried' \in [Users -> Nat]
<1>1. fails \in [Users -> Nat] /\ blocked \subseteq Users /\ tried \in [Users -> Nat]
  BY DEF Inv, TypeOK
<1>2. fails[u] + 1 \in Nat /\ tried[u] + 1 \in Nat /\ 0 \in Nat
  BY <1>1
<1>3. tried' = [tried EXCEPT ![u] = tried[u] + 1] /\ blocked' \subseteq blocked \cup {u}
  BY DEF RecordLoginFail
<1>4. \E n \in {0, fails[u] + 1} : fails' = [fails EXCEPT ![u] = n]
  BY DEF RecordLoginFail
<1> QED
  BY <1>1, <1>2, <1>3, <1>4

LEMMA LoginArrivesKeepsInv ==
  ASSUME Inv, NEW r \in Requests, NEW u \in Users, NEW pass \in Passwords,
         LoginArrives(r, u, pass)
  PROVE  Inv'
<1> DEFINE q == [Idle EXCEPT !.step = "read", !.op = "login", !.user = u, !.pass = pass]
<1>1. q \in Request /\ q.step = "read" /\ q.user = u
  BY DEF Idle, Request
<1>2. req' = [req EXCEPT ![r] = q] /\ UNCHANGED <<dbVars, memoryVars, history>>
  BY DEF LoginArrives
<1> HIDE DEF q
<1>3. RequestFits(q)'
  BY <1>1 DEF RequestFits
<1>4. Grown /\ StoresOK' /\ SessionsFit'
  BY <1>2 DEF Inv, TypeOK, SessionsFit, StoresOK, Grown, dbVars, memoryVars, history
<1> QED
  BY <1>1, <1>2, <1>3, <1>4, OneRequestMoves

LEMMA LoginReadsKeepsInv ==
  ASSUME Inv, NEW r \in Requests, LoginReads(r)
  PROVE  Inv'
<1> DEFINE u == req[r].user
<1>1. /\ UNCHANGED <<dbVars, sessions, drawn, answered>>
      /\ req[r] \in Request /\ req \in [Requests -> Request] /\ u \in Users
      /\ \A v \in DOMAIN users : users[v] \in UserRow
  BY DEF LoginReads, Inv, TypeOK, RequestFits
<1>2. Grown /\ SessionsFit'
  BY <1>1 DEF Inv, SessionsFit, Grown, dbVars
<1>3. CASE GetByUsername(u) # None /\ GetByUsername(u).active
  <2>1. u \in DOMAIN users /\ GetByUsername(u) = users[u] /\ users[u] \in UserRow
    BY <1>1, <1>3 DEF GetByUsername
  <2>2. PICK q \in Request :
          /\ q.step = "verify" /\ q.row = users[u] /\ q.user = u
          /\ req' = [req EXCEPT ![r] = q]
    <3>1. [req[r] EXCEPT !.step = "verify", !.row = users[u]] \in Request
      BY <1>1, <2>1 DEF Request
    <3>2. req' = [req EXCEPT ![r] = [req[r] EXCEPT !.step = "verify", !.row = users[u]]]
      BY <1>1, <1>3, <2>1 DEF LoginReads
    <3> QED
      BY <1>1, <3>1, <3>2 DEF Request
  <2>3. UNCHANGED <<fails, blocked, tried>>
    BY <1>1, <1>3 DEF LoginReads
  <2>4. RequestFits(q)'
    <3>1. q.row.active
      BY <1>3, <2>1, <2>2
    <3>2. RequestFits(q)
      BY <2>1, <2>2, <3>1 DEF RequestFits
    <3> QED
      BY <1>2, <3>2, FitStays
  <2>5. StoresOK'
    BY <1>1, <2>3 DEF Inv, TypeOK, StoresOK, dbVars
  <2> QED
    BY <1>2, <2>2, <2>3, <2>4, <2>5, OneRequestMoves
<1>4. CASE ~(GetByUsername(u) # None /\ GetByUsername(u).active)
  <2>1. RecordLoginFail(u) /\ Return(r)
    BY <1>4 DEF LoginReads
  <2>2. StoresOK'
    BY <1>1, <2>1, RecordLoginFailTypes DEF Inv, TypeOK, StoresOK, dbVars
  <2> QED
    BY <1>2, <2>1, <2>2, OneRequestReturns
<1> QED
  BY <1>3, <1>4

LEMMA LoginRefusedKeepsInv ==
  ASSUME Inv, NEW r \in Requests, LoginRefused(r)
  PROVE  Inv'
<1>1. /\ UNCHANGED <<dbVars, sessions, drawn, answered>>
      /\ req[r].user \in Users /\ RecordLoginFail(req[r].user) /\ Return(r)
  BY DEF LoginRefused, Inv, TypeOK, RequestFits
<1>2. Grown /\ SessionsFit'
  BY <1>1 DEF Inv, SessionsFit, Grown, dbVars
<1>3. StoresOK'
  BY <1>1, RecordLoginFailTypes DEF Inv, TypeOK, StoresOK, dbVars
<1> QED
  BY <1>1, <1>2, <1>3, OneRequestReturns

\* Whatever site the row has, the session is of the user who logged in.
LEMMA LoginGrantedKeepsInv ==
  ASSUME Inv, NEW r \in Requests, LoginGranted(r)
  PROVE  Inv'
<1> DEFINE u == req[r].user
<1>1. /\ UNCHANGED <<dbVars, answered>> /\ Return(r) /\ ClearLoginFail(u)
      /\ req[r] \in Request /\ u \in DOMAIN users /\ req[r].row \in UserRow
      /\ DefaultSite \in Sites
  BY SessionConstants DEF LoginGranted, Inv, TypeOK, RequestFits
<1>2. fails' \in [Users -> Nat] /\ blocked' \subseteq Users /\ tried' \in [Users -> Nat]
  BY <1>1 DEF ClearLoginFail, Inv, TypeOK
<1>3. CASE UNCHANGED <<sessions, drawn>>
  <2>1. Grown /\ StoresOK' /\ SessionsFit'
    BY <1>1, <1>2, <1>3 DEF Inv, TypeOK, SessionsFit, StoresOK, Grown, dbVars
  <2> QED
    BY <1>1, <2>1, OneRequestReturns
<1>4. ASSUME NEW site \in FirstSites(u, req[r].row.sites), OpenSession(u, req[r].row, site)
      PROVE  Inv'
  <2> DEFINE fresh == [user |-> u, sites |-> req[r].row.sites, active |-> site,
                     expired |-> FALSE, late |-> req[r].row.active /\ ~users[u].active]
  <2>1. PICK id \in SessionIds \ drawn :
          sessions' = Put(sessions, id, fresh) /\ drawn' = drawn \cup {id}
    BY <1>4 DEF OpenSession
  <2>2. site \in Sites /\ req[r].row.sites \in SUBSET Sites
    BY <1>1, <1>4 DEF FirstSites, UserRow
  <2>3. u \in Users /\ DOMAIN users \subseteq Users
    BY <1>1 DEF Inv, TypeOK
  <2>4. (req[r].row.active /\ ~users[u].active) \in BOOLEAN
    OBVIOUS
  <2>5. fresh \in Session /\ fresh.user = u
    BY <2>2, <2>3, <2>4 DEF Session
  <2> HIDE DEF fresh
  <2>6. /\ DOMAIN sessions' = DOMAIN sessions \cup {id} /\ sessions'[id] = fresh
        /\ \A x \in DOMAIN sessions : x # id => sessions'[x] = sessions[x]
    BY <2>1 DEF Put
  <2>7. Grown /\ StoresOK' /\ SessionsFit'
    BY <1>1, <1>2, <2>1, <2>5, <2>6 DEF Inv, TypeOK, SessionsFit, StoresOK, Grown, dbVars
  <2> QED
    BY <1>1, <2>7, OneRequestReturns
<1> QED
  BY <1>3, <1>4 DEF LoginGranted

-----------------------------------------------------------------------------
(* Requests with a cookie.                                                 *)

\* The copy of the session is of a user that is there.
LEMMA AuthenticateKeepsInv ==
  ASSUME Inv, NEW r \in Requests, NEW id \in SessionIds, Authenticate(r, id)
  PROVE  Inv'
<1>1. /\ UNCHANGED <<dbVars, memoryVars, history>> /\ id \in DOMAIN sessions
      /\ sessions[id] \in Session /\ sessions[id].user \in DOMAIN users /\ id \in drawn
      /\ req' = [req EXCEPT ![r] =
            [Idle EXCEPT !.step  = IF sessions[id].expired THEN "drop" ELSE "touch",
                         !.user  = sessions[id].user, !.id = id,
                         !.sites = sessions[id].sites]]
  BY DEF Authenticate, Inv, TypeOK, SessionsFit
<1>2. PICK step \in {"drop", "touch"} : step = IF sessions[id].expired THEN "drop" ELSE "touch"
  OBVIOUS
<1>3. PICK q \in Request :
        /\ req' = [req EXCEPT ![r] = q]
        /\ q.step = step /\ q.user = sessions[id].user /\ q.id = id
  <2>1. [Idle EXCEPT !.step = step, !.user = sessions[id].user, !.id = id,
                     !.sites = sessions[id].sites] \in Request
    BY <1>1 DEF Idle, Request, Session
  <2> QED
    BY <1>1, <1>2, <2>1 DEF Idle
<1>4. RequestFits(q)
  BY <1>1, <1>3 DEF RequestFits
<1>5. Grown /\ StoresOK' /\ SessionsFit'
  BY <1>1, StoresStay
<1>6. RequestFits(q)'
  BY <1>4, <1>5, FitStays
<1> QED
  BY <1>3, <1>5, <1>6, OneRequestMoves

\* Only entries go.
LEMMA SessionsGo ==
  ASSUME Inv, NEW S, sessions' = Without(sessions, S),
         UNCHANGED <<dbVars, drawn, fails, blocked, history>>
  PROVE  Grown /\ StoresOK' /\ SessionsFit'
<1>1. /\ DOMAIN sessions' = DOMAIN sessions \ S
      /\ \A id \in DOMAIN sessions' : sessions'[id] = sessions[id]
  BY DEF Without
<1>2. \A id \in DOMAIN sessions : sessions[id] \in Session
  BY DEF Inv, TypeOK
<1> QED
  BY <1>1, <1>2, SessionsChange

\* One entry is given another expiry or another site.
LEMMA ExtendedFits ==
  ASSUME Inv, NEW id \in DOMAIN sessions,
         \/ sessions' = Extended(id)
         \/ \E site \in Sites : sessions' = Moved(id, site)
         \/ sessions' = [sessions EXCEPT ![id].expired = TRUE]
  PROVE  /\ DOMAIN sessions' = DOMAIN sessions
         /\ \A x \in DOMAIN sessions :
              sessions'[x] \in Session /\ sessions'[x].user = sessions[x].user
<1>1. \A x \in DOMAIN sessions : sessions[x] \in Session
  BY DEF Inv, TypeOK
<1>2. CASE sessions' = Extended(id)
  BY <1>1, <1>2 DEF Extended, Session
<1>3. ASSUME NEW site \in Sites, sessions' = Moved(id, site)
      PROVE  /\ DOMAIN sessions' = DOMAIN sessions
             /\ \A x \in DOMAIN sessions :
                  sessions'[x] \in Session /\ sessions'[x].user = sessions[x].user
  BY <1>1, <1>3 DEF Moved, Session
<1>4. CASE sessions' = [sessions EXCEPT ![id].expired = TRUE]
  BY <1>1, <1>4 DEF Session
<1> QED
  BY <1>2, <1>3, <1>4

LEMMA TouchKeepsInv ==
  ASSUME Inv, NEW r \in Requests, Touch(r)
  PROVE  Inv'
<1>1. /\ UNCHANGED <<dbVars, drawn, fails, blocked, history>>
      /\ req[r] \in Request /\ RequestFits(req[r]) /\ req[r].step = "touch"
      /\ req' = [req EXCEPT ![r].step = "handle"] /\ req \in [Requests -> Request]
  BY DEF Touch, Goto, Inv, TypeOK
<1>2. \A id \in DOMAIN sessions : sessions[id] \in Session
  BY DEF Inv, TypeOK
<1>3. Grown /\ StoresOK' /\ SessionsFit'
  <2>1. CASE req[r].id \in DOMAIN sessions
    BY <1>1, <2>1, ExtendedFits, SessionsChange DEF Touch
  <2>2. CASE req[r].id \notin DOMAIN sessions
    BY <1>1, <1>2, <2>2, SessionsChange DEF Touch
  <2> QED
    BY <2>1, <2>2
<1>4. PICK q \in Request :
        /\ req' = [req EXCEPT ![r] = q]
        /\ q.step = "handle" /\ q.user = req[r].user /\ q.id = req[r].id
  <2>1. [req[r] EXCEPT !.step = "handle"] \in Request
    BY <1>1 DEF Request
  <2>2. req' = [req EXCEPT ![r] = [req[r] EXCEPT !.step = "handle"]]
    BY <1>1
  <2> QED
    BY <1>1, <2>1, <2>2 DEF Request
<1>5. RequestFits(q)
  BY <1>1, <1>4 DEF RequestFits
<1>6. RequestFits(q)'
  BY <1>3, <1>5, FitStays
<1> QED
  BY <1>3, <1>4, <1>6, OneRequestMoves

LEMMA SetActiveSiteKeepsInv ==
  ASSUME Inv, NEW r \in Requests, NEW site \in Sites, SetActiveSite(r, site)
  PROVE  Inv'
<1>1. UNCHANGED <<dbVars, drawn, fails, blocked, history>> /\ Return(r)
  BY DEF SetActiveSite
<1>2. \A id \in DOMAIN sessions : sessions[id] \in Session
  BY DEF Inv, TypeOK
<1>3. Grown /\ StoresOK' /\ SessionsFit'
  <2>1. CASE req[r].id \in DOMAIN sessions
    BY <1>1, <2>1, ExtendedFits, SessionsChange DEF SetActiveSite
  <2>2. CASE req[r].id \notin DOMAIN sessions
    BY <1>1, <1>2, <2>2, SessionsChange DEF SetActiveSite
  <2> QED
    BY <2>1, <2>2
<1> QED
  BY <1>1, <1>3, OneRequestReturns

LEMMA CookieNextKeepsInv ==
  ASSUME Inv, NEW r \in Requests, CookieNext(r)
  PROVE  Inv'
<1>1. CASE DropExpired(r)
  BY <1>1, SessionsGo, OneRequestReturns DEF DropExpired
<1>2. CASE Logout(r)
  BY <1>2, SessionsGo, OneRequestReturns DEF Logout
<1>3. CASE Answered(r)
  BY <1>3, StoresStay, OneRequestReturns DEF Answered
<1> QED
  BY <1>1, <1>2, <1>3, AuthenticateKeepsInv, TouchKeepsInv, SetActiveSiteKeepsInv
     DEF CookieNext

-----------------------------------------------------------------------------
(* Administration.                                                         *)

\* A step that only has the request go on with q
LEMMA MovesOn ==
  ASSUME Inv, NEW r \in Requests, NEW q \in Request, RequestFits(q),
         req' = [req EXCEPT ![r] = q], UNCHANGED <<dbVars, memoryVars, history>>
  PROVE  Inv'
<1>1. Grown /\ StoresOK' /\ SessionsFit'
  BY StoresStay
<1>2. RequestFits(q)'
  BY <1>1, FitStays
<1> QED
  BY <1>1, <1>2, OneRequestMoves

\* What an administrator's request is about to write
LEMMA WriteFits ==
  ASSUME Inv, NEW u \in DOMAIN users, NEW pass \in Passwords \cup {None},
         NEW op \in {"password", "activate", "deactivate"},
         op = "password" => pass \in Passwords,
         NEW t \in Tickets \cup {None}, TicketFits(t),
         NEW q,
         \/ q = [Idle EXCEPT !.step = "write", !.op = op, !.user = u, !.pass = pass,
                             !.row = Columns(users[u]), !.ticket = t]
         \/ t = None /\ q = [Idle EXCEPT !.step = "write", !.op = op, !.user = u,
                                         !.pass = pass, !.row = Columns(users[u])]
  PROVE  q \in Request /\ RequestFits(q)
<1>1. users[u] \in UserRow /\ u \in Users
  BY DEF Inv, TypeOK
<1>2. Columns(users[u]) \in UserRow
  BY <1>1 DEF Columns, UserRow
<1>3. /\ q.step = "write" /\ q.op = op /\ q.user = u /\ q.pass = pass
      /\ q.row = Columns(users[u]) /\ q.ticket = t
  BY DEF Idle
<1>4. q \in Request
  BY <1>1, <1>2 DEF Request, Idle
<1> QED
  BY <1>1, <1>2, <1>3, <1>4 DEF RequestFits

LEMMA AdminReadsKeepsInv ==
  ASSUME Inv, NEW r \in Requests, NEW u \in Users, NEW pass \in Passwords \cup {None},
         NEW op \in {"password", "activate", "deactivate"},
         op = "password" => pass \in Passwords, AdminReads(r, op, u, pass)
  PROVE  Inv'
<1> DEFINE w == [Idle EXCEPT !.step = "write", !.op = op, !.user = u, !.pass = pass,
                             !.row = Columns(users[u])]
<1>1. /\ u \in DOMAIN users /\ req' = [req EXCEPT ![r] = w]
      /\ UNCHANGED <<dbVars, memoryVars, history>>
  BY DEF AdminReads
<1>2. TicketFits(None)
  BY DEF TicketFits
<1>3. PICK q : q = w
  OBVIOUS
<1>4. q \in Request /\ RequestFits(q)
  BY <1>1, <1>2, <1>3, WriteFits
<1> QED
  BY <1>1, <1>3, <1>4, MovesOn

LEMMA ResolveReadsKeepsInv ==
  ASSUME Inv, NEW r \in Requests, NEW t \in Tickets, NEW pass \in NewPasswords,
         ResolveReads(r, t, pass)
  PROVE  Inv'
<1> DEFINE w == [Idle EXCEPT !.step = "write", !.op = "password",
                             !.user = resets[t].user, !.pass = pass,
                             !.row = Columns(users[resets[t].user]), !.ticket = t]
<1>1. /\ resets[t].user \in DOMAIN users /\ resets[t] # None
      /\ req' = [req EXCEPT ![r] = w] /\ UNCHANGED <<dbVars, memoryVars, history>>
  BY DEF ResolveReads
<1>2. TicketFits(t) /\ pass \in Passwords
  BY <1>1, SessionConstants DEF TicketFits
<1>3. PICK q : q = w
  OBVIOUS
<1>4. q \in Request /\ RequestFits(q)
  BY <1>1, <1>2, <1>3, WriteFits
<1> QED
  BY <1>1, <1>3, <1>4, MovesOn

\* The row written has the types of a row, whoever wrote it in between.
LEMMA EditedFits ==
  ASSUME NEW op \in {"password", "activate", "deactivate"}, NEW row \in UserRow,
         NEW pass, op = "password" => pass \in Passwords
  PROVE  Edited(op, row, pass) \in UserRow
BY DEF Edited, UserRow

LEMMA AdminWritesKeepsInv ==
  ASSUME Inv, NEW r \in Requests, AdminWrites(r)
  PROVE  Inv'
<1>1. PICK u \in DOMAIN users : u = req[r].user
  BY DEF AdminWrites, Inv, RequestFits
<1>2. /\ req[r] \in Request /\ RequestFits(req[r]) /\ req[r].step = "write"
      /\ UNCHANGED <<places, resets, memoryVars, tried>> /\ Answer(r)
      /\ users' = [users EXCEPT ![u] = [Edited(req[r].op, req[r].row, req[r].pass)
                                          EXCEPT !.sites = users[u].sites]]
      /\ IF req[r].op = "activate" THEN Return(r) ELSE Invalidates(r)
      /\ \A v \in DOMAIN users : users[v] \in UserRow
      /\ DOMAIN users \subseteq Users
  BY <1>1 DEF AdminWrites, Inv, TypeOK
<1>3. PICK row \in UserRow : row = Edited(req[r].op, req[r].row, req[r].pass)
  BY <1>2, EditedFits DEF RequestFits
<1>4. [row EXCEPT !.sites = users[u].sites] \in UserRow
  BY <1>2 DEF UserRow
<1>5. DOMAIN users' = DOMAIN users /\ \A v \in DOMAIN users' : users'[v] \in UserRow
  BY <1>2, <1>3, <1>4
<1>6. answered' \subseteq Tickets
  BY <1>2 DEF Answer, Inv, TypeOK
<1>7. Grown /\ StoresOK' /\ SessionsFit'
  BY <1>2, <1>5, <1>6 DEF Inv, TypeOK, SessionsFit, StoresOK, Grown, memoryVars
<1>8. CASE req[r].op = "activate"
  BY <1>2, <1>7, <1>8, OneRequestReturns
<1>9. CASE req[r].op # "activate"
  <2>1. PICK q : q = [Idle EXCEPT !.step = "invalidate", !.user = req[r].user,
                                  !.ticket = req[r].ticket]
    OBVIOUS
  <2>2. q \in Request
    BY <1>1, <1>2, <2>1 DEF Request, Idle
  <2>3. q.step = "invalidate" /\ q.user = u /\ q.ticket = req[r].ticket
    BY <1>1, <2>1 DEF Idle
  <2>4. RequestFits(q)
    BY <1>1, <1>2, <2>3 DEF RequestFits
  <2>5. RequestFits(q)'
    BY <1>7, <2>4, FitStays
  <2>6. req' = [req EXCEPT ![r] = q]
    BY <1>2, <1>9, <2>1 DEF Invalidates
  <2> QED
    BY <1>7, <2>2, <2>5, <2>6, OneRequestMoves
<1> QED
  BY <1>8, <1>9

LEMMA AdminInvalidatesKeepsInv ==
  ASSUME Inv, NEW r \in Requests, AdminInvalidates(r)
  PROVE  Inv'
<1>1. /\ req[r] \in Request /\ RequestFits(req[r]) /\ req[r].step = "invalidate"
      /\ IF req[r].ticket = None THEN Return(r) ELSE Goto(r, "resolve")
      /\ req \in [Requests -> Request]
  BY DEF AdminInvalidates, Inv, TypeOK
<1>2. Grown /\ StoresOK' /\ SessionsFit'
  BY SessionsGo DEF AdminInvalidates
<1>3. CASE req[r].ticket = None
  BY <1>1, <1>2, <1>3, OneRequestReturns
<1>4. CASE req[r].ticket # None
  <2>1. PICK q : q = [req[r] EXCEPT !.step = "resolve"]
    OBVIOUS
  <2>2. q \in Request /\ q.step = "resolve" /\ q.ticket = req[r].ticket
    BY <1>1, <2>1 DEF Request
  <2>3. RequestFits(q)
    BY <1>1, <1>4, <2>2 DEF RequestFits
  <2>4. RequestFits(q)'
    BY <1>2, <2>3, FitStays
  <2>5. req' = [req EXCEPT ![r] = q]
    BY <1>1, <1>4, <2>1 DEF Goto
  <2> QED
    BY <1>2, <2>2, <2>4, <2>5, OneRequestMoves
<1> QED
  BY <1>3, <1>4

LEMMA ResolveKeepsInv ==
  ASSUME Inv, NEW r \in Requests, Resolve(r)
  PROVE  Inv'
<1>1. PICK t \in Tickets : t = req[r].ticket /\ resets[t] # None
  BY DEF Resolve, Inv, RequestFits, TicketFits
<1>2. /\ resets' = [resets EXCEPT ![t].status = "done"] /\ Return(r)
      /\ UNCHANGED <<places, users, memoryVars, history>>
      /\ resets \in [Tickets -> Ticket \cup {None}] /\ resets[t] \in Ticket
  BY <1>1 DEF Resolve, Closed, Inv, TypeOK
<1>3. PICK row \in Ticket : row = [resets[t] EXCEPT !.status = "done"]
  BY <1>2 DEF Ticket
<1>4. row # None
  BY NoneIsNoRow
<1> QED
  BY <1>1, <1>2, <1>3, <1>4, OneRequestReturns
     DEF Inv, TypeOK, SessionsFit, StoresOK, Grown, memoryVars, history

\* A new row has no sites yet.
LEMMA CreateUserKeepsInv ==
  ASSUME Inv, NEW r \in Requests, NEW u \in Users, NEW sites \in SUBSET Sites,
         NEW pass \in NewPasswords, CreateUser(r, u, sites, pass)
  PROVE  Inv'
<1>1. /\ u \notin DOMAIN users /\ UNCHANGED <<places, resets, memoryVars, history>>
      /\ users' = Put(users, u, [password |-> pass, active |-> TRUE, sites |-> {}])
      /\ req' = [req EXCEPT ![r] = [Idle EXCEPT !.step = "sites", !.user = u,
                                                !.sites = SitesGiven(u, sites)]]
      /\ DOMAIN users \subseteq Users
  BY DEF CreateUser, InsertUser, Inv, TypeOK
<1>2. PICK row \in UserRow : row = [password |-> pass, active |-> TRUE, sites |-> {}]
  BY SessionConstants DEF UserRow
<1>3. /\ DOMAIN users' = DOMAIN users \cup {u}
      /\ \A v \in DOMAIN users' : users'[v] \in UserRow
  BY <1>1, <1>2 DEF Put, Inv, TypeOK
<1>4. SitesGiven(u, sites) \in SUBSET Sites
  BY SessionConstants DEF SitesGiven
<1>5. Grown /\ StoresOK' /\ SessionsFit'
  BY <1>1, <1>3 DEF Inv, TypeOK, SessionsFit, StoresOK, Grown, memoryVars, history
<1>6. PICK q : q = [Idle EXCEPT !.step = "sites", !.user = u, !.sites = SitesGiven(u, sites)]
  OBVIOUS
<1>7. q \in Request /\ q.step = "sites" /\ q.user = u
  BY <1>4, <1>6 DEF Request, Idle
<1>8. RequestFits(q)'
  BY <1>3, <1>7 DEF RequestFits
<1> QED
  BY <1>1, <1>5, <1>6, <1>7, <1>8, OneRequestMoves

LEMMA AssignSitesKeepsInv ==
  ASSUME Inv, NEW r \in Requests, AssignSites(r)
  PROVE  Inv'
<1>1. PICK u \in DOMAIN users : u = req[r].user
  BY DEF AssignSites, Inv, RequestFits
<1>2. PICK sites \in SUBSET Sites : sites = req[r].sites
  BY DEF Inv, TypeOK, Request
<1>3. /\ UNCHANGED <<places, resets, memoryVars, history>> /\ Return(r)
      /\ \/ users' = users
         \/ users' = [users EXCEPT ![u].sites = sites]
  BY <1>1, <1>2 DEF AssignSites, SetSites
<1>4. /\ DOMAIN users' = DOMAIN users
      /\ \A v \in DOMAIN users' : users'[v] \in UserRow
  <2>1. \A v \in DOMAIN users : users[v] \in UserRow
    BY DEF Inv, TypeOK
  <2>2. [users[u] EXCEPT !.sites = sites] \in UserRow
    BY <2>1 DEF UserRow
  <2> QED
    BY <1>3, <2>1, <2>2
<1>5. Grown /\ StoresOK' /\ SessionsFit'
  BY <1>3, <1>4 DEF Inv, TypeOK, SessionsFit, StoresOK, Grown, memoryVars, history
<1> QED
  BY <1>3, <1>5, OneRequestReturns

LEMMA CreateSiteKeepsInv ==
  ASSUME Inv, NEW r \in Requests, NEW site \in Sites, CreateSite(r, site)
  PROVE  Inv'
<1>1. /\ places' = places \cup {site} /\ Return(r)
      /\ UNCHANGED <<users, resets, memoryVars, history>>
  BY DEF CreateSite
<1>2. Grown /\ StoresOK' /\ SessionsFit'
  BY <1>1 DEF Inv, TypeOK, SessionsFit, StoresOK, Grown, memoryVars, history
<1> QED
  BY <1>1, <1>2, OneRequestReturns

LEMMA AdminNextKeepsInv ==
  ASSUME Inv, NEW r \in Requests, AdminNext(r)
  PROVE  Inv'
<1>1. CASE SitesHandler(r)
  BY <1>1, CreateSiteKeepsInv DEF SitesHandler
<1>2. CASE UsersHandler(r)
  BY <1>2, CreateUserKeepsInv, SessionConstants DEF UsersHandler
<1>3. CASE UserHandler(r)
  <2>1. ASSUME NEW u \in Users, NEW pass \in NewPasswords,
               AdminReads(r, "password", u, pass)
        PROVE  Inv'
    BY <2>1, AdminReadsKeepsInv, SessionConstants
  <2>2. ASSUME NEW u \in Users, AdminReads(r, "activate", u, None)
        PROVE  Inv'
    BY <2>2, AdminReadsKeepsInv
  <2>3. ASSUME NEW u \in Users, AdminReads(r, "deactivate", u, None)
        PROVE  Inv'
    BY <2>3, AdminReadsKeepsInv
  <2> QED
    BY <1>3, <2>1, <2>2, <2>3 DEF UserHandler
<1>4. CASE ResetHandler(r)
  BY <1>4, ResolveReadsKeepsInv DEF ResetHandler
<1> QED
  BY <1>1, <1>2, <1>3, <1>4, AdminWritesKeepsInv, AdminInvalidatesKeepsInv,
     ResolveKeepsInv, AssignSitesKeepsInv DEF AdminNext

-----------------------------------------------------------------------------
(* Forgotten passwords, the clock, a restart.                              *)

LEMMA ForgotPasswordKeepsInv ==
  ASSUME Inv, NEW u \in Users, NEW t \in Tickets, ForgotPassword(u, t)
  PROVE  Inv'
<1>1. /\ UNCHANGED <<places, users, memoryVars, req, history>>
      /\ resets' = [resets EXCEPT ![t] = [user |-> u, status |-> "open"]]
  BY DEF ForgotPassword, InsertTicket
<1>2. PICK row \in Ticket : row = [user |-> u, status |-> "open"]
  BY DEF Ticket
<1>3. row # None
  BY NoneIsNoRow
<1>4. Grown /\ StoresOK' /\ SessionsFit'
  BY <1>1, <1>2, <1>3 DEF Inv, TypeOK, SessionsFit, StoresOK, Grown, memoryVars, history
<1> QED
  BY <1>1, <1>4, NoRequestMoves

LEMMA ClockNextKeepsInv ==
  ASSUME Inv, ClockNext
  PROVE  Inv'
<1>1. ASSUME NEW id \in SessionIds, Expire(id)
      PROVE  Inv'
  <2>1. /\ id \in DOMAIN sessions /\ sessions' = [sessions EXCEPT ![id].expired = TRUE]
        /\ UNCHANGED <<dbVars, drawn, fails, blocked, req, history>>
    BY <1>1 DEF Expire
  <2>2. Grown /\ StoresOK' /\ SessionsFit'
    BY <2>1, ExtendedFits, SessionsChange
  <2> QED
    BY <2>1, <2>2, NoRequestMoves
<1>2. ASSUME NEW u \in Users, Unblock(u)
      PROVE  Inv'
  <2>1. /\ blocked' = blocked \ {u} /\ tried' = [tried EXCEPT ![u] = 0]
        /\ UNCHANGED <<dbVars, sessions, drawn, fails, req, answered>>
    BY <1>2 DEF Unblock
  <2>2. Grown /\ StoresOK' /\ SessionsFit'
    BY <2>1 DEF Inv, TypeOK, SessionsFit, StoresOK, Grown, dbVars
  <2> QED
    BY <2>1, <2>2, NoRequestMoves
<1> QED
  BY <1>1, <1>2 DEF ClockNext

\* Nothing that was in flight comes back.
LEMMA RestartKeepsInv ==
  ASSUME Inv, Restart
  PROVE  Inv'
<1>1. req' = [r \in Requests |-> Idle]
  BY DEF Restart
<1>2. RequestFits(Idle)'
  BY DEF RequestFits, Idle
<1>3. \A r \in Requests : RequestFits(req[r])'
  BY <1>1 DEF RequestFits, Idle
<1>4. req' \in [Requests -> Request]
  BY <1>1, IdleFits
<1>5. StoresOK' /\ SessionsFit'
  BY DEF Restart, Inv, TypeOK, SessionsFit, StoresOK, dbVars
<1> QED
  BY <1>3, <1>4, <1>5 DEF Inv, TypeOK, StoresOK

\* The database as EnsureDefaults and BootstrapAdmin leave it
LEMMA InitHasInv == Init => Inv
<1> SUFFICES ASSUME Init PROVE Inv
  OBVIOUS
<1>1. FirstAdmin \in Users /\ BootstrapAdmin[FirstAdmin] \in UserRow
  BY SessionConstants DEF BootstrapAdmin, UserRow
<1>2. /\ DOMAIN users \subseteq Users /\ \A u \in DOMAIN users : users[u] \in UserRow
      /\ places \subseteq Sites
  BY <1>1, SessionConstants DEF Init, BootstrapAdmin, EnsureDefaults
<1>3. req \in [Requests -> Request] /\ \A r \in Requests : RequestFits(req[r])
  BY IdleFits DEF Init
<1> QED
  BY <1>2, <1>3 DEF Init, Inv, TypeOK, SessionsFit

\* Every step of the program
LEMMA StepKeepsInv ==
  ASSUME Inv, [Next]_vars
  PROVE  Inv'
<1>1. CASE UNCHANGED vars
  <2>1. req' = req /\ UNCHANGED <<dbVars, memoryVars, history>>
    BY <1>1 DEF vars, dbVars, memoryVars, history
  <2> QED
    BY <2>1, StoresStay, NoRequestMoves
<1>2. ASSUME NEW r \in Requests, LoginNext(r)
      PROVE  Inv'
  BY <1>2, LoginArrivesKeepsInv, LoginReadsKeepsInv, LoginRefusedKeepsInv,
     LoginGrantedKeepsInv DEF LoginNext
<1> QED
  BY <1>1, <1>2, CookieNextKeepsInv, AdminNextKeepsInv, ForgotPasswordKeepsInv,
     ClockNextKeepsInv, RestartKeepsInv DEF Next

\* The invariant, and with it the types of rows, sessions and requests
THEOREM TypesHold == Spec => []TypeOK
<1>1. Inv /\ [Next]_vars => Inv'
  BY StepKeepsInv
<1>2. Inv => TypeOK
  BY DEF Inv
<1> QED
  BY InitHasInv, <1>1, <1>2, PTL DEF Spec

-----------------------------------------------------------------------------
(* Sessions that ended.                                                    *)

\* Only Store.Create adds an entry, and its id is new.
LEMMA NoStepBringsBack ==
  ASSUME [Next]_vars
  PROVE  DOMAIN sessions' \cap drawn \subseteq DOMAIN sessions
<1>1. CASE UNCHANGED vars
  BY <1>1 DEF vars
<1>2. ASSUME NEW r \in Requests, LoginNext(r)
      PROVE  DOMAIN sessions' \cap drawn \subseteq DOMAIN sessions
  <2>1. CASE LoginGranted(r)
    BY <2>1 DEF LoginGranted, OpenSession, Put
  <2>2. CASE ~LoginGranted(r)
    BY <1>2, <2>2 DEF LoginNext, LoginArrives, LoginReads, LoginRefused, memoryVars
  <2> QED
    BY <2>1, <2>2
<1>3. ASSUME NEW r \in Requests, CookieNext(r)
      PROVE  DOMAIN sessions' \subseteq DOMAIN sessions
  BY <1>3 DEF CookieNext, Authenticate, DropExpired, Touch, Logout, Answered,
     SetActiveSite, Without, Extended, Moved, memoryVars
<1>4. ASSUME NEW r \in Requests, AdminNext(r)
      PROVE  DOMAIN sessions' \subseteq DOMAIN sessions
  BY <1>4 DEF AdminNext, SitesHandler, UsersHandler, UserHandler, ResetHandler,
     CreateSite, CreateUser, AdminReads, ResolveReads, AdminWrites, AdminInvalidates,
     Resolve, AssignSites, Without, memoryVars
<1>5. ASSUME \/ \E u \in Users, t \in Tickets : ForgotPassword(u, t)
             \/ ClockNext
             \/ Restart
      PROVE  DOMAIN sessions' \subseteq DOMAIN sessions
  BY <1>5 DEF ForgotPassword, ClockNext, Expire, Unblock, Restart, memoryVars
<1> QED
  BY <1>1, <1>2, <1>3, <1>4, <1>5 DEF Next

\* Touch, SetActiveSite and everything else leave an ended session ended.
THEOREM EndedSessionNeverReturnsHolds == Spec => EndedSessionNeverReturns
<1>1. [Next]_vars => [DOMAIN sessions' \cap drawn \subseteq DOMAIN sessions]_vars
  BY NoStepBringsBack
<1> QED
  BY <1>1, PTL DEF Spec, EndedSessionNeverReturns

-----------------------------------------------------------------------------
(* Users who were deactivated.                                             *)

\* What a step does that neither opens a session, nor writes active of a row,
\* nor ends a request about to invalidate
RevokedKept ==
  /\ \A s \in Requests : req[s].step = "invalidate" => req'[s] = req[s]
  /\ \A u \in DOMAIN users : users'[u].active = users[u].active
  /\ \A id \in DOMAIN sessions' :
       /\ id \in DOMAIN sessions
       /\ sessions'[id].user = sessions[id].user
       /\ sessions'[id].late = sessions[id].late

LEMMA RevokedStaysOut ==
  ASSUME Inv, RevokedUserIsOut, RevokedKept
  PROVE  RevokedUserIsOut'
<1> SUFFICES ASSUME NEW id \in DOMAIN sessions', ~users'[sessions'[id].user].active,
                    ~sessions'[id].late
             PROVE  \E s \in Requests : req'[s].step = "invalidate"
                                        /\ req'[s].user = sessions'[id].user
  BY DEF RevokedUserIsOut, AboutToInvalidate
<1>1. id \in DOMAIN sessions /\ sessions[id].user \in DOMAIN users
  BY DEF RevokedKept, Inv, SessionsFit
<1>2. AboutToInvalidate(sessions[id].user)
  BY <1>1 DEF RevokedUserIsOut, RevokedKept
<1> QED
  BY <1>1, <1>2 DEF AboutToInvalidate, RevokedKept

\* One request moves that is not about to invalidate.
LEMMA OthersKeepStep ==
  ASSUME Inv, NEW r \in Requests, req[r].step # "invalidate", NEW q,
         req' = [req EXCEPT ![r] = q]
  PROVE  \A s \in Requests : req[s].step = "invalidate" => req'[s] = req[s]
BY DEF Inv, TypeOK

\* The sessions that are left have the user and the history they had.
LEMMA SessionsKeep ==
  ASSUME Inv,
         \/ sessions' = sessions
         \/ \E S : sessions' = Without(sessions, S)
         \/ \E id \in DOMAIN sessions :
              \/ sessions' = Extended(id)
              \/ \E site \in Sites : sessions' = Moved(id, site)
              \/ sessions' = [sessions EXCEPT ![id].expired = TRUE]
  PROVE  \A id \in DOMAIN sessions' :
           /\ id \in DOMAIN sessions
           /\ sessions'[id].user = sessions[id].user
           /\ sessions'[id].late = sessions[id].late
<1>1. \A id \in DOMAIN sessions : sessions[id] \in Session
  BY DEF Inv, TypeOK
<1>2. CASE sessions' = sessions \/ \E S : sessions' = Without(sessions, S)
  BY <1>2 DEF Without
<1>3. ASSUME NEW id \in DOMAIN sessions,
             \/ sessions' = Extended(id)
             \/ \E site \in Sites : sessions' = Moved(id, site)
             \/ sessions' = [sessions EXCEPT ![id].expired = TRUE]
      PROVE  \A x \in DOMAIN sessions' :
               /\ x \in DOMAIN sessions
               /\ sessions'[x].user = sessions[x].user
               /\ sessions'[x].late = sessions[x].late
  <2>1. sessions[id] \in Session
    BY <1>1
  <2>2. ASSUME NEW row \in Session, sessions' = [sessions EXCEPT ![id] = row],
               row.user = sessions[id].user, row.late = sessions[id].late
        PROVE  \A x \in DOMAIN sessions' :
                 /\ x \in DOMAIN sessions
                 /\ sessions'[x].user = sessions[x].user
                 /\ sessions'[x].late = sessions[x].late
    BY <2>2
  <2>3. CASE sessions' = Extended(id)
    BY <2>1, <2>2, <2>3 DEF Extended, Session
  <2>4. ASSUME NEW site \in Sites, sessions' = Moved(id, site)
        PROVE  \A x \in DOMAIN sessions' :
                 /\ x \in DOMAIN sessions
                 /\ sessions'[x].user = sessions[x].user
                 /\ sessions'[x].late = sessions[x].late
    BY <1>1, <2>1, <2>4 DEF Moved, Session
  <2>5. CASE sessions' = [sessions EXCEPT ![id].expired = TRUE]
    BY <1>1, <2>1, <2>5 DEF Session
  <2> QED
    BY <1>3, <2>3, <2>4, <2>5
<1> QED
  BY <1>2, <1>3

\* A login that read the row while it was active
LEMMA LoginKeepsRevokedOut ==
  ASSUME Inv, RevokedUserIsOut, NEW r \in Requests, LoginNext(r)
  PROVE  RevokedUserIsOut'
<1>1. CASE \/ \E u \in Users, pass \in Passwords : LoginArrives(r, u, pass)
           \/ LoginReads(r) \/ LoginRefused(r)
  <2>1. /\ UNCHANGED <<dbVars, sessions, drawn>> /\ req[r].step # "invalidate"
        /\ \E q : req' = [req EXCEPT ![r] = q]
    <3>1. CASE \E u \in Users, pass \in Passwords : LoginArrives(r, u, pass)
      BY <3>1 DEF LoginArrives, memoryVars
    <3>2. CASE LoginRefused(r)
      BY <3>2 DEF LoginRefused, Return
    <3>3. CASE LoginReads(r)
      <4>1. CASE Return(r)
        BY <3>3, <4>1 DEF LoginReads, Return
      <4>2. CASE ~Return(r)
        <5>1. req' = [req EXCEPT ![r].step = "verify", ![r].row = GetByUsername(req[r].user)]
          BY <3>3, <4>2 DEF LoginReads
        <5>2. req' = [req EXCEPT ![r] = [req[r] EXCEPT !.step = "verify",
                                                    !.row = GetByUsername(req[r].user)]]
          BY <5>1 DEF Inv, TypeOK
        <5> QED
          BY <3>3, <5>2 DEF LoginReads
      <4> QED
        BY <4>1, <4>2
    <3> QED
      BY <1>1, <3>1, <3>2, <3>3
  <2>2. RevokedKept
    BY <2>1, OthersKeepStep DEF RevokedKept, dbVars
  <2> QED
    BY <2>2, RevokedStaysOut
<1>2. CASE LoginGranted(r)
  <2>1. /\ users' = users /\ req[r].step = "verify" /\ req[r].row.active
        /\ req' = [req EXCEPT ![r] = Idle]
    BY <1>2 DEF LoginGranted, Return, Inv, RequestFits, dbVars
  <2>2. \A s \in Requests : req[s].step = "invalidate" => req'[s] = req[s]
    BY <2>1, OthersKeepStep
  <2>3. CASE UNCHANGED sessions
    BY <2>1, <2>2, <2>3, RevokedStaysOut DEF RevokedKept
  <2>4. ASSUME NEW site, OpenSession(req[r].user, req[r].row, site)
        PROVE  RevokedUserIsOut'
    <3>1. PICK id \in SessionIds \ drawn,
                 fresh \in {[user |-> req[r].user, sites |-> req[r].row.sites, active |-> site,
                            expired |-> FALSE, late |-> req[r].row.active /\ ~users[req[r].user].active]} :
            sessions' = Put(sessions, id, fresh)
      BY <2>4 DEF OpenSession
    <3>0. fresh = [user |-> req[r].user, sites |-> req[r].row.sites, active |-> site,
                   expired |-> FALSE, late |-> req[r].row.active /\ ~users[req[r].user].active]
      BY <3>1
    <3>2. fresh.user = req[r].user /\ (users[req[r].user].active \/ fresh.late)
      BY <2>1, <3>0
    <3>3. /\ DOMAIN sessions' = DOMAIN sessions \cup {id} /\ sessions'[id] = fresh
          /\ \A x \in DOMAIN sessions : x # id => sessions'[x] = sessions[x]
      BY <3>1 DEF Put
    <3>4. \A x \in DOMAIN sessions : x # id
      BY DEF Inv, SessionsFit
    <3>5. ASSUME NEW x \in DOMAIN sessions, ~users[sessions[x].user].active,
                 ~sessions[x].late
          PROVE  AboutToInvalidate(sessions[x].user)'
      <4>1. PICK s \in Requests :
              req[s].step = "invalidate" /\ req[s].user = sessions[x].user
        BY <3>5 DEF RevokedUserIsOut, AboutToInvalidate
      <4>2. req'[s] = req[s] /\ sessions'[x] = sessions[x]
        BY <2>2, <3>3, <3>4, <4>1
      <4> QED
        BY <4>1, <4>2 DEF AboutToInvalidate
    <3> QED
      BY <2>1, <3>2, <3>3, <3>4, <3>5 DEF RevokedUserIsOut
  <2> QED
    BY <1>2, <2>3, <2>4 DEF LoginGranted
<1> QED
  BY <1>1, <1>2 DEF LoginNext

\* A request with a cookie
LEMMA CookieKeepsRevokedOut ==
  ASSUME Inv, RevokedUserIsOut, NEW r \in Requests, CookieNext(r)
  PROVE  RevokedUserIsOut'
<1>1. /\ users' = users /\ req[r].step # "invalidate"
      /\ \E q : req' = [req EXCEPT ![r] = q]
      /\ \/ sessions' = sessions
         \/ \E S : sessions' = Without(sessions, S)
         \/ \E id \in DOMAIN sessions :
              \/ sessions' = Extended(id)
              \/ \E site \in Sites : sessions' = Moved(id, site)
              \/ sessions' = [sessions EXCEPT ![id].expired = TRUE]
  <2>1. CASE \E id \in SessionIds : Authenticate(r, id)
    BY <2>1 DEF Authenticate, dbVars, memoryVars
  <2>2. CASE DropExpired(r) \/ Logout(r)
    BY <2>2 DEF DropExpired, Logout, Return, dbVars
  <2>3. CASE Answered(r)
    BY <2>3 DEF Answered, Return, dbVars, memoryVars
  <2>4. CASE Touch(r)
    <3>1. req' = [req EXCEPT ![r] = [req[r] EXCEPT !.step = "handle"]]
      BY <2>4 DEF Touch, Goto, Inv, TypeOK
    <3> QED
      BY <2>4, <3>1 DEF Touch, dbVars
  <2>5. ASSUME NEW site \in Sites, SetActiveSite(r, site)
        PROVE  /\ users' = users /\ req[r].step # "invalidate"
               /\ req' = [req EXCEPT ![r] = Idle]
               /\ \/ sessions' = sessions
                  \/ \E id \in DOMAIN sessions : sessions' = Moved(id, site)
    BY <2>5 DEF SetActiveSite, Return, dbVars
  <2> QED
    BY <2>1, <2>2, <2>3, <2>4, <2>5 DEF CookieNext
<1>2. RevokedKept
  BY <1>1, OthersKeepStep, SessionsKeep DEF RevokedKept
<1> QED
  BY <1>2, RevokedStaysOut

\* The row written by one administrator may hold what another has undone: if it
\* says that the user is not active, this request drops the sessions next.
LEMMA AdminWritesKeepsRevokedOut ==
  ASSUME Inv, RevokedUserIsOut, NEW r \in Requests, AdminWrites(r)
  PROVE  RevokedUserIsOut'
<1>1. PICK u \in DOMAIN users : u = req[r].user
  BY DEF AdminWrites, Inv, RequestFits
<1>2. /\ RequestFits(req[r]) /\ req[r].step = "write" /\ sessions' = sessions
      /\ users' = [users EXCEPT ![u] = [Edited(req[r].op, req[r].row, req[r].pass)
                                          EXCEPT !.sites = users[u].sites]]
      /\ IF req[r].op = "activate" THEN Return(r) ELSE Invalidates(r)
      /\ req \in [Requests -> Request]
  BY <1>1 DEF AdminWrites, Inv, TypeOK, memoryVars
<1>3. PICK q : req' = [req EXCEPT ![r] = q]
  BY <1>2 DEF Return, Invalidates
<1>4. \A s \in Requests : req[s].step = "invalidate" => req'[s] = req[s]
  BY <1>2, <1>3, OthersKeepStep
<1>5. \A v \in DOMAIN users : v # u => users'[v] = users[v]
  BY <1>2
<1>6. users'[u].active \/ AboutToInvalidate(u)'
  <2>1. CASE req[r].op = "activate"
    <3>1. Edited(req[r].op, req[r].row, req[r].pass).active
      BY <1>2, <2>1 DEF Edited, RequestFits, UserRow
    <3>2. PICK row \in UserRow : row = Edited(req[r].op, req[r].row, req[r].pass)
      BY <1>2, EditedFits DEF RequestFits
    <3> QED
      BY <1>2, <3>1, <3>2 DEF UserRow
  <2>2. CASE req[r].op # "activate"
    <3>1. req'[r] = [Idle EXCEPT !.step = "invalidate", !.user = u,
                                 !.ticket = req[r].ticket]
      BY <1>1, <1>2, <2>2 DEF Invalidates
    <3>2. req'[r].step = "invalidate" /\ req'[r].user = u
      BY <3>1 DEF Idle
    <3> QED
      BY <3>2 DEF AboutToInvalidate
  <2> QED
    BY <2>1, <2>2
<1>7. ASSUME NEW v, AboutToInvalidate(v)
      PROVE  AboutToInvalidate(v)'
  BY <1>4, <1>7 DEF AboutToInvalidate
<1>8. ASSUME NEW v \in DOMAIN users, users[v].active \/ AboutToInvalidate(v)
      PROVE  users'[v].active \/ AboutToInvalidate(v)'
  BY <1>5, <1>6, <1>7, <1>8
<1>9. ASSUME NEW id \in DOMAIN sessions, ~sessions[id].late, NEW v, v = sessions[id].user
      PROVE  users'[v].active \/ AboutToInvalidate(v)'
  <2>1. v \in DOMAIN users
    BY <1>9 DEF Inv, SessionsFit
  <2>2. users[v].active \/ AboutToInvalidate(v)
    BY <1>9 DEF RevokedUserIsOut
  <2> QED
    BY <1>8, <2>1, <2>2
<1> QED
  BY <1>2, <1>9 DEF RevokedUserIsOut, AboutToInvalidate

\* What it was about to do is done: the user has no session left.
LEMMA AdminInvalidatesKeepsRevokedOut ==
  ASSUME Inv, RevokedUserIsOut, NEW r \in Requests, AdminInvalidates(r)
  PROVE  RevokedUserIsOut'
<1>1. /\ users' = users /\ req \in [Requests -> Request]
      /\ \A s \in Requests : s # r => req'[s] = req[s]
      /\ DOMAIN sessions' = DOMAIN sessions \ SessionsOf(req[r].user)
      /\ \A id \in DOMAIN sessions' : sessions'[id] = sessions[id]
  BY DEF AdminInvalidates, Return, Goto, Inv, TypeOK, Without, dbVars
<1>2. \A id \in DOMAIN sessions' : id \in DOMAIN sessions /\ sessions[id].user # req[r].user
  BY <1>1 DEF SessionsOf
<1> QED
  BY <1>1, <1>2 DEF RevokedUserIsOut, AboutToInvalidate

\* A row that is added has no session.
LEMMA OtherAdminKeepsRevokedOut ==
  ASSUME Inv, RevokedUserIsOut, NEW r \in Requests,
         \/ SitesHandler(r) \/ UsersHandler(r) \/ UserHandler(r) \/ ResetHandler(r)
         \/ Resolve(r) \/ AssignSites(r)
  PROVE  RevokedUserIsOut'
<1>1. sessions' = sessions /\ req[r].step # "invalidate" /\ \E q : req' = [req EXCEPT ![r] = q]
  BY DEF SitesHandler, UsersHandler, UserHandler, ResetHandler, CreateSite, CreateUser,
     AdminReads, ResolveReads, Resolve, AssignSites, AdminCall, Return, memoryVars
<1>2. \A u \in DOMAIN users : users'[u].active = users[u].active
  <2>1. CASE AssignSites(r)
    <3>1. PICK u \in DOMAIN users, sites \in SUBSET Sites :
            users' = users \/ users' = [users EXCEPT ![u].sites = sites]
      BY <2>1 DEF AssignSites, SetSites, Inv, TypeOK, Request, RequestFits
    <3>2. \A v \in DOMAIN users : users[v] \in UserRow
      BY DEF Inv, TypeOK
    <3> QED
      BY <3>1, <3>2 DEF UserRow
  <2>2. CASE UsersHandler(r)
    BY <2>2 DEF UsersHandler, CreateUser, InsertUser, Put
  <2>3. CASE SitesHandler(r) \/ UserHandler(r) \/ ResetHandler(r) \/ Resolve(r)
    BY <2>3 DEF SitesHandler, UserHandler, ResetHandler, CreateSite, AdminReads,
       ResolveReads, Resolve, dbVars
  <2> QED
    BY <2>1, <2>2, <2>3
<1>3. RevokedKept
  BY <1>1, <1>2, OthersKeepStep DEF RevokedKept
<1> QED
  BY <1>3, RevokedStaysOut

\* Every step of the program
LEMMA StepKeepsRevokedOut ==
  ASSUME Inv, RevokedUserIsOut, [Next]_vars
  PROVE  RevokedUserIsOut'
<1>1. CASE UNCHANGED vars
  BY <1>1 DEF RevokedUserIsOut, AboutToInvalidate, vars
<1>2. ASSUME NEW r \in Requests, AdminNext(r)
      PROVE  RevokedUserIsOut'
  BY <1>2, AdminWritesKeepsRevokedOut, AdminInvalidatesKeepsRevokedOut,
     OtherAdminKeepsRevokedOut DEF AdminNext
<1>3. ASSUME NEW u \in Users, NEW t \in Tickets, ForgotPassword(u, t)
      PROVE  RevokedUserIsOut'
  BY <1>3 DEF ForgotPassword, RevokedUserIsOut, AboutToInvalidate, memoryVars
<1>4. ASSUME NEW id \in SessionIds, Expire(id)
      PROVE  RevokedUserIsOut'
  <2>1. users' = users /\ req' = req
        /\ id \in DOMAIN sessions /\ sessions' = [sessions EXCEPT ![id].expired = TRUE]
    BY <1>4 DEF Expire, dbVars
  <2>2. RevokedKept
    BY <2>1, SessionsKeep DEF RevokedKept
  <2> QED
    BY <2>2, RevokedStaysOut
<1>5. ASSUME NEW u \in Users, Unblock(u)
      PROVE  RevokedUserIsOut'
  BY <1>5 DEF Unblock, RevokedUserIsOut, AboutToInvalidate, dbVars
<1>6. CASE Restart
  BY <1>6 DEF Restart, RevokedUserIsOut
<1> QED
  BY <1>1, <1>2, <1>3, <1>4, <1>5, <1>6, LoginKeepsRevokedOut, CookieKeepsRevokedOut
     DEF Next, ClockNext

\* A deactivated user is out, with any number of administrators and logins that
\* read and write the same row at the same time.
THEOREM RevokedUserIsOutHolds == Spec => []RevokedUserIsOut
<1>1. Init => RevokedUserIsOut
  BY DEF Init, RevokedUserIsOut
<1>2. Inv /\ RevokedUserIsOut /\ [Next]_vars => Inv' /\ RevokedUserIsOut'
  BY StepKeepsInv, StepKeepsRevokedOut
<1> QED
  BY InitHasInv, <1>1, <1>2, PTL DEF Spec

-----------------------------------------------------------------------------
(* Password reset requests.                                                *)

\* A request that answers a ticket sets the password of the ticket's user, and
\* by the time it closes the ticket it has done so.
AnswerFits(q) ==
  /\ (q.step = "write" /\ q.ticket # None)
       => q.op = "password" /\ resets[q.ticket].user = q.user
  /\ (q.step \in {"invalidate", "resolve"} /\ q.ticket # None) => q.ticket \in answered

\* Inv is beside it.
TicketInv == ClosedTicketIsAnswered /\ \A r \in Requests : AnswerFits(req[r])

\* No ticket changes its user, no answer is taken back, none is closed unanswered.
TicketsKept ==
  /\ \A t \in Tickets : resets[t] # None => resets'[t].user = resets[t].user
  /\ answered \subseteq answered'
  /\ \A t \in Tickets : (resets'[t] # None /\ resets'[t].status = "done")
                          => \/ t \in answered'
                             \/ resets[t] # None /\ resets[t].status = "done"

LEMMA TicketRequestMoves ==
  ASSUME Inv, TicketInv, TicketsKept, NEW r \in Requests, NEW q, AnswerFits(q)',
         req' = [req EXCEPT ![r] = q]
  PROVE  TicketInv'
<1>1. ClosedTicketIsAnswered'
  BY DEF TicketInv, TicketsKept, ClosedTicketIsAnswered
<1>2. ASSUME NEW s \in Requests, s # r
      PROVE  AnswerFits(req[s])'
  <2>1. RequestFits(req[s]) /\ AnswerFits(req[s]) /\ req'[s] = req[s]
    BY <1>2 DEF Inv, TypeOK, TicketInv
  <2> QED
    BY <2>1 DEF RequestFits, TicketFits, AnswerFits, TicketsKept
<1>3. req'[r] = q
  BY DEF Inv, TypeOK
<1>4. AnswerFits(req[r])'
  BY <1>3 DEF AnswerFits
<1> QED
  BY <1>1, <1>2, <1>4 DEF TicketInv

\* A request that goes on with no ticket, or returns, promises nothing.
LEMMA TicketStays ==
  ASSUME Inv, TicketInv, UNCHANGED <<resets, answered>>, NEW r \in Requests, NEW q,
         q.ticket = None \/ q.step \notin {"write", "invalidate", "resolve"},
         req' = [req EXCEPT ![r] = q]
  PROVE  TicketInv'
<1>1. TicketsKept
  BY DEF TicketsKept
<1>2. AnswerFits(q)'
  BY DEF AnswerFits
<1> QED
  BY <1>1, <1>2, TicketRequestMoves

LEMMA LoginKeepsTickets ==
  ASSUME Inv, TicketInv, NEW r \in Requests, LoginNext(r)
  PROVE  TicketInv'
<1>1. Idle.ticket = None
  BY DEF Idle
<1>2. UNCHANGED <<resets, answered>>
  BY DEF LoginNext, LoginArrives, LoginReads, LoginRefused, LoginGranted, dbVars, history
<1>3. CASE Return(r)
  BY <1>1, <1>2, <1>3, TicketStays DEF Return
<1>4. CASE LoginReads(r) /\ ~Return(r)
  <2>1. PICK q : q = [req[r] EXCEPT !.step = "verify",
                                    !.row = GetByUsername(req[r].user)]
    OBVIOUS
  <2>2. req' = [req EXCEPT ![r] = q] /\ q.step = "verify"
    BY <1>4, <2>1 DEF LoginReads, Inv, TypeOK, Request
  <2> QED
    BY <1>2, <2>2, TicketStays
<1>5. ASSUME NEW u \in Users, NEW pass \in Passwords, LoginArrives(r, u, pass)
      PROVE  TicketInv'
  <2>1. PICK q : q = [Idle EXCEPT !.step = "read", !.op = "login", !.user = u,
                                  !.pass = pass]
    OBVIOUS
  <2>2. req' = [req EXCEPT ![r] = q] /\ q.ticket = None
    BY <1>5, <2>1 DEF LoginArrives, Idle
  <2> QED
    BY <1>2, <2>2, TicketStays
<1> QED
  BY <1>3, <1>4, <1>5 DEF LoginNext, LoginRefused, LoginGranted

LEMMA CookieKeepsTickets ==
  ASSUME Inv, TicketInv, NEW r \in Requests, CookieNext(r)
  PROVE  TicketInv'
<1>1. Idle.ticket = None
  BY DEF Idle
<1>2. UNCHANGED <<resets, answered>>
  BY DEF CookieNext, Authenticate, DropExpired, Touch, Logout, Answered, SetActiveSite,
     dbVars, history
<1>3. CASE Return(r)
  BY <1>1, <1>2, <1>3, TicketStays DEF Return
<1>4. CASE Touch(r)
  <2>1. PICK q : q = [req[r] EXCEPT !.step = "handle"]
    OBVIOUS
  <2>2. req' = [req EXCEPT ![r] = q] /\ q.step = "handle"
    BY <1>4, <2>1 DEF Touch, Goto, Inv, TypeOK, Request
  <2> QED
    BY <1>2, <2>2, TicketStays
<1>5. ASSUME NEW id \in SessionIds, Authenticate(r, id)
      PROVE  TicketInv'
  <2>1. PICK q : /\ req' = [req EXCEPT ![r] = q]
                 /\ q = [Idle EXCEPT
                           !.step  = IF sessions[id].expired THEN "drop" ELSE "touch",
                           !.user  = sessions[id].user,
                           !.id    = id,
                           !.sites = sessions[id].sites]
    BY <1>5 DEF Authenticate
  <2>2. q.ticket = None
    BY <2>1 DEF Idle
  <2> QED
    BY <1>2, <2>1, <2>2, TicketStays
<1> QED
  BY <1>3, <1>4, <1>5 DEF CookieNext, DropExpired, Logout, Answered, SetActiveSite

\* The ticket read with the row is of the user whose row it is.
LEMMA ReadsKeepTickets ==
  ASSUME Inv, TicketInv, NEW r \in Requests,
         \/ SitesHandler(r) \/ UsersHandler(r) \/ UserHandler(r) \/ ResetHandler(r)
         \/ AssignSites(r)
  PROVE  TicketInv'
<1>1. Idle.ticket = None
  BY DEF Idle
<1>2. UNCHANGED <<resets, answered>>
  BY DEF SitesHandler, UsersHandler, UserHandler, ResetHandler, CreateSite, CreateUser,
     AdminReads, ResolveReads, AssignSites, dbVars, history
<1>3. CASE Return(r)
  BY <1>1, <1>2, <1>3, TicketStays DEF Return
<1>4. ASSUME NEW u \in Users, NEW sites, NEW pass, CreateUser(r, u, sites, pass)
      PROVE  TicketInv'
  <2>1. PICK q : /\ req' = [req EXCEPT ![r] = q]
                 /\ q = [Idle EXCEPT !.step = "sites", !.user = u,
                                     !.sites = SitesGiven(u, sites)]
    BY <1>4 DEF CreateUser
  <2>2. q.ticket = None
    BY <2>1 DEF Idle
  <2> QED
    BY <1>2, <2>1, <2>2, TicketStays
<1>5. ASSUME NEW u \in Users, NEW op, NEW pass, AdminReads(r, op, u, pass)
      PROVE  TicketInv'
  <2>1. PICK q : /\ req' = [req EXCEPT ![r] = q]
                 /\ q = [Idle EXCEPT !.step = "write", !.op = op, !.user = u,
                                     !.pass = pass, !.row = Columns(users[u])]
    BY <1>5 DEF AdminReads
  <2>2. q.ticket = None
    BY <2>1 DEF Idle
  <2> QED
    BY <1>2, <2>1, <2>2, TicketStays
<1>6. ASSUME NEW t \in Tickets, NEW pass, ResolveReads(r, t, pass)
      PROVE  TicketInv'
  <2>1. PICK q : /\ req' = [req EXCEPT ![r] = q]
                 /\ q = [Idle EXCEPT !.step = "write", !.op = "password",
                                     !.user = resets[t].user, !.pass = pass,
                                     !.row = Columns(users[resets[t].user]),
                                     !.ticket = t]
    BY <1>6 DEF ResolveReads
  <2>2. /\ q.step = "write" /\ q.op = "password" /\ q.user = resets[t].user
        /\ q.ticket = t
    BY <2>1 DEF Idle
  <2>3. AnswerFits(q)' /\ TicketsKept
    BY <1>2, <2>2 DEF AnswerFits, TicketsKept
  <2> QED
    BY <2>1, <2>3, TicketRequestMoves
<1> QED
  BY <1>3, <1>4, <1>5, <1>6 DEF SitesHandler, UsersHandler, UserHandler, ResetHandler,
     CreateSite, AssignSites

\* The password comes first, the ticket is closed after it.
LEMMA AnswerKeepsTickets ==
  ASSUME Inv, TicketInv, NEW r \in Requests,
         AdminWrites(r) \/ AdminInvalidates(r) \/ Resolve(r)
  PROVE  TicketInv'
<1>1. /\ Idle.ticket = None /\ RequestFits(req[r]) /\ AnswerFits(req[r])
      /\ req[r] \in Request /\ req \in [Requests -> Request]
      /\ resets \in [Tickets -> Ticket \cup {None}]
  BY DEF Idle, Inv, TypeOK, TicketInv
<1>2. AnswerFits(Idle)'
  BY DEF AnswerFits, Idle
<1>3. CASE AdminWrites(r)
  <2>1. /\ resets' = resets /\ Answer(r) /\ req[r].step = "write"
        /\ IF req[r].op = "activate" THEN Return(r) ELSE Invalidates(r)
    BY <1>3 DEF AdminWrites
  <2>2. TicketsKept
    BY <2>1 DEF TicketsKept, Answer
  <2>3. CASE Return(r)
    BY <1>2, <2>2, <2>3, TicketRequestMoves DEF Return
  <2>4. CASE Invalidates(r)
    <3>1. PICK q : /\ req' = [req EXCEPT ![r] = q]
                   /\ q = [Idle EXCEPT !.step = "invalidate", !.user = req[r].user,
                                       !.ticket = req[r].ticket]
      BY <2>4 DEF Invalidates
    <3>2. q.step = "invalidate" /\ q.ticket = req[r].ticket
      BY <3>1 DEF Idle
    <3>3. req[r].ticket # None => req[r].ticket \in answered'
      BY <1>1, <2>1 DEF Answer, AnswerFits, RequestFits, TicketFits
    <3>4. AnswerFits(q)'
      BY <3>2, <3>3 DEF AnswerFits
    <3> QED
      BY <2>2, <3>1, <3>4, TicketRequestMoves
  <2> QED
    BY <2>1, <2>3, <2>4
<1>4. CASE AdminInvalidates(r)
  <2>1. /\ UNCHANGED <<resets, answered>> /\ req[r].step = "invalidate"
        /\ IF req[r].ticket = None THEN Return(r) ELSE Goto(r, "resolve")
    BY <1>4 DEF AdminInvalidates, dbVars, history
  <2>2. TicketsKept
    BY <2>1 DEF TicketsKept
  <2>3. CASE Return(r)
    BY <1>2, <2>2, <2>3, TicketRequestMoves DEF Return
  <2>4. CASE Goto(r, "resolve")
    <3>1. PICK q : q = [req[r] EXCEPT !.step = "resolve"]
      OBVIOUS
    <3>2. req' = [req EXCEPT ![r] = q] /\ q.step = "resolve" /\ q.ticket = req[r].ticket
      BY <1>1, <2>4, <3>1 DEF Goto, Request
    <3>3. AnswerFits(q)'
      BY <1>1, <2>1, <3>2 DEF AnswerFits
    <3> QED
      BY <2>2, <3>2, <3>3, TicketRequestMoves
  <2> QED
    BY <2>1, <2>3, <2>4
<1>5. CASE Resolve(r)
  <2>1. PICK t \in Tickets : t = req[r].ticket /\ resets[t] # None /\ t \in answered
    BY <1>1, <1>5 DEF Resolve, RequestFits, TicketFits, AnswerFits
  <2>2. /\ resets' = [resets EXCEPT ![t].status = "done"] /\ answered' = answered
        /\ Return(r) /\ resets[t] \in Ticket
    BY <1>1, <1>5, <2>1 DEF Resolve, Closed, history
  <2>3. TicketsKept
    BY <1>1, <2>1, <2>2 DEF TicketsKept, Ticket
  <2> QED
    BY <1>2, <2>2, <2>3, TicketRequestMoves DEF Return
<1> QED
  BY <1>3, <1>4, <1>5

\* Every step of the program
LEMMA StepKeepsTickets ==
  ASSUME Inv, TicketInv, [Next]_vars
  PROVE  TicketInv'
<1>1. CASE UNCHANGED <<resets, answered, req>>
  BY <1>1 DEF TicketInv, ClosedTicketIsAnswered, AnswerFits
<1>2. ASSUME NEW u \in Users, NEW t \in Tickets, ForgotPassword(u, t)
      PROVE  TicketInv'
  <2>1. /\ UNCHANGED <<req, answered>> /\ resets[t] = None
        /\ resets' = [resets EXCEPT ![t] = [user |-> u, status |-> "open"]]
        /\ resets \in [Tickets -> Ticket \cup {None}]
    BY <1>2 DEF ForgotPassword, InsertTicket, history, Inv, TypeOK
  <2>2. ClosedTicketIsAnswered'
    BY <2>1 DEF TicketInv, ClosedTicketIsAnswered
  <2>3. ASSUME NEW s \in Requests
        PROVE  AnswerFits(req[s])'
    <3>1. RequestFits(req[s]) /\ AnswerFits(req[s])
      BY DEF Inv, TicketInv
    <3> QED
      BY <2>1, <3>1 DEF RequestFits, TicketFits, AnswerFits
  <2> QED
    BY <2>2, <2>3 DEF TicketInv
<1>3. CASE Restart
  BY <1>3 DEF Restart, TicketInv, ClosedTicketIsAnswered, AnswerFits, Idle, dbVars
<1>4. CASE ClockNext
  BY <1>1, <1>4 DEF ClockNext, Expire, Unblock, dbVars, history
<1>5. CASE UNCHANGED vars
  BY <1>1, <1>5 DEF vars
<1> QED
  BY <1>2, <1>3, <1>4, <1>5, LoginKeepsTickets, CookieKeepsTickets, ReadsKeepTickets,
     AnswerKeepsTickets DEF Next, AdminNext

\* Wherever a restart falls, a ticket is closed only after its user has been
\* given a password.
THEOREM ClosedTicketIsAnsweredHolds == Spec => []ClosedTicketIsAnswered
<1>1. Init => TicketInv
  BY DEF Init, TicketInv, ClosedTicketIsAnswered, AnswerFits, Idle
<1>2. Inv /\ TicketInv /\ [Next]_vars => Inv' /\ TicketInv'
  BY StepKeepsInv, StepKeepsTickets
<1>3. TicketInv => ClosedTicketIsAnswered
  BY DEF TicketInv
<1> QED
  BY InitHasInv, <1>1, <1>2, <1>3, PTL DEF Spec

-----------------------------------------------------------------------------
(* The site a session works on.                                            *)

\* The copies that a request works on hold no site which the row does not have,
\* and the session that it looked up is of the user it believes.
SiteFits(q) ==
  /\ q.step = "verify" => q.row.sites \subseteq users[q.user].sites
  /\ q.step \in {"touch", "handle"} =>
       /\ q.sites \subseteq users[q.user].sites
       /\ q.id \in DOMAIN sessions => sessions[q.id].user = q.user
  /\ q.step = "sites" => users[q.user].sites = {}

SessionSites ==
  \A id \in DOMAIN sessions : sessions[id].sites \subseteq users[sessions[id].user].sites

\* The sites of a user are set once, by the request that has created it.
OneAssigns ==
  \A r, s \in Requests :
    (req[r].step = "sites" /\ req[s].step = "sites" /\ req[r].user = req[s].user)
      => r = s

\* Inv is beside it.
SiteInv ==
  ActiveSiteIsAssigned /\ SessionSites /\ OneAssigns /\ \A r \in Requests : SiteFits(req[r])

\* No user loses a site and no id is used again.
SitesKept ==
  /\ \A u \in DOMAIN users : users[u].sites \subseteq users'[u].sites
  /\ \A id \in DOMAIN sessions' \cap drawn :
       id \in DOMAIN sessions /\ sessions'[id].user = sessions[id].user

LEMMA SiteRequestMoves ==
  ASSUME Inv, SiteInv, SitesKept, ActiveSiteIsAssigned', SessionSites',
         NEW r \in Requests, NEW q, SiteFits(q)', req' = [req EXCEPT ![r] = q],
         \A s \in Requests \ {r} : req[s].step = "sites" =>
           /\ users'[req[s].user].sites = {}
           /\ q.step = "sites" => q.user # req[s].user
  PROVE  SiteInv'
<1>1. req'[r] = q /\ \A s \in Requests \ {r} : req'[s] = req[s]
  BY DEF Inv, TypeOK
<1>2. ASSUME NEW s \in Requests \ {r}
      PROVE  SiteFits(req[s])'
  <2>1. RequestFits(req[s]) /\ SiteFits(req[s]) /\ req'[s] = req[s]
    BY <1>1 DEF Inv, SiteInv
  <2> QED
    BY <2>1 DEF RequestFits, SiteFits, SitesKept
<1>3. SiteFits(req[r])'
  BY <1>1 DEF SiteFits
<1>4. OneAssigns'
  BY <1>1 DEF SiteInv, OneAssigns
<1> QED
  BY <1>2, <1>3, <1>4 DEF SiteInv

\* Sessions may go, run out or be extended.
SessionsSettle ==
  \A id \in DOMAIN sessions' :
    /\ id \in DOMAIN sessions
    /\ sessions'[id].user = sessions[id].user
    /\ sessions'[id].sites = sessions[id].sites
    /\ sessions'[id].active = sessions[id].active

LEMMA SettledSessions ==
  ASSUME Inv,
         \/ sessions' = sessions
         \/ \E S : sessions' = Without(sessions, S)
         \/ \E id \in DOMAIN sessions :
              \/ sessions' = Extended(id)
              \/ sessions' = [sessions EXCEPT ![id].expired = TRUE]
  PROVE  SessionsSettle
<1>1. CASE sessions' = sessions \/ \E S : sessions' = Without(sessions, S)
  BY <1>1 DEF Without, SessionsSettle
<1>2. ASSUME NEW id \in DOMAIN sessions,
             \/ sessions' = Extended(id)
             \/ sessions' = [sessions EXCEPT ![id].expired = TRUE]
      PROVE  SessionsSettle
  <2>1. sessions[id] \in Session
    BY DEF Inv, TypeOK
  <2>2. \E b \in BOOLEAN : sessions' = [sessions EXCEPT ![id].expired = b]
    BY <1>2 DEF Extended
  <2> QED
    BY <2>1, <2>2 DEF Session, SessionsSettle
<1> QED
  BY <1>1, <1>2

LEMMA SettledSites ==
  ASSUME Inv, SiteInv, SessionsSettle,
         \A u \in DOMAIN users : users[u].sites \subseteq users'[u].sites
  PROVE  SitesKept /\ ActiveSiteIsAssigned' /\ SessionSites'
<1>1. \A id \in DOMAIN sessions : sessions[id].user \in DOMAIN users
  BY DEF Inv, SessionsFit
<1>2. SitesKept
  BY DEF SitesKept, SessionsSettle
<1>3. ActiveSiteIsAssigned'
  BY <1>1 DEF SiteInv, ActiveSiteIsAssigned, SessionsSettle
<1>4. SessionSites'
  BY <1>1 DEF SiteInv, SessionSites, SessionsSettle
<1> QED
  BY <1>2, <1>3, <1>4

\* Users stay as they are, and the request goes on with what fits.
LEMMA SiteStays ==
  ASSUME Inv, SiteInv, users' = users, SessionsSettle, NEW r \in Requests,
         NEW q, SiteFits(q)', q.step # "sites", req' = [req EXCEPT ![r] = q]
  PROVE  SiteInv'
<1>1. SitesKept /\ ActiveSiteIsAssigned' /\ SessionSites'
  BY SettledSites
<1>2. \A s \in Requests : req[s].step = "sites" => users'[req[s].user].sites = {}
  BY DEF SiteInv, SiteFits
<1> QED
  BY <1>1, <1>2, SiteRequestMoves

LEMMA IdleSite == SiteFits(Idle)' /\ Idle.step = "idle"
BY DEF SiteFits, Idle

\* The first site of a user who is not an administrator is one of its own.
LEMMA LoginKeepsSites ==
  ASSUME Inv, SiteInv, NEW r \in Requests, LoginNext(r)
  PROVE  SiteInv'
<1>1. ASSUME NEW u \in Users, NEW pass \in Passwords, LoginArrives(r, u, pass)
      PROVE  SiteInv'
  <2>1. PICK q : /\ req' = [req EXCEPT ![r] = q]
                 /\ q = [Idle EXCEPT !.step = "read", !.op = "login", !.user = u,
                                     !.pass = pass]
    BY <1>1 DEF LoginArrives
  <2>2. q.step = "read"
    BY <2>1 DEF Idle
  <2>3. users' = users /\ SessionsSettle /\ SiteFits(q)'
    BY <1>1, <2>2, SettledSessions DEF LoginArrives, SiteFits, dbVars, memoryVars
  <2> QED
    BY <2>1, <2>2, <2>3, SiteStays
<1>2. CASE LoginReads(r)
  <2>1. users' = users /\ SessionsSettle
    BY <1>2, SettledSessions DEF LoginReads, dbVars
  <2>2. CASE Return(r)
    BY <2>1, <2>2, IdleSite, SiteStays DEF Return
  <2>3. CASE ~Return(r)
    <3>1. PICK q : q = [req[r] EXCEPT !.step = "verify",
                                      !.row = GetByUsername(req[r].user)]
      OBVIOUS
    <3>2. /\ req' = [req EXCEPT ![r] = q] /\ q.step = "verify"
          /\ q.row = GetByUsername(req[r].user) /\ q.user = req[r].user
          /\ GetByUsername(req[r].user) # None
      BY <1>2, <2>3, <3>1 DEF LoginReads, Inv, TypeOK, Request
    <3>3. q.row = users[q.user]
      BY <3>2 DEF GetByUsername
    <3>4. SiteFits(q)'
      BY <2>1, <3>2, <3>3 DEF SiteFits
    <3> QED
      BY <2>1, <3>2, <3>4, SiteStays
  <2> QED
    BY <2>2, <2>3
<1>3. CASE LoginRefused(r)
  <2>1. users' = users /\ SessionsSettle /\ Return(r)
    BY <1>3, SettledSessions DEF LoginRefused, dbVars
  <2> QED
    BY <2>1, IdleSite, SiteStays DEF Return
<1>4. CASE LoginGranted(r)
  <2>1. /\ users' = users /\ req' = [req EXCEPT ![r] = Idle] /\ req[r].step = "verify"
        /\ req[r].row.sites \subseteq users[req[r].user].sites
    BY <1>4 DEF LoginGranted, Return, dbVars, SiteInv, SiteFits
  <2>2. CASE UNCHANGED sessions
    BY <2>1, <2>2, IdleSite, SettledSessions, SiteStays
  <2>3. ASSUME NEW site \in FirstSites(req[r].user, req[r].row.sites),
               OpenSession(req[r].user, req[r].row, site)
        PROVE  SiteInv'
    <3>1. PICK id \in SessionIds \ drawn,
                 fresh \in {[user |-> req[r].user, sites |-> req[r].row.sites, active |-> site,
                            expired |-> FALSE, late |-> req[r].row.active /\ ~users[req[r].user].active]} :
            sessions' = Put(sessions, id, fresh)
      BY <2>3 DEF OpenSession
    <3>0. fresh = [user |-> req[r].user, sites |-> req[r].row.sites, active |-> site,
                   expired |-> FALSE, late |-> req[r].row.active /\ ~users[req[r].user].active]
      BY <3>1
    <3>2. /\ fresh.user = req[r].user /\ fresh.sites = req[r].row.sites /\ fresh.active = site
      BY <3>0
    <3>3. /\ DOMAIN sessions' = DOMAIN sessions \cup {id} /\ sessions'[id] = fresh
          /\ \A x \in DOMAIN sessions : x # id => sessions'[x] = sessions[x]
      BY <3>1 DEF Put
    <3>4. \A x \in DOMAIN sessions : x # id
      BY DEF Inv, SessionsFit
    <3>5. fresh.user \notin Admins => site \in users[fresh.user].sites
      BY <2>1, <2>3, <3>2 DEF FirstSites
    <3>6. ActiveSiteIsAssigned'
      BY <2>1, <3>2, <3>3, <3>4, <3>5 DEF SiteInv, ActiveSiteIsAssigned
    <3>7. SessionSites'
      BY <2>1, <3>2, <3>3, <3>4 DEF SiteInv, SessionSites
    <3>8. SitesKept
      BY <2>1, <3>1, <3>3, <3>4 DEF SitesKept
    <3>9. \A s \in Requests : req[s].step = "sites" => users'[req[s].user].sites = {}
      BY <2>1 DEF SiteInv, SiteFits
    <3> QED
      BY <2>1, <3>6, <3>7, <3>8, <3>9, IdleSite, SiteRequestMoves
  <2> QED
    BY <1>4, <2>2, <2>3 DEF LoginGranted
<1> QED
  BY <1>1, <1>2, <1>3, <1>4 DEF LoginNext

\* A session is moved only to a site of the user it belongs to.
LEMMA CookieKeepsSites ==
  ASSUME Inv, SiteInv, NEW r \in Requests, CookieNext(r)
  PROVE  SiteInv'
<1>1. users' = users
  BY DEF CookieNext, Authenticate, DropExpired, Touch, Logout, Answered, SetActiveSite,
     dbVars
<1>2. ASSUME NEW id \in SessionIds, Authenticate(r, id)
      PROVE  SiteInv'
  <2>1. PICK q : /\ req' = [req EXCEPT ![r] = q]
                 /\ q = [Idle EXCEPT
                           !.step  = IF sessions[id].expired THEN "drop" ELSE "touch",
                           !.user  = sessions[id].user,
                           !.id    = id,
                           !.sites = sessions[id].sites]
    BY <1>2 DEF Authenticate
  <2>2. /\ q.step \in {"drop", "touch"} /\ q.user = sessions[id].user /\ q.id = id
        /\ q.sites = sessions[id].sites
    BY <2>1 DEF Idle
  <2>3. sessions' = sessions /\ id \in DOMAIN sessions
    BY <1>2 DEF Authenticate, memoryVars
  <2>4. SiteFits(q)'
    BY <1>1, <2>2, <2>3 DEF SiteFits, SiteInv, SessionSites
  <2> QED
    BY <1>1, <2>1, <2>2, <2>3, <2>4, SettledSessions, SiteStays
<1>3. CASE DropExpired(r) \/ Logout(r) \/ Answered(r)
  <2>1. Return(r) /\ SessionsSettle
    BY <1>3, SettledSessions DEF DropExpired, Logout, Answered, memoryVars
  <2> QED
    BY <1>1, <2>1, IdleSite, SiteStays DEF Return
<1>4. CASE Touch(r)
  <2>1. SessionsSettle
    BY <1>4, SettledSessions DEF Touch
  <2>2. PICK q : q = [req[r] EXCEPT !.step = "handle"]
    OBVIOUS
  <2>3. /\ req' = [req EXCEPT ![r] = q] /\ q.step = "handle" /\ q.user = req[r].user
        /\ q.id = req[r].id /\ q.sites = req[r].sites /\ req[r].step = "touch"
    BY <1>4, <2>2 DEF Touch, Goto, Inv, TypeOK, Request
  <2>4. SiteFits(q)'
    BY <1>1, <2>1, <2>3 DEF SiteInv, SiteFits, SessionsSettle
  <2> QED
    BY <1>1, <2>1, <2>3, <2>4, SiteStays
<1>5. ASSUME NEW site \in Sites, SetActiveSite(r, site)
      PROVE  SiteInv'
  <2>1. /\ Return(r) /\ req[r].step = "handle" /\ MayUseSite(r, site)
        /\ SiteFits(req[r])
    BY <1>5 DEF SetActiveSite, SiteInv
  <2>2. CASE req[r].id \notin DOMAIN sessions
    BY <1>1, <1>5, <2>1, <2>2, IdleSite, SettledSessions, SiteStays
       DEF SetActiveSite, Return
  <2>3. CASE req[r].id \in DOMAIN sessions
    <3>1. PICK id \in DOMAIN sessions : id = req[r].id
      BY <2>3
    <3>2. sessions[id] \in Session /\ sessions[id].user = req[r].user
      BY <2>1, <3>1 DEF Inv, TypeOK, SiteFits
    <3>3. sessions' = [sessions EXCEPT ![id].active = site, ![id].expired = FALSE]
      BY <1>5, <3>1 DEF SetActiveSite, Moved
    <3>4. /\ DOMAIN sessions' = DOMAIN sessions
          /\ \A x \in DOMAIN sessions : x # id => sessions'[x] = sessions[x]
          /\ sessions'[id].user = sessions[id].user
          /\ sessions'[id].sites = sessions[id].sites
          /\ sessions'[id].active = site
      BY <3>2, <3>3 DEF Session
    <3>5. sessions[id].user \notin Admins => site \in users[sessions[id].user].sites
      BY <2>1, <3>2 DEF MayUseSite, SiteFits
    <3>6. ActiveSiteIsAssigned'
      BY <1>1, <3>4, <3>5 DEF SiteInv, ActiveSiteIsAssigned
    <3>7. SessionSites' /\ SitesKept
      BY <1>1, <3>4 DEF SiteInv, SessionSites, SitesKept
    <3>8. \A s \in Requests : req[s].step = "sites" => users'[req[s].user].sites = {}
      BY <1>1 DEF SiteInv, SiteFits
    <3> QED
      BY <2>1, <3>6, <3>7, <3>8, IdleSite, SiteRequestMoves DEF Return
  <2> QED
    BY <2>2, <2>3
<1> QED
  BY <1>2, <1>3, <1>4, <1>5 DEF CookieNext

\* The new row is alone with the request that will give it sites.
LEMMA CreateUserKeepsSites ==
  ASSUME Inv, SiteInv, NEW r \in Requests, NEW u \in Users, NEW sites, NEW pass,
         CreateUser(r, u, sites, pass)
  PROVE  SiteInv'
<1>1. PICK q : /\ req' = [req EXCEPT ![r] = q]
               /\ q = [Idle EXCEPT !.step = "sites", !.user = u,
                                   !.sites = SitesGiven(u, sites)]
  BY DEF CreateUser
<1>2. q.step = "sites" /\ q.user = u
  BY <1>1 DEF Idle
<1>3. /\ u \notin DOMAIN users /\ users'[u].sites = {}
      /\ \A v \in DOMAIN users : users'[v] = users[v]
      /\ sessions' = sessions
  BY DEF CreateUser, InsertUser, Put, memoryVars
<1>4. SitesKept /\ ActiveSiteIsAssigned' /\ SessionSites'
  BY <1>3, SettledSessions, SettledSites
<1>5. SiteFits(q)'
  BY <1>2, <1>3 DEF SiteFits
<1>6. ASSUME NEW s \in Requests, req[s].step = "sites"
      PROVE  users'[req[s].user].sites = {} /\ req[s].user # u
  <2>1. RequestFits(req[s]) /\ SiteFits(req[s])
    BY DEF Inv, SiteInv
  <2> QED
    BY <1>3, <1>6, <2>1 DEF RequestFits, SiteFits
<1> QED
  BY <1>1, <1>2, <1>4, <1>5, <1>6, SiteRequestMoves

\* SetSites adds to a user who had none.
LEMMA AssignSitesKeepsSites ==
  ASSUME Inv, SiteInv, NEW r \in Requests, AssignSites(r)
  PROVE  SiteInv'
<1>1. PICK u \in DOMAIN users : u = req[r].user /\ users[u].sites = {}
  BY DEF AssignSites, Inv, RequestFits, SiteInv, SiteFits
<1>2. /\ req[r].step = "sites" /\ Return(r) /\ sessions' = sessions
      /\ \/ users' = users
         \/ users' = [users EXCEPT ![u].sites = req[r].sites]
  BY <1>1 DEF AssignSites, SetSites, memoryVars
<1>3. DOMAIN users' = DOMAIN users /\ \A v \in DOMAIN users : v # u => users'[v] = users[v]
  BY <1>2
<1>4. \A v \in DOMAIN users : users[v].sites \subseteq users'[v].sites
  BY <1>1, <1>3
<1>5. SitesKept /\ ActiveSiteIsAssigned' /\ SessionSites'
  BY <1>2, <1>4, SettledSessions, SettledSites
<1>6. ASSUME NEW s \in Requests \ {r}, req[s].step = "sites"
      PROVE  users'[req[s].user].sites = {}
  <2>1. req[s].user # u
    BY <1>1, <1>2, <1>6 DEF SiteInv, OneAssigns
  <2>2. RequestFits(req[s]) /\ SiteFits(req[s])
    BY DEF Inv, SiteInv
  <2> QED
    BY <1>3, <1>6, <2>1, <2>2 DEF RequestFits, SiteFits
<1> QED
  BY <1>2, <1>5, <1>6, IdleSite, SiteRequestMoves DEF Return

\* An edited row keeps the sites it has.
LEMMA AdminWritesKeepsSites ==
  ASSUME Inv, SiteInv, NEW r \in Requests, AdminWrites(r)
  PROVE  SiteInv'
<1>1. PICK u \in DOMAIN users : u = req[r].user
  BY DEF AdminWrites, Inv, RequestFits
<1>2. PICK row \in UserRow : row = Edited(req[r].op, req[r].row, req[r].pass)
  BY EditedFits DEF AdminWrites, Inv, RequestFits
<1>3. /\ users' = [users EXCEPT ![u] = [row EXCEPT !.sites = users[u].sites]]
      /\ sessions' = sessions
      /\ IF req[r].op = "activate" THEN Return(r) ELSE Invalidates(r)
  BY <1>1, <1>2 DEF AdminWrites, memoryVars
<1>4. \A v \in DOMAIN users : users'[v].sites = users[v].sites
  BY <1>2, <1>3 DEF UserRow
<1>5. SitesKept /\ ActiveSiteIsAssigned' /\ SessionSites'
  BY <1>3, <1>4, SettledSessions, SettledSites
<1>6. PICK q : req' = [req EXCEPT ![r] = q] /\ q.step \in {"idle", "invalidate"}
  <2>1. CASE Return(r)
    BY <2>1, IdleSite DEF Return
  <2>2. CASE Invalidates(r)
    <3>1. PICK q : /\ req' = [req EXCEPT ![r] = q]
                   /\ q = [Idle EXCEPT !.step = "invalidate", !.user = req[r].user,
                                       !.ticket = req[r].ticket]
      BY <2>2 DEF Invalidates
    <3>2. q.step = "invalidate"
      BY <3>1 DEF Idle
    <3> QED
      BY <3>1, <3>2
  <2> QED
    BY <1>3, <2>1, <2>2
<1>7. SiteFits(q)'
  BY <1>6 DEF SiteFits
<1>8. ASSUME NEW s \in Requests, req[s].step = "sites"
      PROVE  users'[req[s].user].sites = {}
  <2>1. RequestFits(req[s]) /\ SiteFits(req[s])
    BY DEF Inv, SiteInv
  <2> QED
    BY <1>4, <1>8, <2>1 DEF RequestFits, SiteFits
<1> QED
  BY <1>5, <1>6, <1>7, <1>8, SiteRequestMoves

LEMMA OtherAdminKeepsSites ==
  ASSUME Inv, SiteInv, NEW r \in Requests,
         \/ SitesHandler(r) \/ UserHandler(r) \/ ResetHandler(r)
         \/ AdminInvalidates(r) \/ Resolve(r)
  PROVE  SiteInv'
<1>1. users' = users
  BY DEF SitesHandler, UserHandler, ResetHandler, CreateSite, AdminReads, ResolveReads,
     AdminInvalidates, Resolve, dbVars
<1>2. SessionsSettle
  <2>1. CASE AdminInvalidates(r)
    BY <2>1, SettledSessions DEF AdminInvalidates
  <2>2. CASE ~AdminInvalidates(r)
    BY <2>2, SettledSessions DEF SitesHandler, UserHandler, ResetHandler, CreateSite,
       AdminReads, ResolveReads, Resolve, memoryVars
  <2> QED
    BY <2>1, <2>2
<1>3. PICK q : /\ req' = [req EXCEPT ![r] = q]
               /\ q.step \in {"idle", "write", "resolve"}
  <2>1. CASE AdminInvalidates(r)
    <3>1. CASE Return(r)
      BY <3>1, IdleSite DEF Return
    <3>2. CASE Goto(r, "resolve")
      <4>1. PICK q : q = [req[r] EXCEPT !.step = "resolve"]
        OBVIOUS
      <4>2. req' = [req EXCEPT ![r] = q] /\ q.step = "resolve"
        BY <3>2, <4>1 DEF Goto, Inv, TypeOK, Request
      <4> QED
        BY <4>2
    <3> QED
      BY <2>1, <3>1, <3>2 DEF AdminInvalidates
  <2>2. CASE SitesHandler(r) \/ Resolve(r)
    BY <2>2, IdleSite DEF SitesHandler, CreateSite, Resolve, Return
  <2>3. ASSUME NEW u, NEW op, NEW pass, AdminReads(r, op, u, pass)
        PROVE  \E q : req' = [req EXCEPT ![r] = q] /\ q.step = "write"
    <3>1. PICK q : /\ req' = [req EXCEPT ![r] = q]
                   /\ q = [Idle EXCEPT !.step = "write", !.op = op, !.user = u,
                                       !.pass = pass, !.row = Columns(users[u])]
      BY <2>3 DEF AdminReads
    <3>2. q.step = "write"
      BY <3>1 DEF Idle
    <3> QED
      BY <3>1, <3>2
  <2>4. ASSUME NEW t, NEW pass, ResolveReads(r, t, pass)
        PROVE  \E q : req' = [req EXCEPT ![r] = q] /\ q.step = "write"
    <3>1. PICK q : /\ req' = [req EXCEPT ![r] = q]
                   /\ q = [Idle EXCEPT !.step = "write", !.op = "password",
                                       !.user = resets[t].user, !.pass = pass,
                                       !.row = Columns(users[resets[t].user]),
                                       !.ticket = t]
      BY <2>4 DEF ResolveReads
    <3>2. q.step = "write"
      BY <3>1 DEF Idle
    <3> QED
      BY <3>1, <3>2
  <2>5. CASE UserHandler(r) \/ ResetHandler(r)
    BY <2>3, <2>4, <2>5 DEF UserHandler, ResetHandler
  <2> QED
    BY <2>1, <2>2, <2>5
<1>4. SiteFits(q)'
  BY <1>3 DEF SiteFits
<1> QED
  BY <1>1, <1>2, <1>3, <1>4, SiteStays

\* Every step of the program
LEMMA StepKeepsSites ==
  ASSUME Inv, SiteInv, [Next]_vars
  PROVE  SiteInv'
<1>1. CASE UNCHANGED <<users, sessions, req>>
  BY <1>1 DEF SiteInv, ActiveSiteIsAssigned, SessionSites, OneAssigns, SiteFits
<1>2. ASSUME NEW r \in Requests, AdminNext(r)
      PROVE  SiteInv'
  BY <1>2, CreateUserKeepsSites, AssignSitesKeepsSites, AdminWritesKeepsSites,
     OtherAdminKeepsSites DEF AdminNext, UsersHandler
<1>3. ASSUME NEW id \in SessionIds, Expire(id)
      PROVE  SiteInv'
  <2>1. UNCHANGED <<users, req>> /\ SessionsSettle
    BY <1>3, SettledSessions DEF Expire, dbVars
  <2>2. SitesKept /\ ActiveSiteIsAssigned' /\ SessionSites'
    BY <2>1, SettledSites
  <2>3. ASSUME NEW s \in Requests
        PROVE  SiteFits(req[s])'
    BY <2>1, <2>2 DEF SiteInv, SiteFits, SessionsSettle
  <2> QED
    BY <2>1, <2>2, <2>3 DEF SiteInv, OneAssigns
<1>4. CASE Restart
  BY <1>4 DEF Restart, SiteInv, ActiveSiteIsAssigned, SessionSites, OneAssigns, SiteFits,
     Idle
<1>5. ASSUME NEW u \in Users, Unblock(u)
      PROVE  SiteInv'
  BY <1>1, <1>5 DEF Unblock, dbVars
<1>6. ASSUME NEW u \in Users, NEW t \in Tickets, ForgotPassword(u, t)
      PROVE  SiteInv'
  BY <1>1, <1>6 DEF ForgotPassword, memoryVars
<1>7. CASE UNCHANGED vars
  BY <1>1, <1>7 DEF vars
<1> QED
  BY <1>2, <1>3, <1>4, <1>5, <1>6, <1>7, LoginKeepsSites, CookieKeepsSites
     DEF Next, ClockNext

\* Whoever is not an administrator works on a site of its own, although login and
\* SetActiveSite decide by copies.
THEOREM ActiveSiteIsAssignedHolds == Spec => []ActiveSiteIsAssigned
<1>1. Init => SiteInv
  BY DEF Init, SiteInv, ActiveSiteIsAssigned, SessionSites, OneAssigns, SiteFits, Idle
<1>2. Inv /\ SiteInv /\ [Next]_vars => Inv' /\ SiteInv'
  BY StepKeepsInv, StepKeepsSites
<1>3. SiteInv => ActiveSiteIsAssigned
  BY DEF SiteInv
<1> QED
  BY InitHasInv, <1>1, <1>2, <1>3, PTL DEF Spec

-----------------------------------------------------------------------------
(* Guesses at a password.                                                  *)

\* The logins that are past checkLoginRate and may yet be refused
InFlight(u) == {r \in Requests : req[r].step \in {"read", "verify"} /\ req[r].user = u}

\* While a name is free, every refusal is counted; while it is not, only those in
\* flight are left.
GuessFits(u) ==
  /\ fails[u] < FailLimit
  /\ u \notin blocked => tried[u] <= fails[u]
  /\ u \in blocked => tried[u] + Cardinality(InFlight(u)) < FailLimit + Cardinality(Requests)

GuessInv == \A u \in Users : GuessFits(u)

LEMMA InFlightFinite ==
  ASSUME NEW u
  PROVE  /\ IsFiniteSet(InFlight(u)) /\ Cardinality(InFlight(u)) \in Nat
         /\ Cardinality(InFlight(u)) <= Cardinality(Requests)
         /\ Cardinality(Requests) \in Nat
<1>1. InFlight(u) \subseteq Requests /\ IsFiniteSet(Requests)
  BY SessionConstants DEF InFlight
<1> QED
  BY <1>1, FS_Subset, FS_CardinalityType

LEMMA GuessesFollow ==
  ASSUME Inv, GuessInv
  PROVE  GuessesBounded
<1> SUFFICES ASSUME NEW u \in Users PROVE tried[u] < FailLimit + Cardinality(Requests)
  BY DEF GuessesBounded
<1>1. GuessFits(u) /\ tried[u] \in Nat /\ fails[u] \in Nat /\ FailLimit \in Nat
  BY SessionConstants DEF Inv, TypeOK, GuessInv
<1> QED
  BY <1>1, InFlightFinite DEF GuessFits

\* A login that ends is no longer in flight.
LEMMA InFlightLands ==
  ASSUME Inv, NEW r \in Requests, NEW u, r \in InFlight(u), Return(r)
  PROVE  Cardinality(InFlight(u)') + 1 = Cardinality(InFlight(u))
<1>1. InFlight(u)' = InFlight(u) \ {r}
  BY DEF InFlight, Return, Idle, Inv, TypeOK
<1>2. Cardinality(InFlight(u) \ {r}) = Cardinality(InFlight(u)) - 1
  BY InFlightFinite, FS_RemoveElement
<1>3. Cardinality(InFlight(u)) \in Nat
  BY InFlightFinite
<1> QED
  BY <1>1, <1>2, <1>3

\* Of two names, a step of one login leaves the other alone.
LEMMA OthersInFlight ==
  ASSUME Inv, NEW r \in Requests, NEW u, NEW q, req' = [req EXCEPT ![r] = q],
         req[r].step \in {"read", "verify"} => req[r].user # u,
         q.step \in {"read", "verify"} => q.user # u
  PROVE  InFlight(u)' = InFlight(u)
BY DEF InFlight, Inv, TypeOK

\* A refusal is counted, or it is one of those in flight.
LEMMA RefusalKeepsGuesses ==
  ASSUME Inv, GuessInv, NEW r \in Requests, NEW u \in Users, r \in InFlight(u),
         Return(r), RecordLoginFail(u)
  PROVE  GuessInv'
<1>1. /\ fails \in [Users -> Nat] /\ tried \in [Users -> Nat] /\ FailLimit \in Nat \ {0}
      /\ GuessFits(u)
  BY SessionConstants DEF Inv, TypeOK, GuessInv
<1>2. /\ Cardinality(InFlight(u)') + 1 = Cardinality(InFlight(u))
      /\ Cardinality(InFlight(u)) <= Cardinality(Requests)
      /\ Cardinality(InFlight(u)) \in Nat /\ Cardinality(InFlight(u)') \in Nat
      /\ Cardinality(Requests) \in Nat
  <2>1. InFlight(u)' \subseteq Requests /\ IsFiniteSet(Requests)
    BY SessionConstants DEF InFlight
  <2> QED
    BY <2>1, InFlightLands, InFlightFinite, FS_Subset, FS_CardinalityType
<1>3. /\ tried'[u] = tried[u] + 1
      /\ \/ fails[u] + 1 >= FailLimit /\ fails'[u] = 0 /\ u \in blocked'
         \/ /\ fails[u] + 1 < FailLimit /\ fails'[u] = fails[u] + 1
            /\ blocked' = blocked
  BY <1>1 DEF RecordLoginFail
<1>4. GuessFits(u)'
  <2>1. PICK n \in Nat, m \in Nat, k \in Nat :
          /\ n = Cardinality(InFlight(u)) /\ m = Cardinality(InFlight(u)')
          /\ k = Cardinality(Requests)
    BY <1>2
  <2>2. /\ fails[u] \in Nat /\ tried[u] \in Nat /\ m + 1 = n /\ n <= k
        /\ fails[u] < FailLimit
        /\ u \notin blocked => tried[u] <= fails[u]
        /\ u \in blocked => tried[u] + n < FailLimit + k
    BY <1>1, <1>2, <2>1 DEF GuessFits
  <2>3. /\ fails'[u] < FailLimit
        /\ u \notin blocked' => tried'[u] <= fails'[u]
        /\ u \in blocked' => tried'[u] + m < FailLimit + k
    BY <1>1, <1>3, <2>2
  <2> QED
    BY <2>1, <2>3 DEF GuessFits
<1>5. ASSUME NEW v \in Users, v # u
      PROVE  GuessFits(v)'
  <2>1. fails'[v] = fails[v] /\ tried'[v] = tried[v] /\ (v \in blocked' <=> v \in blocked)
    BY <1>1, <1>5 DEF RecordLoginFail
  <2>2. InFlight(v)' = InFlight(v)
    BY <1>5, OthersInFlight, IdleSite DEF InFlight, Return
  <2> QED
    BY <2>1, <2>2 DEF GuessInv, GuessFits
<1> QED
  BY <1>4, <1>5 DEF GuessInv

\* A name is in flight only after checkLoginRate found it free.
LEMMA LoginKeepsGuesses ==
  ASSUME Inv, GuessInv, NEW r \in Requests, LoginNext(r)
  PROVE  GuessInv'
<1>1. ASSUME NEW u \in Users, NEW pass \in Passwords, LoginArrives(r, u, pass)
      PROVE  GuessInv'
  <2>1. PICK q : /\ req' = [req EXCEPT ![r] = q]
                 /\ q = [Idle EXCEPT !.step = "read", !.op = "login", !.user = u,
                                     !.pass = pass]
    BY <1>1 DEF LoginArrives
  <2>2. q.user = u
    BY <2>1 DEF Idle
  <2>3. UNCHANGED <<fails, blocked, tried>> /\ u \notin blocked /\ req[r].step = "idle"
    BY <1>1 DEF LoginArrives, CheckLoginRate, memoryVars, history
  <2>4. ASSUME NEW v \in Users
        PROVE  GuessFits(v)'
    <3>1. v # u => InFlight(v)' = InFlight(v)
      BY <2>1, <2>2, <2>3, OthersInFlight
    <3> QED
      BY <2>3, <3>1 DEF GuessInv, GuessFits
  <2> QED
    BY <2>4 DEF GuessInv
<1>2. CASE LoginReads(r) /\ ~Return(r)
  <2>1. PICK q : q = [req[r] EXCEPT !.step = "verify",
                                    !.row = GetByUsername(req[r].user)]
    OBVIOUS
  <2>2. /\ req' = [req EXCEPT ![r] = q] /\ q.step = "verify" /\ q.user = req[r].user
        /\ req[r].step = "read" /\ UNCHANGED <<fails, blocked, tried>>
    BY <1>2, <2>1 DEF LoginReads, Inv, TypeOK, Request
  <2>3. \A v \in Users : InFlight(v)' = InFlight(v)
    BY <2>2 DEF InFlight, Inv, TypeOK
  <2> QED
    BY <2>2, <2>3 DEF GuessInv, GuessFits
<1>3. CASE LoginReads(r) /\ Return(r)
  <2>1. req'[r] = Idle /\ req[r].step = "read"
    BY <1>3 DEF LoginReads, Return, Inv, TypeOK
  <2>2. RecordLoginFail(req[r].user)
    <3>1. req'[r].step = "idle"
      BY <2>1, IdleSite
    <3>2. req' # [req EXCEPT ![r].step = "verify", ![r].row = GetByUsername(req[r].user)]
      BY <3>1 DEF Inv, TypeOK, Request
    <3> QED
      BY <1>3, <3>2 DEF LoginReads
  <2>3. PICK u \in Users : u = req[r].user /\ r \in InFlight(u)
    BY <2>1 DEF Inv, RequestFits, InFlight
  <2> QED
    BY <1>3, <2>2, <2>3, RefusalKeepsGuesses
<1>4. CASE LoginRefused(r)
  <2>1. PICK u \in Users : u = req[r].user /\ r \in InFlight(u)
    BY <1>4 DEF LoginRefused, Inv, TypeOK, RequestFits, InFlight
  <2> QED
    BY <1>4, <2>1, RefusalKeepsGuesses DEF LoginRefused
<1>5. CASE LoginGranted(r)
  <2>1. PICK u \in Users : u = req[r].user
    BY <1>5 DEF LoginGranted, Inv, TypeOK, RequestFits
  <2>2. /\ fails' = [fails EXCEPT ![u] = 0] /\ tried' = [tried EXCEPT ![u] = 0]
        /\ blocked' = blocked \ {u} /\ req' = [req EXCEPT ![r] = Idle]
        /\ fails \in [Users -> Nat] /\ tried \in [Users -> Nat] /\ FailLimit \in Nat \ {0}
    BY <1>5, <2>1, SessionConstants DEF LoginGranted, ClearLoginFail, Return, Inv, TypeOK
  <2>3. GuessFits(u)'
    BY <2>2 DEF GuessFits
  <2>4. ASSUME NEW v \in Users, v # u
        PROVE  GuessFits(v)'
    <3>1. InFlight(v)' = InFlight(v)
      BY <2>1, <2>2, <2>4, OthersInFlight, IdleSite
    <3> QED
      BY <2>2, <2>4, <3>1 DEF GuessInv, GuessFits
  <2> QED
    BY <2>3, <2>4 DEF GuessInv
<1> QED
  BY <1>1, <1>2, <1>3, <1>4, <1>5 DEF LoginNext

\* Requests other than logins leave counts and logins in flight alone.
LEMMA OtherRequestsKeepGuesses ==
  ASSUME Inv, GuessInv, NEW r \in Requests, CookieNext(r) \/ AdminNext(r)
  PROVE  GuessInv'
<1>1. UNCHANGED <<fails, blocked, tried>>
  BY DEF CookieNext, Authenticate, DropExpired, Touch, Logout, Answered, SetActiveSite,
     AdminNext, SitesHandler, UsersHandler, UserHandler, ResetHandler, CreateSite,
     CreateUser, AdminReads, ResolveReads, AdminWrites, AdminInvalidates, Resolve,
     AssignSites, memoryVars, history
<1>2. req[r].step \notin {"read", "verify"}
  BY DEF CookieNext, Authenticate, DropExpired, Touch, Logout, Answered, SetActiveSite,
     AdminNext, SitesHandler, UsersHandler, UserHandler, ResetHandler, CreateSite,
     CreateUser, AdminReads, ResolveReads, AdminWrites, AdminInvalidates, Resolve,
     AssignSites, AdminCall
<1>3. PICK q : req' = [req EXCEPT ![r] = q] /\ q.step \notin {"read", "verify"}
  <2>1. CASE Return(r)
    BY <2>1, IdleSite DEF Return
  <2>2. ASSUME NEW step \in {"handle", "resolve"}, Goto(r, step)
        PROVE  \E q : req' = [req EXCEPT ![r] = q] /\ q.step \notin {"read", "verify"}
    <3>1. PICK q : q = [req[r] EXCEPT !.step = step]
      OBVIOUS
    <3>2. req' = [req EXCEPT ![r] = q] /\ q.step = step
      BY <2>2, <3>1 DEF Goto, Inv, TypeOK, Request
    <3> QED
      BY <3>2
  <2>3. ASSUME NEW id \in SessionIds, Authenticate(r, id)
        PROVE  \E q : req' = [req EXCEPT ![r] = q] /\ q.step \notin {"read", "verify"}
    <3>1. PICK q : /\ req' = [req EXCEPT ![r] = q]
                   /\ q = [Idle EXCEPT
                             !.step  = IF sessions[id].expired THEN "drop" ELSE "touch",
                             !.user  = sessions[id].user,
                             !.id    = id,
                             !.sites = sessions[id].sites]
      BY <2>3 DEF Authenticate
    <3>2. q.step \in {"drop", "touch"}
      BY <3>1 DEF Idle
    <3> QED
      BY <3>1, <3>2
  <2>4. ASSUME NEW u, NEW sites, NEW pass, CreateUser(r, u, sites, pass)
        PROVE  \E q : req' = [req EXCEPT ![r] = q] /\ q.step \notin {"read", "verify"}
    <3>1. PICK q : /\ req' = [req EXCEPT ![r] = q]
                   /\ q = [Idle EXCEPT !.step = "sites", !.user = u,
                                       !.sites = SitesGiven(u, sites)]
      BY <2>4 DEF CreateUser
    <3>2. q.step = "sites"
      BY <3>1 DEF Idle
    <3> QED
      BY <3>1, <3>2
  <2>5. ASSUME NEW u, NEW op, NEW pass, AdminReads(r, op, u, pass)
        PROVE  \E q : req' = [req EXCEPT ![r] = q] /\ q.step \notin {"read", "verify"}
    <3>1. PICK q : /\ req' = [req EXCEPT ![r] = q]
                   /\ q = [Idle EXCEPT !.step = "write", !.op = op, !.user = u,
                                       !.pass = pass, !.row = Columns(users[u])]
      BY <2>5 DEF AdminReads
    <3>2. q.step = "write"
      BY <3>1 DEF Idle
    <3> QED
      BY <3>1, <3>2
  <2>6. ASSUME NEW t, NEW pass, ResolveReads(r, t, pass)
        PROVE  \E q : req' = [req EXCEPT ![r] = q] /\ q.step \notin {"read", "verify"}
    <3>1. PICK q : /\ req' = [req EXCEPT ![r] = q]
                   /\ q = [Idle EXCEPT !.step = "write", !.op = "password",
                                       !.user = resets[t].user, !.pass = pass,
                                       !.row = Columns(users[resets[t].user]),
                                       !.ticket = t]
      BY <2>6 DEF ResolveReads
    <3>2. q.step = "write"
      BY <3>1 DEF Idle
    <3> QED
      BY <3>1, <3>2
  <2>7. CASE Invalidates(r)
    <3>1. PICK q : /\ req' = [req EXCEPT ![r] = q]
                   /\ q = [Idle EXCEPT !.step = "invalidate", !.user = req[r].user,
                                       !.ticket = req[r].ticket]
      BY <2>7 DEF Invalidates
    <3>2. q.step = "invalidate"
      BY <3>1 DEF Idle
    <3> QED
      BY <3>1, <3>2
  <2>8. CASE CookieNext(r)
    BY <2>1, <2>2, <2>3, <2>8 DEF CookieNext, DropExpired, Touch, Logout, Answered,
       SetActiveSite
  <2>9. CASE AdminNext(r)
    BY <2>1, <2>2, <2>4, <2>5, <2>6, <2>7, <2>9 DEF AdminNext, SitesHandler,
       UsersHandler, UserHandler, ResetHandler, CreateSite, AdminWrites,
       AdminInvalidates, Resolve, AssignSites
  <2> QED
    BY <2>8, <2>9
<1>4. \A v \in Users : InFlight(v)' = InFlight(v)
  BY <1>2, <1>3, OthersInFlight
<1> QED
  BY <1>1, <1>4 DEF GuessInv, GuessFits

\* Every step of the program
LEMMA StepKeepsGuesses ==
  ASSUME Inv, GuessInv, [Next]_vars
  PROVE  GuessInv'
<1>1. CASE UNCHANGED <<fails, blocked, tried, req>>
  BY <1>1 DEF GuessInv, GuessFits, InFlight
<1>2. ASSUME NEW u \in Users, Unblock(u)
      PROVE  GuessInv'
  <2>1. /\ blocked' = blocked \ {u} /\ tried' = [tried EXCEPT ![u] = 0]
        /\ UNCHANGED <<fails, req>>
        /\ fails \in [Users -> Nat] /\ tried \in [Users -> Nat] /\ FailLimit \in Nat
    BY <1>2, SessionConstants DEF Unblock, Inv, TypeOK
  <2>2. \A v \in Users : InFlight(v)' = InFlight(v)
    BY <2>1 DEF InFlight
  <2>3. fails[u] >= 0
    BY <2>1
  <2> QED
    BY <2>1, <2>2, <2>3 DEF GuessInv, GuessFits
<1>3. CASE Restart
  BY <1>3, SessionConstants DEF Restart, GuessInv, GuessFits
<1>4. ASSUME \/ UNCHANGED vars
             \/ \E id \in SessionIds : Expire(id)
             \/ \E u \in Users, t \in Tickets : ForgotPassword(u, t)
      PROVE  GuessInv'
  BY <1>1, <1>4 DEF Expire, ForgotPassword, vars, memoryVars, history
<1> QED
  BY <1>2, <1>3, <1>4, LoginKeepsGuesses, OtherRequestsKeepGuesses DEF Next, ClockNext

\* However many logins are between the check and the count, their number is all
\* that a name can be guessed at beyond the limit.
THEOREM GuessesBoundedHolds == Spec => []GuessesBounded
<1>1. Init => GuessInv
  BY SessionConstants DEF Init, GuessInv, GuessFits
<1>2. Inv /\ GuessInv /\ [Next]_vars => Inv' /\ GuessInv'
  BY StepKeepsInv, StepKeepsGuesses
<1>3. Inv /\ GuessInv => GuessesBounded
  BY GuessesFollow
<1> QED
  BY InitHasInv, <1>1, <1>2, <1>3, PTL DEF Spec

=============================================================================
