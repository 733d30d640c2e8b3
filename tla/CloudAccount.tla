----------------------------- MODULE CloudAccount -----------------------------
(***************************************************************************)
(* The saved Bambu Cloud account, the printers it is linked to, and the    *)
(* goroutines that use and rewrite both.                                   *)
(*                                                                         *)
(* Four kinds of goroutine are at work at once: the ticker that syncs the  *)
(* saved account, the monitor that polls every printer, the synchronizer   *)
(* that derives the status of a printer from its jobs, and the requests of *)
(* people, who sync, log out, verify a code, change a connection or delete *)
(* a printer.  Each lists or reads rows, the first two and people talk to  *)
(* the cloud, and all write whole rows back from their copies.             *)
(*                                                                         *)
(* Source: internal/usecase/printer, internal/infrastructure/printer/      *)
(* bambu/{monitor,auth}.go, internal/repository/postgres,                  *)
(* internal/delivery/http/{handlers_bambu,handlers_printers}.go,           *)
(* internal/usecase/runtime/synchronizer.go, internal/bootstrap/app.go.    *)
(***************************************************************************)
EXTENDS Naturals

CONSTANTS
  People,    \* requests in flight at the same time
  Ticker,    \* the goroutine of App.Start that syncs the saved account
  Monitor,   \* the goroutine of Monitor.Start
  Synchronizer,  \* the goroutine of App.Start that runs Synchronizer.Sync
  Emails,
  TokenLimit,  \* how many tokens the cloud hands out (a bound)
  RowLimit,  \* how many rows are ever made: then an INSERT fails (a bound)
  Devices,   \* serials of the printers bound to the cloud account
  Requests,  \* what people ask for altogether (a bound)
  None

ASSUME CloudConstants ==
  /\ Ticker # Monitor /\ Synchronizer \notin {Ticker, Monitor}
  /\ {Ticker, Monitor, Synchronizer} \cap People = {}
  /\ Requests \in Nat /\ TokenLimit \in Nat /\ RowLimit \in Nat
  /\ None \notin Emails \cup Nat \cup Devices

Tokens == 1 .. TokenLimit
Printers == 1 .. RowLimit   \* ids of rows
Loops == {Ticker, Monitor, Synchronizer}
Goroutines == People \cup Loops

VARIABLES
  account,   \* the row of bambu_cloud_accounts, or None
  printers,  \* the rows of printers: a function from those that exist
  made,      \* how many rows were made: an id is not used again
  cached,    \* Monitor.cloudSessions, as their keys
  go,        \* [Goroutines -> what it is at, and its locals]
  good,      \* tokens the cloud accepts
  drawn,     \* how many were handed out, in their order
  asked,     \* requests of people so far
  calm,      \* from now on people do nothing and the cloud answers
  alone,     \* history: nobody else has run since the logout in flight began
  revoked    \* history: how many had been when a logout alone returned

vars == <<account, printers, made, cached, go, good, drawn, asked, calm,
          alone, revoked>>
rows  == <<account, printers, made>>
cloud == <<good, drawn, asked, calm>>
history == <<alone, revoked>>

-----------------------------------------------------------------------------
(* Rows and goroutines.                                                    *)

\* What is known of an account; a password is known or it is not.
Account == [email : Emails, pass : BOOLEAN, token : Tokens \cup {None}]

ASSUME NoAccountIsNone == None \notin Account

Printer == [serial : Devices \cup {None}, lan : BOOLEAN, cloud : BOOLEAN,
            email : Emails \cup {None}, pass : BOOLEAN, token : Tokens \cup {None},
            offline : BOOLEAN]

NewRow == [serial |-> None, lan |-> FALSE, cloud |-> FALSE, email |-> None,
           pass |-> FALSE, token |-> None, offline |-> FALSE]

NoCopies == [p \in {} |-> {}]

Idle == [step |-> "idle", email |-> None, pass |-> FALSE, code |-> FALSE,
         token |-> None, copies |-> NoCopies, todo |-> {}]

\* In copies of rows a field that is overwritten before the copy is written back
\* is left blank, and a copy is dropped when it has been used.
Put(f, k, v) == [x \in DOMAIN f \cup {k} |-> IF x = k THEN v ELSE f[x]]
Without(f, k) == [x \in DOMAIN f \ {k} |-> f[x]]

Goto(g, step)  == go' = [go EXCEPT ![g].step = step]
Return(g)      == go' = [go EXCEPT ![g] = Idle]
Become(g, loc) == go' = [go EXCEPT ![g] = loc]

\* UPDATE ... WHERE id: an error when the row is gone
Written(id, row) == IF id \in DOMAIN printers
                    THEN [printers EXCEPT ![id] = row] ELSE printers

Inserted(row) ==
  IF made < RowLimit THEN printers' = Put(printers, made + 1, row) /\ made' = made + 1
                     ELSE UNCHANGED <<printers, made>>

\* A printer that the monitor polls through the cloud
HasCloudConfig(row) ==
  /\ row.cloud /\ row.serial # None
  /\ row.token # None \/ (row.email # None /\ row.pass)

\* When something begins, a logout in flight is no longer alone.
Begins == alone' = FALSE /\ UNCHANGED revoked

\* A person asks for something.
Asks(g) ==
  /\ go[g].step = "idle" /\ ~calm /\ asked < Requests
  /\ asked' = asked + 1
  /\ UNCHANGED <<good, drawn, calm>>

-----------------------------------------------------------------------------
(* What the cloud answers.                                                 *)

\* A login gives a token that no logout has made unwanted.
Issue(t) ==
  /\ \/ t \in good /\ t > revoked
     \/ t = drawn + 1
  /\ good' = good \cup {t} /\ drawn' = IF t > drawn THEN t ELSE drawn
  /\ UNCHANGED <<asked, calm>>

\* With a known password; "asks" has sent a code by mail.
Login(result, t) ==
  \/ result = "token" /\ Issue(t)
  \/ result \in {"error", "asks"} /\ ~calm /\ t = None /\ UNCHANGED cloud

\* ListDevices with a token; a list without devices is an error of the caller.
Accepts(t) == t \in good
Refuses(t) == t \notin good \/ ~calm
-----------------------------------------------------------------------------
(* SyncFromCloud.                                                          *)

InSync(g, step) == go[g].step = step

\* What is blank comes from the saved account, unless a code is being verified.
Filled(loc) ==
  IF account = None THEN loc
  ELSE [loc EXCEPT !.email = IF @ = None THEN account.email ELSE @,
                   !.pass = @ \/ account.pass,
                   !.token = IF @ = None /\ ~loc.code THEN account.token ELSE @]

Loaded(g, loc) ==
  Become(g, [Filled(loc) EXCEPT
               !.step = IF Filled(loc).token = None THEN "sign in" ELSE "list"])

\* SyncSavedCloudAccount, at every tick; without an account it does nothing.
TickerStarts ==
  /\ go[Ticker].step = "idle" /\ account # None
  /\ Become(Ticker, [Idle EXCEPT !.step = "load", !.email = account.email,
                                 !.pass = account.pass, !.token = account.token])
  /\ Begins
  /\ UNCHANGED <<rows, cached, cloud>>

SyncLoads ==
  /\ InSync(Ticker, "load") /\ Loaded(Ticker, go[Ticker])
  /\ UNCHANGED <<rows, cached, cloud, history>>

\* The form of the login window; every field may be left blank.
PersonSyncs(g, email, pass, code) ==
  /\ Asks(g)
  /\ Loaded(g, [Idle EXCEPT !.email = email, !.pass = pass, !.code = code])
  /\ Begins
  /\ UNCHANGED <<rows, cached>>

\* One row: it is updated when the e-mail is its own, and an INSERT for another
\* e-mail carries the id of the row there is, which the primary key refuses.
MaySave(email) == account = None \/ account.email = email

Saved(email, pass, token) ==
  IF account = None THEN [email |-> email, pass |-> pass, token |-> token]
  ELSE [account EXCEPT !.pass = @ \/ pass,
                       !.token = IF token # None THEN token ELSE @]

\* CloudLogin of the form: a token; or a code goes out by mail and what was
\* typed is saved without a token; or an error.
SyncLogsIn(g) ==
  LET loc == go[g] IN
  /\ InSync(g, "sign in") /\ ~loc.code /\ loc.email # None /\ loc.pass
  /\ \/ \E t \in Tokens : /\ Login("token", t)
                          /\ Become(g, [loc EXCEPT !.step = "list", !.token = t])
                          /\ UNCHANGED account
     \/ /\ Login("asks", None)
        /\ account' = IF MaySave(loc.email)
                      THEN Saved(loc.email, loc.pass, None) ELSE account
        /\ Return(g)
     \/ Login("error", None) /\ Return(g) /\ UNCHANGED account
  /\ UNCHANGED <<printers, made, cached, history>>

\* CloudVerify of the code that came by mail
SyncVerifies(g) ==
  /\ InSync(g, "sign in") /\ go[g].code /\ go[g].email # None
  /\ \/ \E t \in Tokens :
          Issue(t) /\ Become(g, [go[g] EXCEPT !.step = "list", !.code = FALSE, !.token = t])
     \/ Return(g) /\ UNCHANGED cloud
  /\ UNCHANGED <<rows, cached, history>>

\* Mutant: a known e-mail without a password is forgotten
SyncRefusedNoEmail(g) ==
  /\ InSync(g, "sign in") /\ go[g].email = None
  /\ Return(g)
  /\ UNCHANGED <<rows, cached, cloud, history>>

\* Neither a token nor what a login needs
SyncRefused(g) ==
  /\ InSync(g, "sign in")
  /\ go[g].email = None \/ (~go[g].pass /\ ~go[g].code)
  /\ Return(g)
  /\ UNCHANGED <<rows, cached, cloud, history>>

\* Mutant: a refused token ends the sync
SyncListsOnce(g) ==
  LET loc == go[g] IN
  /\ InSync(g, "list")
  /\ \/ Accepts(loc.token) /\ Goto(g, "save") /\ UNCHANGED cloud
     \/ Refuses(loc.token) /\ Return(g) /\ UNCHANGED cloud
  /\ UNCHANGED <<rows, cached, history>>

\* A refused token is replaced once, with the password if it is known.
SyncLists(g) ==
  LET loc == go[g]
      mayLogin == loc.email # None /\ loc.pass IN
  /\ InSync(g, "list")
  /\ \/ Accepts(loc.token) /\ Goto(g, "save") /\ UNCHANGED cloud
     \/ /\ Refuses(loc.token) /\ mayLogin
        /\ \/ \E t \in Tokens :
                /\ Login("token", t)
                /\ \/ Become(g, [loc EXCEPT !.step = "save", !.token = t])
                   \/ ~calm /\ Return(g)
           \/ \E result \in {"error", "asks"} : Login(result, None) /\ Return(g)
     \/ Refuses(loc.token) /\ ~mayLogin /\ Return(g) /\ UNCHANGED cloud
     \/ Accepts(loc.token) /\ ~calm /\ Return(g) /\ UNCHANGED cloud
  /\ UNCHANGED <<rows, cached, history>>

SyncSaves(g) ==
  LET loc == go[g] IN
  /\ InSync(g, "save")
  /\ IF MaySave(loc.email)
       THEN account' = Saved(loc.email, loc.pass, loc.token) /\ Goto(g, "rows")
       ELSE Return(g) /\ UNCHANGED account
  /\ UNCHANGED <<printers, made, cached, cloud, history>>

SyncReads(g) ==
  /\ InSync(g, "rows")
  /\ Become(g, [go[g] EXCEPT !.step = "write", !.todo = Devices,
                   !.copies = [p \in DOMAIN printers |->
                      [NewRow EXCEPT !.serial = printers[p].serial, !.pass = printers[p].pass]]])
  /\ UNCHANGED <<rows, cached, cloud, history>>

\* The row a device gets: linked, whatever connection it had, with the status
\* that the list gives it (cloudDevicePrinterStatus)
Linked(loc, device, pass, offline) ==
  [serial |-> device, lan |-> FALSE, cloud |-> TRUE, email |-> loc.email,
   pass |-> loc.pass \/ pass, token |-> loc.token, offline |-> offline]

\* The row of a device in the list that was read: with several, one of them.
MatchesIn(copies, device) == {p \in DOMAIN copies : copies[p].serial = device}

\* Mutant: the device remains to be done
DeviceAgain(g, device) ==
  Become(g, IF go[g].todo = {} THEN [Idle EXCEPT !.step = "tick"] ELSE go[g])

DeviceDone(g, device) ==
  LET left == go[g].todo \ {device} IN
  Become(g, IF left = {} THEN [Idle EXCEPT !.step = "tick"]
            ELSE [go[g] EXCEPT !.todo = left])

\* One device: the whole row is written from the copy, or a row is made, which
\* a person also does when the row belongs to another site than theirs.  When
\* all are done the same goroutine polls the printers (PollOnce).
SyncWrites(g, device, offline) ==
  LET loc == go[g]
      mine == MatchesIn(loc.copies, device) IN
  /\ InSync(g, "write") /\ device \in loc.todo
  /\ \/ \E p \in mine :
          /\ printers' = Written(p, Linked(loc, device, loc.copies[p].pass, offline))
          /\ IF p \in DOMAIN printers THEN DeviceDone(g, device) ELSE Return(g)
          /\ UNCHANGED made
     \/ /\ mine = {} \/ g # Ticker
        /\ Inserted(Linked(loc, device, FALSE, offline))
        /\ IF made < RowLimit THEN DeviceDone(g, device) ELSE Return(g)
  /\ UNCHANGED <<account, cached, cloud, history>>

\* A pass has CloudSyncTimeout or RuntimeSyncTimeout: then its next statement fails.
PassTimesOut(g) ==
  /\ go[g].step # "idle" /\ ~calm
  /\ Return(g)
  /\ UNCHANGED <<rows, cached, cloud, history>>

-----------------------------------------------------------------------------
(* The monitor: Monitor.tick, of the monitor itself and after every sync.  *)

Polls == {p \in DOMAIN printers : printers[p].lan \/ HasCloudConfig(printers[p])}

Lists(g) ==
  Become(g, IF Polls = {} THEN Idle
            ELSE [Idle EXCEPT !.step = "poll", !.copies = [p \in Polls |-> printers[p]]])

MonitorStarts ==
  /\ go[Monitor].step = "idle" /\ Polls # {}
  /\ Lists(Monitor)
  /\ Begins
  /\ UNCHANGED <<rows, cached, cloud>>

TickLists(g) ==
  /\ go[g].step = "tick" /\ Lists(g)
  /\ UNCHANGED <<rows, cached, cloud, history>>

\* On to the next printer of the list
Polled(g, p) ==
  LET left == Without(go[g].copies, p) IN
  Become(g, IF left = NoCopies THEN Idle ELSE [go[g] EXCEPT !.copies = left])

\* markOffline: the copy is written unless it is offline already, which it does not
\* stay: the synchronizer derives another status.
MarkOffline(p, row) ==
  printers' = IF row.offline THEN printers ELSE Written(p, [row EXCEPT !.offline = TRUE])

\* applySnapshot: one status of many, so the copy is written, or is not when it
\* had that status.
MarkOnline(p, row) ==
  \/ printers' = Written(p, [row EXCEPT !.offline = FALSE])
  \/ ~row.offline /\ UNCHANGED printers

TickPollsLAN(g, p) ==
  LET row == go[g].copies[p] IN
  /\ go[g].step = "poll" /\ p \in DOMAIN go[g].copies /\ row.lan
  /\ IF calm THEN UNCHANGED printers ELSE MarkOnline(p, row) \/ MarkOffline(p, row)
  /\ Polled(g, p)
  /\ UNCHANGED <<account, made, cached, cloud, history>>

\* ensureCloudSession without a token: a login, and the row gets its token
\* while the printer is still to be polled.
TickSignsIn(g, p) ==
  LET row == go[g].copies[p] IN
  /\ go[g].step = "poll" /\ p \in DOMAIN go[g].copies /\ ~row.lan /\ row.token = None
  /\ \/ \E t \in Tokens :
          /\ Login("token", t)
          /\ printers' = Written(p, [row EXCEPT !.token = t])
          /\ cached' = cached \cup {<<row.email, t>>}
          /\ go' = [go EXCEPT ![g].copies[p].token = t]
     \/ \E result \in {"error", "asks"} :
          /\ Login(result, None)
          /\ MarkOffline(p, row) /\ Polled(g, p) /\ UNCHANGED cached
  /\ UNCHANGED <<account, made, history>>

\* pollCloudPrinter.  A refusal forgets the sessions of that account: it compares
\* the token of a session with the sealed one of the row, so what matches is the
\* e-mail, and an empty e-mail is part of every key.
TickPollsCloud(g, p) ==
  LET row == go[g].copies[p] IN
  /\ go[g].step = "poll" /\ p \in DOMAIN go[g].copies /\ ~row.lan /\ row.token # None
  /\ \/ /\ Accepts(row.token)
        /\ MarkOnline(p, row) \/ (~calm /\ MarkOffline(p, row))
        /\ cached' = cached \cup {<<row.email, row.token>>}
     \/ /\ Refuses(row.token)
        /\ MarkOffline(p, row)
        /\ cached' = {s \in cached : row.email # None /\ s[1] # row.email}
  /\ Polled(g, p)
  /\ UNCHANGED <<account, made, cloud, history>>

-----------------------------------------------------------------------------
(* The synchronizer: syncPrinters, at every tick of RuntimeSyncInterval.   *)

\* The rows it will write: the status that the jobs of a printer give it is never
\* "offline", and of the others it may be the one the row has.
Derived(row) == [row EXCEPT !.offline = FALSE]

SynchronizerStarts ==
  /\ go[Synchronizer].step = "idle"
  /\ \E ids \in SUBSET DOMAIN printers :
       /\ ids # {} /\ \A p \in DOMAIN printers \ ids : ~printers[p].offline
       /\ Become(Synchronizer, [Idle EXCEPT !.step = "status",
                                            !.copies = [p \in ids |-> Derived(printers[p])]])
  /\ Begins
  /\ UNCHANGED <<rows, cached, cloud>>

\* One of them, whole; a row that is gone ends the pass.
SynchronizerWrites(p) ==
  /\ go[Synchronizer].step = "status" /\ p \in DOMAIN go[Synchronizer].copies
  /\ printers' = Written(p, go[Synchronizer].copies[p])
  /\ IF p \in DOMAIN printers THEN Polled(Synchronizer, p) ELSE Return(Synchronizer)
  /\ UNCHANGED <<account, made, cached, cloud, history>>

-----------------------------------------------------------------------------
(* Logging out: LogoutCloud, then ResetCloudSessions.                      *)

Others(g) == Goroutines \ {g}

PersonLogsOut(g) ==
  /\ Asks(g) /\ drawn < TokenLimit
  /\ account' = None /\ Goto(g, "list linked")
  /\ alone' = \A h \in Others(g) : go[h].step = "idle"
  /\ UNCHANGED <<printers, made, cached, revoked>>

\* Everything a row may keep of the cloud
HoldsCloud(row) == row.cloud \/ row.email # None \/ row.pass \/ row.token # None

Unlinked(row) ==
  [row EXCEPT !.cloud = FALSE, !.email = None, !.pass = FALSE, !.token = None]

LogoutReads(g) ==
  LET linked == {p \in DOMAIN printers : HoldsCloud(printers[p])} IN
  /\ go[g].step = "list linked"
  /\ Become(g, [Idle EXCEPT !.step = IF linked = {} THEN "reset" ELSE "clear",
                            !.copies = [p \in linked |-> Unlinked(printers[p])]])
  /\ UNCHANGED <<rows, cached, cloud, history>>

\* A row deleted in the meantime ends the logout with an error.
LogoutClears(g, p) ==
  LET left == Without(go[g].copies, p) IN
  /\ go[g].step = "clear" /\ p \in DOMAIN go[g].copies
  /\ printers' = Written(p, go[g].copies[p])
  /\ IF p \notin DOMAIN printers THEN Return(g)
     ELSE Become(g, [go[g] EXCEPT !.copies = left,
                                  !.step = IF left = NoCopies THEN "reset" ELSE @])
  /\ UNCHANGED <<account, made, cached, cloud, history>>

LoggedOut(g) ==
  /\ go[g].step = "reset" /\ Return(g)
  /\ revoked' = IF alone THEN drawn ELSE revoked
  /\ alone' = FALSE
  /\ UNCHANGED <<rows, cloud>>

\* Mutant: the sessions of the monitor are left open
LogoutKeepsSessions(g) == LoggedOut(g) /\ UNCHANGED cached

LogoutResets(g) == LoggedOut(g) /\ cached' = {}

-----------------------------------------------------------------------------
(* Requests about one printer: the row is read, the cloud may be asked, and *)
(* the whole row is written.                                               *)

\* The row is read; what the form asks of it is chosen when it is applied.
PersonOpens(g, id, row) ==
  /\ Asks(g)
  /\ Become(g, [Idle EXCEPT !.step = "connect", !.copies = [p \in {id} |-> row]])
  /\ Begins
  /\ UNCHANGED <<rows, cached>>

PersonEdits(g, p) == p \in DOMAIN printers /\ PersonOpens(g, p, printers[p])

\* By hand a row is made only while there is none (a bound).
PersonCreates(g) == DOMAIN printers = {} /\ PersonOpens(g, 0, NewRow)

\* Mutant: the token outlives the cloud connection
ConnectedKeepsToken(row, op, device, email, pass, token) ==
  [row EXCEPT !.serial = IF op = "off" THEN None ELSE device,
              !.lan = op = "lan", !.cloud = op = "cloud",
              !.email = IF op = "cloud" THEN email ELSE None,
              !.pass = op = "cloud" /\ (@ \/ pass),
              !.token = IF op = "cloud" /\ token # None THEN token ELSE @]

\* applyConnection: a blank password or token keeps the stored one, the e-mail is
\* what was typed.
Connected(row, op, device, email, pass, token) ==
  [row EXCEPT !.serial = IF op = "off" THEN None ELSE device,
              !.lan = op = "lan", !.cloud = op = "cloud",
              !.email = IF op = "cloud" THEN email ELSE None,
              !.pass = op = "cloud" /\ (@ \/ pass),
              !.token = IF op # "cloud" THEN None ELSE IF token # None THEN token ELSE @]

\* The row goes back whole; that of no id is inserted.
Stores(p, row) ==
  IF p = 0 THEN Inserted(row)
           ELSE printers' = Written(p, row) /\ UNCHANGED made

\* A row without a token needs an e-mail and a password (validateConnection), and
\* then authenticateCloud: by the code that was typed, or by a login, which may send
\* a code, and then the row is kept without a token.
ConnectsWith(p, row) ==
  \/ /\ row.email # None /\ row.pass
     /\ \/ \E t \in Tokens : Issue(t) /\ Stores(p, [row EXCEPT !.token = t])
        \/ Login("asks", None) /\ Stores(p, row)
  \/ UNCHANGED <<printers, made, cloud>>

\* A token in the form, which the cloud gave at some time; not one that was to be
\* forgotten, so that nobody brings it back by typing it.
Typed(token) == token = None \/ token \in revoked + 1 .. drawn

\* Off, over LAN, or through the cloud, with a password, an e-mail and a token each
\* blank or typed
Connects(g, p) ==
  /\ go[g].step = "connect" /\ p \in DOMAIN go[g].copies
  /\ \E op \in {"off", "lan", "cloud"}, device \in Devices, email \in Emails \cup {None},
        pass \in BOOLEAN, token \in Tokens \cup {None} :
       LET row == Connected(go[g].copies[p], op, device, email, pass, token) IN
       /\ Typed(token)
       /\ IF row.cloud /\ row.token = None THEN ConnectsWith(p, row)
                                           ELSE Stores(p, row) /\ UNCHANGED cloud
  /\ Return(g)
  /\ UNCHANGED <<account, cached, history>>

\* VerifyCloud of one row with the code that came by mail
Verifies(g, p) ==
  /\ go[g].step = "connect" /\ p \in DOMAIN go[g].copies /\ go[g].copies[p].cloud
  /\ \E t \in Tokens : /\ Issue(t)
                       /\ printers' = Written(p, [go[g].copies[p] EXCEPT !.token = t])
  /\ Return(g)
  /\ UNCHANGED <<account, made, cached, history>>

PersonDeletes(g, p) ==
  /\ Asks(g) /\ p \in DOMAIN printers
  /\ printers' = Without(printers, p)
  /\ Begins
  /\ UNCHANGED <<account, made, cached, go>>

-----------------------------------------------------------------------------
(* The surroundings.                                                       *)

\* The process stops anywhere and starts again.
Restart ==
  /\ ~calm
  /\ go' = [g \in Goroutines |-> Idle] /\ cached' = {} /\ alone' = FALSE
  /\ UNCHANGED <<rows, cloud, revoked>>

\* The cloud stops accepting a token; it has others to give.
Expire(t) ==
  /\ ~calm /\ t \in good /\ drawn < TokenLimit
  /\ good' = good \ {t}
  /\ UNCHANGED <<rows, cached, go, drawn, asked, calm, history>>

Calm ==
  /\ ~calm /\ calm' = TRUE /\ asked' = Requests
  /\ UNCHANGED <<rows, cached, go, good, drawn, history>>

Init ==
  /\ account = None /\ printers = NoCopies /\ made = 0 /\ cached = {}
  /\ go = [g \in Goroutines |-> Idle]
  /\ good = {} /\ drawn = 0 /\ asked = 0 /\ calm = FALSE
  /\ alone = FALSE /\ revoked = 0

Sync(g) ==
  \/ SyncLogsIn(g) \/ SyncVerifies(g) \/ SyncRefused(g)
  \/ SyncLists(g) \/ SyncSaves(g) \/ SyncReads(g)
  \/ \E device \in Devices, offline \in BOOLEAN : SyncWrites(g, device, offline)

Tick(g) ==
  \/ TickLists(g)
  \/ \E p \in Printers : TickPollsLAN(g, p) \/ TickSignsIn(g, p) \/ TickPollsCloud(g, p)

Logout(g) ==
  \/ LogoutReads(g) \/ LogoutResets(g)
  \/ \E p \in Printers : LogoutClears(g, p)

\* What a goroutine that has begun does next; the tickers begin again for ever.
Step(g) ==
  \/ g = Ticker /\ (TickerStarts \/ SyncLoads)
  \/ g = Monitor /\ MonitorStarts
  \/ g = Synchronizer /\ (SynchronizerStarts \/ \E p \in Printers : SynchronizerWrites(p))
  \/ Sync(g) \/ Tick(g) \/ Logout(g)
  \/ \E p \in {0} \cup Printers : Connects(g, p) \/ Verifies(g, p)

PersonBegins(g) ==
  \/ \E email \in Emails \cup {None}, pass, code \in BOOLEAN : PersonSyncs(g, email, pass, code)
  \/ PersonLogsOut(g) \/ PersonCreates(g)
  \/ \E p \in Printers : PersonEdits(g, p) \/ PersonDeletes(g, p)

BusyNext ==
  \/ \E g \in Goroutines : Step(g)
  \/ \E g \in {Ticker, Synchronizer} : PassTimesOut(g)
  \/ \E g \in People : PersonBegins(g)
  \/ Restart \/ \E t \in Tokens : Expire(t)

Next == BusyNext \/ Calm

\* The scheduler of Go runs every goroutine that can go on, and the three tickers
\* fire for ever.
Fairness == \A g \in Goroutines : WF_vars(Step(g))

Spec == Init /\ [][Next]_vars /\ Fairness

\* Enough for safety: calm only takes steps away, and what can happen to the rows in
\* calm can happen without it.
BusySpec == Init /\ [][BusyNext]_vars

-----------------------------------------------------------------------------
(* Properties.                                                             *)

Steps == {"idle", "load", "sign in", "list", "save", "rows", "write", "tick", "poll",
          "status", "list linked", "clear", "reset", "connect"}

\* Every row is one the database can hold, every goroutine is at a step with
\* the locals that step reads; an account has an e-mail.
TypeOK ==
  /\ account \in Account \cup {None}
  /\ \E ids \in SUBSET (1 .. made) : printers \in [ids -> Printer]
  /\ made \in 0 .. RowLimit
  /\ cached \subseteq (Emails \cup {None}) \X Tokens
  /\ DOMAIN go = Goroutines
  /\ \A g \in Goroutines :
       /\ go[g].step \in Steps
       /\ go[g].email \in Emails \cup {None} /\ go[g].token \in Tokens \cup {None}
       /\ \E ids \in SUBSET (0 .. made) : go[g].copies \in [ids -> Printer]
       /\ go[g].step \in {"poll", "status", "clear", "connect"} => go[g].copies # NoCopies
       /\ go[g].todo \in SUBSET Devices
       /\ go[g].step \in {"list", "save", "rows", "write"} => /\ go[g].token \in 1 .. drawn
                                                              /\ go[g].email # None
  /\ drawn \in 0 .. TokenLimit /\ good \subseteq 1 .. drawn /\ revoked \in 0 .. drawn
  /\ asked \in 0 .. Requests /\ calm \in BOOLEAN /\ alone \in BOOLEAN

\* A printer is reached over LAN or through the cloud, never both, and a printer
\* that is not linked keeps nothing of the account, whichever copies of the row
\* a sync, a poll, a logout and a person write over each other.
ConnectionIsOneOf ==
  \A p \in DOMAIN printers :
    /\ ~(printers[p].lan /\ printers[p].cloud)
    /\ ~printers[p].cloud => ~HoldsCloud(printers[p])

TokensOf(r) == {r[p].token : p \in DOMAIN r}

\* A logout that nothing else ran across takes every token away for good: no
\* account, printer, session of the monitor or goroutine has one of them again.
NoTokenAfterLogout ==
  (1 .. revoked) \cap
    ( (IF account = None THEN {} ELSE {account.token})
      \cup TokensOf(printers) \cup {s[2] : s \in cached}
      \cup UNION {{go[g].token} \cup TokensOf(go[g].copies) : g \in Goroutines} ) = {}

WorkingLink(device) ==
  \E p \in DOMAIN printers : /\ printers[p].cloud /\ printers[p].serial = device
                             /\ printers[p].token \in good

\* A device lost its row when no other could be made, which ends the pass before the
\* devices after it: an effect of RowLimit.
LostByBound ==
  /\ made = RowLimit
  /\ \E device \in Devices : \A p \in DOMAIN printers : printers[p].serial # device

HasPassword == account # None /\ account.pass

\* Whatever tokens expired and whatever stale rows are written back, once people
\* leave the system alone and the cloud answers, an account with its password gets a
\* token that works and keeps it, and gives every device a row with a working token
\* again and again.  The row need not keep it: the monitor marks a stale copy off-line
\* and the synchronizer takes that back, so either may write the old token for ever.
HealsAfterExpiry ==
  /\ <>[](calm /\ HasPassword => account.token \in good)
  /\ \A device \in Devices :
       []<>(calm /\ HasPassword => WorkingLink(device) \/ LostByBound)

\* No goroutine that has begun waits for another one, and no loop does when it
\* has an account to sync, or printers to poll or to look at: its next step is there to be taken.
StepsGoOn ==
  \A g \in Goroutines :
    (\/ go[g].step # "idle"
     \/ g = Ticker /\ account # None
     \/ g = Monitor /\ Polls # {}
     \/ g = Synchronizer /\ printers # NoCopies) => ENABLED <<Step(g)>>_vars

\* From now on the loops have the rows to themselves.
LeftAlone == calm /\ \A g \in People : go[g].step = "idle"

\* What is begun ends, whatever the rows and the cloud are like by then: a request of
\* a person, once people leave the system alone, and every pass of the loops.
PassesEnd ==
  /\ []<>(calm => LeftAlone)
  /\ \A g \in Loops : []<>(go[g].step = "idle")
=============================================================================
