-------------------------- MODULE CloudAccountProofs --------------------------
(***************************************************************************)
(* Proofs about CloudAccount, for any people, accounts, devices, tokens    *)
(* and rows: the types, that a connection is one of LAN and cloud, that a  *)
(* logout which ran alone leaves no token anywhere, and that the ticker,   *)
(* left alone with the other loops, heals the account and every device.    *)
(***************************************************************************)
EXTENDS CloudAccount, TLAPS

\* Handed out since the last logout that ran alone, and the lack of a token
Fresh == {None} \cup (revoked + 1 .. drawn)

\* What is true of every row of a printer, and of every copy that is written back,
\* when F are the tokens that may be around
RowFits(F, row) ==
  /\ ~(row.lan /\ row.cloud)
  /\ ~row.cloud => ~HoldsCloud(row)
  /\ row.token \in F

Copies(n) == UNION {[ids -> Printer] : ids \in SUBSET (0 .. n)}

Local(n) == [step : Steps, email : Emails \cup {None}, pass : BOOLEAN, code : BOOLEAN,
             token : Tokens \cup {None}, copies : Copies(n), todo : SUBSET Devices]

LogoutSteps == {"list linked", "clear", "reset"}

\* The copies of a goroutine may be written back, except those of a sync, of which
\* only the serial and the password are used.
CopiesFit(F, l) ==
  \A p \in DOMAIN l.copies :
    /\ l.step = "write" => l.copies[p].token = None
    /\ l.step # "write" => RowFits(F, l.copies[p])
    /\ l.step = "poll" => l.copies[p].lan \/ l.copies[p].cloud
    /\ l.step = "clear" => ~HoldsCloud(l.copies[p])

\* What a goroutine carries by the step that it is at
LocalFits(F, l) ==
  /\ l.step = "idle" => l = Idle
  /\ l.step \in {"poll", "status", "clear", "connect"} => l.copies # NoCopies
  /\ l.step \in {"load", "list", "save", "rows", "write"} => l.email # None
  /\ l.step = "load" => l.copies = NoCopies
  /\ l.step \in {"list", "save", "rows", "write"} => l.token # None
  /\ l.step \in LogoutSteps => l.token = None
  /\ l.token \in F
  /\ CopiesFit(F, l)

PrintersFit ==
  /\ made \in 0 .. RowLimit
  /\ \E ids \in SUBSET (1 .. made) : printers \in [ids -> Printer]
  /\ \A p \in DOMAIN printers : RowFits(Fresh, printers[p])

AccountFits == account # None => account \in Account /\ account.token \in Fresh

\* The sessions of the monitor
CachedFit == cached \subseteq (Emails \cup {None}) \X (Tokens \cap Fresh)

Rows == PrintersFit /\ AccountFits /\ CachedFit

Counts ==
  /\ drawn \in 0 .. TokenLimit /\ good \subseteq 1 .. drawn /\ revoked \in 0 .. drawn
  /\ asked \in 0 .. Requests /\ calm \in BOOLEAN /\ alone \in BOOLEAN

Locals ==
  /\ go \in [Goroutines -> Local(made)]
  /\ \A g \in Goroutines : LocalFits(Fresh, go[g])

\* How far the logout of g has come
LogoutFits(g) ==
  /\ go[g].step \in LogoutSteps
  /\ go[g].step = "clear" =>
       /\ DOMAIN go[g].copies \subseteq DOMAIN printers
       /\ \A p \in DOMAIN printers \ DOMAIN go[g].copies : ~HoldsCloud(printers[p])
  /\ go[g].step = "reset" => \A p \in DOMAIN printers : ~HoldsCloud(printers[p])

\* A logout is a person's, and is alone when everything else is idle.
AloneFits ==
  alone => account = None /\ \E g \in People : /\ LogoutFits(g)
                                               /\ \A h \in Others(g) : go[h].step = "idle"

\* The inductive invariant
Inv == Rows /\ Counts /\ Locals /\ AloneFits

-----------------------------------------------------------------------------
(* Facts used for every action.                                            *)

LEMMA IdleIsLocal ==
  ASSUME NEW n \in Nat
  PROVE  Idle \in Local(n) /\ NoCopies \in Copies(n)
<1>1. {} \in SUBSET (0 .. n) /\ NoCopies \in [{} -> Printer]
  BY DEF NoCopies
<1>2. NoCopies \in Copies(n)
  BY <1>1 DEF Copies
<1> QED
  BY <1>2 DEF Idle, Local, Steps

LEMMA IdleHas ==
  /\ Idle.step = "idle" /\ Idle.token = None /\ Idle.copies = NoCopies
  /\ Idle.email = None /\ Idle.code = FALSE
  BY DEF Idle

LEMMA IdleFits == ASSUME NEW F, None \in F PROVE LocalFits(F, Idle)
  BY DEF Idle, LocalFits, CopiesFit, NoCopies, LogoutSteps

\* More rows, more copies
LEMMA CopiesGrow ==
  ASSUME NEW m \in Nat, NEW n \in Nat, m <= n
  PROVE  Copies(m) \subseteq Copies(n) /\ Local(m) \subseteq Local(n)
<1>1. 0 .. m \subseteq 0 .. n
  OBVIOUS
<1>2. Copies(m) \subseteq Copies(n)
  BY <1>1 DEF Copies
<1> QED
  BY <1>2 DEF Local

\* A copy is a function to rows, and such a function with fitting ids is a copy.
LEMMA CopiesAre ==
  ASSUME NEW n \in Nat
  PROVE  /\ \A c \in Copies(n) : DOMAIN c \subseteq 0 .. n /\ c \in [DOMAIN c -> Printer]
         /\ \A ids \in SUBSET (0 .. n) : \A c \in [ids -> Printer] : c \in Copies(n)
  BY DEF Copies

\* While a logout is alone, whatever else is not idle is that logout.
LEMMA NotAlone ==
  ASSUME AloneFits, NEW g \in Goroutines, go[g].step # "idle", go[g].step \notin LogoutSteps
  PROVE  ~alone
  BY DEF AloneFits, LogoutFits, Others

\* What is kept by a step which only hands out tokens
LEMMA FreshGrows ==
  ASSUME Counts, revoked' = revoked, drawn' \in Nat, drawn <= drawn'
  PROVE  Fresh \subseteq Fresh' /\ None \in Fresh
  BY DEF Fresh, Counts

LEMMA FitStays ==
  ASSUME NEW F, NEW G, F \subseteq G
  PROVE  /\ \A row : RowFits(F, row) => RowFits(G, row)
         /\ \A l : LocalFits(F, l) => LocalFits(G, l)
<1>1. ASSUME NEW row, RowFits(F, row) PROVE RowFits(G, row)
  BY <1>1 DEF RowFits
<1>2. ASSUME NEW l, LocalFits(F, l) PROVE LocalFits(G, l)
  BY <1>1, <1>2 DEF LocalFits, CopiesFit
<1> QED
  BY <1>1, <1>2

\* The step hands out tokens at most.
Onward == Counts' /\ revoked' = revoked /\ drawn <= drawn'

LEMMA OnwardFresh ==
  ASSUME Counts, Onward
  PROVE  Fresh \subseteq Fresh' /\ None \in Fresh
  BY FreshGrows DEF Onward, Counts

LEMMA CloudStays ==
  ASSUME Counts, UNCHANGED <<cloud, revoked>>, alone' \in BOOLEAN
  PROVE  Onward /\ Fresh' = Fresh
  BY DEF Onward, Counts, cloud, Fresh

LEMMA IdleInLocal == ASSUME Inv PROVE Idle \in Local(made) /\ made \in Nat
<1>1. made \in Nat
  BY CloudConstants DEF Inv, Rows, PrintersFit
<1> QED
  BY <1>1, IdleIsLocal

LEMMA AsksOnward ==
  ASSUME Counts, NEW g, Asks(g), revoked' = revoked, alone' \in BOOLEAN
  PROVE  Onward /\ Fresh' = Fresh
<1>1. asked' \in 0 .. Requests
  BY CloudConstants DEF Counts, Asks
<1> QED
  BY <1>1 DEF Onward, Counts, Asks, Fresh

LEMMA Issued ==
  ASSUME Counts, NEW t \in Tokens, Issue(t), UNCHANGED <<alone, revoked>>
  PROVE  Onward /\ t \in Fresh' /\ t # None
  BY CloudConstants DEF Onward, Counts, Issue, Fresh, Tokens

LEMMA AccountStays ==
  ASSUME Counts, AccountFits, Onward, UNCHANGED account
  PROVE  AccountFits'
  BY OnwardFresh DEF AccountFits

LEMMA CachedStay ==
  ASSUME Counts, CachedFit, Onward, cached' \subseteq cached
  PROVE  CachedFit'
<1>1. Fresh \subseteq Fresh'
  BY OnwardFresh
<1> QED
  BY <1>1 DEF CachedFit

LEMMA PrintersStay ==
  ASSUME Counts, PrintersFit, Onward, UNCHANGED <<printers, made>>
  PROVE  PrintersFit' /\ made \in Nat
<1>1. \A row : RowFits(Fresh, row) => RowFits(Fresh', row)
  BY FitStays, OnwardFresh
<1> QED
  BY <1>1, CloudConstants DEF PrintersFit

\* A row that fits is written whole.
LEMMA PrintersWritten ==
  ASSUME Counts, PrintersFit, Onward, made' = made, NEW p, NEW row \in Printer,
         RowFits(Fresh', row), printers' = Written(p, row)
  PROVE  PrintersFit' /\ made \in Nat
<1>1. \A r : RowFits(Fresh, r) => RowFits(Fresh', r)
  BY FitStays, OnwardFresh
<1>2. PICK ids \in SUBSET (1 .. made) : printers \in [ids -> Printer]
  BY DEF PrintersFit
<1>3. printers' \in [ids -> Printer]
  BY <1>2 DEF Written
<1>4. ASSUME NEW q \in DOMAIN printers' PROVE RowFits(Fresh', printers'[q])
  BY <1>1, <1>2, <1>4 DEF Written, PrintersFit
<1> QED
  BY <1>3, <1>4, CloudConstants DEF PrintersFit

\* A row that fits is made, if there is room.
LEMMA PrintersGrow ==
  ASSUME Counts, PrintersFit, Onward, NEW row \in Printer, RowFits(Fresh', row), Inserted(row)
  PROVE  PrintersFit' /\ made' \in Nat /\ made \in Nat /\ made <= made'
<1>1. \A r : RowFits(Fresh, r) => RowFits(Fresh', r)
  BY FitStays, OnwardFresh
<1>2. PICK ids \in SUBSET (1 .. made) : printers \in [ids -> Printer]
  BY DEF PrintersFit
<1>3. CASE made < RowLimit
  <2>1. made \in Nat /\ made' = made + 1 /\ made' \in 0 .. RowLimit
        /\ printers' = Put(printers, made + 1, row)
    BY <1>3, CloudConstants DEF PrintersFit, Inserted
  <2>2. ids \cup {made + 1} \in SUBSET (1 .. made')
    BY <2>1
  <2>3. printers' \in [ids \cup {made + 1} -> Printer]
    BY <1>2, <2>1 DEF Put
  <2>4. ASSUME NEW q \in DOMAIN printers' PROVE RowFits(Fresh', printers'[q])
    BY <1>1, <1>2, <2>1, <2>3, <2>4 DEF Put, PrintersFit
  <2> QED
    BY <2>1, <2>2, <2>3, <2>4 DEF PrintersFit
<1>4. CASE ~(made < RowLimit)
  BY <1>4, PrintersStay DEF Inserted, PrintersFit
<1> QED
  BY <1>3, <1>4

\* One goroutine moves to locals that fit.
LEMMA OneMoves ==
  ASSUME Inv, Onward, Rows', ~alone', made <= made',
         NEW g \in Goroutines, NEW l \in Local(made'), LocalFits(Fresh', l),
         go' = [go EXCEPT ![g] = l]
  PROVE  Inv'
<1>1. made \in Nat /\ made' \in Nat
  BY CloudConstants DEF Inv, Rows, PrintersFit
<1>2. go' \in [Goroutines -> Local(made')]
  BY <1>1, CopiesGrow DEF Inv, Locals
<1>3. \A x : LocalFits(Fresh, x) => LocalFits(Fresh', x)
  BY FitStays, OnwardFresh DEF Inv
<1>4. \A h \in Goroutines : LocalFits(Fresh', go'[h])
  BY <1>3 DEF Inv, Locals
<1> QED
  BY <1>2, <1>4 DEF Inv, Locals, AloneFits, Onward

LEMMA OneReturns ==
  ASSUME Inv, Onward, Rows', ~alone', made <= made', NEW g \in Goroutines, Return(g)
  PROVE  Inv'
<1>1. made' \in Nat /\ None \in Fresh'
  BY CloudConstants DEF Rows, PrintersFit, Fresh
<1> QED
  BY <1>1, OneMoves, IdleIsLocal, IdleFits DEF Return

\* The locals of a goroutine, before and after a step that hands out tokens
LEMMA LocalsAre ==
  ASSUME Inv, Onward, NEW g \in Goroutines
  PROVE  /\ go[g] \in Local(made) /\ made \in Nat
         /\ LocalFits(Fresh, go[g]) /\ LocalFits(Fresh', go[g])
<1>1. Fresh \subseteq Fresh'
  BY OnwardFresh DEF Inv
<1> QED
  BY <1>1, FitStays, CloudConstants DEF Inv, Locals, Rows, PrintersFit

\* Nothing is known of an idle goroutine but its name.
LEMMA RowsStay ==
  ASSUME Inv, Onward, UNCHANGED <<rows, cached>>
  PROVE  Rows' /\ made <= made'
  BY AccountStays, CachedStay, PrintersStay DEF Inv, Rows, rows

LEMMA BeginsAlone == ASSUME Begins, Inv PROVE ~alone' /\ alone' \in BOOLEAN /\ revoked' = revoked
  BY DEF Begins

-----------------------------------------------------------------------------
(* SyncFromCloud.                                                          *)

\* What is filled in from the saved account fits, and a token comes with its e-mail.
LEMMA FilledFits ==
  ASSUME Inv, NEW l \in Local(made), l.copies = NoCopies, l.step \in {"idle", "load"},
         l.token \in Fresh, l.step = "load" => l.email # None, l.token # None => l.email # None,
         NEW step \in {"sign in", "list"},
         step = "list" => Filled(l).token # None
  PROVE  /\ [Filled(l) EXCEPT !.step = step] \in Local(made)
         /\ LocalFits(Fresh, [Filled(l) EXCEPT !.step = step])
<1> DEFINE f == Filled(l)
<1>1. /\ f \in Local(made) /\ f.copies = NoCopies /\ f.token \in Fresh
      /\ f.token # None => f.email # None
  BY CloudConstants DEF Filled, Inv, Rows, AccountFits, Account, Local
<1> HIDE DEF f
<1>2. [f EXCEPT !.step = step] \in Local(made)
  BY <1>1 DEF Local, Steps
<1>3. /\ [f EXCEPT !.step = step].step = step /\ [f EXCEPT !.step = step].copies = NoCopies
      /\ [f EXCEPT !.step = step].token = f.token /\ [f EXCEPT !.step = step].email = f.email
  BY <1>1 DEF Local
<1>4. DOMAIN NoCopies = {}
  BY DEF NoCopies
<1>5. LocalFits(Fresh, [f EXCEPT !.step = step])
  BY <1>1, <1>3, <1>4 DEF LocalFits, CopiesFit, LogoutSteps, f
<1> QED
  BY <1>2, <1>5 DEF f

LEMMA LoadedKeepsInv ==
  ASSUME Inv, NEW g \in Goroutines, NEW l \in Local(made), l.copies = NoCopies,
         l.step \in {"idle", "load"}, l.token \in Fresh,
         l.step = "load" => l.email # None, l.token # None => l.email # None,
         Loaded(g, l), UNCHANGED <<rows, cached>>, Onward, Fresh' = Fresh, ~alone'
  PROVE  Inv'
<1> DEFINE step == IF Filled(l).token = None THEN "sign in" ELSE "list"
<1>1. go' = [go EXCEPT ![g] = [Filled(l) EXCEPT !.step = step]]
  BY DEF Loaded, Become
<1>2. /\ [Filled(l) EXCEPT !.step = step] \in Local(made)
      /\ LocalFits(Fresh, [Filled(l) EXCEPT !.step = step])
  BY FilledFits
<1>3. made' = made /\ Rows' /\ made <= made'
  BY RowsStay DEF rows
<1> QED
  BY <1>1, <1>2, <1>3, OneMoves

LEMMA TickerStartsKeepsInv == ASSUME Inv, TickerStarts PROVE Inv'
<1> DEFINE l == [Idle EXCEPT !.step = "load", !.email = account.email,
                             !.pass = account.pass, !.token = account.token]
<1>1. ~alone' /\ alone' \in BOOLEAN /\ revoked' = revoked
  BY BeginsAlone DEF TickerStarts
<1>2. Onward /\ Fresh' = Fresh
  BY <1>1, CloudStays DEF Inv, TickerStarts
<1>3. Rows' /\ made <= made' /\ made' = made
  BY <1>2, RowsStay DEF TickerStarts, rows
<1>4. account \in Account /\ account.token \in Fresh /\ account.email # None
  BY CloudConstants DEF Inv, Rows, AccountFits, Account, TickerStarts
<1>5. l \in Local(made) /\ l.step = "load" /\ l.email = account.email
      /\ l.token = account.token /\ l.copies = NoCopies
  <2>1. Idle \in Local(made) /\ Idle.copies = NoCopies
    BY IdleInLocal, IdleHas
  <2>2. account.email \in Emails /\ account.pass \in BOOLEAN
        /\ account.token \in Tokens \cup {None}
    BY <1>4 DEF Account
  <2> QED
    BY <2>1, <2>2 DEF Local, Steps
<1>6. LocalFits(Fresh, l)
  BY <1>4, <1>5 DEF LocalFits, CopiesFit, NoCopies, LogoutSteps
<1>7. go' = [go EXCEPT ![Ticker] = l] /\ Ticker \in Goroutines
  BY DEF TickerStarts, Become, Goroutines, Loops
<1> HIDE DEF l
<1> QED
  BY <1>1, <1>2, <1>3, <1>5, <1>6, <1>7, OneMoves

\* A ticker that loads has no copies yet.
LEMMA SyncLoadsKeepsInv == ASSUME Inv, SyncLoads PROVE Inv'
<1>1. Ticker \in Goroutines /\ go[Ticker].step = "load"
  BY DEF SyncLoads, InSync, Goroutines, Loops
<1>2. Onward /\ Fresh' = Fresh
  BY CloudStays DEF Inv, SyncLoads, history, Counts
<1>3. ~alone'
  BY <1>1, NotAlone DEF Inv, SyncLoads, history, LogoutSteps
<1>4. go[Ticker] \in Local(made) /\ LocalFits(Fresh, go[Ticker])
  BY <1>1, <1>2, LocalsAre
<1>5. go[Ticker].token \in Fresh /\ go[Ticker].email # None
      /\ go[Ticker].copies = NoCopies
  BY <1>1, <1>4 DEF LocalFits
<1> QED
  BY <1>1, <1>2, <1>3, <1>4, <1>5, LoadedKeepsInv DEF SyncLoads

LEMMA PersonSyncsKeepsInv ==
  ASSUME Inv, NEW g \in People, NEW email \in Emails \cup {None}, NEW pass \in BOOLEAN,
         NEW code \in BOOLEAN, PersonSyncs(g, email, pass, code)
  PROVE  Inv'
<1> DEFINE l == [Idle EXCEPT !.email = email, !.pass = pass, !.code = code]
<1>1. ~alone' /\ alone' \in BOOLEAN /\ revoked' = revoked /\ g \in Goroutines
  BY BeginsAlone DEF PersonSyncs, Goroutines
<1>2. Onward /\ Fresh' = Fresh
  BY <1>1, AsksOnward DEF Inv, PersonSyncs
<1>3. Idle \in Local(made) /\ Idle.token = None /\ Idle.step = "idle"
      /\ Idle.copies = NoCopies
  BY IdleInLocal, IdleHas
<1>4. l \in Local(made)
  BY <1>3 DEF Local, Steps
<1>5. l.token = None /\ l.step = "idle" /\ l.copies = NoCopies /\ None \in Fresh
  BY <1>3 DEF Fresh, Local
<1>6. Loaded(g, l) /\ UNCHANGED <<rows, cached>>
  BY DEF PersonSyncs
<1> HIDE DEF l
<1> QED
  BY <1>1, <1>2, <1>4, <1>5, <1>6, LoadedKeepsInv

\* A step of a sync is not one of a logout.
LEMMA SyncIsNotAlone ==
  ASSUME Inv, NEW g \in Goroutines, go[g].step \notin LogoutSteps \cup {"idle"},
         UNCHANGED history
  PROVE  ~alone' /\ alone' = alone /\ revoked' = revoked
  BY NotAlone DEF Inv, history

\* The account is saved with a token that fits, or as it was.
LEMMA SavedFits ==
  ASSUME Inv, Onward, NEW email \in Emails, NEW pass \in BOOLEAN,
         NEW token \in Tokens \cup {None}, token \in Fresh',
         account' = Saved(email, pass, token)
  PROVE  AccountFits'
<1>1. Fresh \subseteq Fresh'
  BY OnwardFresh DEF Inv
<1>2. CASE account = None
  BY <1>2, CloudConstants DEF Saved, AccountFits, Account
<1>3. CASE account # None
  <2>1. account \in Account /\ account.token \in Fresh
    BY <1>3 DEF Inv, Rows, AccountFits
  <2> QED
    BY <1>1, <1>3, <2>1 DEF Saved, AccountFits, Account
<1> QED
  BY <1>2, <1>3

\* The locals of a sync that goes on with another token
LEMMA SyncGoesOn ==
  ASSUME Inv, Onward, NEW g \in Goroutines, go[g].step \in {"sign in", "list", "save"},
         go[g].email # None, NEW t \in Tokens \cup {None}, t # None, t \in Fresh',
         NEW step \in {"list", "save", "rows"}, NEW code \in BOOLEAN
  PROVE  LET l == [go[g] EXCEPT !.step = step, !.token = t, !.code = code] IN
         l \in Local(made) /\ LocalFits(Fresh', l)
<1> DEFINE l == [go[g] EXCEPT !.step = step, !.token = t, !.code = code]
<1>1. go[g] \in Local(made) /\ LocalFits(Fresh', go[g])
  BY LocalsAre
<1>2. l \in Local(made)
  BY <1>1 DEF Local, Steps
<1>3. l.step = step /\ l.token = t /\ l.email = go[g].email /\ l.copies = go[g].copies
  BY <1>1 DEF Local
<1>4. LocalFits(Fresh', l)
  BY <1>1, <1>3 DEF LocalFits, CopiesFit, LogoutSteps
<1> QED
  BY <1>2, <1>4

LEMMA SyncLogsInKeepsInv ==
  ASSUME Inv, NEW g \in Goroutines, SyncLogsIn(g)
  PROVE  Inv'
<1>1. go[g].step = "sign in" /\ go[g].email # None /\ go[g].pass /\ ~go[g].code
  BY DEF SyncLogsIn, InSync
<1>2. ~alone' /\ alone' = alone /\ revoked' = revoked
  BY <1>1, SyncIsNotAlone DEF SyncLogsIn, LogoutSteps
<1>3. UNCHANGED <<printers, made, cached>>
  BY DEF SyncLogsIn
<1>4. go[g] \in Local(made)
  BY DEF Inv, Locals
<1>5. ASSUME NEW t \in Tokens, Login("token", t), UNCHANGED account,
             Become(g, [go[g] EXCEPT !.step = "list", !.token = t])
      PROVE  Inv'
  <2>1. Onward /\ t \in Fresh' /\ t # None
    BY <1>2, <1>5, Issued DEF Login, Inv
  <2>2. Rows' /\ made <= made'
    BY <1>3, <1>5, <2>1, RowsStay DEF rows
  <2>3. [go[g] EXCEPT !.step = "list", !.token = t]
          = [go[g] EXCEPT !.step = "list", !.token = t, !.code = FALSE]
    BY <1>1, <1>4 DEF Local
  <2>4. LET l == [go[g] EXCEPT !.step = "list", !.token = t] IN
        l \in Local(made) /\ LocalFits(Fresh', l)
    BY <1>1, <2>1, <2>3, SyncGoesOn
  <2> QED
    BY <1>2, <1>3, <1>5, <2>1, <2>2, <2>4, OneMoves DEF Become
<1>6. ASSUME NEW result \in {"asks", "error"}, Login(result, None), Return(g),
             AccountFits' \/ UNCHANGED account
      PROVE  Inv'
  <2>1. Onward
    BY <1>2, <1>6, CloudStays DEF Login, Inv, Counts
  <2>2. Rows' /\ made <= made'
    BY <1>3, <1>6, <2>1, AccountStays, CachedStay, PrintersStay DEF Rows, Inv
  <2> QED
    BY <1>2, <1>6, <2>1, <2>2, OneReturns
<1>7. ASSUME Login("asks", None),
             account' = IF MaySave(go[g].email)
                        THEN Saved(go[g].email, go[g].pass, None) ELSE account
      PROVE  AccountFits' \/ UNCHANGED account
  <2>1. Onward /\ None \in Fresh'
    BY <1>2, <1>7, CloudStays DEF Login, Inv, Counts, Fresh
  <2>2. go[g].email \in Emails /\ go[g].pass \in BOOLEAN
    BY <1>1, <1>4 DEF Local
  <2> QED
    BY <1>7, <2>1, <2>2, SavedFits
<1> QED
  BY <1>5, <1>6, <1>7 DEF SyncLogsIn

LEMMA SyncVerifiesKeepsInv ==
  ASSUME Inv, NEW g \in Goroutines, SyncVerifies(g)
  PROVE  Inv'
<1>1. go[g].step = "sign in" /\ go[g].email # None
  BY DEF SyncVerifies, InSync
<1>2. ~alone' /\ alone' = alone /\ revoked' = revoked
  BY <1>1, SyncIsNotAlone DEF SyncVerifies, LogoutSteps
<1>3. go[g] \in Local(made) /\ UNCHANGED <<rows, cached>> /\ made' = made
  BY DEF Inv, Locals, SyncVerifies, rows
<1>4. ASSUME NEW t \in Tokens, Issue(t),
             Become(g, [go[g] EXCEPT !.step = "list", !.code = FALSE, !.token = t])
      PROVE  Inv'
  <2>1. Onward /\ t \in Fresh' /\ t # None
    BY <1>2, <1>4, Issued DEF Inv
  <2>2. Rows' /\ made <= made'
    BY <1>3, <2>1, RowsStay
  <2>3. [go[g] EXCEPT !.step = "list", !.code = FALSE, !.token = t]
          = [go[g] EXCEPT !.step = "list", !.token = t, !.code = FALSE]
    BY <1>3 DEF Local
  <2>4. LET l == [go[g] EXCEPT !.step = "list", !.code = FALSE, !.token = t] IN
        l \in Local(made) /\ LocalFits(Fresh', l)
    BY <1>1, <2>1, <2>3, SyncGoesOn
  <2> QED
    BY <1>2, <1>3, <1>4, <2>1, <2>2, <2>4, OneMoves DEF Become
<1>5. ASSUME Return(g), UNCHANGED cloud PROVE Inv'
  <2>1. Onward
    BY <1>2, <1>5, CloudStays DEF Inv, Counts
  <2> QED
    BY <1>2, <1>3, <1>5, <2>1, RowsStay, OneReturns
<1> QED
  BY <1>4, <1>5 DEF SyncVerifies

\* A sync that ends leaves the rows alone.
LEMMA SyncEnds ==
  ASSUME Inv, NEW g \in Goroutines, go[g].step \notin LogoutSteps \cup {"idle"},
         UNCHANGED <<rows, cached, history>>, Onward, Return(g)
  PROVE  Inv'
  BY SyncIsNotAlone, RowsStay, OneReturns

LEMMA SyncRefusedKeepsInv ==
  ASSUME Inv, NEW g \in Goroutines, SyncRefused(g)
  PROVE  Inv'
<1>1. Onward
  BY CloudStays DEF Inv, SyncRefused, Counts, history
<1> QED
  BY <1>1, SyncEnds DEF SyncRefused, InSync, LogoutSteps

LEMMA LoginOnward ==
  ASSUME Inv, NEW result, NEW t, result = "token" => t \in Tokens, Login(result, t),
         UNCHANGED <<alone, revoked>>
  PROVE  Onward /\ (result = "token" => t \in Fresh' /\ t # None)
<1>1. CASE UNCHANGED cloud /\ result # "token"
  BY <1>1, CloudStays DEF Inv, Counts
<1>2. CASE result = "token" /\ Issue(t)
  BY <1>2, Issued DEF Inv
<1> QED
  BY <1>1, <1>2 DEF Login

LEMMA SyncListsKeepsInv ==
  ASSUME Inv, NEW g \in Goroutines, SyncLists(g)
  PROVE  Inv'
<1>1. go[g].step = "list" /\ UNCHANGED <<rows, cached, history>> /\ made' = made
  BY DEF SyncLists, InSync, rows
<1>2. ~alone' /\ alone' = alone /\ revoked' = revoked
  BY <1>1, SyncIsNotAlone DEF LogoutSteps
<1>3. /\ go[g] \in Local(made) /\ LocalFits(Fresh, go[g])
      /\ go[g].email # None /\ go[g].token # None
  BY <1>1 DEF Inv, Locals, LocalFits
<1>4. ASSUME Goto(g, "save"), UNCHANGED cloud PROVE Inv'
  <2>1. Onward /\ Fresh' = Fresh
    BY <1>2, <1>4, CloudStays DEF Inv, Counts
  <2>2. [go[g] EXCEPT !.step = "save"]
          = [go[g] EXCEPT !.step = "save", !.token = go[g].token, !.code = go[g].code]
    BY <1>3 DEF Local
  <2>3. go[g].token \in Fresh' /\ go[g].token \in Tokens \cup {None} /\ go[g].code \in BOOLEAN
    BY <1>3, <2>1 DEF LocalFits, Local
  <2>4. LET l == [go[g] EXCEPT !.step = "save"] IN
        l \in Local(made) /\ LocalFits(Fresh', l)
    BY <1>1, <1>3, <2>1, <2>2, <2>3, SyncGoesOn
  <2> QED
    BY <1>1, <1>2, <1>4, <2>1, <2>4, RowsStay, OneMoves DEF Goto
<1>5. ASSUME NEW t \in Tokens, Login("token", t) PROVE Onward /\ t \in Fresh' /\ t # None
  BY <1>2, <1>5, LoginOnward
<1>6. ASSUME NEW t \in Tokens, Login("token", t),
             Become(g, [go[g] EXCEPT !.step = "save", !.token = t])
      PROVE  Inv'
  <2>1. [go[g] EXCEPT !.step = "save", !.token = t]
          = [go[g] EXCEPT !.step = "save", !.token = t, !.code = go[g].code]
    BY <1>3 DEF Local
  <2>2. go[g].code \in BOOLEAN
    BY <1>3 DEF Local
  <2>3. LET l == [go[g] EXCEPT !.step = "save", !.token = t] IN
        l \in Local(made) /\ LocalFits(Fresh', l)
    BY <1>1, <1>3, <1>5, <1>6, <2>1, <2>2, SyncGoesOn
  <2> QED
    BY <1>1, <1>2, <1>5, <1>6, <2>3, RowsStay, OneMoves DEF Become
<1>7. ASSUME Onward, Return(g) PROVE Inv'
  BY <1>1, <1>7, SyncEnds DEF LogoutSteps
<1>8. ASSUME NEW result \in {"error", "asks"}, Login(result, None) PROVE Onward
  BY <1>2, <1>8, LoginOnward
<1>9. UNCHANGED cloud => Onward
  BY <1>2, CloudStays DEF Inv, Counts
<1> QED
  BY <1>4, <1>5, <1>6, <1>7, <1>8, <1>9 DEF SyncLists

LEMMA SyncSavesKeepsInv ==
  ASSUME Inv, NEW g \in Goroutines, SyncSaves(g)
  PROVE  Inv'
<1>1. go[g].step = "save" /\ UNCHANGED <<printers, made, cached, cloud, history>>
  BY DEF SyncSaves, InSync
<1>2. ~alone' /\ alone' = alone /\ revoked' = revoked
  BY <1>1, SyncIsNotAlone DEF LogoutSteps
<1>3. Onward /\ Fresh' = Fresh
  BY <1>1, <1>2, CloudStays DEF Inv, Counts
<1>4. /\ go[g] \in Local(made) /\ LocalFits(Fresh, go[g])
      /\ go[g].email # None /\ go[g].token # None
  BY <1>1 DEF Inv, Locals, LocalFits
<1>5. /\ go[g].token \in Fresh' /\ go[g].token \in Tokens \cup {None} /\ go[g].code \in BOOLEAN
      /\ go[g].email \in Emails /\ go[g].pass \in BOOLEAN
  BY <1>3, <1>4 DEF LocalFits, Local
<1>6. PrintersFit' /\ CachedFit'
  BY <1>1, <1>3, PrintersStay, CachedStay DEF Inv, Rows
<1>7. ASSUME account' = Saved(go[g].email, go[g].pass, go[g].token), Goto(g, "rows")
      PROVE  Inv'
  <2>1. AccountFits'
    BY <1>3, <1>5, <1>7, SavedFits
  <2>2. [go[g] EXCEPT !.step = "rows"]
          = [go[g] EXCEPT !.step = "rows", !.token = go[g].token, !.code = go[g].code]
    BY <1>4 DEF Local
  <2>3. LET l == [go[g] EXCEPT !.step = "rows"] IN
        l \in Local(made) /\ LocalFits(Fresh', l)
    BY <1>1, <1>3, <1>4, <1>5, <2>2, SyncGoesOn
  <2>4. Rows' /\ made <= made' /\ made' = made
    BY <1>1, <1>6, <2>1 DEF Rows, PrintersFit
  <2> QED
    BY <1>2, <1>3, <1>7, <2>3, <2>4, OneMoves DEF Goto
<1>8. ASSUME Return(g), UNCHANGED account PROVE Inv'
  BY <1>1, <1>3, <1>8, SyncEnds DEF LogoutSteps, rows
<1> QED
  BY <1>7, <1>8 DEF SyncSaves

\* Of the rows that a sync reads it keeps the serials and passwords.
LEMMA SyncReadsKeepsInv ==
  ASSUME Inv, NEW g \in Goroutines, SyncReads(g)
  PROVE  Inv'
<1> DEFINE read == [p \in DOMAIN printers |->
                      [NewRow EXCEPT !.serial = printers[p].serial, !.pass = printers[p].pass]]
           l == [go[g] EXCEPT !.step = "write", !.todo = Devices, !.copies = read]
<1>1. go[g].step = "rows" /\ UNCHANGED <<rows, cached, cloud, history>>
  BY DEF SyncReads, InSync
<1>2. ~alone' /\ alone' = alone /\ revoked' = revoked
  BY <1>1, SyncIsNotAlone DEF LogoutSteps
<1>3. Onward /\ Fresh' = Fresh
  BY <1>1, <1>2, CloudStays DEF Inv, Counts
<1>4. go[g] \in Local(made) /\ LocalFits(Fresh, go[g]) /\ made \in Nat
  BY <1>3, LocalsAre
<1>5. read \in Copies(made) /\ \A p \in DOMAIN read : read[p].token = None
  <2>1. PICK ids \in SUBSET (1 .. made) : printers \in [ids -> Printer]
    BY DEF Inv, Rows, PrintersFit
  <2>2. NewRow \in Printer /\ NewRow.token = None
    BY DEF NewRow, Printer
  <2>3. ASSUME NEW p \in ids
        PROVE  LET r == [NewRow EXCEPT !.serial = printers[p].serial, !.pass = printers[p].pass]
               IN r \in Printer /\ r.token = None
    BY <2>1, <2>2 DEF Printer
  <2>4. DOMAIN printers = ids /\ ids \in SUBSET (0 .. made)
    BY <1>4, <2>1
  <2>6. read \in [ids -> Printer]
    BY <2>3, <2>4
  <2>5. read \in Copies(made)
    BY <1>4, <2>4, <2>6, CopiesAre
  <2> QED
    BY <2>3, <2>4, <2>5
<1> HIDE DEF read
<1>6. /\ l \in Local(made) /\ l.step = "write" /\ l.copies = read
      /\ l.email = go[g].email /\ l.token = go[g].token
  BY <1>4, <1>5 DEF Local, Steps
<1>7. go' = [go EXCEPT ![g] = l]
  BY DEF SyncReads, Become, read
<1> HIDE DEF l
<1>8. LocalFits(Fresh, l)
  BY <1>1, <1>4, <1>5, <1>6 DEF LocalFits, CopiesFit, LogoutSteps
<1>9. Rows' /\ made <= made' /\ made' = made
  BY <1>1, <1>3, RowsStay DEF rows
<1> QED
  BY <1>2, <1>3, <1>6, <1>7, <1>8, <1>9, OneMoves

\* A linked row fits.
LEMMA LinkedFits ==
  ASSUME NEW F, NEW n, NEW l \in Local(n), l.email # None, l.token \in F,
         NEW device \in Devices, NEW pass \in BOOLEAN, NEW offline \in BOOLEAN
  PROVE  /\ Linked(l, device, pass, offline) \in Printer
         /\ RowFits(F, Linked(l, device, pass, offline))
<1>1. l.email \in Emails /\ l.pass \in BOOLEAN /\ l.token \in Tokens \cup {None}
  BY DEF Local
<1> QED
  BY <1>1 DEF Linked, Printer, RowFits, HoldsCloud

\* A sync goes on to its next device, or to the poll.
LEMMA DeviceDoneFits ==
  ASSUME Inv, Onward, Rows', ~alone', made \in Nat, made' \in Nat, made <= made',
         NEW g \in Goroutines, go[g].step = "write", NEW device, DeviceDone(g, device)
  PROVE  Inv'
<1> DEFINE left == go[g].todo \ {device}
           on == [Idle EXCEPT !.step = "tick"]
           stay == [go[g] EXCEPT !.todo = left]
<1>1. go[g] \in Local(made) /\ LocalFits(Fresh', go[g])
  BY LocalsAre
<1>2. Local(made) \subseteq Local(made') /\ None \in Fresh'
  BY CopiesGrow DEF Fresh
<1>3. stay \in Local(made') /\ stay.step = "write" /\ stay.email = go[g].email
      /\ stay.token = go[g].token /\ stay.copies = go[g].copies
  BY <1>1, <1>2 DEF Local
<1>4. LocalFits(Fresh', stay)
  BY <1>1, <1>3 DEF LocalFits, CopiesFit, LogoutSteps
<1>5. on \in Local(made') /\ on.step = "tick" /\ on.token = None /\ on.copies = NoCopies
  BY <1>2, IdleInLocal, IdleHas DEF Local, Steps
<1>6. LocalFits(Fresh', on)
  BY <1>2, <1>5 DEF LocalFits, CopiesFit, LogoutSteps, NoCopies
<1>7. go' = [go EXCEPT ![g] = on] \/ go' = [go EXCEPT ![g] = stay]
  BY DEF DeviceDone, Become
<1> HIDE DEF on, stay
<1> QED
  BY <1>3, <1>4, <1>5, <1>6, <1>7, OneMoves

LEMMA SyncWritesKeepsInv ==
  ASSUME Inv, NEW g \in Goroutines, NEW device \in Devices, NEW offline \in BOOLEAN,
         SyncWrites(g, device, offline)
  PROVE  Inv'
<1>1. go[g].step = "write" /\ UNCHANGED <<account, cached, cloud, history>>
  BY DEF SyncWrites, InSync
<1>2. ~alone' /\ alone' = alone /\ revoked' = revoked
  BY <1>1, SyncIsNotAlone DEF LogoutSteps
<1>3. Onward /\ Fresh' = Fresh
  BY <1>1, <1>2, CloudStays DEF Inv, Counts
<1>4. /\ go[g] \in Local(made) /\ made \in Nat
      /\ go[g].email # None /\ go[g].token \in Fresh'
  BY <1>1, <1>3, LocalsAre DEF LocalFits
<1>5. AccountFits' /\ CachedFit'
  BY <1>1, <1>3, AccountStays, CachedStay DEF Inv, Rows
<1>6. ASSUME PrintersFit', made' \in Nat, made <= made',
             DeviceDone(g, device) \/ Return(g)
      PROVE  Inv'
  BY <1>1, <1>2, <1>3, <1>4, <1>5, <1>6, DeviceDoneFits, OneReturns DEF Rows
<1>7. ASSUME NEW p \in DOMAIN go[g].copies,
             printers' = Written(p, Linked(go[g], device, go[g].copies[p].pass, offline)),
             UNCHANGED made
      PROVE  PrintersFit'
  <2>1. go[g].copies[p] \in Printer
    BY <1>4, <1>7, CopiesAre DEF Local
  <2>2. go[g].copies[p].pass \in BOOLEAN
    BY <2>1 DEF Printer
  <2> QED
    BY <1>3, <1>4, <1>7, <2>2, LinkedFits, PrintersWritten DEF Inv, Rows
<1>8. ASSUME Inserted(Linked(go[g], device, FALSE, offline))
      PROVE  PrintersFit' /\ made' \in Nat /\ made <= made'
  BY <1>3, <1>4, <1>8, LinkedFits, PrintersGrow DEF Inv, Rows
<1>9. CASE \E p \in MatchesIn(go[g].copies, device) :
            /\ printers' = Written(p, Linked(go[g], device, go[g].copies[p].pass, offline))
            /\ DeviceDone(g, device) \/ Return(g)
            /\ UNCHANGED made
  BY <1>4, <1>6, <1>7, <1>9 DEF MatchesIn
<1>10. CASE Inserted(Linked(go[g], device, FALSE, offline)) /\ (DeviceDone(g, device) \/ Return(g))
  BY <1>6, <1>8, <1>10
<1> QED
  BY <1>9, <1>10 DEF SyncWrites

LEMMA PassTimesOutKeepsInv ==
  ASSUME Inv, NEW g \in Loops, PassTimesOut(g)
  PROVE  Inv'
<1>1. Onward
  BY CloudStays DEF Inv, PassTimesOut, Counts, history
<1>2. g \in Goroutines /\ g \notin People
  BY CloudConstants DEF Goroutines, Loops
<1>3. ~alone' /\ Rows' /\ made <= made'
  <2>1. ~alone
    BY <1>2 DEF Inv, AloneFits, Others, PassTimesOut
  <2> QED
    BY <1>1, <2>1, RowsStay DEF PassTimesOut, history
<1> QED
  BY <1>1, <1>2, <1>3, OneReturns DEF PassTimesOut

-----------------------------------------------------------------------------
(* The monitor.                                                            *)

\* A list of printers that are polled
LEMMA ListsKeepsInv ==
  ASSUME Inv, Onward, Fresh' = Fresh, ~alone', UNCHANGED <<rows, cached>>,
         NEW g \in Goroutines, Lists(g)
  PROVE  Inv'
<1> DEFINE read == [p \in Polls |-> printers[p]]
           l == [Idle EXCEPT !.step = "poll", !.copies = read]
<1>1. Rows' /\ made <= made' /\ made' = made /\ made \in Nat
  BY RowsStay, IdleInLocal DEF rows
<1>2. CASE Polls = {}
  BY <1>1, <1>2, OneReturns DEF Lists, Become, Return
<1>3. CASE Polls # {}
  <2>1. PICK ids \in SUBSET (1 .. made) : printers \in [ids -> Printer]
    BY DEF Inv, Rows, PrintersFit
  <2>0. Polls \subseteq ids
    BY <2>1 DEF Polls
  <2>2. Polls \in SUBSET (0 .. made) /\ Polls \subseteq ids
    BY <1>1, <2>0
  <2>3. read \in Copies(made)
    <3>1. read \in [Polls -> Printer]
      BY <2>1, <2>2
    <3> QED
      BY <1>1, <2>2, <3>1, CopiesAre
  <2>4. \A p \in DOMAIN read : RowFits(Fresh, read[p]) /\ (read[p].lan \/ read[p].cloud)
    BY DEF Polls, Inv, Rows, PrintersFit, HasCloudConfig
  <2>5. read # NoCopies
    BY <1>3 DEF NoCopies
  <2> HIDE DEF read
  <2>6. l \in Local(made) /\ l.step = "poll" /\ l.token = None /\ l.copies = read
    BY <2>3, IdleInLocal, IdleHas DEF Local, Steps
  <2>7. go' = [go EXCEPT ![g] = l]
    BY <1>3 DEF Lists, Become, read
  <2> HIDE DEF l
  <2>8. LocalFits(Fresh, l)
    BY <2>4, <2>5, <2>6 DEF LocalFits, CopiesFit, LogoutSteps, Fresh
  <2> QED
    BY <1>1, <2>6, <2>7, <2>8, OneMoves
<1> QED
  BY <1>2, <1>3

LEMMA MonitorStartsKeepsInv == ASSUME Inv, MonitorStarts PROVE Inv'
<1>1. ~alone' /\ alone' \in BOOLEAN /\ revoked' = revoked
  BY BeginsAlone DEF MonitorStarts
<1>2. Onward /\ Fresh' = Fresh
  BY <1>1, CloudStays DEF Inv, MonitorStarts
<1> QED
  BY <1>1, <1>2, ListsKeepsInv DEF MonitorStarts, Goroutines, Loops

LEMMA TickListsKeepsInv ==
  ASSUME Inv, NEW g \in Goroutines, TickLists(g)
  PROVE  Inv'
<1>1. ~alone' /\ alone' = alone /\ revoked' = revoked
  BY SyncIsNotAlone DEF TickLists, LogoutSteps
<1>2. Onward /\ Fresh' = Fresh
  BY <1>1, CloudStays DEF Inv, TickLists, Counts
<1> QED
  BY <1>1, <1>2, ListsKeepsInv DEF TickLists

\* On to the next printer: the copies that are left
LEMMA CopiesLeft ==
  ASSUME NEW n \in Nat, NEW c \in Copies(n), NEW p
  PROVE  /\ Without(c, p) \in Copies(n) /\ DOMAIN Without(c, p) = DOMAIN c \ {p}
         /\ \A q \in DOMAIN c \ {p} : Without(c, p)[q] = c[q]
         /\ c = NoCopies => Without(c, p) = NoCopies
<1>1. c \in [DOMAIN c -> Printer] /\ DOMAIN c \subseteq 0 .. n
  BY CopiesAre
<1>2. Without(c, p) \in [DOMAIN c \ {p} -> Printer]
  BY <1>1 DEF Without
<1>3. Without(c, p) \in Copies(n)
  BY <1>1, <1>2, CopiesAre
<1> QED
  BY <1>3 DEF Without, NoCopies

LEMMA FewerCopies ==
  ASSUME NEW F, NEW n \in Nat, NEW l \in Local(n), LocalFits(F, l), NEW p,
         Without(l.copies, p) # NoCopies
  PROVE  /\ [l EXCEPT !.copies = Without(l.copies, p)] \in Local(n)
         /\ LocalFits(F, [l EXCEPT !.copies = Without(l.copies, p)])
<1> DEFINE left == Without(l.copies, p)
<1>1. /\ left \in Copies(n) /\ DOMAIN left = DOMAIN l.copies \ {p}
      /\ \A q \in DOMAIN left : left[q] = l.copies[q]
  <2>1. l.copies \in Copies(n)
    BY DEF Local
  <2> QED
    BY <2>1, CopiesLeft
<1>2. l.step \notin {"idle", "load"}
  <2>1. l.step \in {"idle", "load"} => l.copies = NoCopies
    BY IdleHas DEF LocalFits
  <2>2. l.copies = NoCopies => left = NoCopies
    BY CopiesLeft DEF Local
  <2> QED
    BY <2>1, <2>2
<1>3. left # NoCopies
  OBVIOUS
<1> HIDE DEF left
<1>4. /\ [l EXCEPT !.copies = left] \in Local(n)
      /\ [l EXCEPT !.copies = left].step = l.step /\ [l EXCEPT !.copies = left].token = l.token
      /\ [l EXCEPT !.copies = left].email = l.email /\ [l EXCEPT !.copies = left].copies = left
  BY <1>1 DEF Local
<1>5. LocalFits(F, [l EXCEPT !.copies = left])
  BY <1>1, <1>2, <1>3, <1>4 DEF LocalFits, CopiesFit
<1> QED
  BY <1>4, <1>5 DEF left

LEMMA PolledKeepsInv ==
  ASSUME Inv, Onward, Rows', ~alone', made' = made, NEW g \in Goroutines, NEW p, Polled(g, p)
  PROVE  Inv'
<1>1. go[g] \in Local(made) /\ LocalFits(Fresh', go[g]) /\ made \in Nat /\ made <= made'
  BY LocalsAre
<1>2. CASE Without(go[g].copies, p) = NoCopies
  BY <1>1, <1>2, OneReturns DEF Polled, Become, Return
<1>3. CASE Without(go[g].copies, p) # NoCopies
  <2> DEFINE l == [go[g] EXCEPT !.copies = Without(go[g].copies, p)]
  <2>1. l \in Local(made) /\ LocalFits(Fresh', l)
    BY <1>1, <1>3, FewerCopies
  <2>2. go' = [go EXCEPT ![g] = l]
    BY <1>3 DEF Polled, Become
  <2> HIDE DEF l
  <2> QED
    BY <1>1, <2>1, <2>2, OneMoves
<1> QED
  BY <1>2, <1>3

\* A copy that is polled may be written back, on line or off line.
LEMMA PolledCopy ==
  ASSUME Inv, Onward, NEW g \in Goroutines, go[g].step = "poll",
         NEW p \in DOMAIN go[g].copies, NEW offline \in BOOLEAN
  PROVE  LET row == go[g].copies[p] IN
         /\ row \in Printer /\ RowFits(Fresh', row) /\ (row.lan \/ row.cloud)
         /\ [row EXCEPT !.offline = offline] \in Printer
         /\ RowFits(Fresh', [row EXCEPT !.offline = offline])
<1>1. go[g] \in Local(made) /\ LocalFits(Fresh', go[g]) /\ made \in Nat
  BY LocalsAre
<1>2. go[g].copies[p] \in Printer
  BY <1>1, CopiesAre DEF Local
<1>3. RowFits(Fresh', go[g].copies[p]) /\ (go[g].copies[p].lan \/ go[g].copies[p].cloud)
  BY <1>1 DEF LocalFits, CopiesFit
<1> QED
  BY <1>2, <1>3 DEF Printer, RowFits, HoldsCloud

LEMMA MarksFit ==
  ASSUME Inv, Onward, made' = made, NEW g \in Goroutines, go[g].step = "poll",
         NEW p \in DOMAIN go[g].copies,
         \/ UNCHANGED printers
         \/ MarkOnline(p, go[g].copies[p]) \/ MarkOffline(p, go[g].copies[p])
  PROVE  PrintersFit'
<1>1. UNCHANGED printers => PrintersFit'
  BY PrintersStay DEF Inv, Rows
<1>2. ASSUME NEW offline \in BOOLEAN,
             printers' = Written(p, [go[g].copies[p] EXCEPT !.offline = offline])
      PROVE  PrintersFit'
  BY <1>2, PolledCopy, PrintersWritten DEF Inv, Rows
<1> QED
  BY <1>1, <1>2 DEF MarkOnline, MarkOffline

LEMMA TickPollsLANKeepsInv ==
  ASSUME Inv, NEW g \in Goroutines, NEW p, TickPollsLAN(g, p)
  PROVE  Inv'
<1>1. go[g].step = "poll" /\ p \in DOMAIN go[g].copies /\ made' = made
  BY DEF TickPollsLAN
<1>2. ~alone' /\ alone' = alone /\ revoked' = revoked
  BY <1>1, SyncIsNotAlone DEF TickPollsLAN, LogoutSteps
<1>3. Onward
  BY <1>2, CloudStays DEF Inv, TickPollsLAN, Counts
<1>4. PrintersFit'
  BY <1>1, <1>3, MarksFit DEF TickPollsLAN
<1>5. Rows'
  BY <1>3, <1>4, AccountStays, CachedStay DEF Rows, Inv, TickPollsLAN
<1> QED
  BY <1>1, <1>2, <1>3, <1>5, PolledKeepsInv DEF TickPollsLAN

\* A token that is put in a copy
LEMMA SignedIn ==
  ASSUME Inv, Onward, NEW g \in Goroutines, go[g].step = "poll",
         NEW p \in DOMAIN go[g].copies, ~go[g].copies[p].lan,
         NEW t \in Tokens \cap Fresh'
  PROVE  LET row == [go[g].copies[p] EXCEPT !.token = t]
             l == [go[g] EXCEPT !.copies = [go[g].copies EXCEPT ![p] = row]] IN
         /\ row \in Printer /\ RowFits(Fresh', row)
         /\ l \in Local(made) /\ LocalFits(Fresh', l)
<1> DEFINE row == [go[g].copies[p] EXCEPT !.token = t]
           copies == [go[g].copies EXCEPT ![p] = row]
           l == [go[g] EXCEPT !.copies = copies]
<1>1. go[g] \in Local(made) /\ LocalFits(Fresh', go[g]) /\ made \in Nat
  BY LocalsAre
<1>2. go[g].copies[p] \in Printer /\ go[g].copies[p].cloud
  BY <1>1, PolledCopy DEF LocalFits, CopiesFit
<1>3. row \in Printer /\ RowFits(Fresh', row) /\ row.cloud
  BY <1>2 DEF Printer, RowFits, HoldsCloud
<1> HIDE DEF row
<1>4. go[g].copies \in [DOMAIN go[g].copies -> Printer] /\ DOMAIN go[g].copies \subseteq 0 .. made
  BY <1>1, CopiesAre DEF Local
<1>5. /\ copies \in [DOMAIN go[g].copies -> Printer] /\ copies[p] = row
      /\ \A q \in DOMAIN copies : q # p => copies[q] = go[g].copies[q]
  BY <1>3, <1>4
<1>6. copies \in Copies(made) /\ copies # NoCopies
  BY <1>1, <1>4, <1>5, CopiesAre DEF NoCopies
<1> HIDE DEF copies
<1>7. l \in Local(made) /\ l.step = "poll" /\ l.token = go[g].token /\ l.copies = copies
  BY <1>1, <1>6 DEF Local
<1>8. LocalFits(Fresh', l)
  BY <1>1, <1>3, <1>4, <1>5, <1>6, <1>7 DEF LocalFits, CopiesFit, LogoutSteps
<1> QED
  BY <1>3, <1>7, <1>8 DEF row, copies

\* The monitor opens a session.
LEMMA CachedGrows ==
  ASSUME Inv, Onward, NEW email \in Emails \cup {None}, NEW t \in Tokens \cap Fresh',
         cached' = cached \cup {<<email, t>>}
  PROVE  CachedFit'
<1>1. Fresh \subseteq Fresh'
  BY OnwardFresh DEF Inv
<1> QED
  BY <1>1 DEF CachedFit, Inv, Rows

LEMMA TickSignsInKeepsInv ==
  ASSUME Inv, NEW g \in Goroutines, NEW p, TickSignsIn(g, p)
  PROVE  Inv'
<1>1. /\ go[g].step = "poll" /\ p \in DOMAIN go[g].copies /\ ~go[g].copies[p].lan
      /\ UNCHANGED <<account, made, history>>
  BY DEF TickSignsIn
<1>2. ~alone' /\ alone' = alone /\ revoked' = revoked
  BY <1>1, SyncIsNotAlone DEF LogoutSteps
<1>3. ASSUME NEW t \in Tokens, Login("token", t),
             printers' = Written(p, [go[g].copies[p] EXCEPT !.token = t]),
             cached' = cached \cup {<<go[g].copies[p].email, t>>},
             go' = [go EXCEPT ![g].copies[p].token = t]
      PROVE  Inv'
  <2> DEFINE row == [go[g].copies[p] EXCEPT !.token = t]
             l == [go[g] EXCEPT !.copies = [go[g].copies EXCEPT ![p] = row]]
  <2>1. Onward /\ t \in Tokens \cap Fresh'
    BY <1>2, <1>3, LoginOnward
  <2>2. row \in Printer /\ RowFits(Fresh', row) /\ l \in Local(made) /\ LocalFits(Fresh', l)
    BY <1>1, <2>1, SignedIn
  <2>3. go' = [go EXCEPT ![g] = l]
    BY <1>3
  <2>4. go[g].copies[p] \in Printer
    BY <1>1, <2>1, PolledCopy
  <2>9. made <= made'
    BY <1>1, IdleInLocal
  <2>5. go[g].copies[p].email \in Emails \cup {None}
    BY <2>4 DEF Printer
  <2>6. CachedFit'
    BY <1>3, <2>1, <2>5, CachedGrows
  <2>7. PrintersFit' /\ AccountFits'
    BY <1>1, <1>3, <2>1, <2>2, PrintersWritten, AccountStays DEF Inv, Rows
  <2> HIDE DEF l
  <2>8. Rows' /\ l \in Local(made')
    BY <1>1, <2>2, <2>6, <2>7 DEF Rows
  <2> QED
    BY <1>2, <2>1, <2>2, <2>3, <2>8, <2>9, OneMoves
<1>4. ASSUME NEW result \in {"error", "asks"}, Login(result, None),
             MarkOffline(p, go[g].copies[p]), Polled(g, p), UNCHANGED cached
      PROVE  Inv'
  <2>1. Onward
    BY <1>2, <1>4, LoginOnward
  <2>2. PrintersFit'
    BY <1>1, <1>4, <2>1, MarksFit
  <2>3. Rows'
    BY <1>1, <1>4, <2>1, <2>2, AccountStays, CachedStay DEF Rows, Inv
  <2> QED
    BY <1>1, <1>2, <1>4, <2>1, <2>3, PolledKeepsInv
<1> QED
  BY <1>3, <1>4 DEF TickSignsIn

LEMMA TickPollsCloudKeepsInv ==
  ASSUME Inv, NEW g \in Goroutines, NEW p, TickPollsCloud(g, p)
  PROVE  Inv'
<1>1. /\ go[g].step = "poll" /\ p \in DOMAIN go[g].copies /\ go[g].copies[p].token # None
      /\ UNCHANGED <<account, made, cloud, history>> /\ Polled(g, p)
  BY DEF TickPollsCloud
<1>2. ~alone' /\ alone' = alone /\ revoked' = revoked
  BY <1>1, SyncIsNotAlone DEF LogoutSteps
<1>3. Onward
  BY <1>1, <1>2, CloudStays DEF Inv, Counts
<1>4. PrintersFit'
  BY <1>1, <1>3, MarksFit DEF TickPollsCloud
<1>5. CachedFit'
  <2>1. go[g].copies[p] \in Printer /\ RowFits(Fresh', go[g].copies[p])
    BY <1>1, <1>3, PolledCopy
  <2>2. go[g].copies[p].email \in Emails \cup {None} /\ go[g].copies[p].token \in Tokens \cap Fresh'
    BY <1>1, <2>1 DEF Printer, RowFits
  <2>3. cached' = cached \cup {<<go[g].copies[p].email, go[g].copies[p].token>>}
        => CachedFit'
    BY <1>3, <2>2, CachedGrows
  <2>4. cached' \subseteq cached => CachedFit'
    BY <1>3, CachedStay DEF Inv, Rows
  <2> QED
    BY <2>3, <2>4 DEF TickPollsCloud
<1>6. Rows'
  BY <1>1, <1>3, <1>4, <1>5, AccountStays DEF Rows, Inv
<1> QED
  BY <1>1, <1>2, <1>3, <1>6, PolledKeepsInv

-----------------------------------------------------------------------------
(* The synchronizer.                                                       *)

LEMMA DerivedFits ==
  ASSUME NEW F, NEW row \in Printer, RowFits(F, row)
  PROVE  Derived(row) \in Printer /\ RowFits(F, Derived(row))
  BY DEF Derived, Printer, RowFits, HoldsCloud

LEMMA SynchronizerStartsKeepsInv == ASSUME Inv, SynchronizerStarts PROVE Inv'
<1>1. PICK ids \in SUBSET DOMAIN printers :
        /\ ids # {}
        /\ go' = [go EXCEPT ![Synchronizer] =
                   [Idle EXCEPT !.step = "status", !.copies = [p \in ids |-> Derived(printers[p])]]]
  BY DEF SynchronizerStarts, Become
<1> DEFINE read == [p \in ids |-> Derived(printers[p])]
           l == [Idle EXCEPT !.step = "status", !.copies = read]
<1>2. ~alone' /\ alone' \in BOOLEAN /\ revoked' = revoked
  BY BeginsAlone DEF SynchronizerStarts
<1>3. Onward /\ Fresh' = Fresh
  BY <1>2, CloudStays DEF Inv, SynchronizerStarts
<1>4. Rows' /\ made <= made' /\ made' = made /\ made \in Nat
  BY <1>3, RowsStay, IdleInLocal DEF SynchronizerStarts, rows
<1>5. PICK all \in SUBSET (1 .. made) : printers \in [all -> Printer]
  BY DEF Inv, Rows, PrintersFit
<1>6. ids \in SUBSET (0 .. made) /\ ids \subseteq all
  BY <1>4, <1>5
<1>7. \A p \in ids : Derived(printers[p]) \in Printer /\ RowFits(Fresh, Derived(printers[p]))
  BY <1>5, <1>6, DerivedFits DEF Inv, Rows, PrintersFit
<1>8. read \in Copies(made)
  BY <1>4, <1>6, <1>7, CopiesAre
<1>9. read # NoCopies /\ \A p \in DOMAIN read : RowFits(Fresh, read[p])
  BY <1>1, <1>7 DEF NoCopies
<1>10. go' = [go EXCEPT ![Synchronizer] = l] /\ Synchronizer \in Goroutines
  BY <1>1 DEF Goroutines, Loops
<1> HIDE DEF read
<1>11. l \in Local(made) /\ l.step = "status" /\ l.token = None /\ l.copies = read
  BY <1>8, IdleInLocal, IdleHas DEF Local, Steps
<1> HIDE DEF l
<1>12. LocalFits(Fresh, l)
  BY <1>9, <1>11 DEF LocalFits, CopiesFit, LogoutSteps, Fresh
<1> QED
  BY <1>2, <1>3, <1>4, <1>10, <1>11, <1>12, OneMoves

LEMMA SynchronizerWritesKeepsInv ==
  ASSUME Inv, NEW p, SynchronizerWrites(p)
  PROVE  Inv'
<1> DEFINE row == go[Synchronizer].copies[p]
<1>1. /\ Synchronizer \in Goroutines /\ go[Synchronizer].step = "status"
      /\ p \in DOMAIN go[Synchronizer].copies
      /\ printers' = Written(p, row) /\ UNCHANGED <<account, made, cached, cloud, history>>
      /\ Polled(Synchronizer, p) \/ Return(Synchronizer)
  BY DEF SynchronizerWrites, Goroutines, Loops
<1>2. ~alone' /\ alone' = alone /\ revoked' = revoked
  BY <1>1, SyncIsNotAlone DEF LogoutSteps
<1>3. Onward
  BY <1>1, <1>2, CloudStays DEF Inv, Counts
<1>4. go[Synchronizer] \in Local(made) /\ LocalFits(Fresh', go[Synchronizer]) /\ made \in Nat
  BY <1>1, <1>3, LocalsAre
<1>5. row \in Printer /\ RowFits(Fresh', row)
  BY <1>1, <1>4, CopiesAre DEF Local, LocalFits, CopiesFit
<1>6. Rows'
  BY <1>1, <1>3, <1>5, PrintersWritten, AccountStays, CachedStay DEF Inv, Rows
<1> QED
  BY <1>1, <1>2, <1>3, <1>4, <1>6, PolledKeepsInv, OneReturns

-----------------------------------------------------------------------------
(* Logging out.                                                            *)

\* A step of a logout: if it is alone, it is the only one at work.
LEMMA LogoutIsOnlyOne ==
  ASSUME Inv, NEW g \in Goroutines, go[g].step \in LogoutSteps, alone
  PROVE  /\ g \in People /\ LogoutFits(g) /\ account = None
         /\ \A h \in Others(g) : go[h].step = "idle"
<1>1. PICK h \in People : LogoutFits(h) /\ \A x \in Others(h) : go[x].step = "idle"
  BY DEF Inv, AloneFits
<1>2. ASSUME g # h PROVE FALSE
  <2>1. go[g].step = "idle"
    BY <1>1, <1>2 DEF Others
  <2> QED
    BY <2>1 DEF LogoutSteps
<1> QED
  BY <1>1, <1>2 DEF Inv, AloneFits

\* A logout that goes on in its own steps stays alone.
LEMMA LogoutMoves ==
  ASSUME Inv, Onward, Rows', made' = made, UNCHANGED <<account, alone>>,
         NEW g \in Goroutines, NEW l \in Local(made), LocalFits(Fresh', l),
         go' = [go EXCEPT ![g] = l],
         go[g].step \in LogoutSteps \/ ~alone,
         alone => LogoutFits(g)'
  PROVE  Inv'
<1>1. made \in Nat /\ made <= made'
  BY IdleInLocal
<1>2. CASE ~alone
  BY <1>1, <1>2, OneMoves
<1>3. CASE alone
  <2>1. go' \in [Goroutines -> Local(made')]
    BY DEF Inv, Locals
  <2>2. \A x : LocalFits(Fresh, x) => LocalFits(Fresh', x)
    BY FitStays, OnwardFresh DEF Inv
  <2>3. \A h \in Goroutines : LocalFits(Fresh', go'[h])
    BY <2>2 DEF Inv, Locals
  <2>4. \A h \in Others(g) : go'[h].step = "idle"
    BY <1>3, LogoutIsOnlyOne DEF Others, Inv, Locals
  <2>5. AloneFits'
    BY <1>3, <2>4, LogoutIsOnlyOne DEF AloneFits, Others
  <2> QED
    BY <2>1, <2>3, <2>5 DEF Inv, Locals, Onward
<1> QED
  BY <1>2, <1>3

LEMMA PersonLogsOutKeepsInv ==
  ASSUME Inv, NEW g \in People, PersonLogsOut(g)
  PROVE  Inv'
<1> DEFINE l == [go[g] EXCEPT !.step = "list linked"]
<1>1. g \in Goroutines /\ go[g] = Idle
  BY DEF PersonLogsOut, Asks, Goroutines, Inv, Locals, LocalFits
<1>2. alone' \in BOOLEAN /\ revoked' = revoked /\ made' = made
  BY DEF PersonLogsOut
<1>3. Onward /\ Fresh' = Fresh
  BY <1>2, AsksOnward DEF Inv, PersonLogsOut
<1>4. made \in Nat /\ made <= made'
  BY <1>2, IdleInLocal
<1>5. Rows'
  <2>1. PrintersFit' /\ CachedFit'
    BY <1>3, PrintersStay, CachedStay DEF Inv, Rows, PersonLogsOut
  <2> QED
    BY <2>1 DEF Rows, AccountFits, PersonLogsOut
<1>6. l \in Local(made) /\ l.step = "list linked" /\ l.token = None /\ l.copies = NoCopies
  BY <1>1, IdleInLocal, IdleHas DEF Local, Steps
<1>7. go' = [go EXCEPT ![g] = l]
  BY DEF PersonLogsOut, Goto
<1> HIDE DEF l
<1>8. LocalFits(Fresh', l)
  BY <1>6 DEF LocalFits, CopiesFit, LogoutSteps, NoCopies, Fresh
<1>9. CASE ~alone'
  BY <1>1, <1>2, <1>3, <1>4, <1>5, <1>6, <1>7, <1>8, <1>9, OneMoves
<1>10. CASE alone'
  <2>1. go' \in [Goroutines -> Local(made')]
    BY <1>1, <1>2, <1>6, <1>7 DEF Inv, Locals
  <2>2. \A h \in Goroutines : LocalFits(Fresh', go'[h])
    BY <1>3, <1>7, <1>8 DEF Inv, Locals
  <2>3. \A h \in Others(g) : go'[h].step = "idle"
    BY <1>7, <1>10 DEF PersonLogsOut, Others, Inv, Locals
  <2>4. LogoutFits(g)'
    BY <1>1, <1>6, <1>7, <2>1 DEF LogoutFits, LogoutSteps, Inv, Locals
  <2>5. AloneFits'
    BY <2>3, <2>4 DEF AloneFits, PersonLogsOut, Others
  <2> QED
    BY <1>3, <1>5, <2>1, <2>2, <2>5 DEF Inv, Locals, Onward
<1> QED
  BY <1>9, <1>10

LEMMA UnlinkedFits ==
  ASSUME NEW F, None \in F, NEW row \in Printer
  PROVE  Unlinked(row) \in Printer /\ RowFits(F, Unlinked(row)) /\ ~HoldsCloud(Unlinked(row))
  BY DEF Unlinked, Printer, RowFits, HoldsCloud

LEMMA LogoutReadsKeepsInv ==
  ASSUME Inv, NEW g \in Goroutines, LogoutReads(g)
  PROVE  Inv'
<1> DEFINE linked == {p \in DOMAIN printers : HoldsCloud(printers[p])}
           read == [p \in linked |-> Unlinked(printers[p])]
           next == IF linked = {} THEN "reset" ELSE "clear"
           l == [Idle EXCEPT !.step = next, !.copies = read]
<1>1. /\ go[g].step = "list linked" /\ UNCHANGED <<rows, cached, cloud, history>>
      /\ UNCHANGED <<account, printers, made, alone>>
  BY DEF LogoutReads, history, rows
<1>2. Onward /\ Fresh' = Fresh /\ made \in Nat /\ None \in Fresh
  BY <1>1, CloudStays, IdleInLocal DEF Inv, Counts, history, Fresh
<1>3. Rows'
  BY <1>1, <1>2, RowsStay
<1>4. PICK ids \in SUBSET (1 .. made) : printers \in [ids -> Printer]
  BY DEF Inv, Rows, PrintersFit
<1>5. linked \in SUBSET (0 .. made) /\ linked \subseteq ids
  <2>1. linked \subseteq ids
    BY <1>4
  <2>2. ids \subseteq 0 .. made
    BY <1>2
  <2> QED
    BY <2>1, <2>2
<1>6. /\ read \in [linked -> Printer]
      /\ \A p \in linked : RowFits(Fresh, read[p]) /\ ~HoldsCloud(read[p])
  BY <1>2, <1>4, <1>5, UnlinkedFits
<1>7. read \in Copies(made)
  BY <1>2, <1>5, <1>6, CopiesAre
<1>8. /\ l \in Local(made) /\ l.step = next /\ l.token = None /\ l.copies = read
      /\ next \in {"reset", "clear"}
  <2> HIDE DEF read, linked
  <2> QED
    BY <1>7, IdleInLocal, IdleHas DEF Local, Steps
<1>9. next = "clear" => read # NoCopies
  BY DEF NoCopies
<1>10. LocalFits(Fresh, l)
  <2> HIDE DEF l, linked, next, read
  <2> QED
    BY <1>2, <1>6, <1>8, <1>9 DEF LocalFits, CopiesFit, LogoutSteps
<1>11. go' = [go EXCEPT ![g] = l]
  BY DEF LogoutReads, Become
<1>12. DOMAIN read = linked /\ (next = "reset" <=> linked = {})
  OBVIOUS
<1>13. /\ \A p \in DOMAIN printers \ linked : ~HoldsCloud(printers[p])
       /\ linked \subseteq DOMAIN printers
  OBVIOUS
<1> HIDE DEF l, read, next, linked
<1>14. LogoutFits(g)'
  <2>1. go'[g] = l
    BY <1>11 DEF Inv, Locals
  <2> QED
    BY <1>1, <1>8, <1>12, <1>13, <2>1 DEF LogoutFits, LogoutSteps
<1> QED
  BY <1>1, <1>2, <1>3, <1>8, <1>10, <1>11, <1>14, LogoutMoves DEF LogoutSteps

\* A copy that a logout has made keeps nothing of the cloud.
LEMMA ClearedCopy ==
  ASSUME Inv, NEW g \in Goroutines, go[g].step = "clear", NEW p \in DOMAIN go[g].copies
  PROVE  /\ go[g].copies[p] \in Printer /\ RowFits(Fresh, go[g].copies[p])
         /\ ~HoldsCloud(go[g].copies[p])
  BY IdleInLocal, CopiesAre DEF Inv, Locals, Local, LocalFits, CopiesFit

LEMMA LogoutClearsKeepsInv ==
  ASSUME Inv, NEW g \in Goroutines, NEW p, LogoutClears(g, p)
  PROVE  Inv'
<1> DEFINE left == Without(go[g].copies, p)
           next == IF left = NoCopies THEN "reset" ELSE go[g].step
           l == [go[g] EXCEPT !.copies = left, !.step = next]
<1>1. /\ go[g].step = "clear" /\ p \in DOMAIN go[g].copies
      /\ printers' = Written(p, go[g].copies[p])
      /\ UNCHANGED <<account, made, cached, cloud, history>>
      /\ UNCHANGED alone
  BY DEF LogoutClears, history
<1>2. Onward /\ Fresh' = Fresh /\ made \in Nat /\ None \in Fresh
  BY <1>1, CloudStays, IdleInLocal DEF Inv, Counts, history, Fresh
<1>3. PrintersFit'
  BY <1>1, <1>2, ClearedCopy, PrintersWritten DEF Inv, Rows
<1>4. Rows' /\ made <= made'
  BY <1>1, <1>2, <1>3, AccountStays, CachedStay DEF Rows, Inv
<1>5. go[g] \in Local(made) /\ LocalFits(Fresh, go[g])
  BY DEF Inv, Locals
<1>6. CASE p \notin DOMAIN printers
  <2>1. ~alone
    BY <1>1, <1>6, LogoutIsOnlyOne DEF LogoutFits, LogoutSteps
  <2> QED
    BY <1>1, <1>2, <1>4, <1>6, <2>1, OneReturns DEF LogoutClears
<1>7. CASE p \in DOMAIN printers
  <2>1. /\ left \in Copies(made) /\ DOMAIN left = DOMAIN go[g].copies \ {p}
        /\ \A q \in DOMAIN left : left[q] = go[g].copies[q]
    <3>1. go[g].copies \in Copies(made)
      BY <1>5 DEF Local
    <3> QED
      BY <1>2, <3>1, CopiesLeft
  <2>2. /\ next \in {"reset", "clear"}
        /\ next = "clear" => left # NoCopies
        /\ next = "reset" => left = NoCopies
    BY <1>1
  <2>3. go' = [go EXCEPT ![g] = l]
    BY <1>1, <1>7 DEF LogoutClears, Become
  <2> HIDE DEF left, next
  <2>4. /\ l \in Local(made) /\ l.step = next /\ l.copies = left /\ l.token = go[g].token
        /\ l.email = go[g].email
    <3>1. next \in Steps /\ left \in Copies(made)
      BY <2>1, <2>2 DEF Steps
    <3> QED
      BY <1>5, <3>1 DEF Local
  <2> HIDE DEF l
  <2>5. LocalFits(Fresh, l)
    <3>1. go[g].token = None /\ go[g].token \in Fresh
      BY <1>1, <1>5 DEF LocalFits, LogoutSteps
    <3>2. CopiesFit(Fresh, l)
      BY <1>1, <1>5, <2>1, <2>2, <2>4 DEF LocalFits, CopiesFit
    <3> QED
      BY <2>2, <2>4, <3>1, <3>2 DEF LocalFits, LogoutSteps
  <2>6. /\ DOMAIN printers' = DOMAIN printers
        /\ printers'[p] = go[g].copies[p]
        /\ \A q \in DOMAIN printers : q # p => printers'[q] = printers[q]
    <3>1. \E ids \in SUBSET (1 .. made) : printers \in [ids -> Printer]
      BY DEF Inv, Rows, PrintersFit
    <3> QED
      BY <1>1, <1>7, <3>1 DEF Written
  <2>7. ASSUME alone PROVE LogoutFits(g)'
    <3>1. go'[g] = l
      BY <2>3 DEF Inv, Locals
    <3>2. /\ DOMAIN go[g].copies \subseteq DOMAIN printers
          /\ \A q \in DOMAIN printers \ DOMAIN go[g].copies : ~HoldsCloud(printers[q])
      BY <1>1, <2>7, LogoutIsOnlyOne DEF LogoutFits, LogoutSteps
    <3>3. \A q \in DOMAIN printers' \ DOMAIN left : ~HoldsCloud(printers'[q])
      BY <1>1, <2>1, <2>6, <3>2, ClearedCopy
    <3>4. left = NoCopies => DOMAIN left = {}
      BY DEF NoCopies
    <3>5. go'[g].step = next /\ go'[g].copies = left
      BY <2>4, <3>1
    <3>6. DOMAIN left \subseteq DOMAIN printers'
      BY <2>1, <2>6, <3>2
    <3> QED
      BY <2>2, <3>3, <3>4, <3>5, <3>6 DEF LogoutFits, LogoutSteps
  <2> QED
    BY <1>1, <1>2, <1>4, <2>3, <2>4, <2>5, <2>7, LogoutMoves DEF LogoutSteps
<1> QED
  BY <1>6, <1>7

LEMMA LogoutResetsKeepsInv ==
  ASSUME Inv, NEW g \in Goroutines, LogoutResets(g)
  PROVE  Inv'
<1>1. /\ go[g].step = "reset" /\ Return(g) /\ ~alone' /\ alone' \in BOOLEAN /\ cached' = {}
      /\ UNCHANGED <<account, printers, made>>
      /\ UNCHANGED cloud
  BY DEF LogoutResets, LoggedOut, rows
<1>2. made \in Nat /\ made <= made'
  BY <1>1, IdleInLocal
<1>3. CASE ~alone
  <2>1. revoked' = revoked
    BY <1>3 DEF LogoutResets, LoggedOut
  <2>2. Onward
    BY <1>1, <2>1, CloudStays DEF Inv
  <2>3. Rows'
    BY <1>1, <2>2, AccountStays, PrintersStay, CachedStay DEF Inv, Rows
  <2> QED
    BY <1>1, <1>2, <2>2, <2>3, OneReturns
<1>4. CASE alone
  <2>1. /\ account = None /\ \A p \in DOMAIN printers : ~HoldsCloud(printers[p])
        /\ \A h \in Others(g) : go[h].step = "idle"
    BY <1>1, <1>4, LogoutIsOnlyOne DEF LogoutFits, LogoutSteps
  <2>2. revoked' = drawn
    BY <1>4 DEF LogoutResets, LoggedOut
  <2>3. Counts' /\ None \in Fresh'
    BY <1>1, <2>2 DEF Inv, Counts, Fresh, cloud
  <2>4. \A h \in Goroutines : go'[h] = Idle
    BY <1>1, <2>1 DEF Return, Others, Inv, Locals, LocalFits
  <2>5. Locals'
    <3>1. go' \in [Goroutines -> Local(made')]
      BY <1>1, IdleInLocal DEF Return, Inv, Locals
    <3>2. \A h \in Goroutines : LocalFits(Fresh', go'[h])
      BY <2>3, <2>4, IdleFits
    <3> QED
      BY <3>1, <3>2 DEF Locals
  <2>6. PrintersFit'
    <3>1. \A p \in DOMAIN printers : RowFits(Fresh', printers[p])
      BY <2>1, <2>3 DEF Inv, Rows, PrintersFit, RowFits, HoldsCloud
    <3> QED
      BY <1>1, <3>1 DEF Inv, Rows, PrintersFit
  <2>7. Rows'
    BY <1>1, <2>1, <2>6 DEF Rows, AccountFits, CachedFit
  <2> QED
    BY <1>1, <2>3, <2>5, <2>7 DEF Inv, AloneFits
<1> QED
  BY <1>3, <1>4

-----------------------------------------------------------------------------
(* Requests about one printer.                                             *)

LEMMA PersonOpensKeepsInv ==
  ASSUME Inv, NEW g \in People, NEW id \in 0 .. made, NEW row \in Printer, RowFits(Fresh, row),
         PersonOpens(g, id, row)
  PROVE  Inv'
<1> DEFINE copy == [p \in {id} |-> row]
           l == [Idle EXCEPT !.step = "connect", !.copies = copy]
<1>1. /\ g \in Goroutines /\ ~alone' /\ alone' \in BOOLEAN /\ revoked' = revoked
      /\ UNCHANGED <<rows, cached>> /\ made' = made
  BY BeginsAlone DEF PersonOpens, Goroutines, rows
<1>2. Onward /\ Fresh' = Fresh /\ made \in Nat
  BY <1>1, AsksOnward, IdleInLocal DEF Inv, PersonOpens
<1>3. Rows' /\ made <= made'
  BY <1>1, <1>2, RowsStay
<1>4. copy \in [{id} -> Printer] /\ {id} \in SUBSET (0 .. made) /\ copy # NoCopies
  BY DEF NoCopies
<1>5. copy \in Copies(made)
  BY <1>2, <1>4, CopiesAre
<1>6. \A p \in DOMAIN copy : RowFits(Fresh, copy[p])
  OBVIOUS
<1>7. go' = [go EXCEPT ![g] = l]
  BY DEF PersonOpens, Become
<1> HIDE DEF copy
<1>8. l \in Local(made) /\ l.step = "connect" /\ l.token = None /\ l.copies = copy
  BY <1>5, IdleInLocal, IdleHas DEF Local, Steps
<1> HIDE DEF l
<1>9. LocalFits(Fresh, l)
  BY <1>4, <1>6, <1>8 DEF LocalFits, CopiesFit, LogoutSteps, Fresh
<1> QED
  BY <1>1, <1>2, <1>3, <1>7, <1>8, <1>9, OneMoves

LEMMA PersonEditsKeepsInv ==
  ASSUME Inv, NEW g \in People, NEW p, PersonEdits(g, p)
  PROVE  Inv'
<1>1. PICK ids \in SUBSET (1 .. made) : printers \in [ids -> Printer]
  BY DEF Inv, Rows, PrintersFit
<1>2. p \in 0 .. made /\ printers[p] \in Printer
  BY <1>1, IdleInLocal DEF PersonEdits
<1>3. RowFits(Fresh, printers[p])
  BY DEF PersonEdits, Inv, Rows, PrintersFit
<1> QED
  BY <1>2, <1>3, PersonOpensKeepsInv DEF PersonEdits

LEMMA PersonCreatesKeepsInv ==
  ASSUME Inv, NEW g \in People, PersonCreates(g)
  PROVE  Inv'
<1>1. NewRow \in Printer /\ RowFits(Fresh, NewRow) /\ 0 \in 0 .. made
  BY IdleInLocal DEF NewRow, Printer, RowFits, HoldsCloud, Fresh
<1> QED
  BY <1>1, PersonOpensKeepsInv DEF PersonCreates

\* A form that is applied to a row leaves one connection.
LEMMA ConnectedFits ==
  ASSUME NEW F, None \in F, NEW row \in Printer, row.token \in F,
         NEW op \in {"off", "lan", "cloud"}, NEW device \in Devices,
         NEW email \in Emails \cup {None}, NEW pass \in BOOLEAN,
         NEW token \in Tokens \cup {None}, token \in F
  PROVE  LET next == Connected(row, op, device, email, pass, token) IN
         next \in Printer /\ RowFits(F, next)
<1> DEFINE next == Connected(row, op, device, email, pass, token)
<1>1. CASE op = "off"
  BY <1>1 DEF Connected, Printer, RowFits, HoldsCloud
<1>2. CASE op = "lan"
  BY <1>2 DEF Connected, Printer, RowFits, HoldsCloud
<1>3. CASE op = "cloud"
  BY <1>3 DEF Connected, Printer, RowFits, HoldsCloud
<1> QED
  BY <1>1, <1>2, <1>3

LEMMA StoresFits ==
  ASSUME Inv, Onward, NEW p, NEW row \in Printer, RowFits(Fresh', row), Stores(p, row)
  PROVE  PrintersFit' /\ made <= made'
<1>1. CASE p = 0
  BY <1>1, PrintersGrow DEF Stores, Inv, Rows
<1>2. CASE p # 0
  BY <1>2, PrintersWritten, IdleInLocal DEF Stores, Inv, Rows
<1> QED
  BY <1>1, <1>2

\* A cloud row with a token that was just handed out
LEMMA TokenFits ==
  ASSUME NEW F, NEW row \in Printer, RowFits(F, row), row.cloud, NEW t \in Tokens, t \in F
  PROVE  [row EXCEPT !.token = t] \in Printer /\ RowFits(F, [row EXCEPT !.token = t])
  BY DEF Printer, RowFits, HoldsCloud

\* The copy that a form is applied to
LEMMA ConnectCopy ==
  ASSUME Inv, NEW g \in Goroutines, go[g].step = "connect", NEW p \in DOMAIN go[g].copies
  PROVE  go[g].copies[p] \in Printer /\ RowFits(Fresh, go[g].copies[p])
  BY IdleInLocal, CopiesAre DEF Inv, Locals, Local, LocalFits, CopiesFit

\* A request that has written its row, or nothing, returns.
LEMMA RequestReturns ==
  ASSUME Inv, Onward, NEW g \in Goroutines, go[g].step = "connect", Return(g),
         UNCHANGED <<account, cached, history>>, PrintersFit', made <= made'
  PROVE  Inv'
<1>1. ~alone'
  BY SyncIsNotAlone DEF LogoutSteps
<1>2. Rows'
  BY AccountStays, CachedStay DEF Inv, Rows
<1> QED
  BY <1>1, <1>2, OneReturns

LEMMA ConnectsKeepsInv ==
  ASSUME Inv, NEW g \in Goroutines, NEW p, Connects(g, p)
  PROVE  Inv'
<1>1. /\ go[g].step = "connect" /\ p \in DOMAIN go[g].copies /\ Return(g)
      /\ UNCHANGED <<account, cached, history>>
  BY DEF Connects
<1>2. UNCHANGED <<alone, revoked>> /\ None \in Fresh /\ made \in Nat
  BY <1>1, IdleInLocal DEF history, Fresh
<1>3. PICK op \in {"off", "lan", "cloud"}, device \in Devices, email \in Emails \cup {None},
           pass \in BOOLEAN, token \in Tokens \cup {None} :
        LET row == Connected(go[g].copies[p], op, device, email, pass, token) IN
        /\ Typed(token)
        /\ IF row.cloud /\ row.token = None THEN ConnectsWith(p, row)
                                            ELSE Stores(p, row) /\ UNCHANGED cloud
  BY DEF Connects
<1> DEFINE row == Connected(go[g].copies[p], op, device, email, pass, token)
<1>4. row \in Printer /\ RowFits(Fresh, row)
  <2>1. go[g].copies[p] \in Printer /\ go[g].copies[p].token \in Fresh
    BY <1>1, ConnectCopy DEF RowFits
  <2>2. token \in Fresh
    BY <1>3 DEF Typed, Fresh
  <2> QED
    BY <1>2, <2>1, <2>2, ConnectedFits
<1> HIDE DEF row
<1>5. ASSUME UNCHANGED cloud, Stores(p, row) \/ UNCHANGED <<printers, made>> PROVE Inv'
  <2>1. Onward /\ Fresh' = Fresh
    BY <1>2, <1>5, CloudStays DEF Inv, Counts
  <2>2. PrintersFit' /\ made <= made'
    BY <1>2, <1>4, <1>5, <2>1, StoresFits, PrintersStay DEF Inv, Rows
  <2> QED
    BY <1>1, <2>1, <2>2, RequestReturns
<1>6. ASSUME NEW t \in Tokens, Issue(t), Stores(p, [row EXCEPT !.token = t]), row.cloud
      PROVE  Inv'
  <2>1. Onward /\ t \in Fresh'
    BY <1>2, <1>6, Issued DEF Inv
  <2>2. RowFits(Fresh', row)
    BY <1>4, <2>1, OnwardFresh, FitStays DEF Inv
  <2>3. PrintersFit' /\ made <= made'
    BY <1>4, <1>6, <2>1, <2>2, TokenFits, StoresFits
  <2> QED
    BY <1>1, <2>1, <2>3, RequestReturns
<1>7. ASSUME Login("asks", None) PROVE UNCHANGED cloud
  BY <1>7 DEF Login
<1>8. ASSUME ConnectsWith(p, row), row.cloud PROVE Inv'
  BY <1>5, <1>6, <1>7, <1>8 DEF ConnectsWith
<1> QED
  BY <1>3, <1>5, <1>8 DEF row

LEMMA VerifiesKeepsInv ==
  ASSUME Inv, NEW g \in Goroutines, NEW p, Verifies(g, p)
  PROVE  Inv'
<1>1. /\ go[g].step = "connect" /\ p \in DOMAIN go[g].copies /\ go[g].copies[p].cloud
      /\ Return(g) /\ UNCHANGED <<account, made, cached, history>>
  BY DEF Verifies
<1>2. PICK t \in Tokens : Issue(t) /\ printers' = Written(p, [go[g].copies[p] EXCEPT !.token = t])
  BY DEF Verifies
<1>3. Onward /\ t \in Fresh' /\ made <= made'
  BY <1>1, <1>2, Issued, IdleInLocal DEF Inv, history
<1>4. go[g].copies[p] \in Printer /\ RowFits(Fresh', go[g].copies[p])
  BY <1>1, <1>3, ConnectCopy, OnwardFresh, FitStays DEF Inv
<1>5. PrintersFit'
  BY <1>1, <1>2, <1>3, <1>4, TokenFits, PrintersWritten DEF Inv, Rows
<1> QED
  BY <1>1, <1>3, <1>5, RequestReturns

LEMMA PersonDeletesKeepsInv ==
  ASSUME Inv, NEW g \in People, NEW p, PersonDeletes(g, p)
  PROVE  Inv'
<1>1. ~alone' /\ alone' \in BOOLEAN /\ revoked' = revoked
  BY BeginsAlone DEF PersonDeletes
<1>2. Onward /\ Fresh' = Fresh
  BY <1>1, AsksOnward DEF Inv, PersonDeletes
<1>3. PrintersFit'
  <2>1. PICK ids \in SUBSET (1 .. made) : printers \in [ids -> Printer]
    BY DEF Inv, Rows, PrintersFit
  <2>2. printers' \in [ids \ {p} -> Printer] /\ ids \ {p} \in SUBSET (1 .. made)
    BY <2>1 DEF PersonDeletes, Without
  <2>3. \A q \in DOMAIN printers' : RowFits(Fresh', printers'[q])
    BY <1>2, <2>1, <2>2 DEF PersonDeletes, Without, Inv, Rows, PrintersFit
  <2> QED
    BY <2>2, <2>3 DEF PersonDeletes, Inv, Rows, PrintersFit
<1>4. Rows'
  BY <1>2, <1>3, AccountStays, CachedStay DEF Inv, Rows, PersonDeletes
<1>5. Locals'
  BY <1>2 DEF Inv, Locals, PersonDeletes
<1> QED
  BY <1>1, <1>2, <1>4, <1>5 DEF Inv, AloneFits, Onward

-----------------------------------------------------------------------------
(* The surroundings, and the invariant.                                    *)

LEMMA RestartKeepsInv == ASSUME Inv, Restart PROVE Inv'
<1>1. /\ go' = [g \in Goroutines |-> Idle] /\ cached' = {} /\ alone' = FALSE
      /\ UNCHANGED <<account, printers, made>> /\ UNCHANGED <<cloud, revoked>>
  BY DEF Restart, rows
<1>2. Onward /\ None \in Fresh'
  BY <1>1, CloudStays DEF Inv, Fresh
<1>3. Rows'
  BY <1>1, <1>2, AccountStays, PrintersStay, CachedStay DEF Inv, Rows
<1>4. \A g \in Goroutines : go'[g] = Idle
  BY <1>1
<1>5. Locals'
  BY <1>1, <1>2, <1>4, IdleInLocal, IdleFits DEF Locals
<1> QED
  BY <1>1, <1>2, <1>3, <1>5 DEF Inv, AloneFits, Onward

\* The cloud, or a person, changes nothing that the invariant speaks of.
LEMMA QuietKeepsInv ==
  ASSUME Inv, Counts', UNCHANGED <<rows, cached, go, drawn, history>>
  PROVE  Inv'
<1>1. UNCHANGED <<account, printers, made, cached, go, drawn, alone, revoked>>
  BY DEF rows, history
<1> QED
  BY <1>1 DEF Inv, Rows, PrintersFit, AccountFits, CachedFit, Locals, AloneFits, LogoutFits, Fresh

LEMMA OutsideKeepsInv ==
  ASSUME Inv, \/ \E t \in Tokens : Expire(t)
              \/ Calm \/ UNCHANGED vars
  PROVE  Inv'
<1>1. ASSUME NEW t \in Tokens, Expire(t) PROVE Inv'
  BY <1>1, QuietKeepsInv DEF Expire, Inv, Counts, history
<1>2. CASE Calm
  BY <1>2, QuietKeepsInv, CloudConstants DEF Calm, Inv, Counts, history
<1>3. CASE UNCHANGED vars
  BY <1>3, QuietKeepsInv DEF vars, rows, history, Inv, Counts
<1> QED
  BY <1>1, <1>2, <1>3

LEMMA InitHasInv == Init => Inv
<1> SUFFICES ASSUME Init PROVE Inv
  OBVIOUS
<1>1. made = 0 /\ made \in Nat /\ None \in Fresh
  BY DEF Init, Fresh
<1>2. Counts
  <2>1. TokenLimit \in Nat /\ Requests \in Nat
    BY CloudConstants
  <2>2. drawn = 0 /\ asked = 0 /\ revoked = 0 /\ good = {} /\ calm = FALSE /\ alone = FALSE
    BY DEF Init
  <2>3. drawn \in 0 .. TokenLimit /\ revoked \in 0 .. drawn /\ asked \in 0 .. Requests
    BY <2>1, <2>2
  <2> QED
    BY <2>2, <2>3 DEF Counts
<1>3. Rows
  <2>1. printers \in [{} -> Printer] /\ DOMAIN printers = {}
    BY DEF Init, NoCopies
  <2>2. \E ids \in SUBSET (1 .. made) : printers \in [ids -> Printer]
    <3>1. {} \in SUBSET (1 .. made)
      OBVIOUS
    <3> QED
      BY <2>1, <3>1
  <2>3. made \in 0 .. RowLimit
    BY <1>1, CloudConstants
  <2>4. PrintersFit
    BY <2>1, <2>2, <2>3 DEF PrintersFit
  <2>5. account = None /\ cached = {}
    BY DEF Init
  <2> QED
    BY <2>4, <2>5 DEF Rows, AccountFits, CachedFit
<1>4. Locals
  <2>1. \A g \in Goroutines : go[g] = Idle
    BY DEF Init
  <2> QED
    BY <1>1, <2>1, IdleIsLocal, IdleFits DEF Init, Locals
<1> QED
  BY <1>2, <1>3, <1>4 DEF Init, Inv, AloneFits

LEMMA StepKeepsInv == Inv /\ [Next]_vars => Inv'
<1> SUFFICES ASSUME Inv, [Next]_vars PROVE Inv'
  OBVIOUS
<1>1. ASSUME NEW g \in Goroutines, Sync(g) PROVE Inv'
  BY <1>1, SyncLogsInKeepsInv, SyncVerifiesKeepsInv, SyncRefusedKeepsInv, SyncListsKeepsInv,
     SyncSavesKeepsInv, SyncReadsKeepsInv, SyncWritesKeepsInv DEF Sync
<1>2. ASSUME NEW g \in Goroutines, Tick(g) PROVE Inv'
  BY <1>2, TickListsKeepsInv, TickPollsLANKeepsInv, TickSignsInKeepsInv,
     TickPollsCloudKeepsInv DEF Tick
<1>3. ASSUME NEW g \in Goroutines, Logout(g) PROVE Inv'
  BY <1>3, LogoutReadsKeepsInv, LogoutClearsKeepsInv, LogoutResetsKeepsInv DEF Logout
<1>4. ASSUME NEW g \in Goroutines, Step(g) PROVE Inv'
  BY <1>1, <1>2, <1>3, <1>4, TickerStartsKeepsInv, SyncLoadsKeepsInv, MonitorStartsKeepsInv,
     SynchronizerStartsKeepsInv, SynchronizerWritesKeepsInv, ConnectsKeepsInv, VerifiesKeepsInv DEF Step
<1>5. ASSUME NEW g \in People, PersonBegins(g) PROVE Inv'
  BY <1>5, PersonSyncsKeepsInv, PersonLogsOutKeepsInv, PersonCreatesKeepsInv,
     PersonEditsKeepsInv, PersonDeletesKeepsInv DEF PersonBegins
<1>6. CASE UNCHANGED vars
  BY <1>6, OutsideKeepsInv
<1>7. CASE Next
  BY <1>4, <1>5, <1>7, PassTimesOutKeepsInv, RestartKeepsInv, OutsideKeepsInv DEF Next, BusyNext, Loops
<1> QED
  BY <1>6, <1>7

LEMMA InvHolds == Spec => []Inv
  BY InitHasInv, StepKeepsInv, PTL DEF Spec

-----------------------------------------------------------------------------
(* What the invariant says.                                                *)

\* Rows, copies, sessions and locals keep their types, for any number of people,
\* devices, tokens and rows.
THEOREM TypesHold == Spec => []TypeOK
<1>1. Inv => TypeOK
  <2> SUFFICES ASSUME Inv PROVE TypeOK
    OBVIOUS
  <2>1. ASSUME NEW g \in Goroutines
        PROVE  /\ go[g].step \in Steps
               /\ go[g].email \in Emails \cup {None} /\ go[g].token \in Tokens \cup {None}
               /\ \E ids \in SUBSET (0 .. made) : go[g].copies \in [ids -> Printer]
               /\ go[g].step \in {"poll", "status", "clear", "connect"} =>
                    go[g].copies # NoCopies
               /\ go[g].todo \in SUBSET Devices
               /\ go[g].step \in {"list", "save", "rows", "write"} =>
                    go[g].token \in 1 .. drawn /\ go[g].email # None
    <3>1. go[g] \in Local(made) /\ LocalFits(Fresh, go[g])
      BY DEF Inv, Locals
    <3>2. \E ids \in SUBSET (0 .. made) : go[g].copies \in [ids -> Printer]
      BY <3>1 DEF Local, Copies
    <3>3. Fresh \ {None} \subseteq 1 .. drawn
      BY DEF Fresh, Inv, Counts
    <3> QED
      BY <3>1, <3>2, <3>3 DEF Local, LocalFits
  <2>2. account \in Account \cup {None}
    BY DEF Inv, Rows, AccountFits
  <2>3. /\ \E ids \in SUBSET (1 .. made) : printers \in [ids -> Printer]
        /\ made \in 0 .. RowLimit
        /\ cached \subseteq (Emails \cup {None}) \X Tokens
    BY DEF Inv, Rows, PrintersFit, CachedFit
  <2>4. DOMAIN go = Goroutines
    BY DEF Inv, Locals
  <2> QED
    BY <2>1, <2>2, <2>3, <2>4 DEF TypeOK, Inv, Counts
<1> QED
  BY InvHolds, <1>1, PTL

\* LAN or cloud, never both, and nothing of the account in a row that is not linked,
\* whichever copies are written over each other and wherever a goroutine stops.
THEOREM ConnectionIsOneOfHolds == Spec => []ConnectionIsOneOf
<1>1. Inv => ConnectionIsOneOf
  BY DEF Inv, Rows, PrintersFit, RowFits, ConnectionIsOneOf
<1> QED
  BY InvHolds, <1>1, PTL

\* After a logout that nothing else ran across no row, session, goroutine or copy
\* has a token from before, now or ever again.
THEOREM NoTokenAfterLogoutHolds == Spec => []NoTokenAfterLogout
<1>1. Inv => NoTokenAfterLogout
  <2> SUFFICES ASSUME Inv, NEW t \in 1 .. revoked
               PROVE  /\ account # None => t # account.token
                      /\ \A p \in DOMAIN printers : t # printers[p].token
                      /\ \A s \in cached : t # s[2]
                      /\ \A g \in Goroutines : t # go[g].token
                      /\ \A g \in Goroutines : \A p \in DOMAIN go[g].copies :
                           t # go[g].copies[p].token
    BY DEF NoTokenAfterLogout, TokensOf
  <2>1. t \notin Fresh /\ t # None
    BY CloudConstants DEF Fresh, Inv, Counts
  <2>2. account # None => t # account.token
    BY <2>1 DEF Inv, Rows, AccountFits
  <2>3. \A p \in DOMAIN printers : t # printers[p].token
    BY <2>1 DEF Inv, Rows, PrintersFit, RowFits
  <2>4. \A s \in cached : t # s[2]
    BY <2>1 DEF Inv, Rows, CachedFit
  <2>5. \A g \in Goroutines : t # go[g].token
    BY <2>1 DEF Inv, Locals, LocalFits
  <2>6. \A g \in Goroutines : \A p \in DOMAIN go[g].copies : t # go[g].copies[p].token
    BY <2>1 DEF Inv, Locals, LocalFits, CopiesFit, RowFits
  <2> QED
    BY <2>2, <2>3, <2>4, <2>5, <2>6
<1> QED
  BY InvHolds, <1>1, PTL

-----------------------------------------------------------------------------
(* What the three loops are at, always.                                    *)

TickerFits(l) == l.step \notin LogoutSteps \cup {"connect", "status"} /\ ~l.code
Roles ==
  /\ TickerFits(go[Ticker])
  /\ go[Monitor].step \in {"idle", "poll"}
  /\ go[Synchronizer].step \in {"idle", "status"}

LEMMA LoopsApart ==
  /\ Ticker \in Goroutines /\ Monitor \in Goroutines /\ Synchronizer \in Goroutines
  /\ Ticker # Monitor /\ Ticker # Synchronizer /\ Monitor # Synchronizer
  /\ Ticker \notin People /\ Monitor \notin People /\ Synchronizer \notin People
  /\ Goroutines = People \cup {Ticker, Monitor, Synchronizer}
  BY CloudConstants DEF Goroutines, Loops

LEMMA IdleHasRoles ==
  Idle.step = "idle" /\ ~Idle.code /\ TickerFits(Idle)
  BY DEF TickerFits, Idle, LogoutSteps

\* A step of one goroutine leaves the others where they are.
LEMMA OthersStay ==
  ASSUME Inv, NEW g \in Goroutines, Step(g) \/ PersonBegins(g) \/ PassTimesOut(g),
         NEW h \in Goroutines, h # g
  PROVE  go'[h] = go[h]
<1>1. \/ \E l : go' = [go EXCEPT ![g] = l]
      \/ \E s : go' = [go EXCEPT ![g].step = s]
      \/ \E p, t : go' = [go EXCEPT ![g].copies[p].token = t]
      \/ go' = go
  <2>1. Sync(g) => \/ \E l : go' = [go EXCEPT ![g] = l]
                   \/ \E s : go' = [go EXCEPT ![g].step = s]
    BY DEF Sync, SyncLogsIn, SyncVerifies, SyncRefused, SyncLists, SyncSaves, SyncReads,
       SyncWrites, DeviceDone, Become, Return, Goto
  <2>2. Tick(g) => \/ \E l : go' = [go EXCEPT ![g] = l]
                   \/ \E p, t : go' = [go EXCEPT ![g].copies[p].token = t]
    BY DEF Tick, TickLists, TickPollsLAN, TickSignsIn, TickPollsCloud, Lists, Polled, Become
  <2>3. Logout(g) => \E l : go' = [go EXCEPT ![g] = l]
    BY DEF Logout, LogoutReads, LogoutClears, LogoutResets, LoggedOut, Become, Return
  <2>4. (g = Ticker /\ (TickerStarts \/ SyncLoads)) \/ PassTimesOut(g)
        => \E l : go' = [go EXCEPT ![g] = l]
    BY DEF TickerStarts, SyncLoads, Loaded, PassTimesOut, Become, Return
  <2>5. g = Monitor /\ MonitorStarts => \E l : go' = [go EXCEPT ![g] = l]
    BY DEF MonitorStarts, Lists, Become
  <2>6. g = Synchronizer /\ (SynchronizerStarts \/ \E p \in Printers : SynchronizerWrites(p))
        => \E l : go' = [go EXCEPT ![g] = l]
    BY DEF SynchronizerStarts, SynchronizerWrites, Polled, Become, Return
  <2>7. ASSUME NEW p, Connects(g, p) \/ Verifies(g, p)
        PROVE  \E l : go' = [go EXCEPT ![g] = l]
    BY <2>7 DEF Connects, Verifies, Return
  <2>8. PersonBegins(g) => \/ \E l : go' = [go EXCEPT ![g] = l]
                           \/ \E s : go' = [go EXCEPT ![g].step = s]
                           \/ go' = go
    BY DEF PersonBegins, PersonSyncs, PersonLogsOut, PersonCreates, PersonEdits,
       PersonDeletes, PersonOpens, Loaded, Become, Goto
  <2> QED
    BY <2>1, <2>2, <2>3, <2>4, <2>5, <2>6, <2>7, <2>8 DEF Step
<1>2. go \in [Goroutines -> Local(made)]
  BY DEF Inv, Locals
<1> QED
  BY <1>1, <1>2

\* A pass over the printers, and the next printer of it, lead to no other step.
LEMMA PollsRoles ==
  ASSUME Inv, NEW g \in Goroutines, ~go[g].code,
         \/ Lists(g)
         \/ \E p : TickPollsLAN(g, p) \/ TickSignsIn(g, p) \/ TickPollsCloud(g, p)
  PROVE  go'[g].step \in {"idle", "poll"} /\ ~go'[g].code
<1>1. go \in [Goroutines -> Local(made)] /\ go[g] \in Local(made)
  BY IdleInLocal DEF Inv, Locals
<1>2. CASE Lists(g)
  <2> DEFINE l == [Idle EXCEPT !.step = "poll", !.copies = [p \in Polls |-> printers[p]]]
  <2>1. l.step = "poll" /\ ~l.code
    BY DEF Idle
  <2>2. go'[g] = Idle \/ go'[g] = l
    BY <1>1, <1>2 DEF Lists, Become
  <2> HIDE DEF l
  <2> QED
    BY <2>1, <2>2, IdleHasRoles
<1>3. ASSUME NEW p, go[g].step = "poll", Polled(g, p)
      PROVE  go'[g].step \in {"idle", "poll"} /\ ~go'[g].code
  BY <1>1, <1>3, IdleHasRoles DEF Polled, Become, Local
<1>4. ASSUME NEW p, NEW t, go[g].step = "poll", go' = [go EXCEPT ![g].copies[p].token = t]
      PROVE  go'[g].step \in {"idle", "poll"} /\ ~go'[g].code
  BY <1>1, <1>4 DEF Local
<1> QED
  BY <1>2, <1>3, <1>4 DEF TickPollsLAN, TickSignsIn, TickPollsCloud

\* The ticker syncs without a code, and then polls.
LEMMA TickerKeepsRole ==
  ASSUME Inv, Roles, Step(Ticker) PROVE TickerFits(go'[Ticker])
<1>1. /\ Ticker \in Goroutines /\ go \in [Goroutines -> Local(made)]
      /\ go[Ticker] \in Local(made) /\ TickerFits(go[Ticker]) /\ Ticker # Monitor
      /\ Ticker # Synchronizer
  BY LoopsApart DEF Inv, Locals, Roles
<1>2. ASSUME NEW l, go' = [go EXCEPT ![Ticker] = l], l = Idle \/ ~l.code,
             l.step \in {"idle", "load", "sign in", "list", "save", "rows", "write", "tick"}
      PROVE  TickerFits(go'[Ticker])
  BY <1>1, <1>2, IdleHasRoles DEF TickerFits, LogoutSteps
<1>3. CASE TickerStarts
  <2> DEFINE l == [Idle EXCEPT !.step = "load", !.email = account.email,
                               !.pass = account.pass, !.token = account.token]
  <2>1. l.step = "load" /\ ~l.code
    BY DEF Idle
  <2>2. go' = [go EXCEPT ![Ticker] = l]
    BY <1>3 DEF TickerStarts, Become
  <2> QED
    BY <1>2, <2>1, <2>2
<1>4. CASE SyncLoads
  <2> DEFINE l == [Filled(go[Ticker]) EXCEPT
                      !.step = IF Filled(go[Ticker]).token = None THEN "sign in" ELSE "list"]
  <2>1. l.step \in {"sign in", "list"} /\ ~l.code
    BY <1>1 DEF Filled, Local, TickerFits
  <2>2. go' = [go EXCEPT ![Ticker] = l]
    BY <1>4 DEF SyncLoads, Loaded, Become
  <2> HIDE DEF l
  <2> QED
    BY <1>2, <2>1, <2>2
<1>5. CASE Sync(Ticker)
  <2>1. ~SyncVerifies(Ticker)
    BY <1>1 DEF SyncVerifies, TickerFits
  <2>2. CASE go' = [go EXCEPT ![Ticker] = Idle]
    BY <1>1, <2>2, IdleHasRoles
  <2>3. ASSUME NEW s \in {"list", "save", "rows"},
               \/ go' = [go EXCEPT ![Ticker].step = s]
               \/ \E t : go' = [go EXCEPT ![Ticker] = [go[Ticker] EXCEPT !.step = s, !.token = t]]
        PROVE  TickerFits(go'[Ticker])
    <3>1. go'[Ticker].step = s /\ ~go'[Ticker].code
      BY <1>1, <2>3 DEF Local, TickerFits
    <3> QED
      BY <3>1 DEF TickerFits, LogoutSteps
  <2>4. CASE SyncReads(Ticker)
    <3>1. go'[Ticker].step = "write" /\ ~go'[Ticker].code
      BY <1>1, <2>4 DEF SyncReads, Become, Local, TickerFits
    <3> QED
      BY <3>1 DEF TickerFits, LogoutSteps
  <2>5. ASSUME NEW device, NEW b, SyncWrites(Ticker, device, b) PROVE TickerFits(go'[Ticker])
    <3>1. go[Ticker].step = "write" /\ (DeviceDone(Ticker, device) \/ Return(Ticker))
      BY <2>5 DEF SyncWrites, InSync
    <3>2. [Idle EXCEPT !.step = "tick"].step = "tick" /\ ~[Idle EXCEPT !.step = "tick"].code
      BY DEF Idle
    <3>3. go'[Ticker] = Idle \/ (go'[Ticker].step \in {"write", "tick"} /\ ~go'[Ticker].code)
      BY <1>1, <3>1, <3>2 DEF DeviceDone, Become, Return, Local, TickerFits
    <3> QED
      BY <3>3, IdleHasRoles DEF TickerFits, LogoutSteps
  <2>6. ASSUME SyncLogsIn(Ticker) \/ SyncRefused(Ticker) \/ SyncLists(Ticker) \/ SyncSaves(Ticker)
        PROVE  \/ go' = [go EXCEPT ![Ticker] = Idle]
               \/ \E s \in {"list", "save", "rows"} :
                    \/ go' = [go EXCEPT ![Ticker].step = s]
                    \/ \E t : go' = [go EXCEPT ![Ticker] = [go[Ticker] EXCEPT !.step = s, !.token = t]]
    BY <2>6 DEF SyncLogsIn, SyncRefused, SyncLists, SyncSaves, Become, Return, Goto
  <2> QED
    BY <1>5, <2>1, <2>2, <2>3, <2>4, <2>5, <2>6 DEF Sync
<1>6. CASE Tick(Ticker)
  <2>1. go'[Ticker].step \in {"idle", "poll"} /\ ~go'[Ticker].code
    BY <1>1, <1>6, PollsRoles DEF Tick, TickLists, TickerFits
  <2> QED
    BY <2>1 DEF TickerFits, LogoutSteps
<1>7. CASE Logout(Ticker)
  BY <1>1, <1>7 DEF TickerFits, LogoutSteps, Logout, LogoutReads, LogoutResets, LoggedOut, LogoutClears
<1>8. ASSUME NEW p, Connects(Ticker, p) \/ Verifies(Ticker, p) PROVE FALSE
  BY <1>1, <1>8 DEF TickerFits, Connects, Verifies
<1> QED
  BY <1>1, <1>3, <1>4, <1>5, <1>6, <1>7, <1>8 DEF Step

\* What a goroutine that does not sync, log out or connect can do
LEMMA PlainSteps ==
  ASSUME NEW g, go[g].step \in {"idle", "poll", "status"}
  PROVE  /\ ~Sync(g) /\ ~Logout(g) /\ ~TickLists(g)
         /\ \A p : ~Connects(g, p) /\ ~Verifies(g, p)
         /\ go[g].step # "poll" => ~Tick(g)
<1>1. ~Sync(g)
  BY DEF Sync, SyncLogsIn, SyncVerifies, SyncRefused, SyncLists, SyncSaves, SyncReads,
     SyncWrites, InSync
<1>2. ~Logout(g)
  BY DEF Logout, LogoutReads, LogoutResets, LoggedOut, LogoutClears
<1>3. \A p : ~Connects(g, p) /\ ~Verifies(g, p)
  BY DEF Connects, Verifies
<1>4. ~TickLists(g)
  BY DEF TickLists
<1>5. ASSUME go[g].step # "poll" PROVE ~Tick(g)
  BY <1>4, <1>5 DEF Tick, TickPollsLAN, TickSignsIn, TickPollsCloud
<1> QED
  BY <1>1, <1>2, <1>3, <1>4, <1>5

\* The monitor polls, and nothing else; the synchronizer writes what it has read.
LEMMA MonitorOnlyPolls ==
  ASSUME Roles, Step(Monitor)
  PROVE  \/ MonitorStarts
         \/ \E p \in Printers : \/ TickPollsLAN(Monitor, p) \/ TickSignsIn(Monitor, p)
                                \/ TickPollsCloud(Monitor, p)
  BY LoopsApart, PlainSteps DEF Roles, Step, Tick

LEMMA SynchronizerOnlyWrites ==
  ASSUME Roles, Step(Synchronizer)
  PROVE  SynchronizerStarts \/ \E p \in Printers : SynchronizerWrites(p)
  BY LoopsApart, PlainSteps DEF Roles, Step

LEMMA SynchronizerKeepsRole ==
  ASSUME Inv, Roles, Step(Synchronizer) PROVE go'[Synchronizer].step \in {"idle", "status"}
<1>1. /\ Synchronizer \in Goroutines /\ go \in [Goroutines -> Local(made)]
      /\ go[Synchronizer] \in Local(made)
  BY LoopsApart DEF Inv, Locals
<1>2. CASE SynchronizerStarts
  <2>1. PICK ids \in SUBSET DOMAIN printers :
          go' = [go EXCEPT ![Synchronizer] =
                   [Idle EXCEPT !.step = "status",
                                !.copies = [p \in ids |-> Derived(printers[p])]]]
    BY <1>2 DEF SynchronizerStarts, Become
  <2> DEFINE l == [Idle EXCEPT !.step = "status",
                               !.copies = [p \in ids |-> Derived(printers[p])]]
  <2>2. l.step = "status"
    BY DEF Idle
  <2>3. go'[Synchronizer] = l
    BY <1>1, <2>1
  <2> HIDE DEF l
  <2> QED
    BY <2>2, <2>3
<1>3. ASSUME NEW p, SynchronizerWrites(p) PROVE go'[Synchronizer].step \in {"idle", "status"}
  <2>1. go[Synchronizer].step = "status" /\ (Polled(Synchronizer, p) \/ Return(Synchronizer))
    BY <1>3 DEF SynchronizerWrites
  <2> QED
    BY <1>1, <2>1, IdleHasRoles DEF Polled, Become, Return, Local
<1> QED
  BY <1>2, <1>3, SynchronizerOnlyWrites

LEMMA MonitorKeepsRole ==
  ASSUME Inv, Roles, Step(Monitor) PROVE go'[Monitor].step \in {"idle", "poll"}
<1>1. Monitor \in Goroutines /\ go \in [Goroutines -> Local(made)]
  BY LoopsApart DEF Inv, Locals
<1>2. CASE MonitorStarts
  <2> DEFINE l == [Idle EXCEPT !.step = "poll", !.copies = [p \in Polls |-> printers[p]]]
  <2>1. l.step = "poll"
    BY DEF Idle
  <2>2. go'[Monitor] = Idle \/ go'[Monitor] = l
    BY <1>1, <1>2 DEF MonitorStarts, Lists, Become
  <2> HIDE DEF l
  <2> QED
    BY <2>1, <2>2, IdleHasRoles
<1>3. ASSUME NEW p, \/ TickPollsLAN(Monitor, p) \/ TickSignsIn(Monitor, p)
                    \/ TickPollsCloud(Monitor, p)
      PROVE  go'[Monitor].step \in {"idle", "poll"}
  <2>1. /\ go[Monitor].step = "poll" /\ go[Monitor] \in Local(made)
        /\ Polled(Monitor, p) \/ \E t : go' = [go EXCEPT ![Monitor].copies[p].token = t]
    BY <1>1, <1>3 DEF TickPollsLAN, TickSignsIn, TickPollsCloud
  <2> QED
    BY <1>1, <2>1, IdleHasRoles DEF Polled, Become, Local
<1> QED
  BY <1>2, <1>3, MonitorOnlyPolls

LEMMA RolesHold == Spec => []Roles
<1>1. Init => Roles
  BY LoopsApart, IdleHasRoles DEF Init, Roles
<1>2. Inv /\ Roles /\ [Next]_vars => Roles'
  <2> SUFFICES ASSUME Inv, Roles, [Next]_vars PROVE Roles'
    OBVIOUS
  <2>1. ASSUME NEW g \in Goroutines, Step(g) PROVE Roles'
    <3>1. \A h \in Goroutines : h # g => go'[h] = go[h]
      BY <2>1, OthersStay
    <3> QED
      BY <2>1, <3>1, LoopsApart, TickerKeepsRole, MonitorKeepsRole, SynchronizerKeepsRole
         DEF Roles
  <2>2. ASSUME NEW g \in People, PersonBegins(g) PROVE Roles'
    <3>1. \A h \in Goroutines : h # g => go'[h] = go[h]
      BY <2>2, LoopsApart, OthersStay
    <3> QED
      BY <3>1, LoopsApart DEF Roles
  <2>3. ASSUME NEW g \in {Ticker, Synchronizer}, PassTimesOut(g) PROVE Roles'
    <3>1. \A h \in Goroutines : h # g => go'[h] = go[h]
      BY <2>3, LoopsApart, OthersStay
    <3>2. go'[g] = Idle
      BY <2>3, LoopsApart DEF PassTimesOut, Return, Inv, Locals
    <3> QED
      BY <3>1, <3>2, LoopsApart, IdleHasRoles DEF Roles
  <2>4. CASE Restart
    BY <2>4, LoopsApart, IdleHasRoles DEF Roles, Restart
  <2>5. CASE go' = go
    BY <2>5 DEF Roles
  <2> QED
    BY <2>1, <2>2, <2>3, <2>4, <2>5 DEF Next, BusyNext, Calm, Expire, vars
<1> QED
  BY <1>1, <1>2, InvHolds, PTL DEF Spec

-----------------------------------------------------------------------------
(* What the loops do when they are left alone.                             *)

\* The sync of a tick, up to the list of rows: a refused token is replaced, and the
\* account that is saved has one that works.
SyncMove ==
  LET l == go[Ticker]
      n == go'[Ticker] IN
  /\ UNCHANGED <<printers, made>>
  /\ \/ /\ UNCHANGED account
        /\ \/ /\ l.step = "idle" /\ n.step = "load"
              /\ account # None /\ n.email = account.email /\ n.pass = account.pass
           \/ /\ \/ l.step = "load" /\ n.step \in {"sign in", "list"}
                 \/ l.step = "sign in" /\ n.step = "list"
                 \/ l.step = "list" /\ n.step = "save" /\ n.token \in good'
              /\ n.email = l.email /\ (l.pass => n.pass)
           \/ l.step \in {"sign in", "list"} /\ n.step = "idle" /\ ~(l.email # None /\ l.pass)
           \/ /\ l.step = "rows" /\ n.step = "write" /\ n.token = l.token /\ n.todo = Devices
              /\ DOMAIN n.copies = DOMAIN printers
              /\ \A p \in DOMAIN printers : n.copies[p].serial = printers[p].serial
           \/ l.step = "save" /\ n.step = "idle" /\ ~MaySave(l.email)
     \/ /\ l.step = "save" /\ n.step = "rows" /\ n.token = l.token
        /\ MaySave(l.email) /\ account' = Saved(l.email, l.pass, l.token)

\* The row of one device: it is written from the copy, or made.
WriteMove(device) ==
  LET l == go[Ticker]
      n == go'[Ticker]
      linked(row) == row \in Printer /\ row.cloud /\ row.serial = device /\ row.token = l.token
      done == /\ n.step = IF l.todo \subseteq {device} THEN "tick" ELSE "write"
              /\ n.step = "write" => /\ n.token = l.token /\ n.copies = l.copies
                                     /\ n.todo = l.todo \ {device} IN
  /\ l.step = "write" /\ device \in l.todo /\ UNCHANGED account
  /\ \/ \E p \in DOMAIN l.copies, new \in Printer :
          /\ l.copies[p].serial = device /\ linked(new)
          /\ printers' = Written(p, new) /\ UNCHANGED made
          /\ IF p \in DOMAIN printers THEN done ELSE n.step = "idle"
     \/ /\ \A p \in DOMAIN l.copies : l.copies[p].serial # device
        /\ \/ /\ made < RowLimit /\ made' = made + 1 /\ done
              /\ \E new \in Printer : linked(new) /\ printers' = Put(printers, made + 1, new)
           \/ made = RowLimit /\ UNCHANGED <<printers, made>> /\ n.step = "idle"

LEMMA CalmSyncs ==
  ASSUME Inv, Roles, calm, Sync(Ticker) \/ TickerStarts \/ SyncLoads
  PROVE  good \subseteq good' /\ (SyncMove \/ \E device \in Devices : WriteMove(device))
<1> DEFINE l == go[Ticker]
           n == go'[Ticker]
<1>1. /\ go \in [Goroutines -> Local(made)] /\ Ticker \in Goroutines
      /\ l \in Local(made) /\ LocalFits(Fresh, l) /\ made \in Nat
      /\ l.copies \in [DOMAIN l.copies -> Printer]
  BY IdleInLocal, CopiesAre, LoopsApart DEF Inv, Locals, Local
<1>2. ~l.code /\ ~SyncVerifies(Ticker)
  BY DEF Roles, TickerFits, SyncVerifies
<1>3. good \subseteq good'
  BY <1>2 DEF Sync, TickerStarts, SyncLoads, SyncLogsIn, SyncRefused, SyncLists, SyncSaves,
     SyncReads, SyncWrites, Login, Issue, cloud
<1>4. Idle.step = "idle"
  BY DEF Idle
<1>5. CASE TickerStarts
  <2> DEFINE s == [Idle EXCEPT !.step = "load", !.email = account.email,
                               !.pass = account.pass, !.token = account.token]
  <2>1. s.step = "load" /\ s.email = account.email /\ s.pass = account.pass
    BY DEF Idle
  <2>2. n = s /\ l.step = "idle" /\ account # None /\ UNCHANGED <<account, printers, made>>
    BY <1>1, <1>5 DEF TickerStarts, Become, rows
  <2> HIDE DEF s
  <2> QED
    BY <1>3, <2>1, <2>2 DEF SyncMove
<1>6. CASE SyncLoads
  <2>1. l.step = "load" /\ l.email # None
    BY <1>1, <1>6 DEF SyncLoads, InSync, LocalFits
  <2>2. /\ UNCHANGED <<account, printers, made>>
        /\ n = [Filled(l) EXCEPT !.step = IF Filled(l).token = None THEN "sign in" ELSE "list"]
    BY <1>1, <1>6 DEF SyncLoads, Loaded, Become, rows
  <2>3. Filled(l).email = l.email /\ (l.pass => Filled(l).pass) /\ DOMAIN Filled(l) = DOMAIN l
    BY <1>1, <2>1 DEF Filled, Local
  <2> DEFINE f == Filled(l)
             s == IF f.token = None THEN "sign in" ELSE "list"
  <2>4. DOMAIN l = {"step", "email", "pass", "code", "token", "copies", "todo"}
    BY <1>1 DEF Local
  <2>6. n = [f EXCEPT !.step = s] /\ s \in {"sign in", "list"}
    BY <2>2
  <2>8. f.email = l.email /\ (l.pass => f.pass) /\ DOMAIN f = DOMAIN l
    BY <2>3
  <2>9. f \in Local(made)
    BY <1>1, <2>1 DEF Filled, Local, Inv, Rows, AccountFits, Account
  <2> HIDE DEF f, s
  <2>7. n.step = s /\ n.email = f.email /\ n.pass = f.pass
    BY <2>6, <2>9 DEF Local
  <2> QED
    BY <1>3, <2>1, <2>2, <2>6, <2>7, <2>8 DEF SyncMove
<1>7. CASE SyncLogsIn(Ticker)
  <2>1. /\ l.step = "sign in" /\ UNCHANGED <<account, printers, made>>
        /\ \E t \in Tokens : go' = [go EXCEPT ![Ticker] = [l EXCEPT !.step = "list", !.token = t]]
    BY <1>7 DEF SyncLogsIn, Login, InSync, Become
  <2>2. n.step = "list" /\ n.email = l.email /\ n.pass = l.pass
    BY <1>1, <2>1 DEF Local
  <2> QED
    BY <1>3, <2>1, <2>2 DEF SyncMove
<1>8. CASE SyncRefused(Ticker)
  <2>1. /\ l.step = "sign in" /\ UNCHANGED <<account, printers, made>> /\ n = Idle
        /\ ~(l.email # None /\ l.pass)
    BY <1>1, <1>2, <1>8 DEF SyncRefused, InSync, Return, rows
  <2> QED
    BY <1>3, <1>4, <2>1 DEF SyncMove
<1>9. CASE SyncLists(Ticker)
  <2>1. l.step = "list" /\ UNCHANGED <<account, printers, made>>
    BY <1>9 DEF SyncLists, InSync, rows
  <2>2. \/ l.token \in good /\ go' = [go EXCEPT ![Ticker].step = "save"]
        \/ \E t \in Tokens : /\ t \in good'
                             /\ go' = [go EXCEPT ![Ticker] = [l EXCEPT !.step = "save", !.token = t]]
        \/ n = Idle /\ ~(l.email # None /\ l.pass)
    BY <1>1, <1>9 DEF SyncLists, Accepts, Refuses, Login, Issue, Goto, Become, Return
  <2>3. ASSUME NEW t \in good',
               go' = [go EXCEPT ![Ticker] = [l EXCEPT !.step = "save", !.token = t]]
        PROVE  SyncMove
    <3>1. n.step = "save" /\ n.token = t /\ n.email = l.email /\ n.pass = l.pass
      BY <1>1, <2>3 DEF Local
    <3> QED
      BY <2>1, <3>1 DEF SyncMove
  <2>4. CASE l.token \in good /\ go' = [go EXCEPT ![Ticker].step = "save"]
    <3>1. n.step = "save" /\ n.token = l.token /\ n.email = l.email /\ n.pass = l.pass
      BY <1>1, <2>4 DEF Local
    <3> QED
      BY <1>3, <2>1, <2>4, <3>1 DEF SyncMove
  <2> QED
    BY <1>3, <1>4, <2>1, <2>2, <2>3, <2>4 DEF SyncMove
<1>10. CASE SyncSaves(Ticker)
  <2>1. l.step = "save" /\ UNCHANGED <<printers, made>>
    BY <1>10 DEF SyncSaves, InSync
  <2>2. CASE MaySave(l.email)
    <3>1. account' = Saved(l.email, l.pass, l.token) /\ go' = [go EXCEPT ![Ticker].step = "rows"]
      BY <1>10, <2>2 DEF SyncSaves, Goto
    <3>2. n.step = "rows" /\ n.token = l.token
      BY <1>1, <3>1 DEF Local
    <3> QED
      BY <1>3, <2>1, <2>2, <3>1, <3>2 DEF SyncMove
  <2>3. CASE ~MaySave(l.email)
    BY <1>1, <1>3, <1>4, <1>10, <2>1, <2>3 DEF SyncMove, SyncSaves, Return
  <2> QED
    BY <2>2, <2>3
<1>11. CASE SyncReads(Ticker)
  <2> DEFINE read == [p \in DOMAIN printers |->
                       [NewRow EXCEPT !.serial = printers[p].serial, !.pass = printers[p].pass]]
  <2>1. /\ l.step = "rows" /\ UNCHANGED <<account, printers, made>>
        /\ go' = [go EXCEPT ![Ticker] = [l EXCEPT !.step = "write", !.todo = Devices, !.copies = read]]
    BY <1>11 DEF SyncReads, InSync, Become, rows
  <2>2. \A p \in DOMAIN printers : read[p].serial = printers[p].serial
    BY DEF NewRow
  <2>3. DOMAIN read = DOMAIN printers
    OBVIOUS
  <2> HIDE DEF read
  <2>4. n.step = "write" /\ n.token = l.token /\ n.todo = Devices /\ n.copies = read
    BY <1>1, <2>1 DEF Local
  <2> QED
    BY <1>3, <2>1, <2>2, <2>3, <2>4 DEF SyncMove
<1>12. ASSUME NEW device \in Devices, NEW offline \in BOOLEAN, SyncWrites(Ticker, device, offline)
       PROVE  WriteMove(device)
  <2>1. l.step = "write" /\ device \in l.todo /\ UNCHANGED account
    BY <1>12 DEF SyncWrites, InSync
  <2>2. l.email \in Emails \cup {None} /\ l.token \in Tokens /\ l.pass \in BOOLEAN
        /\ l.todo \in SUBSET Devices
    BY <1>1, <2>1 DEF Local, LocalFits
  <2>3. ASSUME NEW b \in BOOLEAN
        PROVE  LET row == Linked(l, device, b, offline) IN
               row \in Printer /\ row.cloud /\ row.serial = device /\ row.token = l.token
    BY <2>2 DEF Linked, Printer
  <2>4. ASSUME DeviceDone(Ticker, device)
        PROVE  /\ n.step = IF l.todo \subseteq {device} THEN "tick" ELSE "write"
               /\ n.step = "write" => /\ n.token = l.token /\ n.copies = l.copies
                                      /\ n.todo = l.todo \ {device}
    <3>1. CASE l.todo \ {device} = {}
      <4>1. n = [Idle EXCEPT !.step = "tick"]
        BY <1>1, <2>4, <3>1 DEF DeviceDone, Become
      <4>2. n.step = "tick"
        BY <4>1 DEF Idle
      <4> QED
        BY <3>1, <4>2
    <3>2. CASE l.todo \ {device} # {}
      <4>1. n = [l EXCEPT !.todo = l.todo \ {device}]
        BY <1>1, <2>4, <3>2 DEF DeviceDone, Become
      <4> QED
        BY <1>1, <2>1, <3>2, <4>1 DEF Local
    <3> QED
      BY <3>1, <3>2
  <2>5. ASSUME Return(Ticker) PROVE n.step = "idle"
    BY <1>1, <1>4, <2>5 DEF Return
  <2>6. ASSUME NEW p \in MatchesIn(l.copies, device),
               printers' = Written(p, Linked(l, device, l.copies[p].pass, offline)),
               IF p \in DOMAIN printers THEN DeviceDone(Ticker, device) ELSE Return(Ticker),
               UNCHANGED made
        PROVE  WriteMove(device)
    <3>1. p \in DOMAIN l.copies /\ l.copies[p].serial = device
      BY <2>6 DEF MatchesIn
    <3>2. l.copies[p].pass \in BOOLEAN
      BY <1>1, <3>1 DEF Printer
    <3> DEFINE new == Linked(l, device, l.copies[p].pass, offline)
    <3>3. new \in Printer /\ new.cloud /\ new.serial = device /\ new.token = l.token
      BY <2>3, <3>2
    <3>4. printers' = Written(p, new)
      BY <2>6
    <3> HIDE DEF new
    <3> QED
      BY <2>1, <2>4, <2>5, <2>6, <3>1, <3>3, <3>4 DEF WriteMove
  <2>7. ASSUME MatchesIn(l.copies, device) = {}, Inserted(Linked(l, device, FALSE, offline)),
               IF made < RowLimit THEN DeviceDone(Ticker, device) ELSE Return(Ticker)
        PROVE  WriteMove(device)
    <3>1. \A p \in DOMAIN l.copies : l.copies[p].serial # device
      BY <2>7 DEF MatchesIn
    <3> DEFINE new == Linked(l, device, FALSE, offline)
    <3>2. new \in Printer /\ new.cloud /\ new.serial = device /\ new.token = l.token
      BY <2>3
    <3>3. Inserted(new)
      BY <2>7
    <3> HIDE DEF new
    <3>4. made \in 0 .. RowLimit /\ RowLimit \in Nat
      BY CloudConstants DEF Inv, Rows, PrintersFit
    <3>5. CASE made < RowLimit
      BY <2>1, <2>4, <2>7, <3>1, <3>2, <3>3, <3>5 DEF WriteMove, Inserted
    <3>6. CASE made = RowLimit
      BY <2>1, <2>5, <2>7, <3>1, <3>3, <3>4, <3>6 DEF WriteMove, Inserted
    <3> QED
      BY <3>4, <3>5, <3>6
  <2> QED
    BY <1>12, <2>6, <2>7 DEF SyncWrites
<1> QED
  BY <1>2, <1>3, <1>5, <1>6, <1>7, <1>8, <1>9, <1>10, <1>11, <1>12 DEF Sync

\* Anything else: the rows that there are may change, but their ids do not, and the
\* ticker may end its pass over the printers.
OtherMove ==
  /\ UNCHANGED <<account, made>> /\ DOMAIN printers' = DOMAIN printers
  /\ \/ go'[Ticker] = go[Ticker]
     \/ go[Ticker].step \in {"tick", "poll"} /\ go'[Ticker].step \in {"idle", "poll"}

Moves == OtherMove \/ SyncMove \/ \E device \in Devices : WriteMove(device)

\* Polling and deriving a status only write rows that there are.
LEMMA PollsWrite ==
  ASSUME NEW g,
         \/ \E p : TickPollsLAN(g, p) \/ TickSignsIn(g, p) \/ TickPollsCloud(g, p)
         \/ MonitorStarts \/ TickLists(g)
         \/ SynchronizerStarts \/ \E p : SynchronizerWrites(p)
  PROVE  /\ UNCHANGED <<account, made, calm>> /\ DOMAIN printers' = DOMAIN printers
         /\ good \subseteq good'
<1>1. ASSUME NEW p, NEW row PROVE DOMAIN Written(p, row) = DOMAIN printers
  BY DEF Written
<1>2. CASE MonitorStarts \/ TickLists(g) \/ SynchronizerStarts
  BY <1>2 DEF MonitorStarts, TickLists, SynchronizerStarts, rows, cloud
<1>3. ASSUME NEW p, SynchronizerWrites(p)
      PROVE  /\ UNCHANGED <<account, made, calm>> /\ DOMAIN printers' = DOMAIN printers
             /\ good \subseteq good'
  BY <1>1, <1>3 DEF SynchronizerWrites, cloud
<1>4. ASSUME NEW p, TickPollsLAN(g, p) \/ TickSignsIn(g, p) \/ TickPollsCloud(g, p)
      PROVE  /\ UNCHANGED <<account, made, calm>> /\ DOMAIN printers' = DOMAIN printers
             /\ good \subseteq good'
  <2>1. ASSUME NEW row, MarkOnline(p, row) \/ MarkOffline(p, row)
        PROVE  DOMAIN printers' = DOMAIN printers
    BY <1>1, <2>1 DEF MarkOnline, MarkOffline
  <2>2. ASSUME TickPollsLAN(g, p) PROVE DOMAIN printers' = DOMAIN printers
    BY <2>1, <2>2 DEF TickPollsLAN
  <2>3. ASSUME TickSignsIn(g, p) PROVE DOMAIN printers' = DOMAIN printers
    <3>1. (\E row : printers' = Written(p, row)) \/ (\E row : MarkOffline(p, row))
      BY <2>3 DEF TickSignsIn
    <3> QED
      BY <1>1, <2>1, <3>1
  <2>4. ASSUME TickPollsCloud(g, p) PROVE DOMAIN printers' = DOMAIN printers
    BY <2>1, <2>4 DEF TickPollsCloud
  <2>5. DOMAIN printers' = DOMAIN printers
    BY <1>4, <2>2, <2>3, <2>4
  <2>6. UNCHANGED <<account, made, calm>> /\ good \subseteq good'
    BY <1>4 DEF TickPollsLAN, TickSignsIn, TickPollsCloud, Login, Issue, cloud
  <2> QED
    BY <2>5, <2>6
<1> QED
  BY <1>2, <1>3, <1>4

\* From then on only the three loops move.
LEMMA AloneMoves ==
  Inv /\ Roles /\ LeftAlone /\ [Next]_vars => LeftAlone' /\ good \subseteq good' /\ Moves
<1> SUFFICES ASSUME Inv, Roles, LeftAlone, [Next]_vars
             PROVE  LeftAlone' /\ good \subseteq good' /\ Moves
  OBVIOUS
<1>1. calm /\ \A g \in People : go[g].step = "idle"
  BY DEF LeftAlone
<1>2. ASSUME NEW g \in People PROVE ~Step(g) /\ ~PersonBegins(g)
  <2>1. g # Ticker /\ g # Monitor /\ g # Synchronizer /\ go[g].step = "idle"
    BY <1>1, LoopsApart
  <2>2. ~Step(g)
    BY <2>1, PlainSteps DEF Step
  <2>3. ~PersonBegins(g)
    BY <1>1 DEF PersonBegins, PersonSyncs, PersonLogsOut, PersonCreates, PersonEdits,
       PersonDeletes, PersonOpens, Asks
  <2> QED
    BY <2>2, <2>3
<1>3. ASSUME NEW g \in Loops, Step(g), calm' = calm PROVE LeftAlone'
  <2>1. g \in Goroutines /\ g \notin People /\ People \subseteq Goroutines
    BY LoopsApart DEF Loops
  <2>2. \A h \in People : go'[h] = go[h]
    BY <1>3, <2>1, OthersStay
  <2> QED
    BY <1>1, <1>3, <2>2 DEF LeftAlone
<1>4. ASSUME Step(Monitor) PROVE LeftAlone' /\ good \subseteq good' /\ Moves
  <2>1. /\ UNCHANGED <<account, made, calm>> /\ DOMAIN printers' = DOMAIN printers
        /\ good \subseteq good'
    BY <1>4, MonitorOnlyPolls, PollsWrite
  <2>2. go'[Ticker] = go[Ticker]
    BY <1>4, LoopsApart, OthersStay
  <2> QED
    BY <1>3, <1>4, <2>1, <2>2 DEF Moves, OtherMove, Loops
<1>5. ASSUME Step(Synchronizer) PROVE LeftAlone' /\ good \subseteq good' /\ Moves
  <2>1. /\ UNCHANGED <<account, made, calm>> /\ DOMAIN printers' = DOMAIN printers
        /\ good \subseteq good'
    BY <1>5, SynchronizerOnlyWrites, PollsWrite
  <2>2. go'[Ticker] = go[Ticker]
    BY <1>5, LoopsApart, OthersStay
  <2> QED
    BY <1>3, <1>5, <2>1, <2>2 DEF Moves, OtherMove, Loops
<1>6. ASSUME Step(Ticker) PROVE LeftAlone' /\ good \subseteq good' /\ Moves
  <2>1. Ticker \in Goroutines /\ TickerFits(go[Ticker]) /\ Ticker \in Loops
    BY LoopsApart DEF Roles, Loops
  <2>2. CASE Sync(Ticker) \/ TickerStarts \/ SyncLoads
    <3>1. good \subseteq good' /\ (SyncMove \/ \E device \in Devices : WriteMove(device))
      BY <1>1, <2>2, CalmSyncs
    <3>2. calm' = calm
      BY <2>2 DEF Sync, TickerStarts, SyncLoads, SyncLogsIn, SyncVerifies, SyncRefused, SyncLists,
         SyncSaves, SyncReads, SyncWrites, Login, Issue, cloud
    <3> QED
      BY <1>3, <1>6, <2>1, <3>1, <3>2 DEF Moves
  <2>3. CASE Tick(Ticker)
    <3>1. /\ UNCHANGED <<account, made, calm>> /\ DOMAIN printers' = DOMAIN printers
          /\ good \subseteq good'
      BY <2>3, PollsWrite DEF Tick
    <3>2. go[Ticker].step \in {"tick", "poll"}
      BY <2>3 DEF Tick, TickLists, TickPollsLAN, TickSignsIn, TickPollsCloud
    <3>3. go'[Ticker].step \in {"idle", "poll"}
      BY <2>1, <2>3, PollsRoles DEF Tick, TickLists, TickerFits
    <3> QED
      BY <1>3, <1>6, <2>1, <3>1, <3>2, <3>3 DEF Moves, OtherMove
  <2>4. ~Logout(Ticker) /\ \A p : ~Connects(Ticker, p) /\ ~Verifies(Ticker, p)
    BY <2>1 DEF TickerFits, LogoutSteps, Logout, LogoutReads, LogoutResets, LoggedOut,
       LogoutClears, Connects, Verifies
  <2> QED
    BY <1>6, <2>2, <2>3, <2>4, LoopsApart DEF Step
<1>7. CASE UNCHANGED vars
  BY <1>7 DEF vars, Moves, OtherMove, LeftAlone
<1>8. CASE Next
  BY <1>1, <1>2, <1>4, <1>5, <1>6, <1>8, LoopsApart
     DEF Next, BusyNext, PassTimesOut, Restart, Calm, Expire
<1> QED
  BY <1>7, <1>8

-----------------------------------------------------------------------------
(* Passwords, tokens and rows: what comes to be so and stays so.           *)

\* The premises of the steps below
Quiet == Inv /\ Roles /\ LeftAlone /\ good \subseteq good' /\ Moves

LEMMA LoopsAreQuiet ==
  Inv /\ Roles /\ LeftAlone /\ [Next]_vars => Quiet
  BY AloneMoves DEF Quiet

\* No row is lost.
LEMMA RowsRemain ==
  ASSUME Quiet
  PROVE  /\ DOMAIN printers \subseteq DOMAIN printers'
         /\ made = RowLimit => made' = made
<1>1. ASSUME NEW p, NEW row PROVE DOMAIN Written(p, row) = DOMAIN printers
  BY DEF Written
<1>2. ASSUME NEW row PROVE DOMAIN printers \subseteq DOMAIN Put(printers, made + 1, row)
  BY DEF Put
<1>3. RowLimit \in Nat
  BY CloudConstants
<1>4. ASSUME NEW device, WriteMove(device)
      PROVE  \/ printers' = printers /\ made' = made
             \/ (\E p, row : printers' = Written(p, row)) /\ made' = made
             \/ made < RowLimit /\ \E row : printers' = Put(printers, made + 1, row)
  BY <1>4 DEF WriteMove
<1>5. ASSUME NEW device, WriteMove(device)
      PROVE  DOMAIN printers \subseteq DOMAIN printers' /\ (made = RowLimit => made' = made)
  BY <1>1, <1>2, <1>3, <1>4, <1>5
<1>6. CASE OtherMove \/ SyncMove
  BY <1>6 DEF OtherMove, SyncMove
<1> QED
  BY <1>5, <1>6 DEF Quiet, Moves

\* A password, once it is saved, is not lost, nor is the e-mail.
LEMMA PasswordStays ==
  ASSUME Quiet, HasPassword
  PROVE  HasPassword' /\ account'.email = account.email
<1>1. account \in Account
  BY DEF HasPassword, Quiet, Inv, Rows, AccountFits
<1>2. \/ account' = account
      \/ /\ go[Ticker].step = "save"
         /\ account' = Saved(go[Ticker].email, go[Ticker].pass, go[Ticker].token)
  BY DEF Quiet, Moves, OtherMove, WriteMove, SyncMove
<1>3. go[Ticker].pass \in BOOLEAN /\ go[Ticker].token \in Tokens \cup {None}
  BY LoopsApart DEF Quiet, Inv, Locals, Local
<1>4. ASSUME NEW b \in BOOLEAN, NEW t \in Tokens \cup {None}, NEW e, account' = Saved(e, b, t)
      PROVE  account'.pass /\ account'.email = account.email /\ account' \in Account
  <2>1. account' = [account EXCEPT !.pass = account.pass \/ b,
                                   !.token = IF t # None THEN t ELSE account.token]
    BY <1>4 DEF HasPassword, Saved
  <2> QED
    BY <1>1, <1>4, <2>1 DEF HasPassword, Account
<1> QED
  BY <1>1, <1>2, <1>3, <1>4, NoAccountIsNone DEF HasPassword

\* The ticker has an e-mail and a password to log in with, then a token that is
\* accepted, and writes rows that there are.
Signed ==
  LET l == go[Ticker] IN
  /\ l.step \in {"load", "sign in", "list", "save"} => l.email = account.email
  /\ l.step \in {"load", "sign in", "list"} => l.pass
  /\ l.step \in {"save", "rows", "write"} => l.token \in good
  /\ l.step = "write" => DOMAIN l.copies \subseteq DOMAIN printers

\* The ticker, signed in, goes on so.
LEMMA SignedStays ==
  ASSUME Quiet, HasPassword, Signed
  PROVE  Signed'
<1> DEFINE l == go[Ticker]
           n == go'[Ticker]
<1>1. /\ account.email # None /\ account'.email = account.email /\ good \subseteq good'
      /\ DOMAIN printers \subseteq DOMAIN printers'
  BY PasswordStays, RowsRemain, CloudConstants
     DEF Quiet, Inv, Rows, AccountFits, Account, HasPassword
<1>2. ASSUME n.step \in {"idle", "tick", "poll"} PROVE Signed'
  BY <1>2 DEF Signed
<1>3. CASE n = l
  BY <1>1, <1>3 DEF Signed
<1>4. CASE OtherMove
  BY <1>2, <1>3, <1>4 DEF OtherMove
<1>5. CASE SyncMove
  <2>1. printers' = printers
    BY <1>5 DEF SyncMove
  <2>2. CASE n.step = "load"
    BY <1>1, <1>5, <2>2 DEF SyncMove, Signed, HasPassword
  <2>3. CASE n.step \in {"sign in", "list", "save"}
    BY <1>1, <1>5, <2>3 DEF SyncMove, Signed
  <2>4. CASE n.step \in {"rows", "write"}
    BY <1>1, <1>5, <2>1, <2>4 DEF SyncMove, Signed
  <2> QED
    BY <1>2, <1>5, <2>2, <2>3, <2>4 DEF SyncMove
<1>6. ASSUME NEW device \in Devices, WriteMove(device) PROVE Signed'
  <2>1. l.step = "write" /\ n.step \in {"write", "tick", "idle"}
    BY <1>6 DEF WriteMove
  <2>2. CASE n.step = "write"
    <3>1. n.token = l.token /\ n.copies = l.copies
      BY <1>6, <2>2 DEF WriteMove
    <3> QED
      BY <1>1, <2>1, <2>2, <3>1 DEF Signed
  <2> QED
    BY <1>2, <2>1, <2>2
<1> QED
  BY <1>4, <1>5, <1>6 DEF Quiet, Moves

-----------------------------------------------------------------------------
(* The account gets a token that works, and keeps it.                      *)

TokenWorks == account.token \in good

\* The sync of the ticker has not saved the account yet, or the account is well.
AccountOnTheWay ==
  go[Ticker].step \in {"load", "sign in", "list", "save"} \/ TokenWorks

LEMMA AccountGoesOn ==
  ASSUME Quiet, HasPassword, Signed
  PROVE  /\ TokenWorks => TokenWorks'
         /\ AccountOnTheWay => AccountOnTheWay'
         /\ go[Ticker].step = "idle" => go'[Ticker].step \in {"idle", "load"}
<1> DEFINE l == go[Ticker]
           n == go'[Ticker]
<1>1. /\ account \in Account /\ account.email # None /\ good \subseteq good'
      /\ None \notin good /\ account # None
  <2>1. None \notin Emails /\ None \notin Nat
    BY CloudConstants
  <2>2. good \subseteq Nat
    BY CloudConstants DEF Quiet, Inv, Counts
  <2> QED
    BY <2>1, <2>2 DEF Quiet, Inv, Rows, AccountFits, Account, HasPassword
<1>2. CASE UNCHANGED account
  <2>1. TokenWorks => TokenWorks'
    BY <1>1, <1>2 DEF TokenWorks
  <2>2. CASE SyncMove
    <3>1. l.step \in {"sign in", "list"} => l.email # None /\ l.pass
      BY <1>1 DEF Signed
    <3>2. l.step = "save" => MaySave(l.email)
      BY DEF Signed, MaySave
    <3>3. l.step = "save" => account' = Saved(l.email, l.pass, l.token)
      BY <2>2, <3>2 DEF SyncMove
    <3>4. l.step = "save" => TokenWorks'
      <4> SUFFICES ASSUME l.step = "save" PROVE TokenWorks'
        OBVIOUS
      <4>1. l.token \in good
        BY DEF Signed
      <4>2. account' = [account EXCEPT !.pass = account.pass \/ l.pass,
                                       !.token = IF l.token # None THEN l.token ELSE account.token]
        BY <1>1, <3>3 DEF Saved
      <4>3. account'.token = l.token
        BY <1>1, <4>1, <4>2 DEF Account
      <4> QED
        BY <1>1, <4>1, <4>3 DEF TokenWorks
    <3> QED
      BY <2>1, <2>2, <3>1, <3>2, <3>4 DEF SyncMove, AccountOnTheWay
  <2>3. CASE OtherMove
    BY <2>1, <2>3 DEF OtherMove, AccountOnTheWay
  <2>4. ASSUME NEW device, WriteMove(device)
        PROVE  /\ AccountOnTheWay => AccountOnTheWay'
               /\ l.step # "idle"
    BY <2>1, <2>4 DEF WriteMove, AccountOnTheWay
  <2> QED
    BY <2>1, <2>2, <2>3, <2>4 DEF Quiet, Moves
<1>3. CASE account' # account
  <2>1. l.step = "save" /\ account' = Saved(l.email, l.pass, l.token)
    BY <1>3 DEF Quiet, Moves, OtherMove, WriteMove, SyncMove
  <2>2. l.token \in good
    BY <2>1 DEF Signed
  <2>3. account' = [account EXCEPT !.pass = account.pass \/ l.pass,
                                   !.token = IF l.token # None THEN l.token ELSE account.token]
    BY <1>1, <2>1 DEF Saved
  <2>4. account'.token = l.token
    BY <1>1, <2>2, <2>3 DEF Account
  <2> QED
    BY <1>1, <2>1, <2>2, <2>4 DEF TokenWorks, AccountOnTheWay
<1> QED
  BY <1>2, <1>3

-----------------------------------------------------------------------------
(* A device gets a row that works, again and again.                        *)

\* No other row can be made.
Full == made = RowLimit

HasItsRow(device) == WorkingLink(device) \/ LostByBound

\* The sync of the ticker has the device before it, and gets to it.
OnTheWay(device) ==
  \/ go[Ticker].step \in {"load", "sign in", "list", "save", "rows"}
  \/ /\ go[Ticker].step = "write" /\ device \in go[Ticker].todo
     /\ Full => \A d \in go[Ticker].todo : MatchesIn(go[Ticker].copies, d) # {}

\* The device that is written has its row then.
LEMMA WriteLinks ==
  ASSUME Quiet, Signed, NEW device \in Devices, WriteMove(device),
         Full => MatchesIn(go[Ticker].copies, device) # {}
  PROVE  /\ WorkingLink(device)'
         /\ \A other \in go[Ticker].todo \ {device} :
              /\ go'[Ticker].step = "write" /\ go'[Ticker].copies = go[Ticker].copies
              /\ go'[Ticker].todo = go[Ticker].todo \ {device}
<1> DEFINE l == go[Ticker]
           n == go'[Ticker]
           done == /\ n.step = IF l.todo \subseteq {device} THEN "tick" ELSE "write"
                   /\ n.step = "write" => /\ n.token = l.token /\ n.copies = l.copies
                                          /\ n.todo = l.todo \ {device}
<1>1. /\ l.step = "write" /\ l.token \in good /\ good \subseteq good'
      /\ DOMAIN l.copies \subseteq DOMAIN printers
  BY DEF WriteMove, Signed, Quiet
<1>2. ASSUME NEW p \in DOMAIN printers', printers'[p].cloud, printers'[p].serial = device,
             printers'[p].token = l.token
      PROVE  WorkingLink(device)'
  BY <1>1, <1>2 DEF WorkingLink
<1>3. done => \A other \in l.todo \ {device} :
                n.step = "write" /\ n.copies = l.copies /\ n.todo = l.todo \ {device}
  OBVIOUS
<1>4. ASSUME NEW p \in DOMAIN l.copies, NEW new \in Printer,
             printers' = Written(p, new), new.cloud, new.serial = device, new.token = l.token
      PROVE  WorkingLink(device)'
  <2>1. p \in DOMAIN printers' /\ printers'[p] = new
    BY <1>1, <1>4 DEF Written
  <2> QED
    BY <1>2, <1>4, <2>1
<1>5. ASSUME NEW new \in Printer,
             printers' = Put(printers, made + 1, new), new.cloud, new.serial = device,
             new.token = l.token
      PROVE  WorkingLink(device)'
  <2>1. made + 1 \in DOMAIN printers' /\ printers'[made + 1] = new
    BY <1>5 DEF Put
  <2> QED
    BY <1>2, <1>5, <2>1
<1>6. CASE \A p \in DOMAIN l.copies : l.copies[p].serial # device
  <2>1. made # RowLimit
    BY <1>6 DEF MatchesIn, Full
  <2> QED
    BY <1>3, <1>5, <1>6, <2>1 DEF WriteMove
<1>7. CASE \E p \in DOMAIN l.copies : l.copies[p].serial = device
  <2>1. /\ \E p \in DOMAIN l.copies, new \in Printer :
             /\ printers' = Written(p, new) /\ new.cloud /\ new.serial = device
             /\ new.token = l.token
        /\ done
    BY <1>1, <1>7 DEF WriteMove
  <2> QED
    BY <1>3, <1>4, <2>1
<1> QED
  BY <1>6, <1>7

\* The ticker goes on towards the device, as long as it has no row that works.
LEMMA WayGoesOn ==
  ASSUME Quiet, HasPassword, Signed, Full <=> Full', NEW device \in Devices,
         ~HasItsRow(device), ~HasItsRow(device)', OnTheWay(device)
  PROVE  OnTheWay(device)'
<1> DEFINE l == go[Ticker]
           n == go'[Ticker]
<1>1. CASE OtherMove
  BY <1>1 DEF OtherMove, OnTheWay
<1>2. CASE SyncMove
  <2>1. account.email # None
    BY CloudConstants DEF Quiet, Inv, Rows, AccountFits, Account, HasPassword
  <2>2. l.step \in {"sign in", "list"} => l.email # None /\ l.pass
    BY <2>1 DEF Signed
  <2>3. l.step = "save" => MaySave(l.email)
    BY DEF Signed, MaySave
  <2>4. \/ n.step \in {"load", "sign in", "list", "save", "rows"}
        \/ /\ n.step = "write" /\ n.todo = Devices /\ DOMAIN n.copies = DOMAIN printers
           /\ \A p \in DOMAIN printers : n.copies[p].serial = printers[p].serial
    BY <1>2, <2>2, <2>3 DEF SyncMove, OnTheWay
  <2>5. Full => \A d \in Devices : \E p \in DOMAIN printers : printers[p].serial = d
    BY DEF HasItsRow, LostByBound, Full
  <2> QED
    BY <2>4, <2>5 DEF OnTheWay, MatchesIn
<1>3. ASSUME NEW other \in Devices, WriteMove(other) PROVE OnTheWay(device)'
  <2>1. /\ l.step = "write" /\ device \in l.todo /\ other \in l.todo
        /\ Full => \A d \in l.todo : MatchesIn(l.copies, d) # {}
    BY <1>3 DEF OnTheWay, WriteMove
  <2>2. other # device
    BY <1>3, <2>1, WriteLinks DEF HasItsRow
  <2>3. n.step = "write" /\ n.copies = l.copies /\ n.todo = l.todo \ {other}
    BY <1>3, <2>1, <2>2, WriteLinks
  <2> QED
    BY <2>1, <2>2, <2>3 DEF OnTheWay
<1> QED
  BY <1>1, <1>2, <1>3 DEF Quiet, Moves

-----------------------------------------------------------------------------
(* The behaviors of the loops that are left alone.                         *)

TickerAt(s) == go[Ticker].step = s

\* The loops take turns, are never stuck, and the ticker goes round for ever.
LoopsRun ==
  /\ [](Inv /\ Roles /\ LeftAlone) /\ [][Next]_vars
  /\ []StepsGoOn /\ WF_vars(Step(Ticker)) /\ []<>TickerAt("idle")

\* The next step of g is there to be taken.
CanStep(g) == ENABLED <<Step(g)>>_vars

LEMMA TickerCanStep == StepsGoOn /\ HasPassword => ENABLED <<Step(Ticker)>>_vars
<1>1. StepsGoOn => \A g \in Goroutines : g = Ticker /\ account # None => CanStep(g)
  BY DEF StepsGoOn, CanStep
<1>2. ASSUME StepsGoOn, HasPassword PROVE CanStep(Ticker)
  <2>1. Ticker \in Goroutines
    BY LoopsApart
  <2>2. account # None
    BY <1>2 DEF HasPassword
  <2> QED
    BY <1>1, <1>2, <2>1, <2>2, Zenon
<1>3. CanStep(Ticker) => ENABLED <<Step(Ticker)>>_vars
  BY DEF CanStep
<1> QED
  BY <1>2, <1>3

\* An idle ticker that moves sets out.
LEMMA TickerSetsOut ==
  ASSUME Inv, Roles, TickerAt("idle"), Step(Ticker)
  PROVE  TickerAt("load")'
<1>1. Ticker \in Goroutines /\ go \in [Goroutines -> Local(made)] /\ TickerStarts
  <2>1. ~SyncLoads
    BY DEF SyncLoads, InSync, TickerAt
  <2> QED
    BY <2>1, LoopsApart, PlainSteps DEF Step, TickerAt, Inv, Locals
<1> DEFINE s == [Idle EXCEPT !.step = "load", !.email = account.email,
                             !.pass = account.pass, !.token = account.token]
<1>2. go'[Ticker] = s
  BY <1>1 DEF TickerStarts, Become
<1>3. s.step = "load"
  BY DEF Idle
<1> QED
  BY <1>2, <1>3 DEF TickerAt

\* Fairness and the end of passes, for every loop
GoesOn(g) == WF_vars(Step(g))
AllGoOn   == \A g \in Goroutines : GoesOn(g)
Rests(g)  == []<>(go[g].step = "idle")
AllRest   == \A g \in Loops : Rests(g)

LEMMA CalmStays == calm /\ [Next]_vars => calm'
<1>1. \A t, result : Issue(t) \/ Login(result, t) => calm' = calm
  BY DEF Issue, Login, cloud
<1>2. UNCHANGED cloud => calm' = calm
  BY DEF cloud
<1>3. ASSUME NEW g, Sync(g) PROVE calm' = calm
  BY <1>1, <1>2, <1>3 DEF Sync, SyncLogsIn, SyncVerifies, SyncRefused, SyncLists, SyncSaves,
     SyncReads, SyncWrites
<1>4. ASSUME NEW g, Tick(g) PROVE calm' = calm
  BY <1>1, <1>2, <1>4 DEF Tick, TickLists, TickPollsLAN, TickSignsIn, TickPollsCloud
<1>5. ASSUME NEW g, Logout(g) PROVE calm' = calm
  BY <1>2, <1>5 DEF Logout, LogoutReads, LogoutClears, LogoutResets, LoggedOut
<1>6. ASSUME NEW g, NEW p, Connects(g, p) PROVE calm' = calm
  <2>1. \/ \E row : ConnectsWith(p, row)
        \/ UNCHANGED cloud
    BY <1>6 DEF Connects
  <2>2. ASSUME NEW row, ConnectsWith(p, row) PROVE calm' = calm
    BY <1>1, <1>2, <2>2 DEF ConnectsWith
  <2> QED
    BY <1>2, <2>1, <2>2
<1>7. ASSUME NEW g, Step(g) PROVE calm' = calm
  BY <1>1, <1>2, <1>3, <1>4, <1>5, <1>6, <1>7 DEF Step, TickerStarts, SyncLoads, MonitorStarts,
     SynchronizerStarts, SynchronizerWrites, Verifies
<1>8. ASSUME calm, NEW g \in People, PersonBegins(g) PROVE calm'
  BY <1>8 DEF PersonBegins, PersonSyncs, PersonLogsOut, PersonCreates, PersonEdits,
     PersonDeletes, PersonOpens, Asks
<1> QED
  BY <1>2, <1>7, <1>8 DEF Next, BusyNext, PassTimesOut, Restart, Calm, Expire, vars

LEMMA CalmLeavesLoops == Spec /\ []StepsGoOn /\ PassesEnd /\ <>calm => <>LoopsRun
<1>1. Spec => []Inv /\ []Roles
  BY InvHolds, RolesHold
<1>2. Fairness => AllGoOn
  BY PTL DEF Fairness, AllGoOn, GoesOn
<1>3. AllGoOn => GoesOn(Ticker)
  BY LoopsApart DEF AllGoOn
<1>4. PassesEnd => []<>(calm => LeftAlone) /\ AllRest
  BY PTL DEF PassesEnd, AllRest, Rests
<1>5. AllRest => Rests(Ticker)
  BY DEF AllRest, Loops
<1>6. Inv /\ Roles /\ LeftAlone /\ [Next]_vars => LeftAlone'
  BY AloneMoves
<1>7. go[Ticker].step = "idle" <=> TickerAt("idle")
  BY DEF TickerAt
<1>8. Rests(Ticker) => []<>TickerAt("idle")
  BY <1>7, PTL DEF Rests
<1> QED
  BY <1>1, <1>2, <1>3, <1>4, <1>5, <1>6, <1>8, CalmStays, PTL DEF Spec, LoopsRun, GoesOn

\* A password is there for ever or never.
LEMMA PasswordForEver == LoopsRun => []~HasPassword \/ <>[]HasPassword
<1>1. Inv /\ Roles /\ LeftAlone /\ [Next]_vars => (HasPassword => HasPassword')
  BY LoopsAreQuiet, PasswordStays
<1> QED
  BY <1>1, PTL DEF LoopsRun

\* From its next pass on the ticker is signed in.
LEMMA TickerSignsIn == LoopsRun /\ []HasPassword => <>[]Signed
<1>1. TickerAt("idle") => Signed
  BY DEF TickerAt, Signed
<1>2. Inv /\ Roles /\ LeftAlone /\ [Next]_vars /\ HasPassword => (Signed => Signed')
  BY LoopsAreQuiet, SignedStays
<1> QED
  BY <1>1, <1>2, PTL DEF LoopsRun

\* A pass of the ticker saves a token that works, and every later one keeps it.
LEMMA AccountHeals == LoopsRun /\ []HasPassword /\ []Signed => <>[]TokenWorks
<1>1. Inv /\ Roles /\ LeftAlone /\ [Next]_vars /\ HasPassword /\ Signed =>
        /\ TokenWorks => TokenWorks'
        /\ AccountOnTheWay => AccountOnTheWay'
        /\ TickerAt("idle") => TickerAt("idle")' \/ AccountOnTheWay'
  BY LoopsAreQuiet, AccountGoesOn DEF TickerAt, AccountOnTheWay
<1>2. Inv /\ Roles /\ <<Step(Ticker)>>_vars /\ TickerAt("idle") => AccountOnTheWay'
  BY TickerSetsOut DEF TickerAt, AccountOnTheWay
<1>3. TickerAt("idle") /\ AccountOnTheWay => TokenWorks
  BY DEF TickerAt, AccountOnTheWay
<1> QED
  BY <1>1, <1>2, <1>3, TickerCanStep, PTL DEF LoopsRun

\* And no pass of the ticker ends before the device had a row that works.
LEMMA DeviceHeals ==
  ASSUME NEW device \in Devices
  PROVE  LoopsRun /\ []HasPassword /\ []Signed => []<>HasItsRow(device)
<1> DEFINE Done == HasItsRow(device)
           Way  == OnTheWay(device)
<1>1. Inv /\ Roles /\ LeftAlone /\ [Next]_vars /\ HasPassword /\ Signed =>
        /\ Full => Full'
        /\ TickerAt("idle") => TickerAt("idle")' \/ Way'
        /\ Way /\ ~Done /\ ~Done' /\ (Full <=> Full') => Way'
  <2> SUFFICES ASSUME Inv /\ Roles /\ LeftAlone /\ [Next]_vars, HasPassword, Signed
               PROVE  /\ Full => Full'
                      /\ TickerAt("idle") => TickerAt("idle")' \/ Way'
                      /\ Way /\ ~Done /\ ~Done' /\ (Full <=> Full') => Way'
    OBVIOUS
  <2>1. Quiet
    BY LoopsAreQuiet
  <2>2. Full => Full'
    BY <2>1, RowsRemain DEF Full
  <2>3. TickerAt("idle") => TickerAt("idle")' \/ Way'
    BY <2>1, AccountGoesOn DEF TickerAt, OnTheWay
  <2>4. Way /\ ~Done /\ ~Done' /\ (Full <=> Full') => Way'
    BY <2>1, WayGoesOn
  <2> QED
    BY <2>2, <2>3, <2>4
<1>2. Inv /\ Roles /\ <<Step(Ticker)>>_vars /\ TickerAt("idle") => Way'
  BY TickerSetsOut DEF TickerAt, OnTheWay
<1>3. Way => ~TickerAt("idle")
  BY DEF TickerAt, OnTheWay
<1> HIDE DEF Done, Way
<1>4. LoopsRun /\ []HasPassword /\ []Signed => []<>Done
  BY <1>1, <1>2, <1>3, TickerCanStep, PTL DEF LoopsRun
<1> QED
  BY <1>4 DEF Done

\* Without a password nothing is promised; a row and a token that work, with one.
AccountIsWell == <>[](calm /\ HasPassword => account.token \in good)
DeviceIsWell(device) == []<>(calm /\ HasPassword => WorkingLink(device) \/ LostByBound)

LEMMA RunHealsAccount == LoopsRun => AccountIsWell
<1>1. TokenWorks <=> account.token \in good
  BY DEF TokenWorks
<1> QED
  BY <1>1, PasswordForEver, TickerSignsIn, AccountHeals, PTL DEF LoopsRun, AccountIsWell

LEMMA RunHealsDevice ==
  ASSUME NEW device \in Devices
  PROVE  LoopsRun => DeviceIsWell(device)
<1>1. HasItsRow(device) <=> WorkingLink(device) \/ LostByBound
  BY DEF HasItsRow
<1>2. LoopsRun /\ []HasPassword /\ []Signed => []<>HasItsRow(device)
  BY DeviceHeals
<1> QED
  BY <1>1, <1>2, PasswordForEver, TickerSignsIn, PTL DEF LoopsRun, DeviceIsWell

\* For any people, devices, tokens and rows: whatever expired, and whichever stale
\* rows the monitor and the synchronizer go on to write back, the passes of the
\* ticker (SyncFromCloud) give an account with its password a token that works, for
\* good, and every device a row that works, again and again.  The premises are
\* checked of every goroutine: its next step is there to be taken, and the
\* pass over the rows it has listed ends.
THEOREM HealsAfterExpiryHolds == Spec /\ []StepsGoOn /\ PassesEnd => HealsAfterExpiry
<1> DEFINE F == Spec /\ []StepsGoOn /\ PassesEnd
<1>1. F => AccountIsWell
  BY RunHealsAccount, CalmLeavesLoops, PTL DEF AccountIsWell
<1>2. ASSUME NEW device \in Devices PROVE F => DeviceIsWell(device)
  <2>1. LoopsRun => DeviceIsWell(device)
    BY RunHealsDevice
  <2> QED
    BY <2>1, CalmLeavesLoops, PTL DEF DeviceIsWell
<1> HIDE DEF F
<1>3. F => \A device \in Devices : DeviceIsWell(device)
  BY <1>2
<1>4. AccountIsWell /\ (\A device \in Devices : DeviceIsWell(device)) => HealsAfterExpiry
  BY PTL DEF AccountIsWell, DeviceIsWell, HealsAfterExpiry
<1> QED
  BY <1>1, <1>3, <1>4 DEF F
=============================================================================
