----------------------------- MODULE Notifications -----------------------------
(***************************************************************************)
(* The notification service and the event streams of the browsers.         *)
(*                                                                         *)
(* Whoever publishes an event appends it to a history and offers it, under *)
(* one lock, to the channel of every open stream; a channel that is full   *)
(* misses it.  The handler of a stream takes events off its own channel    *)
(* without the lock, drops those of other sites and writes the rest; a     *)
(* browser, a timeout of the server or a restart may end it at any point.  *)
(*                                                                         *)
(* Source: internal/usecase/notification/service.go,                       *)
(* internal/delivery/http/{sse,site_scope,handlers_inventory}.go.          *)
(***************************************************************************)
EXTENDS Naturals, Sequences, SequencesExt

CONSTANTS
  Sites,
  Streams,    \* requests for /events
  Events,     \* how many events a life of the process has (a bound)
  Capacity,   \* of a channel: 16 in the code
  ShowLimit,  \* how many events /api/notifications looks at: 50 in the code
  None

ASSUME NotificationConstants ==
  /\ Capacity \in Nat \ {0} /\ ShowLimit \in Nat \ {0} /\ Events \in Nat
  /\ None \notin Sites

VARIABLES
  items,      \* Service.items
  published,  \* how many events there were in this life of the process
  expired,    \* how many of them are older than the ttl
  subs,       \* Service.subs, as the streams whose channels they are
  buffer,     \* [Streams -> what is in the channel]
  site,       \* [Streams -> the active site of the session that opened it]
  held,       \* [Streams -> the event the handler is writing, or None]
  sent,       \* history: [Streams -> what was written since it opened]
  missed,     \* history: [Streams -> events its channel had no room for]
  since       \* history: [Streams -> published when it opened]

hub    == <<items, published, expired>>
stream == <<subs, buffer, site, held, sent, missed, since>>
vars   == <<hub, stream>>

\* An event, numbered as published, and the site that its payload names, if any
Event == [id : Nat \ {0}, tag : Sites \cup {None}]

ASSUME NoneIsNoEvent == None \notin Event

-----------------------------------------------------------------------------
(* The service.                                                            *)

\* kept[n] is what the loop over the events has appended after n of them.
Kept(events, wanted) ==
  LET kept[n \in 0 .. Len(events)] ==
        IF n = 0 THEN <<>>
        ELSE IF events[n] \in wanted THEN Append(kept[n - 1], events[n]) ELSE kept[n - 1]
  IN  kept

\* The events that are wanted, in their order
Filter(events, wanted) == Kept(events, wanted)[Len(events)]

\* Mutant: events are kept for good
KeepAll(events) == events

\* pruneLocked: what is older than the ttl goes.
Prune(events) == Filter(events, {e \in Event : e.id > expired})

HasRoom(s) == Len(buffer[s]) < Capacity

\* Mutant: one full channel keeps the event from all others
OfferToAllOrNone(e) ==
  /\ buffer' = [s \in Streams |-> IF s \in subs /\ \A o \in subs : HasRoom(o)
                                 THEN Append(buffer[s], e) ELSE buffer[s]]
  /\ missed' = [s \in Streams |-> missed[s] + (IF s \in subs /\ ~HasRoom(s) THEN 1 ELSE 0)]

\* Every channel gets the event at once, or misses it when it is full.
Offer(e) ==
  /\ buffer' = [s \in Streams |-> IF s \in subs /\ HasRoom(s) THEN Append(buffer[s], e)
                                                               ELSE buffer[s]]
  /\ missed' = [s \in Streams |-> missed[s] + (IF s \in subs /\ ~HasRoom(s) THEN 1 ELSE 0)]

\* Spool and printer events of the scheduler and of the handlers name their site;
\* those of the monitor and of a forgotten password name none.
Publish(tag) ==
  LET e == [id |-> published + 1, tag |-> tag] IN
  /\ published < Events /\ published' = published + 1
  /\ items' = Append(Prune(items), e)
  /\ Offer(e)
  /\ UNCHANGED <<expired, subs, site, held, sent, since>>

\* Time passes: the oldest event that was fresh is older than the ttl.
Age ==
  /\ expired < published /\ expired' = expired + 1
  /\ UNCHANGED <<items, published, stream>>

\* List prunes; the handler shows the newest events of the reader's site, newest
\* first, out of the last ShowLimit of all sites.
List ==
  /\ items' = Prune(items) /\ items' # items
  /\ UNCHANGED <<published, expired, stream>>

\* eventMatchesSite: a reader without an active site sees all, the others only
\* what names their site.
EventMatchesSite(e, reader) == reader = None \/ e.tag = reader

ListRecent(events) ==
  SubSeq(events, IF Len(events) > ShowLimit THEN Len(events) - ShowLimit + 1 ELSE 1,
         Len(events))

Shown(reader) ==
  Reverse(Filter(ListRecent(Prune(items)), {e \in Event : EventMatchesSite(e, reader)}))

-----------------------------------------------------------------------------
(* A stream.                                                               *)

\* The site is the one the session has when the stream opens.
Subscribe(s, reader) ==
  /\ s \notin subs
  /\ subs' = subs \cup {s}
  /\ buffer' = [buffer EXCEPT ![s] = <<>>]
  /\ site' = [site EXCEPT ![s] = reader]
  /\ held' = [held EXCEPT ![s] = None]
  /\ sent' = [sent EXCEPT ![s] = <<>>]
  /\ missed' = [missed EXCEPT ![s] = 0]
  /\ since' = [since EXCEPT ![s] = published]
  /\ UNCHANGED hub

\* Mutant: an event that is not the reader's stays where it is
ReceiveOwn(s) ==
  /\ s \in subs /\ held[s] = None /\ buffer[s] # <<>>
  /\ EventMatchesSite(Head(buffer[s]), site[s])
  /\ buffer' = [buffer EXCEPT ![s] = Tail(@)]
  /\ held' = [held EXCEPT ![s] = Head(buffer[s])]
  /\ UNCHANGED <<hub, subs, site, sent, missed, since>>

\* The handler takes an event off its channel; another site's is dropped.
Receive(s) ==
  /\ s \in subs /\ held[s] = None /\ buffer[s] # <<>>
  /\ buffer' = [buffer EXCEPT ![s] = Tail(@)]
  /\ held' = IF EventMatchesSite(Head(buffer[s]), site[s])
             THEN [held EXCEPT ![s] = Head(buffer[s])] ELSE held
  /\ UNCHANGED <<hub, subs, site, sent, missed, since>>

Write(s) ==
  /\ s \in subs /\ held[s] # None
  /\ sent' = [sent EXCEPT ![s] = Append(@, held[s])]
  /\ held' = [held EXCEPT ![s] = None]
  /\ UNCHANGED <<hub, subs, buffer, site, missed, since>>

\* The browser leaves, or a write fails because the server's time for one
\* response (HTTPWriteTimeout) is over; what the handler had is lost.
Unsubscribe(s) ==
  /\ s \in subs
  /\ subs' = subs \ {s}
  /\ buffer' = [buffer EXCEPT ![s] = <<>>]
  /\ held' = [held EXCEPT ![s] = None]
  /\ sent' = [sent EXCEPT ![s] = <<>>]
  /\ missed' = [missed EXCEPT ![s] = 0]
  /\ site' = [site EXCEPT ![s] = None] /\ since' = [since EXCEPT ![s] = 0]
  /\ UNCHANGED hub

Init ==
  /\ items = <<>> /\ published = 0 /\ expired = 0 /\ subs = {}
  /\ buffer = [s \in Streams |-> <<>>] /\ site = [s \in Streams |-> None]
  /\ held = [s \in Streams |-> None] /\ sent = [s \in Streams |-> <<>>]
  /\ missed = [s \in Streams |-> 0] /\ since = [s \in Streams |-> 0]

\* The process stops: history and streams are gone.
Restart ==
  /\ items' = <<>> /\ published' = 0 /\ expired' = 0
  /\ subs' = {}
  /\ buffer' = [s \in Streams |-> <<>>] /\ site' = [s \in Streams |-> None]
  /\ held' = [s \in Streams |-> None] /\ sent' = [s \in Streams |-> <<>>]
  /\ missed' = [s \in Streams |-> 0] /\ since' = [s \in Streams |-> 0]

StreamStep(s) == Receive(s) \/ Write(s)

Next ==
  \/ Age \/ List \/ Restart
  \/ \E tag \in Sites \cup {None} : Publish(tag)
  \/ \E s \in Streams : StreamStep(s) \/ Unsubscribe(s)
                        \/ \E reader \in Sites \cup {None} : Subscribe(s, reader)

\* The goroutine of an open stream goes on.
Spec == Init /\ [][Next]_vars /\ \A s \in Streams : WF_vars(StreamStep(s))

-----------------------------------------------------------------------------
(* Properties.                                                             *)

\* Events have their form, and channels keep within their capacity.
TypeOK ==
  /\ items \in Seq(Event) /\ expired \in 0 .. published
  /\ subs \subseteq Streams
  /\ \A s \in Streams :
       /\ buffer[s] \in Seq(Event) /\ Len(buffer[s]) <= Capacity
       /\ site[s] \in Sites \cup {None} /\ held[s] \in Event \cup {None}
       /\ sent[s] \in Seq(Event) /\ missed[s] \in Nat /\ since[s] \in Nat

\* Everything of a stream, in its order: what was written, is written and waits
Trail(s) == sent[s] \o (IF held[s] = None THEN <<>> ELSE <<held[s]>>) \o buffer[s]

\* A stream gets what is published while it is open once, in order, and nothing
\* of another site or from before; all of it unless its channel was full, and
\* then no more is lost than its channel had no room for, whatever happens to
\* the channels of others.
StreamsLoseOnlyOverflow ==
  \A s \in subs :
    LET trail == Trail(s)
        own == {i \in 1 .. Len(trail) : EventMatchesSite(trail[i], site[s])} IN
    /\ \A i \in 1 .. Len(trail) : trail[i].id > since[s]
    /\ \A i, j \in 1 .. Len(trail) : i < j => trail[i].id < trail[j].id
    /\ site[s] # None => \A i \in 1 .. Len(sent[s]) : sent[s][i].tag = site[s]
    /\ \A k \in 1 .. Len(items) :
         (missed[s] = 0 /\ items[k].id > since[s] /\ EventMatchesSite(items[k], site[s]))
         => \E i \in own : trail[i] = items[k]

\* The history holds every fresh event, in order, and what is shown of it is
\* fresh and the reader's own.
HistoryKeepsFresh ==
  /\ \A id \in expired + 1 .. published : \E i \in 1 .. Len(items) : items[i].id = id
  /\ \A reader \in Sites \cup {None} : \A i \in 1 .. Len(Shown(reader)) :
       /\ Shown(reader)[i].id > expired
       /\ reader # None => Shown(reader)[i].tag = reader
       /\ i > 1 => Shown(reader)[i].id < Shown(reader)[i - 1].id

\* What a channel took is written to the browser, if it is of its site, or the
\* stream has ended: an event that the handler drops holds up none behind it.
TakenIsWritten ==
  \A s \in Streams : \A id \in 1 .. Events :
    (\E i \in 1 .. Len(buffer[s]) :
       buffer[s][i].id = id /\ EventMatchesSite(buffer[s][i], site[s]))
    ~> (s \notin subs \/ \E i \in 1 .. Len(sent[s]) : sent[s][i].id = id)
=============================================================================
