------------------------- MODULE NotificationsProofs -------------------------
(***************************************************************************)
(* Proofs about Notifications, for any streams, sites, capacity and number *)
(* of events: what a loop over the history keeps, the types, what a stream *)
(* may lose, what the history holds, and that what a channel took is       *)
(* written.                                                                *)
(***************************************************************************)
EXTENDS Notifications, WellFoundedInduction, SequenceTheorems, TLAPS

-----------------------------------------------------------------------------
(* Induction.                                                              *)

\* Induction over the naturals, as a fact about sets
LEMMA SetInduction ==
  ASSUME NEW S \in SUBSET Nat, 0 \in S, \A n \in S : n + 1 \in S
  PROVE  S = Nat
<1> DEFINE T == Nat \ S
           R == OpToRel(<, Nat)
<1>1. IsWellFoundedOn(R, Nat)
  BY NatLessThanWellFounded
<1>2. CASE T # {}
  <2>1. PICK x \in T : \A y \in T : <<y, x>> \notin R
    BY <1>1, <1>2, WFMin
  <2>2. x \in Nat /\ x # 0
    BY <2>1
  <2>3. x - 1 \in Nat /\ (x - 1) + 1 = x
    BY <2>2
  <2>4. x - 1 \in T
    BY <2>1, <2>3
  <2>5. <<x - 1, x>> \in R
    BY <2>2, <2>3 DEF OpToRel
  <2> QED
    BY <2>1, <2>4, <2>5
<1> QED
  BY <1>2

-----------------------------------------------------------------------------
(* What the loop keeps.                                                    *)

\* What the loop has after n events when f says what it had before
Loop(events, wanted, f, n) ==
  IF n = 0 THEN <<>>
  ELSE IF events[n] \in wanted THEN Append(f[n - 1], events[n]) ELSE f[n - 1]

IsLoop(events, wanted, m, f) == f = [n \in 0 .. m |-> Loop(events, wanted, f, n)]

\* There is such a function for a list of any length.
LEMMA LoopExists ==
  ASSUME NEW events, NEW wanted
  PROVE  \A m \in Nat : \E f : IsLoop(events, wanted, m, f)
<1> DEFINE S == {m \in Nat : \E f : IsLoop(events, wanted, m, f)}
<1>1. 0 \in S
  <2> DEFINE f == [n \in 0 .. 0 |-> <<>>]
  <2>1. f = [n \in 0 .. 0 |-> Loop(events, wanted, f, n)]
    BY DEF Loop
  <2> QED
    BY <2>1 DEF IsLoop
<1>2. ASSUME NEW m \in S PROVE m + 1 \in S
  <2>1. PICK f : IsLoop(events, wanted, m, f)
    OBVIOUS
  <2> DEFINE g == [n \in 0 .. m + 1 |-> Loop(events, wanted, f, n)]
  <2>2. ASSUME NEW n \in 0 .. m PROVE f[n] = g[n]
    <3>1. f = [k \in 0 .. m |-> Loop(events, wanted, f, k)]
      BY <2>1 DEF IsLoop
    <3> HIDE DEF Loop
    <3>2. f[n] = Loop(events, wanted, f, n)
      BY <3>1
    <3>3. n \in 0 .. m + 1
      OBVIOUS
    <3> QED
      BY <3>2, <3>3
  <2>3. ASSUME NEW n \in 0 .. m + 1
        PROVE  Loop(events, wanted, f, n) = Loop(events, wanted, g, n)
    <3>1. CASE n = 0
      BY <3>1 DEF Loop
    <3>2. CASE n # 0
      <4>1. n - 1 \in 0 .. m
        BY <3>2
      <4>2. f[n - 1] = g[n - 1]
        BY <4>1, <2>2
      <4> HIDE DEF g
      <4> QED
        BY <3>2, <4>2 DEF Loop
    <3> QED
      BY <3>1, <3>2
  <2>4. g = [n \in 0 .. m + 1 |-> Loop(events, wanted, g, n)]
    <3> DEFINE h == [n \in 0 .. m + 1 |-> Loop(events, wanted, g, n)]
    <3> SUFFICES ASSUME NEW n \in 0 .. m + 1 PROVE g[n] = h[n]
      OBVIOUS
    <3>1. g[n] = Loop(events, wanted, f, n) /\ h[n] = Loop(events, wanted, g, n)
      OBVIOUS
    <3> HIDE DEF g, h
    <3> QED
      BY <3>1, <2>3
  <2> HIDE DEF g
  <2>5. IsLoop(events, wanted, m + 1, g)
    BY <2>4 DEF IsLoop
  <2> QED
    BY <2>5
<1>3. S = Nat
  <2> HIDE DEF S
  <2>1. S \in SUBSET Nat
    BY DEF S
  <2> QED
    BY <1>1, <1>2, <2>1, SetInduction
<1> QED
  BY <1>3

\* So the definition of the model is one.
LEMMA KeptIsLoop ==
  ASSUME NEW T, NEW events \in Seq(T), NEW wanted
  PROVE  IsLoop(events, wanted, Len(events), Kept(events, wanted))
<1>0. Len(events) \in Nat
  OBVIOUS
<1>1. \E f : IsLoop(events, wanted, Len(events), f)
  BY <1>0, LoopExists
<1>2. Kept(events, wanted) = CHOOSE f : IsLoop(events, wanted, Len(events), f)
  BY DEF Kept, IsLoop, Loop
<1> QED
  BY <1>1, <1>2

\* kept has been picked from the first m events, at the places that at gives.
Picked(events, wanted, m, kept, at) ==
  /\ at \in [1 .. Len(kept) -> 1 .. m]
  /\ \A i \in 1 .. Len(kept) : kept[i] = events[at[i]] /\ kept[i] \in wanted
  /\ \A i, j \in 1 .. Len(kept) : i < j => at[i] < at[j]
  /\ \A n \in 1 .. m : events[n] \in wanted => \E i \in 1 .. Len(kept) : at[i] = n

\* What the loop has after n + 1 events
LEMMA LoopStep ==
  ASSUME NEW events, NEW wanted, NEW m \in Nat, NEW f, IsLoop(events, wanted, m, f)
  PROVE  /\ f[0] = <<>>
         /\ \A n \in 0 .. m - 1 :
              f[n + 1] = IF events[n + 1] \in wanted THEN Append(f[n], events[n + 1]) ELSE f[n]
<1>1. ASSUME NEW n \in 0 .. m PROVE f[n] = Loop(events, wanted, f, n)
  <2> HIDE DEF Loop
  <2>1. f = [k \in 0 .. m |-> Loop(events, wanted, f, k)]
    BY DEF IsLoop
  <2> QED
    BY <2>1
<1>2. f[0] = <<>>
  BY <1>1 DEF Loop
<1>3. ASSUME NEW n \in 0 .. m - 1
      PROVE  f[n + 1] = IF events[n + 1] \in wanted THEN Append(f[n], events[n + 1]) ELSE f[n]
  <2>1. n + 1 \in 0 .. m /\ n + 1 # 0 /\ (n + 1) - 1 = n
    OBVIOUS
  <2> QED
    BY <2>1, <1>1 DEF Loop
<1> QED
  BY <1>2, <1>3

\* One more event is picked, or passed over.
LEMMA PickOneMore ==
  ASSUME NEW T, NEW events \in Seq(T), NEW wanted, NEW n \in 0 .. Len(events) - 1,
         NEW kept \in Seq(T), NEW at, Picked(events, wanted, n, kept, at)
  PROVE  /\ events[n + 1] \in wanted =>
              /\ Append(kept, events[n + 1]) \in Seq(T)
              /\ \E to : Picked(events, wanted, n + 1, Append(kept, events[n + 1]), to)
         /\ events[n + 1] \notin wanted => Picked(events, wanted, n + 1, kept, at)
<1>1. Len(kept) \in Nat /\ n \in Nat /\ n + 1 \in 1 .. Len(events) /\ events[n + 1] \in T
  OBVIOUS
<1>2. ASSUME events[n + 1] \in wanted
      PROVE  \E to : Picked(events, wanted, n + 1, Append(kept, events[n + 1]), to)
  <2> DEFINE more == Append(kept, events[n + 1])
             to   == [i \in 1 .. Len(kept) + 1 |-> IF i = Len(kept) + 1 THEN n + 1 ELSE at[i]]
  <2>1. /\ Len(more) = Len(kept) + 1
        /\ \A i \in 1 .. Len(kept) : more[i] = kept[i]
        /\ more[Len(kept) + 1] = events[n + 1]
    BY <1>1
  <2>2. \A i \in 1 .. Len(kept) : at[i] \in 1 .. n
    BY <1>1 DEF Picked
  <2>3. to \in [1 .. Len(more) -> 1 .. n + 1]
    BY <1>1, <2>1, <2>2
  <2>4. /\ to[Len(kept) + 1] = n + 1
        /\ \A i \in 1 .. Len(kept) : to[i] = at[i]
    BY <1>1
  <2> HIDE DEF more, to
  <2>5. ASSUME NEW i \in 1 .. Len(more) PROVE more[i] = events[to[i]] /\ more[i] \in wanted
    <3>1. CASE i = Len(kept) + 1
      BY <1>2, <2>1, <2>4, <3>1
    <3>2. CASE i # Len(kept) + 1
      <4>1. i \in 1 .. Len(kept)
        BY <1>1, <2>1, <3>2
      <4> QED
        BY <4>1, <2>1, <2>4 DEF Picked
    <3> QED
      BY <3>1, <3>2
  <2>6. ASSUME NEW i \in 1 .. Len(more), NEW j \in 1 .. Len(more), i < j
        PROVE  to[i] < to[j]
    <3>1. i \in 1 .. Len(kept)
      BY <1>1, <2>1, <2>6
    <3>2. CASE j = Len(kept) + 1
      BY <1>1, <2>2, <2>4, <3>1, <3>2
    <3>3. CASE j # Len(kept) + 1
      <4>1. j \in 1 .. Len(kept)
        BY <1>1, <2>1, <3>3
      <4> QED
        BY <4>1, <3>1, <2>4, <2>6 DEF Picked
    <3> QED
      BY <3>2, <3>3
  <2>7. ASSUME NEW k \in 1 .. n + 1, events[k] \in wanted
        PROVE  \E i \in 1 .. Len(more) : to[i] = k
    <3>1. CASE k = n + 1
      <4>1. Len(kept) + 1 \in 1 .. Len(more)
        BY <1>1, <2>1
      <4> QED
        BY <4>1, <2>4, <3>1
    <3>2. CASE k # n + 1
      <4>1. k \in 1 .. n
        BY <1>1, <3>2
      <4>2. PICK i \in 1 .. Len(kept) : at[i] = k
        BY <4>1, <2>7 DEF Picked
      <4>3. i \in 1 .. Len(more)
        BY <1>1, <2>1
      <4> QED
        BY <4>2, <4>3, <2>4
    <3> QED
      BY <3>1, <3>2
  <2>8. Picked(events, wanted, n + 1, more, to)
    BY <2>3, <2>5, <2>6, <2>7 DEF Picked
  <2> QED
    BY <2>8 DEF more
<1>3. ASSUME events[n + 1] \notin wanted
      PROVE  Picked(events, wanted, n + 1, kept, at)
  <2>1. at \in [1 .. Len(kept) -> 1 .. n + 1]
    BY <1>1 DEF Picked
  <2>2. ASSUME NEW k \in 1 .. n + 1, events[k] \in wanted
        PROVE  \E i \in 1 .. Len(kept) : at[i] = k
    <3>1. k \in 1 .. n
      BY <1>1, <1>3, <2>2
    <3> QED
      BY <3>1, <2>2 DEF Picked
  <2> QED
    BY <2>1, <2>2 DEF Picked
<1> QED
  BY <1>1, <1>2, <1>3

\* A filter picks all that is wanted, and nothing else, in its order.
LEMMA FilterPicks ==
  ASSUME NEW T, NEW events \in Seq(T), NEW wanted
  PROVE  /\ Filter(events, wanted) \in Seq(T)
         /\ \E at : Picked(events, wanted, Len(events), Filter(events, wanted), at)
<1> DEFINE m == Len(events)
           f == Kept(events, wanted)
           Fine(n) == f[n] \in Seq(T) /\ \E at : Picked(events, wanted, n, f[n], at)
           S == {n \in Nat : n <= m => Fine(n)}
<1>1. m \in Nat
  OBVIOUS
<1>2. /\ f[0] = <<>>
      /\ \A n \in 0 .. m - 1 :
           f[n + 1] = IF events[n + 1] \in wanted THEN Append(f[n], events[n + 1]) ELSE f[n]
  BY <1>1, KeptIsLoop, LoopStep
<1> HIDE DEF f
<1>3. 0 \in S
  <2> DEFINE none == [i \in 1 .. 0 |-> i]
  <2>1. f[0] \in Seq(T) /\ Len(f[0]) = 0
    BY <1>2
  <2>2. Picked(events, wanted, 0, f[0], none)
    BY <2>1 DEF Picked
  <2> QED
    BY <2>1, <2>2
<1>4. ASSUME NEW n \in S PROVE n + 1 \in S
  <2>1. SUFFICES ASSUME n + 1 <= m PROVE Fine(n + 1)
    OBVIOUS
  <2>2. n \in 0 .. m - 1 /\ Fine(n)
    BY <1>1, <2>1
  <2>3. PICK at : Picked(events, wanted, n, f[n], at)
    BY <2>2
  <2>4. CASE events[n + 1] \in wanted
    <3>1. f[n + 1] = Append(f[n], events[n + 1])
      BY <1>2, <2>2, <2>4
    <3> QED
      BY <3>1, <2>2, <2>3, <2>4, PickOneMore
  <2>5. CASE events[n + 1] \notin wanted
    <3>1. f[n + 1] = f[n]
      BY <1>2, <2>2, <2>5
    <3> QED
      BY <3>1, <2>2, <2>3, <2>5, PickOneMore
  <2> QED
    BY <2>4, <2>5
<1>5. S = Nat
  <2> HIDE DEF S
  <2>1. S \in SUBSET Nat
    BY DEF S
  <2> QED
    BY <1>3, <1>4, <2>1, SetInduction
<1>6. m \in S
  BY <1>1, <1>5
<1>7. Fine(m)
  BY <1>1, <1>6
<1> QED
  BY <1>7 DEF Filter, f

\* Numbers rise along the list.
Rising(events) ==
  \A i, j \in 1 .. Len(events) : i < j => events[i].id < events[j].id

\* What later proofs use of a filter
LEMMA FilterFacts ==
  ASSUME NEW events \in Seq(Event), NEW wanted
  PROVE  LET kept == Filter(events, wanted) IN
         /\ kept \in Seq(Event)
         /\ \A i \in 1 .. Len(kept) :
              kept[i] \in wanted /\ \E n \in 1 .. Len(events) : kept[i] = events[n]
         /\ \A n \in 1 .. Len(events) :
              events[n] \in wanted => \E i \in 1 .. Len(kept) : kept[i] = events[n]
         /\ Rising(events) => Rising(kept)
<1> DEFINE kept == Filter(events, wanted)
<1>1. kept \in Seq(Event) /\ \E at : Picked(events, wanted, Len(events), kept, at)
  BY FilterPicks
<1>2. PICK at : Picked(events, wanted, Len(events), kept, at)
  BY <1>1
<1> HIDE DEF kept
<1>3. \A i \in 1 .. Len(kept) : at[i] \in 1 .. Len(events) /\ kept[i] = events[at[i]]
  BY <1>1, <1>2 DEF Picked
<1>4. Rising(events) => Rising(kept)
  BY <1>2, <1>3 DEF Picked, Rising
<1>5. \A n \in 1 .. Len(events) :
        events[n] \in wanted => \E i \in 1 .. Len(kept) : kept[i] = events[n]
  BY <1>2, <1>3 DEF Picked
<1>6. \A i \in 1 .. Len(kept) :
        kept[i] \in wanted /\ \E n \in 1 .. Len(events) : kept[i] = events[n]
  BY <1>2, <1>3 DEF Picked
<1> QED
  BY <1>1, <1>4, <1>5, <1>6 DEF kept
-----------------------------------------------------------------------------
(* The invariant.                                                          *)

Waiting(event) == IF event = None THEN <<>> ELSE <<event>>

StreamsFit ==
  /\ subs \subseteq Streams
  /\ buffer \in [Streams -> Seq(Event)] /\ \A s \in Streams : Len(buffer[s]) <= Capacity
  /\ site \in [Streams -> Sites \cup {None}] /\ held \in [Streams -> Event \cup {None}]
  /\ sent \in [Streams -> Seq(Event)]
  /\ missed \in [Streams -> Nat] /\ since \in [Streams -> Nat]

HistoryFits ==
  /\ items \in Seq(Event) /\ published \in Nat /\ expired \in 0 .. published
  /\ \A i \in 1 .. Len(items) : items[i].id <= published
  /\ Rising(items)
  /\ \A id \in expired + 1 .. published : \E i \in 1 .. Len(items) : items[i].id = id

\* The trail of one stream against the history
TrailFits(trail, from, upTo) ==
  /\ \A i \in 1 .. Len(trail) : trail[i].id > from /\ trail[i].id <= upTo
  /\ Rising(trail)

Misses(trail, from, reader, events) ==
  \E k \in 1 .. Len(events) :
    /\ events[k].id > from /\ EventMatchesSite(events[k], reader)
    /\ \A i \in 1 .. Len(trail) : trail[i] # events[k]

StreamFits(s) ==
  /\ since[s] <= published
  /\ TrailFits(Trail(s), since[s], published)
  /\ held[s] # None => EventMatchesSite(held[s], site[s])
  /\ \A i \in 1 .. Len(sent[s]) : EventMatchesSite(sent[s][i], site[s])
  /\ missed[s] = 0 => ~Misses(Trail(s), since[s], site[s], items)

TrailsFit == \A s \in subs : StreamFits(s)

NotificationsInv == StreamsFit /\ HistoryFits /\ TrailsFit

-----------------------------------------------------------------------------
(* The trail of a stream.                                                  *)

\* Two lists, one after the other
LEMMA Joined ==
  ASSUME NEW T, NEW a \in Seq(T), NEW b \in Seq(T)
  PROVE  /\ a \o b \in Seq(T)
         /\ Len(a \o b) = Len(a) + Len(b)
         /\ \A i \in 1 .. Len(a) : (a \o b)[i] = a[i]
         /\ \A i \in 1 .. Len(b) : (a \o b)[Len(a) + i] = b[i]
<1>1. Len(a) \in Nat /\ Len(b) \in Nat
  OBVIOUS
<1>2. /\ a \o b \in Seq(T) /\ Len(a \o b) = Len(a) + Len(b)
      /\ \A i \in 1 .. Len(a) + Len(b) :
           (a \o b)[i] = IF i <= Len(a) THEN a[i] ELSE b[i - Len(a)]
  BY ConcatProperties
<1>3. ASSUME NEW i \in 1 .. Len(a) PROVE (a \o b)[i] = a[i]
  BY <1>1, <1>2
<1>4. ASSUME NEW i \in 1 .. Len(b) PROVE (a \o b)[Len(a) + i] = b[i]
  <2>1. Len(a) + i \in 1 .. Len(a) + Len(b) /\ ~(Len(a) + i <= Len(a))
        /\ (Len(a) + i) - Len(a) = i
    BY <1>1
  <2> QED
    BY <1>2, <2>1
<1> QED
  BY <1>2, <1>3, <1>4

LEMMA WaitingType ==
  ASSUME NEW event \in Event \cup {None}
  PROVE  Waiting(event) \in Seq(Event)
BY DEF Waiting

\* An event that is written stays where it is in the trail.
LEMMA WriteKeepsTrail ==
  ASSUME NEW a \in Seq(Event), NEW b \in Seq(Event), NEW event \in Event
  PROVE  (Append(a, event) \o Waiting(None)) \o b = (a \o Waiting(event)) \o b
<1>1. Append(a, event) \o <<>> = a \o <<event>>
  BY AppendProperties, ConcatEmptySeq
<1>2. event # None
  BY NoneIsNoEvent
<1> QED
  BY <1>1, <1>2 DEF Waiting

\* So does one that the handler takes to write.
LEMMA TakeKeepsTrail ==
  ASSUME NEW a \in Seq(Event), NEW b \in Seq(Event), b # <<>>
  PROVE  (a \o Waiting(Head(b))) \o Tail(b) = (a \o Waiting(None)) \o b
<1>1. Head(b) \in Event /\ Tail(b) \in Seq(Event) /\ <<Head(b)>> \o Tail(b) = b
  BY HeadTailProperties
<1>2. Head(b) # None
  BY <1>1, NoneIsNoEvent
<1>3. a \o <<>> = a
  OBVIOUS
<1>4. (a \o <<Head(b)>>) \o Tail(b) = a \o (<<Head(b)>> \o Tail(b))
  BY <1>1, ConcatAssociative
<1> QED
  BY <1>1, <1>2, <1>3, <1>4 DEF Waiting

\* When the first event in the channel is dropped, the trail is without it and
\* otherwise as before.
LEMMA DropFromTrail ==
  ASSUME NEW a \in Seq(Event), NEW b \in Seq(Event), b # <<>>
  PROVE  LET old == a \o b
             new == a \o Tail(b)
             at  == [i \in 1 .. Len(new) |-> IF i <= Len(a) THEN i ELSE i + 1] IN
         /\ old \in Seq(Event) /\ new \in Seq(Event)
         /\ \A i \in 1 .. Len(new) : at[i] \in 1 .. Len(old) /\ new[i] = old[at[i]]
         /\ \A i, j \in 1 .. Len(new) : i < j => at[i] < at[j]
         /\ \A n \in 1 .. Len(old) :
              old[n] = Head(b) \/ \E i \in 1 .. Len(new) : new[i] = old[n]
<1> DEFINE old == a \o b
           new == a \o Tail(b)
           at  == [i \in 1 .. Len(new) |-> IF i <= Len(a) THEN i ELSE i + 1]
<1>1. /\ Tail(b) \in Seq(Event) /\ Len(Tail(b)) = Len(b) - 1
      /\ \A i \in 1 .. Len(Tail(b)) : Tail(b)[i] = b[i + 1]
  BY HeadTailProperties
<1>2. Len(a) \in Nat /\ Len(b) \in Nat \ {0} /\ Head(b) = b[1]
  BY EmptySeq
<1>3. /\ old \in Seq(Event) /\ Len(old) = Len(a) + Len(b)
      /\ \A i \in 1 .. Len(a) : old[i] = a[i]
      /\ \A i \in 1 .. Len(b) : old[Len(a) + i] = b[i]
  BY Joined
<1>4. /\ new \in Seq(Event) /\ Len(new) = Len(a) + Len(Tail(b))
      /\ \A i \in 1 .. Len(a) : new[i] = a[i]
      /\ \A i \in 1 .. Len(Tail(b)) : new[Len(a) + i] = Tail(b)[i]
  BY <1>1, Joined
<1>5. Len(new) \in Nat /\ Len(new) + 1 = Len(old)
  BY <1>1, <1>2, <1>3, <1>4
<1>6. \A i \in 1 .. Len(new) : at[i] = IF i <= Len(a) THEN i ELSE i + 1
  OBVIOUS
<1> HIDE DEF old, new, at
<1>7. ASSUME NEW i \in 1 .. Len(new)
      PROVE  at[i] \in 1 .. Len(old) /\ new[i] = old[at[i]]
  <2>1. CASE i <= Len(a)
    BY <1>2, <1>3, <1>4, <1>5, <1>6, <2>1
  <2>2. CASE ~(i <= Len(a))
    <3>1. PICK k \in 1 .. Len(Tail(b)) : i = Len(a) + k
      <4>1. i - Len(a) \in 1 .. Len(Tail(b)) /\ i = Len(a) + (i - Len(a))
        BY <1>1, <1>2, <1>4, <2>2
      <4> QED
        BY <4>1
    <3>2. new[i] = b[k + 1]
      BY <1>1, <1>4, <3>1
    <3>3. at[i] = Len(a) + (k + 1) /\ k + 1 \in 1 .. Len(b)
      BY <1>1, <1>2, <1>6, <2>2, <3>1
    <3>4. old[at[i]] = b[k + 1]
      BY <1>3, <3>3
    <3> QED
      BY <1>2, <1>3, <3>2, <3>3, <3>4
  <2> QED
    BY <2>1, <2>2
<1>8. ASSUME NEW i \in 1 .. Len(new), NEW j \in 1 .. Len(new), i < j
      PROVE  at[i] < at[j]
  BY <1>2, <1>5, <1>6, <1>8
<1>9. ASSUME NEW n \in 1 .. Len(old)
      PROVE  old[n] = Head(b) \/ \E i \in 1 .. Len(new) : new[i] = old[n]
  <2>1. CASE n <= Len(a)
    <3>1. n \in 1 .. Len(a) /\ n \in 1 .. Len(new)
      BY <1>1, <1>2, <1>4, <2>1
    <3> QED
      BY <3>1, <1>3, <1>4
  <2>2. CASE n = Len(a) + 1
    BY <1>2, <1>3, <2>2
  <2>3. CASE n > Len(a) + 1
    <3>1. n - 1 \in 1 .. Len(new) /\ ~(n - 1 <= Len(a)) /\ (n - 1) + 1 = n
      BY <1>2, <1>5, <2>3
    <3> QED
      BY <3>1, <1>6, <1>7
  <2> QED
    BY <1>2, <1>5, <2>1, <2>2, <2>3
<1> QED
  BY <1>3, <1>4, <1>7, <1>8, <1>9 DEF old, new, at

\* So it fits and misses nothing that is the reader's.
LEMMA DroppedTrailFits ==
  ASSUME NEW a \in Seq(Event), NEW b \in Seq(Event), b # <<>>,
         NEW from \in Nat, NEW upTo \in Nat, NEW reader, NEW events,
         TrailFits(a \o b, from, upTo), ~EventMatchesSite(Head(b), reader)
  PROVE  /\ TrailFits(a \o Tail(b), from, upTo)
         /\ ~Misses(a \o b, from, reader, events)
              => ~Misses(a \o Tail(b), from, reader, events)
<1> DEFINE old == a \o b
           new == a \o Tail(b)
           at  == [i \in 1 .. Len(new) |-> IF i <= Len(a) THEN i ELSE i + 1]
<1>1. /\ \A i \in 1 .. Len(new) : at[i] \in 1 .. Len(old) /\ new[i] = old[at[i]]
      /\ \A i, j \in 1 .. Len(new) : i < j => at[i] < at[j]
      /\ \A n \in 1 .. Len(old) :
           old[n] = Head(b) \/ \E i \in 1 .. Len(new) : new[i] = old[n]
  BY DropFromTrail
<1> HIDE DEF old, new, at
<1>2. TrailFits(old, from, upTo)
  BY DEF old
<1>3. TrailFits(new, from, upTo)
  BY <1>1, <1>2 DEF TrailFits, Rising
<1>4. ASSUME Misses(new, from, reader, events) PROVE Misses(old, from, reader, events)
  <2>1. PICK k \in 1 .. Len(events) :
          /\ events[k].id > from /\ EventMatchesSite(events[k], reader)
          /\ \A i \in 1 .. Len(new) : new[i] # events[k]
    BY <1>4 DEF Misses
  <2>2. \A n \in 1 .. Len(old) : old[n] # events[k]
    BY <1>1, <2>1
  <2> QED
    BY <2>1, <2>2 DEF Misses
<1> QED
  BY <1>3, <1>4 DEF old, new

\* A new event at the end of a list
LEMMA Appended ==
  ASSUME NEW events \in Seq(Event), NEW e \in Event
  PROVE  /\ Append(events, e) \in Seq(Event)
         /\ Len(Append(events, e)) = Len(events) + 1
         /\ \A i \in 1 .. Len(events) : Append(events, e)[i] = events[i]
         /\ Append(events, e)[Len(events) + 1] = e
BY AppendProperties

\* It has the highest number.
LEMMA AppendedFits ==
  ASSUME NEW trail \in Seq(Event), NEW from \in Nat, NEW upTo \in Nat, from <= upTo,
         NEW e \in Event, e.id = upTo + 1, TrailFits(trail, from, upTo)
  PROVE  TrailFits(Append(trail, e), from, upTo + 1)
<1> DEFINE more == Append(trail, e)
<1>1. /\ Len(more) = Len(trail) + 1
      /\ \A i \in 1 .. Len(trail) : more[i] = trail[i]
      /\ more[Len(trail) + 1] = e
  BY Appended
<1>2. Len(trail) \in Nat /\ \A i \in 1 .. Len(trail) : trail[i].id \in Nat
  <2>1. Len(trail) \in Nat
    OBVIOUS
  <2>2. \A i \in 1 .. Len(trail) : trail[i] \in Event
    BY ElementOfSeq
  <2> QED
    BY <2>1, <2>2 DEF Event
<1> HIDE DEF more
<1>3. ASSUME NEW i \in 1 .. Len(more) PROVE more[i].id > from /\ more[i].id <= upTo + 1
  <2>1. CASE i = Len(trail) + 1
    BY <1>1, <2>1
  <2>2. CASE i # Len(trail) + 1
    <3>1. i \in 1 .. Len(trail)
      BY <1>1, <1>2, <2>2
    <3> QED
      BY <1>1, <1>2, <3>1 DEF TrailFits
  <2> QED
    BY <2>1, <2>2
<1>4. ASSUME NEW i \in 1 .. Len(more), NEW j \in 1 .. Len(more), i < j
      PROVE  more[i].id < more[j].id
  <2>1. i \in 1 .. Len(trail)
    BY <1>1, <1>2, <1>4
  <2>2. CASE j = Len(trail) + 1
    BY <1>1, <1>2, <2>1, <2>2 DEF TrailFits
  <2>3. CASE j # Len(trail) + 1
    <3>1. j \in 1 .. Len(trail)
      BY <1>1, <1>2, <2>3
    <3> QED
      BY <1>1, <1>4, <2>1, <3>1 DEF TrailFits, Rising
  <2> QED
    BY <2>2, <2>3
<1> QED
  BY <1>3, <1>4 DEF TrailFits, Rising, more

-----------------------------------------------------------------------------
(* The history.                                                            *)

\* Pruning leaves what is fresh, in its order.
LEMMA PruneFacts ==
  ASSUME HistoryFits
  PROVE  /\ Prune(items) \in Seq(Event)
         /\ \A i \in 1 .. Len(Prune(items)) :
              /\ Prune(items)[i].id > expired
              /\ \E n \in 1 .. Len(items) : Prune(items)[i] = items[n]
         /\ \A n \in 1 .. Len(items) :
              items[n].id > expired => \E i \in 1 .. Len(Prune(items)) : Prune(items)[i] = items[n]
         /\ Rising(Prune(items))
<1> DEFINE fresh == {e \in Event : e.id > expired}
           kept  == Filter(items, fresh)
<1> HIDE DEF fresh
<1>1. items \in Seq(Event) /\ Rising(items)
  BY DEF HistoryFits
<1>2. \A n \in 1 .. Len(items) : items[n] \in Event
  BY <1>1, ElementOfSeq
<1>3. /\ kept \in Seq(Event)
      /\ \A i \in 1 .. Len(kept) :
           kept[i] \in fresh /\ \E n \in 1 .. Len(items) : kept[i] = items[n]
      /\ \A n \in 1 .. Len(items) :
           items[n] \in fresh => \E i \in 1 .. Len(kept) : kept[i] = items[n]
      /\ Rising(kept)
  BY <1>1, FilterFacts
<1>4. Prune(items) = kept
  BY DEF Prune, fresh
<1> HIDE DEF kept
<1>5. \A i \in 1 .. Len(kept) : kept[i].id > expired
  BY <1>3 DEF fresh
<1>6. \A n \in 1 .. Len(items) : items[n].id > expired => items[n] \in fresh
  BY <1>2 DEF fresh
<1> QED
  BY <1>3, <1>4, <1>5, <1>6

\* The pruned history fits, and misses no more than the whole.
LEMMA PrunedFits ==
  ASSUME HistoryFits
  PROVE  /\ \A i \in 1 .. Len(Prune(items)) : Prune(items)[i].id <= published
         /\ \A id \in expired + 1 .. published :
              \E i \in 1 .. Len(Prune(items)) : Prune(items)[i].id = id
         /\ \A trail, from, reader :
              Misses(trail, from, reader, Prune(items)) => Misses(trail, from, reader, items)
<1> DEFINE kept == Prune(items)
<1>1. /\ \A i \in 1 .. Len(kept) :
           /\ kept[i].id > expired
           /\ \E n \in 1 .. Len(items) : kept[i] = items[n]
      /\ \A n \in 1 .. Len(items) :
           items[n].id > expired => \E i \in 1 .. Len(kept) : kept[i] = items[n]
  BY PruneFacts
<1> HIDE DEF kept
<1>2. \A i \in 1 .. Len(kept) : kept[i].id <= published
  BY <1>1 DEF HistoryFits
<1>3. ASSUME NEW id \in expired + 1 .. published
      PROVE  \E i \in 1 .. Len(kept) : kept[i].id = id
  <2>1. PICK n \in 1 .. Len(items) : items[n].id = id
    BY DEF HistoryFits
  <2>2. id > expired
    BY DEF HistoryFits
  <2> QED
    BY <1>1, <2>1, <2>2
<1>4. ASSUME NEW trail, NEW from, NEW reader, Misses(trail, from, reader, kept)
      PROVE  Misses(trail, from, reader, items)
  <2>1. PICK k \in 1 .. Len(kept) :
          /\ kept[k].id > from /\ EventMatchesSite(kept[k], reader)
          /\ \A i \in 1 .. Len(trail) : trail[i] # kept[k]
    BY <1>4 DEF Misses
  <2>2. PICK n \in 1 .. Len(items) : kept[k] = items[n]
    BY <1>1
  <2> QED
    BY <2>1, <2>2 DEF Misses
<1> QED
  BY <1>2, <1>3, <1>4 DEF kept

\* A new event goes to the end of the pruned history.
LEMMA HistoryGrows ==
  ASSUME HistoryFits, NEW e \in Event, e.id = published + 1,
         items' = Append(Prune(items), e), published' = published + 1, expired' = expired
  PROVE  HistoryFits'
<1> DEFINE kept == Prune(items)
<1>1. kept \in Seq(Event) /\ Rising(kept)
  BY PruneFacts
<1>2. /\ \A i \in 1 .. Len(kept) : kept[i].id <= published
      /\ \A id \in expired + 1 .. published : \E i \in 1 .. Len(kept) : kept[i].id = id
  BY PrunedFits
<1>3. /\ published \in Nat /\ expired \in 0 .. published
  BY DEF HistoryFits
<1>4. /\ items' \in Seq(Event) /\ Len(items') = Len(kept) + 1
      /\ \A i \in 1 .. Len(kept) : items'[i] = kept[i]
      /\ items'[Len(kept) + 1] = e
  BY <1>1, Appended
<1>5. \A i \in 1 .. Len(kept) : kept[i].id \in Nat \ {0}
  <2>1. \A i \in 1 .. Len(kept) : kept[i] \in Event
    BY <1>1, ElementOfSeq
  <2> QED
    BY <2>1 DEF Event
<1>6. TrailFits(kept, 0, published)
  BY <1>1, <1>2, <1>5 DEF TrailFits
<1>7. TrailFits(items', 0, published + 1)
  BY <1>1, <1>3, <1>6, AppendedFits
<1> HIDE DEF kept
<1>8. \A i \in 1 .. Len(items') : items'[i].id <= published'
  BY <1>7 DEF TrailFits
<1>9. ASSUME NEW id \in expired' + 1 .. published'
      PROVE  \E i \in 1 .. Len(items') : items'[i].id = id
  <2>0. Len(kept) \in Nat
    BY <1>1
  <2>1. CASE id = published + 1
    <3>1. Len(kept) + 1 \in 1 .. Len(items')
      BY <1>4, <2>0
    <3> QED
      BY <3>1, <1>4, <2>1
  <2>2. CASE id # published + 1
    <3>1. id \in expired + 1 .. published
      BY <1>3, <2>2
    <3>2. PICK i \in 1 .. Len(kept) : kept[i].id = id
      BY <1>2, <3>1
    <3>3. i \in 1 .. Len(items')
      BY <1>4, <2>0
    <3> QED
      BY <1>4, <3>2, <3>3
  <2> QED
    BY <2>1, <2>2
<1>10. Rising(items')
  BY <1>7 DEF TrailFits
<1>11. Rising(items)'
  BY <1>10 DEF Rising
<1>12. published' \in Nat /\ expired' \in 0 .. published'
  BY <1>3
<1> QED
  BY <1>4, <1>8, <1>9, <1>11, <1>12 DEF HistoryFits

\* A trail that has a new event at its end misses no more than before.
LEMMA GrownMissesNothing ==
  ASSUME HistoryFits, NEW e \in Event, NEW trail \in Seq(Event), NEW from, NEW reader,
         ~Misses(trail, from, reader, items)
  PROVE  ~Misses(Append(trail, e), from, reader, Append(Prune(items), e))
<1> DEFINE more  == Append(trail, e)
           grown == Append(Prune(items), e)
<1>1. /\ Len(more) = Len(trail) + 1
      /\ \A i \in 1 .. Len(trail) : more[i] = trail[i]
      /\ more[Len(trail) + 1] = e
  BY Appended
<1>2. Prune(items) \in Seq(Event)
  BY PruneFacts
<1>3. /\ Len(grown) = Len(Prune(items)) + 1
      /\ \A i \in 1 .. Len(Prune(items)) : grown[i] = Prune(items)[i]
      /\ grown[Len(Prune(items)) + 1] = e
  BY <1>2, Appended
<1>4. Len(trail) \in Nat /\ Len(Prune(items)) \in Nat
  BY <1>2
<1> HIDE DEF more, grown
<1>5. ASSUME Misses(more, from, reader, grown) PROVE Misses(trail, from, reader, Prune(items))
  <2>1. PICK k \in 1 .. Len(grown) :
          /\ grown[k].id > from /\ EventMatchesSite(grown[k], reader)
          /\ \A i \in 1 .. Len(more) : more[i] # grown[k]
    BY <1>5 DEF Misses
  <2>2. Len(trail) + 1 \in 1 .. Len(more)
    BY <1>1, <1>4
  <2>3. k # Len(Prune(items)) + 1
    BY <1>1, <1>3, <2>1, <2>2
  <2>4. k \in 1 .. Len(Prune(items))
    BY <1>3, <1>4, <2>3
  <2>5. \A i \in 1 .. Len(trail) : i \in 1 .. Len(more)
    BY <1>1, <1>4
  <2>6. \A i \in 1 .. Len(trail) : trail[i] # Prune(items)[k]
    BY <1>1, <1>3, <2>1, <2>4, <2>5
  <2>7. grown[k] = Prune(items)[k]
    BY <1>3, <2>4
  <2> QED
    BY <2>1, <2>4, <2>6, <2>7 DEF Misses
<1>6. Misses(more, from, reader, grown) => Misses(trail, from, reader, items)
  BY <1>5, PrunedFits
<1> QED
  BY <1>6 DEF more, grown

-----------------------------------------------------------------------------
(* The steps.                                                              *)

LEMMA TrailType ==
  ASSUME StreamsFit, NEW s \in Streams
  PROVE  /\ sent[s] \in Seq(Event) /\ held[s] \in Event \cup {None} /\ buffer[s] \in Seq(Event)
         /\ sent[s] \o Waiting(held[s]) \in Seq(Event)
         /\ Trail(s) = (sent[s] \o Waiting(held[s])) \o buffer[s]
         /\ Trail(s) \in Seq(Event)
<1>1. sent[s] \in Seq(Event) /\ held[s] \in Event \cup {None} /\ buffer[s] \in Seq(Event)
  BY DEF StreamsFit
<1>2. Waiting(held[s]) \in Seq(Event)
  BY <1>1, WaitingType
<1>3. sent[s] \o Waiting(held[s]) \in Seq(Event)
  BY <1>1, <1>2, Joined
<1>4. Trail(s) = (sent[s] \o Waiting(held[s])) \o buffer[s]
  BY DEF Trail, Waiting
<1> QED
  BY <1>1, <1>3, <1>4, Joined

\* A stream that a step does not touch fits as before.
LEMMA UntouchedFits ==
  ASSUME TrailsFit, NEW s \in subs,
         items' = items, published' = published, since'[s] = since[s], site'[s] = site[s],
         held'[s] = held[s], sent'[s] = sent[s], missed'[s] = missed[s], buffer'[s] = buffer[s]
  PROVE  StreamFits(s)'
<1>1. StreamFits(s)
  BY DEF TrailsFit
<1>2. Trail(s)' = Trail(s)
  BY DEF Trail
<1> QED
  BY <1>1, <1>2 DEF StreamFits

LEMMA InitFits == Init => NotificationsInv
<1> SUFFICES ASSUME Init PROVE NotificationsInv
  OBVIOUS
<1>1. <<>> \in Seq(Event) /\ Len(<<>>) = 0
  OBVIOUS
<1>2. Capacity \in Nat
  BY NotificationConstants
<1>3. StreamsFit
  BY <1>1, <1>2 DEF Init, StreamsFit
<1>4. HistoryFits
  BY <1>1 DEF Init, HistoryFits, Rising
<1>5. TrailsFit
  BY DEF Init, TrailsFit
<1> QED
  BY <1>3, <1>4, <1>5 DEF NotificationsInv

LEMMA RestartFits == Restart => NotificationsInv'
<1> SUFFICES ASSUME Restart PROVE NotificationsInv'
  OBVIOUS
<1>1. <<>> \in Seq(Event) /\ Len(<<>>) = 0
  OBVIOUS
<1>2. Capacity \in Nat
  BY NotificationConstants
<1>3. StreamsFit'
  BY <1>1, <1>2 DEF Restart, StreamsFit
<1>4. HistoryFits'
  BY <1>1 DEF Restart, HistoryFits, Rising
<1>5. TrailsFit'
  BY DEF Restart, TrailsFit
<1> QED
  BY <1>3, <1>4, <1>5 DEF NotificationsInv

LEMMA AgeFits ==
  ASSUME NotificationsInv, Age
  PROVE  NotificationsInv'
<1>1. StreamsFit'
  BY DEF NotificationsInv, Age, StreamsFit, stream
<1>2. HistoryFits'
  <2>1. \A id \in expired' + 1 .. published' : id \in expired + 1 .. published
    BY DEF NotificationsInv, Age, HistoryFits
  <2>2. published' \in Nat /\ expired' \in 0 .. published' /\ items' = items
    BY DEF NotificationsInv, Age, HistoryFits
  <2> QED
    BY <2>1, <2>2 DEF NotificationsInv, Age, HistoryFits, Rising
<1>3. ASSUME NEW s \in subs' PROVE StreamFits(s)'
  BY <1>3, UntouchedFits DEF NotificationsInv, Age, stream
<1> QED
  BY <1>1, <1>2, <1>3 DEF NotificationsInv, TrailsFit

LEMMA ListFits ==
  ASSUME NotificationsInv, List
  PROVE  NotificationsInv'
<1>0. HistoryFits
  BY DEF NotificationsInv
<1>1. StreamsFit'
  BY DEF NotificationsInv, List, StreamsFit, stream
<1>2. items' = Prune(items) /\ published' = published /\ expired' = expired
  BY DEF List
<1>3. Prune(items) \in Seq(Event) /\ Rising(Prune(items))
  BY <1>0, PruneFacts
<1>4. /\ \A i \in 1 .. Len(Prune(items)) : Prune(items)[i].id <= published
      /\ \A id \in expired + 1 .. published :
           \E i \in 1 .. Len(Prune(items)) : Prune(items)[i].id = id
      /\ \A trail, from, reader :
           Misses(trail, from, reader, Prune(items)) => Misses(trail, from, reader, items)
  BY <1>0, PrunedFits
<1>5. HistoryFits'
  <2>1. Rising(items)'
    BY <1>2, <1>3 DEF Rising
  <2> QED
    BY <1>0, <1>2, <1>3, <1>4, <2>1 DEF HistoryFits
<1>6. ASSUME NEW s \in subs' PROVE StreamFits(s)'
  <2>1. s \in subs /\ StreamFits(s)
    BY <1>6 DEF NotificationsInv, TrailsFit, List, stream
  <2>2. Trail(s)' = Trail(s)
    BY DEF Trail, List, stream
  <2>3. since'[s] = since[s] /\ site'[s] = site[s] /\ held'[s] = held[s] /\ sent'[s] = sent[s]
        /\ missed'[s] = missed[s]
    BY DEF List, stream
  <2>4. missed[s] = 0 => ~Misses(Trail(s), since[s], site[s], items')
    BY <1>2, <1>4, <2>1 DEF StreamFits
  <2> QED
    BY <1>2, <2>1, <2>2, <2>3, <2>4 DEF StreamFits
<1> QED
  BY <1>1, <1>5, <1>6 DEF NotificationsInv, TrailsFit

LEMMA WriteFits ==
  ASSUME NotificationsInv, NEW s \in Streams, Write(s)
  PROVE  NotificationsInv'
<1>0. StreamsFit /\ TrailsFit /\ HistoryFits
  BY DEF NotificationsInv
<1>1. sent[s] \in Seq(Event) /\ held[s] \in Event /\ buffer[s] \in Seq(Event) /\ s \in subs
  BY <1>0, TrailType DEF Write
<1>2. /\ sent' = [sent EXCEPT ![s] = Append(sent[s], held[s])]
      /\ held' = [held EXCEPT ![s] = None]
      /\ UNCHANGED <<items, published, expired, subs, buffer, site, missed, since>>
  BY DEF Write, hub
<1>3. /\ sent'[s] = Append(sent[s], held[s]) /\ held'[s] = None
      /\ \A t \in Streams \ {s} : sent'[t] = sent[t] /\ held'[t] = held[t]
  BY <1>0, <1>2 DEF StreamsFit
<1>4. Append(sent[s], held[s]) \in Seq(Event)
  BY <1>1, Appended
<1>5. StreamsFit'
  BY <1>0, <1>2, <1>4 DEF StreamsFit
<1>6. HistoryFits'
  BY <1>0, <1>2 DEF HistoryFits, Rising
<1>7. Trail(s)' = Trail(s)
  <2>1. Trail(s)' = (sent'[s] \o Waiting(held'[s])) \o buffer'[s]
    BY DEF Trail, Waiting
  <2>2. Trail(s) = (sent[s] \o Waiting(held[s])) \o buffer[s]
    BY <1>0, TrailType
  <2>3. (Append(sent[s], held[s]) \o Waiting(None)) \o buffer[s]
          = (sent[s] \o Waiting(held[s])) \o buffer[s]
    BY <1>1, WriteKeepsTrail
  <2> QED
    BY <1>2, <1>3, <2>1, <2>2, <2>3
<1>8. StreamFits(s)'
  <2>1. StreamFits(s)
    BY <1>0, <1>1 DEF TrailsFit
  <2>2. EventMatchesSite(held[s], site[s])
    BY <2>1 DEF StreamFits, Write
  <2>3. ASSUME NEW i \in 1 .. Len(sent'[s]) PROVE EventMatchesSite(sent'[s][i], site[s])
    <3>0. Len(sent[s]) \in Nat
      BY <1>1
    <3>1. CASE i = Len(sent[s]) + 1
      BY <1>1, <1>3, <2>2, <3>1, Appended
    <3>2. CASE i # Len(sent[s]) + 1
      <4>1. i \in 1 .. Len(sent[s])
        BY <1>1, <1>3, <2>3, <3>0, <3>2, Appended
      <4> QED
        BY <1>1, <1>3, <2>1, <4>1, Appended DEF StreamFits
    <3> QED
      BY <3>1, <3>2
  <2> QED
    BY <1>2, <1>3, <1>7, <2>1, <2>3 DEF StreamFits
<1>9. ASSUME NEW t \in subs', t # s PROVE StreamFits(t)'
  <2>1. t \in subs /\ t \in Streams
    BY <1>0, <1>2, <1>9 DEF StreamsFit
  <2> QED
    BY <1>0, <1>2, <1>3, <1>9, <2>1, UntouchedFits
<1> QED
  BY <1>5, <1>6, <1>8, <1>9 DEF NotificationsInv, TrailsFit

LEMMA ReceiveFits ==
  ASSUME NotificationsInv, NEW s \in Streams, Receive(s)
  PROVE  NotificationsInv'
<1>0. StreamsFit /\ TrailsFit /\ HistoryFits
  BY DEF NotificationsInv
<1>1. /\ s \in subs /\ StreamFits(s) /\ held[s] = None
      /\ sent[s] \in Seq(Event) /\ buffer[s] \in Seq(Event) /\ buffer[s] # <<>>
  BY <1>0, TrailType DEF Receive, TrailsFit
<1>2. Head(buffer[s]) \in Event /\ Tail(buffer[s]) \in Seq(Event)
      /\ Len(Tail(buffer[s])) = Len(buffer[s]) - 1
  BY <1>1, HeadTailProperties
<1>3. /\ buffer' = [buffer EXCEPT ![s] = Tail(buffer[s])]
      /\ UNCHANGED <<items, published, expired, subs, site, sent, missed, since>>
      /\ held' = IF EventMatchesSite(Head(buffer[s]), site[s])
                 THEN [held EXCEPT ![s] = Head(buffer[s])] ELSE held
  BY DEF Receive, hub
<1>4. held' \in [Streams -> Event \cup {None}]
  BY <1>0, <1>2, <1>3 DEF StreamsFit
<1>5. /\ buffer'[s] = Tail(buffer[s]) /\ sent'[s] = sent[s]
      /\ \A t \in Streams \ {s} : buffer'[t] = buffer[t] /\ held'[t] = held[t]
  BY <1>0, <1>3 DEF StreamsFit
<1>6. StreamsFit'
  <2>1. buffer' \in [Streams -> Seq(Event)]
    BY <1>0, <1>2, <1>3 DEF StreamsFit
  <2>2. Len(buffer'[s]) <= Capacity
    <3>1. Len(buffer[s]) \in Nat /\ Len(buffer[s]) <= Capacity /\ Capacity \in Nat
      BY <1>0, <1>1, NotificationConstants DEF StreamsFit
    <3> QED
      BY <1>2, <1>5, <3>1
  <2>3. \A t \in Streams : Len(buffer'[t]) <= Capacity
    BY <1>0, <1>5, <2>2 DEF StreamsFit
  <2> QED
    BY <1>0, <1>3, <1>4, <2>1, <2>3 DEF StreamsFit
<1>7. HistoryFits'
  BY <1>0, <1>3 DEF HistoryFits, Rising
<1>8. Trail(s) = (sent[s] \o Waiting(None)) \o buffer[s] /\ sent[s] \o Waiting(None) \in Seq(Event)
  BY <1>0, <1>1, TrailType
<1>9. Trail(s)' = (sent[s] \o Waiting(held'[s])) \o Tail(buffer[s])
  BY <1>5 DEF Trail, Waiting
<1>10. StreamFits(s)'
  <2>1. CASE EventMatchesSite(Head(buffer[s]), site[s])
    <3>1. held'[s] = Head(buffer[s])
      BY <1>0, <1>3, <2>1 DEF StreamsFit
    <3>2. (sent[s] \o Waiting(Head(buffer[s]))) \o Tail(buffer[s])
            = (sent[s] \o Waiting(None)) \o buffer[s]
      BY <1>1, TakeKeepsTrail
    <3>3. Trail(s)' = Trail(s)
      BY <1>8, <1>9, <3>1, <3>2
    <3> QED
      BY <1>1, <1>3, <1>5, <2>1, <3>1, <3>3 DEF StreamFits
  <2>2. CASE ~EventMatchesSite(Head(buffer[s]), site[s])
    <3>1. held'[s] = None
      BY <1>1, <1>3, <2>2
    <3>2. since[s] \in Nat /\ published \in Nat
      BY <1>0 DEF StreamsFit, HistoryFits
    <3>3. TrailFits(Trail(s), since[s], published)
          /\ (missed[s] = 0 => ~Misses(Trail(s), since[s], site[s], items))
      BY <1>1 DEF StreamFits
    <3>4. TrailFits(Trail(s)', since[s], published)
          /\ (missed[s] = 0 => ~Misses(Trail(s)', since[s], site[s], items))
      BY <1>1, <1>8, <1>9, <2>2, <3>1, <3>2, <3>3, DroppedTrailFits
    <3> QED
      BY <1>1, <1>3, <1>5, <3>1, <3>4 DEF StreamFits
  <2> QED
    BY <2>1, <2>2
<1>11. ASSUME NEW t \in subs', t # s PROVE StreamFits(t)'
  <2>1. t \in subs /\ t \in Streams
    BY <1>0, <1>3, <1>11 DEF StreamsFit
  <2> QED
    BY <1>0, <1>3, <1>5, <1>11, <2>1, UntouchedFits
<1> QED
  BY <1>6, <1>7, <1>10, <1>11 DEF NotificationsInv, TrailsFit

LEMMA UnsubscribeFits ==
  ASSUME NotificationsInv, NEW s \in Streams, Unsubscribe(s)
  PROVE  NotificationsInv'
<1>0. StreamsFit /\ TrailsFit /\ HistoryFits
  BY DEF NotificationsInv
<1>1. /\ subs' = subs \ {s} /\ UNCHANGED <<items, published, expired>>
      /\ \A t \in Streams \ {s} :
           /\ since'[t] = since[t] /\ site'[t] = site[t] /\ held'[t] = held[t]
           /\ sent'[t] = sent[t] /\ missed'[t] = missed[t] /\ buffer'[t] = buffer[t]
  BY <1>0 DEF Unsubscribe, StreamsFit, hub
<1>2. StreamsFit'
  <2>1. Capacity \in Nat /\ <<>> \in Seq(Event) /\ Len(<<>>) = 0
    BY NotificationConstants
  <2>2. buffer' \in [Streams -> Seq(Event)] /\ \A t \in Streams : Len(buffer'[t]) <= Capacity
    BY <1>0, <2>1 DEF Unsubscribe, StreamsFit
  <2> QED
    BY <1>0, <2>1, <2>2 DEF Unsubscribe, StreamsFit
<1>3. HistoryFits'
  BY <1>0, <1>1 DEF HistoryFits, Rising
<1>4. ASSUME NEW t \in subs' PROVE StreamFits(t)'
  <2>1. t \in subs /\ t \in Streams \ {s}
    BY <1>0, <1>1, <1>4 DEF StreamsFit
  <2> QED
    BY <1>0, <1>1, <2>1, UntouchedFits
<1> QED
  BY <1>2, <1>3, <1>4 DEF NotificationsInv, TrailsFit

LEMMA SubscribeFits ==
  ASSUME NotificationsInv, NEW s \in Streams, NEW reader \in Sites \cup {None},
         Subscribe(s, reader)
  PROVE  NotificationsInv'
<1>0. StreamsFit /\ TrailsFit /\ HistoryFits
  BY DEF NotificationsInv
<1>1. /\ subs' = subs \cup {s} /\ UNCHANGED <<items, published, expired>>
      /\ \A t \in Streams \ {s} :
           /\ since'[t] = since[t] /\ site'[t] = site[t] /\ held'[t] = held[t]
           /\ sent'[t] = sent[t] /\ missed'[t] = missed[t] /\ buffer'[t] = buffer[t]
      /\ since'[s] = published /\ held'[s] = None /\ sent'[s] = <<>> /\ buffer'[s] = <<>>
  BY <1>0 DEF Subscribe, StreamsFit, hub
<1>2. StreamsFit'
  <2>1. Capacity \in Nat /\ <<>> \in Seq(Event) /\ Len(<<>>) = 0 /\ published \in Nat
    BY <1>0, NotificationConstants DEF HistoryFits
  <2>2. buffer' \in [Streams -> Seq(Event)] /\ \A t \in Streams : Len(buffer'[t]) <= Capacity
    BY <1>0, <2>1 DEF Subscribe, StreamsFit
  <2> QED
    BY <1>0, <2>1, <2>2 DEF Subscribe, StreamsFit
<1>3. HistoryFits'
  BY <1>0, <1>1 DEF HistoryFits, Rising
<1>4. StreamFits(s)'
  <2>1. Trail(s)' = <<>>
    BY <1>1 DEF Trail
  <2>2. TrailFits(<<>>, published, published)
    BY DEF TrailFits, Rising
  <2>3. published \in Nat /\ \A k \in 1 .. Len(items) : ~(items[k].id > published)
    <3>1. published \in Nat
      BY <1>0 DEF HistoryFits
    <3>2. \A k \in 1 .. Len(items) : items[k].id \in Nat /\ items[k].id <= published
      <4>1. \A k \in 1 .. Len(items) : items[k] \in Event
        BY <1>0, ElementOfSeq DEF HistoryFits
      <4> QED
        BY <1>0, <4>1 DEF HistoryFits, Event
    <3> QED
      BY <3>1, <3>2
  <2>4. ~Misses(<<>>, published, site'[s], items)
    BY <2>3 DEF Misses
  <2> QED
    BY <1>1, <2>1, <2>2, <2>3, <2>4 DEF StreamFits
<1>5. ASSUME NEW t \in subs', t # s PROVE StreamFits(t)'
  <2>1. t \in subs /\ t \in Streams \ {s}
    BY <1>0, <1>1, <1>5 DEF StreamsFit
  <2> QED
    BY <1>0, <1>1, <2>1, UntouchedFits
<1> QED
  BY <1>2, <1>3, <1>4, <1>5 DEF NotificationsInv, TrailsFit

\* An event goes to the end of the second list, and so of both.
LEMMA AppendToSecond ==
  ASSUME NEW T, NEW a \in Seq(T), NEW b \in Seq(T), NEW e \in T
  PROVE  a \o Append(b, e) = Append(a \o b, e)
<1> DEFINE c == <<e>>
<1>1. c \in Seq(T)
  OBVIOUS
<1>2. a \o b \in Seq(T)
  BY Joined
<1>3. Append(b, e) = b \o c /\ Append(a \o b, e) = (a \o b) \o c
  BY <1>2, AppendIsConcat
<1> HIDE DEF c
<1>4. (a \o b) \o c = a \o (b \o c)
  BY <1>1, ConcatAssociative
<1> QED
  BY <1>3, <1>4

\* What a step of Publish does to the trail of an open stream
LEMMA OfferedTrail ==
  ASSUME StreamsFit, NEW s \in subs, NEW e \in Event, Offer(e),
         UNCHANGED <<subs, site, held, sent, since>>
  PROVE  /\ HasRoom(s) => Trail(s)' = Append(Trail(s), e) /\ missed'[s] = missed[s]
         /\ ~HasRoom(s) => Trail(s)' = Trail(s) /\ missed'[s] = missed[s] + 1
<1>0. s \in Streams /\ missed[s] \in Nat
  BY DEF StreamsFit
<1>1. /\ sent[s] \o Waiting(held[s]) \in Seq(Event) /\ buffer[s] \in Seq(Event)
      /\ Trail(s) = (sent[s] \o Waiting(held[s])) \o buffer[s]
  BY <1>0, TrailType
<1>2. Trail(s)' = (sent[s] \o Waiting(held[s])) \o buffer'[s]
  BY DEF Trail, Waiting
<1>3. /\ buffer'[s] = IF HasRoom(s) THEN Append(buffer[s], e) ELSE buffer[s]
      /\ missed'[s] = missed[s] + (IF ~HasRoom(s) THEN 1 ELSE 0)
  BY <1>0 DEF Offer
<1>4. \A a \in Seq(Event) : a \o Append(buffer[s], e) = Append(a \o buffer[s], e)
  BY <1>1, AppendToSecond
<1>5. HasRoom(s) => Trail(s)' = Append(Trail(s), e)
  <2> SUFFICES ASSUME HasRoom(s) PROVE Trail(s)' = Append(Trail(s), e)
    OBVIOUS
  <2>1. buffer'[s] = Append(buffer[s], e)
    BY <1>3
  <2>2. Trail(s)' = (sent[s] \o Waiting(held[s])) \o Append(buffer[s], e)
    BY <1>2, <2>1
  <2>3. (sent[s] \o Waiting(held[s])) \o Append(buffer[s], e) = Append(Trail(s), e)
    BY <1>1, <1>4
  <2> QED
    BY <2>2, <2>3
<1>6. ~HasRoom(s) => Trail(s)' = Trail(s)
  BY <1>1, <1>2, <1>3
<1>7. missed'[s] = IF HasRoom(s) THEN missed[s] ELSE missed[s] + 1
  BY <1>0, <1>3
<1> QED
  BY <1>5, <1>6, <1>7

LEMMA PublishFits ==
  ASSUME NotificationsInv, NEW tag \in Sites \cup {None}, Publish(tag)
  PROVE  NotificationsInv'
<1> DEFINE e == [id |-> published + 1, tag |-> tag]
<1>0. StreamsFit /\ TrailsFit /\ HistoryFits /\ published \in Nat
  BY DEF NotificationsInv, HistoryFits
<1>1. e \in Event /\ e.id = published + 1
  BY <1>0 DEF Event
<1>2. /\ published' = published + 1 /\ expired' = expired
      /\ items' = Append(Prune(items), e)
      /\ Offer(e)
      /\ UNCHANGED <<subs, site, held, sent, since>>
  BY DEF Publish
<1> HIDE DEF e
<1>3. HistoryFits'
  BY <1>0, <1>1, <1>2, HistoryGrows
<1>4. StreamsFit'
  <2>1. ASSUME NEW s \in Streams
        PROVE  /\ buffer'[s] \in Seq(Event) /\ Len(buffer'[s]) <= Capacity
               /\ missed'[s] \in Nat
    <3>1. buffer[s] \in Seq(Event) /\ Len(buffer[s]) <= Capacity /\ missed[s] \in Nat
          /\ Capacity \in Nat /\ Len(buffer[s]) \in Nat
      BY <1>0, NotificationConstants DEF StreamsFit
    <3>2. Append(buffer[s], e) \in Seq(Event) /\ Len(Append(buffer[s], e)) = Len(buffer[s]) + 1
      BY <1>1, <3>1, Appended
    <3>3. buffer'[s] = IF s \in subs /\ HasRoom(s) THEN Append(buffer[s], e) ELSE buffer[s]
      BY <1>2 DEF Offer
    <3>4. missed'[s] \in Nat
      BY <1>2, <3>1 DEF Offer
    <3> QED
      BY <3>1, <3>2, <3>3, <3>4 DEF HasRoom
  <2>2. /\ buffer' = [s \in Streams |-> buffer'[s]]
        /\ missed' = [s \in Streams |-> missed'[s]]
    BY <1>2 DEF Offer
  <2>3. buffer' \in [Streams -> Seq(Event)] /\ missed' \in [Streams -> Nat]
    BY <2>1, <2>2
  <2> QED
    BY <1>0, <1>2, <2>1, <2>3 DEF StreamsFit
<1>5. ASSUME NEW s \in subs' PROVE StreamFits(s)'
  <2>1. /\ s \in subs /\ s \in Streams /\ StreamFits(s)
        /\ since[s] \in Nat /\ missed[s] \in Nat /\ Trail(s) \in Seq(Event)
    BY <1>0, <1>2, <1>5, TrailType DEF StreamsFit, TrailsFit
  <2>2. since[s] <= published /\ TrailFits(Trail(s), since[s], published)
    BY <2>1 DEF StreamFits
  <2>3. TrailFits(Trail(s), since[s], published + 1)
    <3>1. \A i \in 1 .. Len(Trail(s)) : Trail(s)[i].id \in Nat
      <4>1. \A i \in 1 .. Len(Trail(s)) : Trail(s)[i] \in Event
        BY <2>1, ElementOfSeq
      <4> QED
        BY <4>1 DEF Event
    <3> QED
      BY <1>0, <2>2, <3>1 DEF TrailFits
  <2>4. CASE HasRoom(s)
    <3>1. Trail(s)' = Append(Trail(s), e) /\ missed'[s] = missed[s]
      BY <1>0, <1>1, <1>2, <2>1, <2>4, OfferedTrail
    <3>2. TrailFits(Append(Trail(s), e), since[s], published + 1)
      BY <1>0, <1>1, <2>1, <2>2, AppendedFits
    <3>3. missed[s] = 0 => ~Misses(Append(Trail(s), e), since[s], site[s], items')
      BY <1>0, <1>1, <1>2, <2>1, GrownMissesNothing DEF StreamFits
    <3>4. since[s] <= published + 1
      BY <1>0, <2>1, <2>2
    <3> QED
      BY <1>2, <2>1, <3>1, <3>2, <3>3, <3>4 DEF StreamFits
  <2>5. CASE ~HasRoom(s)
    <3>1. Trail(s)' = Trail(s) /\ missed'[s] = missed[s] + 1
      BY <1>0, <1>1, <1>2, <2>1, <2>5, OfferedTrail
    <3>2. missed'[s] # 0 /\ since[s] <= published + 1
      BY <1>0, <2>1, <2>2, <3>1
    <3> QED
      BY <1>2, <2>1, <2>3, <3>1, <3>2 DEF StreamFits
  <2> QED
    BY <2>4, <2>5
<1> QED
  BY <1>3, <1>4, <1>5 DEF NotificationsInv, TrailsFit

LEMMA StutterFits ==
  ASSUME NotificationsInv, UNCHANGED vars
  PROVE  NotificationsInv'
<1>0. StreamsFit /\ TrailsFit /\ HistoryFits
  BY DEF NotificationsInv
<1>1. StreamsFit'
  BY <1>0 DEF StreamsFit, vars, stream
<1>2. HistoryFits'
  BY <1>0 DEF HistoryFits, Rising, vars, hub
<1>3. ASSUME NEW s \in subs' PROVE StreamFits(s)'
  BY <1>0, <1>3, UntouchedFits DEF vars, hub, stream
<1> QED
  BY <1>1, <1>2, <1>3 DEF NotificationsInv, TrailsFit

LEMMA NextFits == NotificationsInv /\ [Next]_vars => NotificationsInv'
<1> SUFFICES ASSUME NotificationsInv, [Next]_vars PROVE NotificationsInv'
  OBVIOUS
<1>1. CASE Age
  BY <1>1, AgeFits
<1>2. CASE List
  BY <1>2, ListFits
<1>3. CASE Restart
  BY <1>3, RestartFits
<1>4. CASE \E tag \in Sites \cup {None} : Publish(tag)
  BY <1>4, PublishFits
<1>5. CASE \E s \in Streams : StreamStep(s)
  BY <1>5, ReceiveFits, WriteFits DEF StreamStep
<1>6. CASE \E s \in Streams : Unsubscribe(s)
  BY <1>6, UnsubscribeFits
<1>7. CASE \E s \in Streams, reader \in Sites \cup {None} : Subscribe(s, reader)
  BY <1>7, SubscribeFits
<1>8. CASE UNCHANGED vars
  BY <1>8, StutterFits
<1> QED
  BY <1>1, <1>2, <1>3, <1>4, <1>5, <1>6, <1>7, <1>8 DEF Next

-----------------------------------------------------------------------------
(* The theorems.                                                           *)

\* The invariant holds: history, channels and trails fit one another.
THEOREM NotificationsInvHolds == Spec => []NotificationsInv
<1>1. Init => NotificationsInv
  BY InitFits
<1>2. NotificationsInv /\ [Next]_vars => NotificationsInv'
  BY NextFits
<1> QED
  BY <1>1, <1>2, PTL DEF Spec

\* Events have their form and no channel holds more than its capacity
\* (Service.Subscribe, publish).
THEOREM TypesHold == Spec => []TypeOK
<1>1. NotificationsInv => TypeOK
  <2> SUFFICES ASSUME NotificationsInv PROVE TypeOK
    OBVIOUS
  <2>1. StreamsFit /\ HistoryFits
    BY DEF NotificationsInv
  <2>2. ASSUME NEW s \in Streams
        PROVE  /\ buffer[s] \in Seq(Event) /\ Len(buffer[s]) <= Capacity
               /\ site[s] \in Sites \cup {None} /\ held[s] \in Event \cup {None}
               /\ sent[s] \in Seq(Event) /\ missed[s] \in Nat /\ since[s] \in Nat
    BY <2>1 DEF StreamsFit
  <2> QED
    BY <2>1, <2>2 DEF StreamsFit, HistoryFits, TypeOK
<1> QED
  BY <1>1, NotificationsInvHolds, PTL

\* An open stream gets what is published once, in order, only of its site, and
\* loses no more than its own channel had no room for (publish, handleSSE).
THEOREM StreamsLoseOnlyOverflowHolds == Spec => []StreamsLoseOnlyOverflow
<1>1. NotificationsInv => StreamsLoseOnlyOverflow
  <2> SUFFICES ASSUME NotificationsInv, NEW s \in subs
               PROVE
      LET trail == Trail(s)
          own == {i \in 1 .. Len(trail) : EventMatchesSite(trail[i], site[s])} IN
      /\ \A i \in 1 .. Len(trail) : trail[i].id > since[s]
      /\ \A i, j \in 1 .. Len(trail) : i < j => trail[i].id < trail[j].id
      /\ site[s] # None => \A i \in 1 .. Len(sent[s]) : sent[s][i].tag = site[s]
      /\ \A k \in 1 .. Len(items) :
           (missed[s] = 0 /\ items[k].id > since[s] /\ EventMatchesSite(items[k], site[s]))
           => \E i \in own : trail[i] = items[k]
    BY DEF StreamsLoseOnlyOverflow
  <2>1. StreamFits(s)
    BY DEF NotificationsInv, TrailsFit
  <2> DEFINE trail == Trail(s)
             own == {i \in 1 .. Len(trail) : EventMatchesSite(trail[i], site[s])}
  <2>2. TrailFits(trail, since[s], published)
    BY <2>1 DEF StreamFits
  <2>3. site[s] # None => \A i \in 1 .. Len(sent[s]) : sent[s][i].tag = site[s]
    BY <2>1 DEF StreamFits, EventMatchesSite
  <2>4. ASSUME NEW k \in 1 .. Len(items), missed[s] = 0, items[k].id > since[s],
               EventMatchesSite(items[k], site[s])
        PROVE  \E i \in own : trail[i] = items[k]
    <3>1. ~Misses(trail, since[s], site[s], items)
      BY <2>1, <2>4 DEF StreamFits
    <3> HIDE DEF trail
    <3>2. PICK i \in 1 .. Len(trail) : trail[i] = items[k]
      BY <2>4, <3>1 DEF Misses
    <3>3. i \in own
      BY <2>4, <3>2
    <3> QED
      BY <3>2, <3>3
  <2> HIDE DEF trail
  <2>5. /\ \A i \in 1 .. Len(trail) : trail[i].id > since[s]
        /\ \A i, j \in 1 .. Len(trail) : i < j => trail[i].id < trail[j].id
    BY <2>2 DEF TrailFits, Rising
  <2> QED
    BY <2>3, <2>4, <2>5 DEF trail
<1> QED
  BY <1>1, NotificationsInvHolds, PTL

\* What the page of a reader shows: fresh, the reader's own, newest first.
LEMMA ShownFits ==
  ASSUME HistoryFits, NEW reader
  PROVE  \A i \in 1 .. Len(Shown(reader)) :
           /\ Shown(reader)[i].id > expired
           /\ reader # None => Shown(reader)[i].tag = reader
           /\ i > 1 => Shown(reader)[i].id < Shown(reader)[i - 1].id
<1> DEFINE kept   == Prune(items)
           from   == IF Len(kept) > ShowLimit THEN Len(kept) - ShowLimit + 1 ELSE 1
           recent == SubSeq(kept, from, Len(kept))
           own    == {e \in Event : EventMatchesSite(e, reader)}
           picked == Filter(recent, own)
           shown  == Shown(reader)
<1>1. /\ kept \in Seq(Event) /\ Rising(kept)
      /\ \A i \in 1 .. Len(kept) : kept[i].id > expired
  BY PruneFacts
<1>2. shown = [i \in 1 .. Len(picked) |-> picked[(Len(picked) - i) + 1]]
  BY DEF Shown, ListRecent, Reverse
<1> HIDE DEF kept, own, picked, shown
<1>3. Len(kept) \in Nat /\ from \in 1 .. Len(kept) + 1
  <2>1. Len(kept) \in Nat
    BY <1>1
  <2> QED
    BY <2>1, NotificationConstants
<1> HIDE DEF from
<1>4. /\ recent \in Seq(Event) /\ Len(recent) = (Len(kept) - from) + 1
      /\ \A i \in 1 .. Len(recent) : recent[i] = kept[(from + i) - 1]
  <2>1. \A i \in from .. Len(kept) : kept[i] \in Event
    BY <1>1, <1>3, ElementOfSeq
  <2>2. /\ recent \in Seq(Event)
        /\ Len(recent) = IF from <= Len(kept) THEN Len(kept) - from + 1 ELSE 0
        /\ \A i \in 1 .. Len(kept) - from + 1 : recent[i] = kept[from + i - 1]
    BY <1>3, <2>1, SubSeqProperties
  <2> QED
    BY <1>3, <2>2
<1> HIDE DEF recent
<1>5. \A i \in 1 .. Len(recent) : (from + i) - 1 \in 1 .. Len(kept)
  BY <1>3, <1>4
<1>6. Rising(recent)
  <2> SUFFICES ASSUME NEW i \in 1 .. Len(recent), NEW j \in 1 .. Len(recent), i < j
               PROVE  recent[i].id < recent[j].id
    BY DEF Rising
  <2>1. (from + i) - 1 < (from + j) - 1
    BY <1>3
  <2>2. kept[(from + i) - 1].id < kept[(from + j) - 1].id
    BY <1>1, <1>5, <2>1 DEF Rising
  <2> QED
    BY <1>4, <2>2
<1>7. \A i \in 1 .. Len(recent) : recent[i].id > expired
  BY <1>1, <1>4, <1>5
<1>8. /\ picked \in Seq(Event) /\ Rising(picked)
      /\ \A i \in 1 .. Len(picked) :
           picked[i] \in own /\ \E n \in 1 .. Len(recent) : picked[i] = recent[n]
  BY <1>4, <1>6, FilterFacts DEF picked
<1>9. Len(picked) \in Nat /\ Len(shown) = Len(picked)
  <2>1. Len(picked) \in Nat
    BY <1>8
  <2> QED
    BY <1>2, <2>1
<1>10. ASSUME NEW i \in 1 .. Len(shown)
       PROVE  /\ shown[i].id > expired
              /\ reader # None => shown[i].tag = reader
              /\ i > 1 => shown[i].id < shown[i - 1].id
  <2>1. (Len(picked) - i) + 1 \in 1 .. Len(picked) /\ shown[i] = picked[(Len(picked) - i) + 1]
    BY <1>2, <1>9
  <2>2. shown[i].id > expired
    BY <1>7, <1>8, <2>1
  <2>3. reader # None => shown[i].tag = reader
    <3>1. EventMatchesSite(shown[i], reader)
      BY <1>8, <2>1 DEF own
    <3> QED
      BY <3>1 DEF EventMatchesSite
  <2>4. ASSUME i > 1 PROVE shown[i].id < shown[i - 1].id
    <3>1. /\ (Len(picked) - (i - 1)) + 1 \in 1 .. Len(picked)
          /\ shown[i - 1] = picked[(Len(picked) - (i - 1)) + 1]
          /\ (Len(picked) - i) + 1 < (Len(picked) - (i - 1)) + 1
      BY <1>2, <1>9, <2>4
    <3> QED
      BY <1>8, <2>1, <3>1 DEF Rising
  <2> QED
    BY <2>2, <2>3, <2>4
<1> QED
  BY <1>10 DEF shown

\* The history holds every fresh event, and a reader is shown fresh events of the
\* own site only, newest first (pruneLocked, List, ListRecent).
THEOREM HistoryKeepsFreshHolds == Spec => []HistoryKeepsFresh
<1>1. NotificationsInv => HistoryKeepsFresh
  <2> SUFFICES ASSUME NotificationsInv PROVE HistoryKeepsFresh
    OBVIOUS
  <2>1. HistoryFits
    BY DEF NotificationsInv
  <2>2. \A id \in expired + 1 .. published : \E i \in 1 .. Len(items) : items[i].id = id
    BY <2>1 DEF HistoryFits
  <2>3. \A reader \in Sites \cup {None} : \A i \in 1 .. Len(Shown(reader)) :
          /\ Shown(reader)[i].id > expired
          /\ reader # None => Shown(reader)[i].tag = reader
          /\ i > 1 => Shown(reader)[i].id < Shown(reader)[i - 1].id
    BY <2>1, ShownFits
  <2> QED
    BY <2>2, <2>3 DEF HistoryKeepsFresh
<1> QED
  BY <1>1, NotificationsInvHolds, PTL

-----------------------------------------------------------------------------
(* What a channel took is written.                                         *)

\* The event is n places from the head of the channel,
Waits(s, id, n) ==
  /\ s \in subs /\ n \in 1 .. Len(buffer[s])
  /\ buffer[s][n].id = id /\ EventMatchesSite(buffer[s][n], site[s])

\* is in the hands of the handler,
IsHeld(s, id) == s \in subs /\ held[s] # None /\ held[s].id = id

\* or is at the browser, unless the stream has ended.
Gone(s, id) == s \notin subs \/ \E i \in 1 .. Len(sent[s]) : sent[s][i].id = id

Idle(s) == held[s] = None

\* One place nearer
Nearer(s, id, n) == IF n = 1 THEN IsHeld(s, id) ELSE Waits(s, id, n - 1)

\* What is none of the stream's own steps leaves it alone, ends it, or adds to the
\* end of its channel.
Others(s) ==
  \/ s \notin subs'
  \/ /\ site'[s] = site[s] /\ held'[s] = held[s] /\ sent'[s] = sent[s]
     /\ buffer'[s] = buffer[s] \/ \E e : buffer'[s] = Append(buffer[s], e)

LEMMA OthersLeaveAlone ==
  ASSUME StreamsFit, NEW s \in Streams, s \in subs, [Next]_vars
  PROVE  StreamStep(s) \/ Others(s)
<1>1. CASE Age \/ List \/ UNCHANGED vars
  BY <1>1 DEF Age, List, vars, hub, stream, Others
<1>2. CASE Restart
  BY <1>2 DEF Restart, Others
<1>3. ASSUME NEW tag \in Sites \cup {None}, Publish(tag) PROVE Others(s)
  <2> DEFINE e == [id |-> published + 1, tag |-> tag]
  <2>1. UNCHANGED <<subs, site, held, sent>>
    BY <1>3 DEF Publish
  <2>2. buffer'[s] = buffer[s] \/ buffer'[s] = Append(buffer[s], e)
    BY <1>3 DEF Publish, Offer
  <2> QED
    BY <2>1, <2>2 DEF Others
<1>4. ASSUME NEW t \in Streams, StreamStep(t) PROVE StreamStep(s) \/ Others(s)
  <2>1. CASE t = s
    BY <1>4, <2>1
  <2>2. CASE t # s
    <3>1. UNCHANGED site /\ buffer'[s] = buffer[s] /\ held'[s] = held[s] /\ sent'[s] = sent[s]
      BY <1>4, <2>2 DEF StreamStep, Receive, Write, StreamsFit
    <3> QED
      BY <3>1 DEF Others
  <2> QED
    BY <2>1, <2>2
<1>5. ASSUME NEW t \in Streams, Unsubscribe(t) PROVE Others(s)
  BY <1>5 DEF Unsubscribe, StreamsFit, Others
<1>6. ASSUME NEW t \in Streams, NEW reader \in Sites \cup {None}, Subscribe(t, reader)
      PROVE  Others(s)
  <2>1. t # s
    BY <1>6 DEF Subscribe
  <2> QED
    BY <1>6, <2>1 DEF Subscribe, StreamsFit, Others
<1> QED
  BY <1>1, <1>2, <1>3, <1>4, <1>5, <1>6 DEF Next

\* What waits goes on waiting where it is, or moves one place, or the stream ends.
LEMMA OthersKeepWaiting ==
  ASSUME StreamsFit, NEW s \in Streams, NEW id, NEW n, Waits(s, id, n), Others(s)
  PROVE  Gone(s, id)' \/ (Waits(s, id, n)' /\ Idle(s)' = Idle(s))
<1>1. s \in subs /\ n \in 1 .. Len(buffer[s]) /\ buffer[s] \in Seq(Event)
  BY DEF Waits, StreamsFit
<1>2. CASE s \notin subs'
  BY <1>2 DEF Gone
<1>3. CASE s \in subs'
  <2>1. /\ site'[s] = site[s] /\ held'[s] = held[s]
        /\ buffer'[s] = buffer[s] \/ \E e : buffer'[s] = Append(buffer[s], e)
    BY <1>3 DEF Others
  <2>2. n \in 1 .. Len(buffer'[s]) /\ buffer'[s][n] = buffer[s][n]
    <3>1. CASE buffer'[s] = buffer[s]
      BY <1>1, <3>1
    <3>2. ASSUME NEW e, buffer'[s] = Append(buffer[s], e)
          PROVE  n \in 1 .. Len(buffer'[s]) /\ buffer'[s][n] = buffer[s][n]
      BY <1>1, <3>2
    <3> QED
      BY <2>1, <3>1, <3>2
  <2>3. EventMatchesSite(buffer[s][n], site[s]) => EventMatchesSite(buffer'[s][n], site'[s])
    BY <2>1, <2>2 DEF EventMatchesSite
  <2> QED
    BY <1>3, <2>1, <2>2, <2>3 DEF Waits, Idle
<1> QED
  BY <1>2, <1>3

LEMMA WriteFreesHandler ==
  ASSUME StreamsFit, NEW s \in Streams, NEW id, NEW n, Waits(s, id, n), Write(s)
  PROVE  Waits(s, id, n)' /\ Idle(s)'
<1>1. UNCHANGED <<subs, buffer, site>> /\ held'[s] = None
  BY DEF Write, StreamsFit
<1> QED
  BY <1>1 DEF Waits, Idle, EventMatchesSite

LEMMA ReceiveBringsNearer ==
  ASSUME StreamsFit, NEW s \in Streams, NEW id, NEW n, Waits(s, id, n), Receive(s)
  PROVE  Nearer(s, id, n)'
<1>1. /\ s \in subs /\ n \in 1 .. Len(buffer[s]) /\ buffer[s] \in Seq(Event)
      /\ buffer[s] # <<>> /\ UNCHANGED <<subs, site>> /\ buffer'[s] = Tail(buffer[s])
  BY DEF Waits, StreamsFit, Receive
<1>2. CASE n = 1
  <2>1. EventMatchesSite(Head(buffer[s]), site[s]) /\ Head(buffer[s]).id = id
        /\ Head(buffer[s]) \in Event
    <3>1. Head(buffer[s]) = buffer[s][1] /\ Head(buffer[s]) \in Event
      BY <1>1
    <3> QED
      BY <1>2, <3>1 DEF Waits
  <2>2. held'[s] = Head(buffer[s])
    BY <2>1 DEF Receive, StreamsFit
  <2>3. Head(buffer[s]) # None
    BY <2>1, NoneIsNoEvent
  <2> QED
    BY <1>1, <1>2, <2>1, <2>2, <2>3 DEF Nearer, IsHeld
<1>3. CASE n # 1
  <2>1. n - 1 \in 1 .. Len(Tail(buffer[s])) /\ Tail(buffer[s])[n - 1] = buffer[s][n]
    BY <1>1, <1>3
  <2>2. EventMatchesSite(buffer[s][n], site[s]) /\ buffer[s][n].id = id
    BY DEF Waits
  <2>3. EventMatchesSite(buffer'[s][n - 1], site'[s])
    BY <1>1, <2>1, <2>2 DEF EventMatchesSite
  <2>4. Waits(s, id, n - 1)'
    BY <1>1, <2>1, <2>2, <2>3 DEF Waits
  <2> QED
    BY <1>3, <2>4 DEF Nearer
<1> QED
  BY <1>2, <1>3

LEMMA WaitingStep ==
  ASSUME StreamsFit, NEW s \in Streams, NEW id, NEW n, Waits(s, id, n), [Next]_vars
  PROVE  /\ Waits(s, id, n)' \/ Nearer(s, id, n)' \/ Gone(s, id)'
         /\ Idle(s) => (Waits(s, id, n)' /\ Idle(s)') \/ Nearer(s, id, n)' \/ Gone(s, id)'
         /\ StreamStep(s) => (~Idle(s) /\ Waits(s, id, n)' /\ Idle(s)') \/ Nearer(s, id, n)'
<1>1. s \in subs
  BY DEF Waits
<1>2. CASE Write(s)
  <2>1. ~Idle(s)
    BY <1>2 DEF Write, Idle
  <2> QED
    BY <1>2, <2>1, WriteFreesHandler
<1>3. CASE Receive(s)
  BY <1>3, ReceiveBringsNearer
<1>4. CASE Others(s) /\ ~StreamStep(s)
  BY <1>4, OthersKeepWaiting
<1> QED
  BY <1>1, <1>2, <1>3, <1>4, OthersLeaveAlone DEF StreamStep

LEMMA HeldStep ==
  ASSUME StreamsFit, NEW s \in Streams, NEW id, IsHeld(s, id), [Next]_vars
  PROVE  /\ IsHeld(s, id)' \/ Gone(s, id)'
         /\ StreamStep(s) => Gone(s, id)'
<1>1. s \in subs /\ held[s] # None /\ sent[s] \in Seq(Event) /\ held[s].id = id
      /\ held[s] \in Event
  BY DEF IsHeld, StreamsFit
<1>2. ~Receive(s)
  BY <1>1 DEF Receive
<1>3. ASSUME Write(s) PROVE Gone(s, id)'
  <2>1. sent'[s] = Append(sent[s], held[s])
    BY <1>3 DEF Write, StreamsFit
  <2>2. Len(sent'[s]) \in 1 .. Len(sent'[s]) /\ sent'[s][Len(sent'[s])] = held[s]
    BY <1>1, <2>1
  <2> QED
    BY <1>1, <2>2 DEF Gone
<1>4. ASSUME Others(s) PROVE IsHeld(s, id)' \/ Gone(s, id)'
  BY <1>1, <1>4 DEF Others, IsHeld, Gone
<1> QED
  BY <1>1, <1>2, <1>3, <1>4, OthersLeaveAlone DEF StreamStep

\* An open stream with an event to write or to take
HasWork(s) == s \in subs /\ (held[s] # None \/ buffer[s] # <<>>)

\* The handler of an open stream goes on, or again and again has nothing to do.  That
\* is its weak fairness: by the guards of Receive and Write it can go on when it
\* has work, whoever's event comes first in its channel.
KeepsGoing(s) == []<>~HasWork(s) \/ []<><<StreamStep(s)>>_vars

AllKeepGoing == \A s \in Streams : KeepsGoing(s)

\* What the steps below need of a behavior
Runs(s) == []StreamsFit /\ [][Next]_vars /\ KeepsGoing(s)

\* It comes one place nearer, and what is held is written.
Approaches(s, id, n) == Runs(s) => (Waits(s, id, n) ~> (Nearer(s, id, n) \/ Gone(s, id)))

IsWritten(s, id) == Runs(s) => (IsHeld(s, id) ~> Gone(s, id))

\* The event moves one place: the handler writes what it holds and then takes
\* the head of the channel.
LEMMA ComesNearer ==
  ASSUME NEW s \in Streams, NEW id, NEW n
  PROVE  Approaches(s, id, n)
<1> DEFINE here   == Waits(s, id, n)
           nearer == Nearer(s, id, n)
           gone   == Gone(s, id)
           idle   == Idle(s)
<1>1. StreamsFit /\ here /\ [Next]_vars => here' \/ nearer' \/ gone'
  BY WaitingStep
<1>2. StreamsFit /\ here /\ idle /\ [Next]_vars => (here' /\ idle') \/ nearer' \/ gone'
  BY WaitingStep
<1>3. StreamsFit /\ here /\ [Next]_vars /\ <<StreamStep(s)>>_vars
      => (~idle /\ here' /\ idle') \/ nearer'
  BY WaitingStep
<1>4. here => HasWork(s)
  <2>1. Waits(s, id, n) => s \in subs /\ buffer[s] # <<>>
    <3>1. Len(<<>>) = 0
      OBVIOUS
    <3> QED
      BY <3>1 DEF Waits
  <2> QED
    BY <2>1 DEF HasWork
<1> HIDE DEF here, nearer, gone, idle
<1>5. Runs(s) => (here ~> (nearer \/ gone))
  BY <1>1, <1>2, <1>3, <1>4, PTL DEF Runs, KeepsGoing
<1> QED
  BY <1>5 DEF here, nearer, gone, Approaches

LEMMA HeldIsWritten ==
  ASSUME NEW s \in Streams, NEW id
  PROVE  IsWritten(s, id)
<1> DEFINE here == IsHeld(s, id)
           gone == Gone(s, id)
<1>1. StreamsFit /\ here /\ [Next]_vars => here' \/ gone'
  BY HeldStep
<1>2. StreamsFit /\ here /\ [Next]_vars /\ <<StreamStep(s)>>_vars => gone'
  BY HeldStep
<1>3. here => HasWork(s)
  BY DEF IsHeld, HasWork
<1> HIDE DEF here, gone
<1>4. Runs(s) => (here ~> gone)
  BY <1>1, <1>2, <1>3, PTL DEF Runs, KeepsGoing
<1> QED
  BY <1>4 DEF here, gone, IsWritten

\* From any of sixteen places an event comes to the head of the channel and is
\* written.
LEMMA SixteenPlaces ==
  ASSUME NEW s \in Streams, NEW id, Capacity <= 16
  PROVE  Runs(s) => ((\E n \in 1 .. Len(buffer[s]) : Waits(s, id, n)) ~> Gone(s, id))
<1> DEFINE at(n)      == Waits(s, id, n)
           gone       == Gone(s, id)
           Step(m, n) == Runs(s) => (at(n) ~> (at(m) \/ gone))
           first16    == \/ at(1) \/ at(2) \/ at(3) \/ at(4) \/ at(5) \/ at(6) \/ at(7)
                         \/ at(8) \/ at(9) \/ at(10) \/ at(11) \/ at(12) \/ at(13)
                         \/ at(14) \/ at(15) \/ at(16)
           some       == \E n \in 1 .. Len(buffer[s]) : Waits(s, id, n)
<1>1. Runs(s) => (at(1) ~> gone)
  <2>1. Nearer(s, id, 1) <=> IsHeld(s, id)
    BY DEF Nearer
  <2>2. Approaches(s, id, 1) /\ IsWritten(s, id)
    BY ComesNearer, HeldIsWritten
  <2> QED
    BY <2>1, <2>2, PTL DEF Approaches, IsWritten
<1>2. ASSUME NEW m \in 1 .. 15, NEW n \in Nat, n = m + 1 PROVE Step(m, n)
  <2>1. Nearer(s, id, n) <=> Waits(s, id, m)
    <3>1. n # 1 /\ n - 1 = m
      BY <1>2
    <3> QED
      BY <3>1 DEF Nearer
  <2>2. Approaches(s, id, n)
    BY ComesNearer
  <2> QED
    BY <2>1, <2>2, PTL DEF Approaches
<1> HIDE DEF Step
<1>3. /\ Step(1, 2) /\ Step(2, 3) /\ Step(3, 4) /\ Step(4, 5) /\ Step(5, 6)
      /\ Step(6, 7) /\ Step(7, 8) /\ Step(8, 9) /\ Step(9, 10) /\ Step(10, 11)
      /\ Step(11, 12) /\ Step(12, 13) /\ Step(13, 14) /\ Step(14, 15) /\ Step(15, 16)
  BY <1>2
<1>4. StreamsFit /\ some => first16
  <2> HIDE DEF at
  <2> SUFFICES ASSUME StreamsFit, NEW n \in 1 .. Len(buffer[s]), at(n)
               PROVE  first16
    BY DEF at
  <2>1. Len(buffer[s]) \in Nat /\ Len(buffer[s]) <= Capacity /\ Capacity \in Nat
    BY NotificationConstants DEF StreamsFit
  <2>2. n \in 1 .. 16
    BY <2>1
  <2> QED
    BY <2>2
<1> HIDE DEF at, gone, some
<1>5. Runs(s) => (some ~> gone)
  BY <1>1, <1>3, <1>4, PTL DEF Step, Runs
<1> QED
  BY <1>5 DEF some, gone

\* What a channel took is written to the browser if it is of its site, unless the
\* stream ends: for any sites, streams and number of events, and channels of no
\* more than the 16 places of the code (Service.Subscribe, sse.go).  The premise is
\* that the handler of an open stream goes on while it has work.
THEOREM TakenIsWrittenHolds ==
  ASSUME Capacity <= 16
  PROVE  Init /\ [][Next]_vars /\ AllKeepGoing => TakenIsWritten
<1> DEFINE Taken(s, id)   == \E i \in 1 .. Len(buffer[s]) :
                               buffer[s][i].id = id /\ EventMatchesSite(buffer[s][i], site[s])
           Ends(s, id)    == s \notin subs \/ \E i \in 1 .. Len(sent[s]) : sent[s][i].id = id
           Arrives(s, id) == Taken(s, id) ~> Ends(s, id)
           F              == Init /\ [][Next]_vars /\ AllKeepGoing
<1>1. Init /\ [][Next]_vars => []StreamsFit
  <2>1. NotificationsInv => StreamsFit
    BY DEF NotificationsInv
  <2> QED
    BY <2>1, InitFits, NextFits, PTL
<1>3. ASSUME NEW s \in Streams, NEW id \in 1 .. Events
      PROVE  F => Arrives(s, id)
  <2>1. AllKeepGoing => KeepsGoing(s)
    BY DEF AllKeepGoing
  <2>2. Taken(s, id) => (\E n \in 1 .. Len(buffer[s]) : Waits(s, id, n)) \/ Gone(s, id)
    BY DEF Waits, Gone
  <2>3. Gone(s, id) <=> Ends(s, id)
    BY DEF Gone
  <2>4. Runs(s) => ((\E n \in 1 .. Len(buffer[s]) : Waits(s, id, n)) ~> Gone(s, id))
    BY SixteenPlaces
  <2> HIDE DEF Taken, Ends
  <2>5. F => Runs(s)
    BY <1>1, <2>1, PTL DEF Runs
  <2>6. F => Arrives(s, id)
    BY <2>2, <2>3, <2>4, <2>5, PTL
  <2> QED
    BY <2>6
<1>4. TakenIsWritten <=> \A s \in Streams : \A id \in 1 .. Events : Arrives(s, id)
  BY DEF TakenIsWritten
<1> HIDE DEF F, Arrives
<1>5. F => \A s \in Streams : \A id \in 1 .. Events : Arrives(s, id)
  BY <1>3
<1> QED
  BY <1>4, <1>5 DEF F
=============================================================================
