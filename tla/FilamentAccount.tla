---------------------------- MODULE FilamentAccount ----------------------------
(***************************************************************************)
(* What the filament ledger promises, without jobs, polls or printers: a   *)
(* double-entry account.  A holder takes plastic from one spool for as     *)
(* long as it exists, and whatever a holder gains its spool loses.         *)
(*                                                                         *)
(* Plastic may leave the books in three ways only, each by name: a holder  *)
(* that printed more than the spool was thought to have (Overdraw), one    *)
(* whose spool was thrown away (Forfeit), and one that is removed with     *)
(* what it has used (Remove).  Nothing but a person's stocktake may put    *)
(* plastic on a spool that no holder gave back.                            *)
(***************************************************************************)
EXTENDS Integers

CONSTANTS Spools, NoSpool, Holders

VARIABLES
  stock,      \* [Spools -> Nat]
  shelf,      \* the spools at hand
  hold,       \* [Holders -> Nat]
  from,       \* [Holders -> the spool it takes from, or NoSpool]
  stocktakes  \* number of stocktakes so far, modulo 2

vars == <<stock, shelf, hold, from, stocktakes>>

Init ==
  /\ stock = [s \in Spools |-> 0]
  /\ shelf = {}
  /\ hold = [h \in Holders |-> 0]
  /\ from = [h \in Holders |-> NoSpool]
  /\ stocktakes = 0

\* A holder takes from one spool, chosen when it first takes any.
Binds(h, s) ==
  /\ from[h] \in {NoSpool, s}
  /\ from' = [from EXCEPT ![h] = s]
  /\ hold'[h] \in Nat
  /\ hold' = [hold EXCEPT ![h] = hold'[h]]

Transfer(h, s) ==
  /\ s \in shelf
  /\ Binds(h, s)
  /\ stock'[s] = stock[s] + hold[h] - hold'[h]
  /\ stock'[s] \in Nat
  /\ stock' = [stock EXCEPT ![s] = stock'[s]]
  /\ UNCHANGED <<shelf, stocktakes>>

\* Everything that was left, and more than that
Overdraw(h, s) ==
  /\ s \in shelf
  /\ Binds(h, s)
  /\ hold'[h] > hold[h] + stock[s]
  /\ stock' = [stock EXCEPT ![s] = 0]
  /\ UNCHANGED <<shelf, stocktakes>>

Forfeit(h, s) ==
  /\ s \notin shelf
  /\ from[h] = s
  /\ Binds(h, s)
  /\ hold'[h] < hold[h]
  /\ UNCHANGED <<stock, shelf, stocktakes>>

\* A removed holder may give back at most what it held.
Remove(h) ==
  /\ hold' = [hold EXCEPT ![h] = 0]
  /\ from' = [from EXCEPT ![h] = NoSpool]
  /\ \/ stock' = stock
     \/ /\ from[h] \in shelf
        /\ stock'[from[h]] - stock[from[h]] \in 0..hold[h]
        /\ stock' = [stock EXCEPT ![from[h]] = stock'[from[h]]]
  /\ UNCHANGED <<shelf, stocktakes>>

Deliver(s) ==
  /\ s \notin shelf
  /\ shelf' = shelf \cup {s}
  /\ stock'[s] \in Nat \ {0}
  /\ stock' = [stock EXCEPT ![s] = stock'[s]]
  /\ UNCHANGED <<hold, from, stocktakes>>

Discard(s) ==
  /\ s \in shelf
  /\ shelf' = shelf \ {s}
  /\ stock' = [stock EXCEPT ![s] = 0]
  /\ UNCHANGED <<hold, from, stocktakes>>

Stocktake(s) ==
  /\ s \in shelf
  /\ stock'[s] \in Nat
  /\ stock' = [stock EXCEPT ![s] = stock'[s]]
  /\ stocktakes' = 1 - stocktakes
  /\ UNCHANGED <<shelf, hold, from>>

Next ==
  \/ \E s \in Spools : Deliver(s) \/ Discard(s) \/ Stocktake(s)
  \/ \E h \in Holders : Remove(h)
  \/ \E h \in Holders, s \in Spools :
       Transfer(h, s) \/ Overdraw(h, s) \/ Forfeit(h, s)

Spec == Init /\ [][Next]_vars
=============================================================================
