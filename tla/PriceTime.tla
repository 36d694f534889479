----------------------------- MODULE PriceTime -----------------------------
(***************************************************************************)
(* What one side of an order book promises, without any of the structure   *)
(* that BookSide keeps: for every price a first-come first-served queue of  *)
(* resting orders, each with the lots it still has to trade.  An order      *)
(* joins the back of the queue of its own price, may lose lots where it     *)
(* stands, and leaves; nothing else ever changes its place.                 *)
(***************************************************************************)
EXTENDS Naturals, SequencesExt

CONSTANTS
  Orders,   \* the orders that may rest on this side
  Prices,   \* the prices they may rest at
  Lots      \* the quantities they may have, positive

VARIABLES
  queue,    \* queue[p]: the orders resting at price p, oldest first
  open      \* open[o]: lots order o still has to trade; 0 unless it rests

vars == <<queue, open>>

Resting(o) == \E p \in Prices : Contains(queue[p], o)

Init ==
  /\ queue = [p \in Prices |-> << >>]
  /\ open  = [o \in Orders |-> 0]

Join(o, p, lots) ==
  /\ open' = [open EXCEPT ![o] = lots]
  /\ ~ Resting(o)
  /\ queue' = [queue EXCEPT ![p] = Append(@, o)]

Shrink(o, lots) ==
  /\ lots < open[o]
  /\ open' = [open EXCEPT ![o] = @ - lots]
  /\ Resting(o)
  /\ UNCHANGED queue

Leave(o) ==
  /\ open' = [open EXCEPT ![o] = 0]
  /\ \E p \in Prices : \E i \in DOMAIN queue[p] :
       queue[p][i] = o /\ queue' = [queue EXCEPT ![p] = RemoveAt(@, i)]

Next ==
  \E o \in Orders :
    \/ \E p \in Prices, lots \in Lots : Join(o, p, lots)
    \/ \E lots \in Lots : Shrink(o, lots)
    \/ Leave(o)

Spec == Init /\ [][Next]_vars
=============================================================================
