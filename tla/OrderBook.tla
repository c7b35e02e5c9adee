------------------------------ MODULE OrderBook ------------------------------
(***************************************************************************)
(* The integer limit order book of the simulation kernel                   *)
(* (java/simulation-kernel, book/IntegerOrderBook.java), as operators on   *)
(* book values.                                                            *)
(*                                                                         *)
(* A book is a record of the two things the class keeps in step:           *)
(*   levels[side]  the TreeMap price -> FIFO queue of resting orders, a    *)
(*                 function whose domain is the set of prices present      *)
(*   orders        the index order id -> order                             *)
(* Every operation returns the new book and `muts`, the BookMutations it   *)
(* hands to the listener, in order.                                        *)
(*                                                                         *)
(* An order keeps the fields the operations read: id, agent, side, qty     *)
(* (lots), price (ticks), ts (its priority timestamp).  Scenario lineage   *)
(* and the display owner are left out.                                     *)
(***************************************************************************)
EXTENDS Integers, Sequences, FiniteSets

Sides == {"buy", "sell"}

Opposite(side) == IF side = "buy" THEN "sell" ELSE "buy"

\* A request without a price: a market order, or a modify that keeps the price.
NoPrice == 0

EmptyBook == [levels |-> [s \in Sides |-> <<>>], orders |-> <<>>]

\* Order identifiers are 4-tuples: the ids of synthetic levels are derived from
\* the side, the price and, for an agent's quote, the agent.
SyntheticOrderId(side, price) == <<"l2", side, price, "">>

AgentLevelOrderId(side, price, agent) == <<"l2", side, price, agent>>

\* Map.remove and Map.put.
Without(f, S) == [x \in DOMAIN f \ S |-> f[x]]

Put(f, x, v) == [y \in DOMAIN f \cup {x} |-> IF y = x THEN v ELSE f[y]]

QueueAt(b, side, price) ==
  IF price \in DOMAIN b.levels[side] THEN b.levels[side][price] ELSE <<>>

\* Stores a queue; a level whose queue became empty leaves the map.
StoreQueue(b, side, price, queue) ==
  [b EXCEPT !.levels[side] = IF queue = <<>> THEN Without(@, {price})
                                             ELSE Put(@, price, queue)]

Index(b, order) == [b EXCEPT !.orders = Put(@, order.id, order)]

Deindex(b, ids) == [b EXCEPT !.orders = Without(@, ids)]

ReplaceId(queue, order) ==
  [i \in DOMAIN queue |-> IF queue[i].id = order.id THEN order ELSE queue[i]]

IdsOf(queue) == {queue[i].id : i \in DOMAIN queue}

PlaceOf(queue, id) == CHOOSE i \in DOMAIN queue : queue[i].id = id

\* removeIf: an order is in one queue once.
RemoveId(queue, id) ==
  IF id \notin IdsOf(queue) THEN queue
  ELSE [i \in 1..(Len(queue) - 1) |->
          queue[IF i < PlaceOf(queue, id) THEN i ELSE i + 1]]

TotalQty(queue) ==
  LET sum[k \in 0..Len(queue)] == IF k = 0 THEN 0 ELSE sum[k - 1] + queue[k].qty
  IN  sum[Len(queue)]

(***************************************************************************)
(* Mutations, as the listener receives them.                               *)
(***************************************************************************)
AddMutation(o) ==
  [type |-> "add", before |-> o, after |-> o, preserved |-> FALSE]

CancelMutation(o) ==
  [type |-> "cancel", before |-> o, after |-> o, preserved |-> FALSE]

ModifyMutation(o, n, preserved) ==
  [type |-> "modify", before |-> o, after |-> n, preserved |-> preserved]

Unchanged(b) == [book |-> b, muts |-> <<>>]

(***************************************************************************)
(* add, cancel, modify.  Add's duplicate-id exception is the caller's      *)
(* guard (IsDuplicate); cancel and modify of an unknown id do nothing.     *)
(***************************************************************************)
IsDuplicate(b, id) == id \in DOMAIN b.orders

Add(b, o) ==
  [book |-> Index(StoreQueue(b, o.side, o.price,
                             Append(QueueAt(b, o.side, o.price), o)), o),
   muts |-> <<AddMutation(o)>>]

CancelOrder(b, id) ==
  IF id \notin DOMAIN b.orders THEN Unchanged(b)
  ELSE LET o == b.orders[id]
           queue == RemoveId(QueueAt(b, o.side, o.price), id)
       IN  [book |-> Deindex(StoreQueue(b, o.side, o.price, queue), {id}),
            muts |-> <<CancelMutation(o)>>]

\* The two exceptions of modify: the order may not change side or agent.
ModifyRejected(b, req) ==
  /\ req.id \in DOMAIN b.orders
  /\ \/ req.side # b.orders[req.id].side
     \/ req.agent # b.orders[req.id].agent

\* At the same price the order is replaced in its queue slot and keeps its
\* timestamp; at another price it goes to the tail with the request's.
ModifyOrder(b, req) ==
  IF req.id \notin DOMAIN b.orders THEN Unchanged(b)
  ELSE LET old == b.orders[req.id]
           price == IF req.price = NoPrice THEN old.price ELSE req.price
           preserved == price = old.price
           new == [old EXCEPT !.qty = req.qty, !.price = price,
                              !.ts = IF preserved THEN @ ELSE req.ts]
           queue == QueueAt(b, old.side, old.price)
           moved == StoreQueue(b, old.side, old.price, RemoveId(queue, old.id))
           stored ==
             IF preserved
             THEN StoreQueue(b, old.side, old.price, ReplaceId(queue, new))
             ELSE StoreQueue(moved, old.side, price,
                             Append(QueueAt(moved, old.side, price), new))
       IN  [book |-> Index(stored, new),
            muts |-> <<ModifyMutation(old, new, preserved)>>]

(***************************************************************************)
(* match: walks the opposite side best price first and each queue first in *)
(* first out, until the aggressor is filled or a price no longer crosses.  *)
(***************************************************************************)
Crosses(side, restingPrice, limit) ==
  \/ limit = NoPrice
  \/ IF side = "buy" THEN restingPrice <= limit ELSE restingPrice >= limit

\* Mutant: the natural order of the map on both sides.
Lower(side, p, q) == p < q

Better(side, p, q) == IF side = "buy" THEN p > q ELSE p < q

BestFirst(b, side) ==
  LET prices == DOMAIN b.levels[side]
  IN  [k \in 1..Cardinality(prices) |->
         CHOOSE p \in prices : Cardinality({q \in prices : Better(side, q, p)}) = k - 1]

\* The places of the crossing orders, as pairs of a price and a queue position.
CrossingPlaces(b, side, limit) ==
  UNION {{p} \X DOMAIN b.levels[Opposite(side)][p] :
           p \in {p \in DOMAIN b.levels[Opposite(side)] : Crosses(side, p, limit)}}

Precedes(side, x, y) ==
  Better(side, x[1], y[1]) \/ (x[1] = y[1] /\ x[2] < y[2])

CrossingQueue(b, aggressor, limit) ==
  LET side == Opposite(aggressor.side)
      places == CrossingPlaces(b, aggressor.side, limit)
      place(k) == CHOOSE y \in places : Cardinality({x \in places : Precedes(side, x, y)}) = k - 1
  IN  [k \in 1..Cardinality(places) |->
         LET y == place(k) IN b.levels[side][y[1]][y[2]]]

\* One fill: the resting order is reduced in queue and index, or leaves both.
Fill(acc, resting) ==
  IF acc.remaining = 0 THEN acc
  ELSE LET traded == IF acc.remaining < resting.qty THEN acc.remaining
                                                    ELSE resting.qty
           left == [resting EXCEPT !.qty = @ - traded]
           queue == QueueAt(acc.book, resting.side, resting.price)
       IN  [remaining |-> acc.remaining - traded,
            book |-> IF left.qty = 0
                     THEN Deindex(StoreQueue(acc.book, resting.side, resting.price,
                                             RemoveId(queue, resting.id)),
                                  {resting.id})
                     ELSE Index(StoreQueue(acc.book, resting.side, resting.price,
                                           ReplaceId(queue, left)), left),
            execs |-> Append(acc.execs, [type |-> "execute", before |-> resting,
                                         after |-> left, preserved |-> TRUE])]

Match(b, aggressor, limit) ==
  LET queue == CrossingQueue(b, aggressor, limit)
      after[k \in 0..Len(queue)] ==
        IF k = 0 THEN [remaining |-> aggressor.qty, book |-> b, execs |-> <<>>]
        ELSE Fill(after[k - 1], queue[k])
  IN  after[Len(queue)]

(***************************************************************************)
(* Synthetic levels.                                                       *)
(***************************************************************************)
\* Mutant: a removed level is not reported to the listener.
RemoveLevelSilently(b, side, price) ==
  Unchanged(Deindex(StoreQueue(b, side, price, <<>>), IdsOf(QueueAt(b, side, price))))

RemoveLevel(b, side, price) ==
  LET removed == QueueAt(b, side, price)
  IN  [book |-> Deindex(StoreQueue(b, side, price, <<>>), IdsOf(removed)),
       muts |-> [i \in DOMAIN removed |-> CancelMutation(removed[i])]]

\* Setting a level to no lots removes it.
Removes(qty) == qty <= 0

\* Replaces the whole level by the one synthetic order of that level.
UpdateLevel(b, side, price, qty, owner) ==
  IF Removes(qty) THEN RemoveLevel(b, side, price)
  ELSE LET existing == QueueAt(b, side, price)
           new == [id |-> SyntheticOrderId(side, price), agent |-> owner,
                   side |-> side, qty |-> qty, price |-> price, ts |-> 0]
           same == existing[PlaceOf(existing, new.id)]
           others == RemoveId(existing, new.id)
       IN  [book |-> Index(StoreQueue(Deindex(b, IdsOf(existing)), side, price, <<new>>),
                           new),
            muts |-> [i \in DOMAIN others |-> CancelMutation(others[i])] \o
                     (IF new.id \notin IdsOf(existing) THEN <<AddMutation(new)>>
                      ELSE IF same # new THEN <<ModifyMutation(same, new, TRUE)>>
                                         ELSE <<>>)]

\* One agent's quote: the order is taken out of wherever it rests and put at
\* the tail of the requested level.
UpdateAgentLevel(b, side, price, qty, agent, id, ts) ==
  IF Removes(qty) THEN CancelOrder(b, id)
  ELSE LET known == id \in DOMAIN b.orders
           old == b.orders[id]
           lifted == IF known
                     THEN Deindex(StoreQueue(b, old.side, old.price,
                                    RemoveId(QueueAt(b, old.side, old.price), id)),
                                  {id})
                     ELSE b
           new == [id |-> id, agent |-> agent, side |-> side, qty |-> qty,
                   price |-> price, ts |-> ts]
           queue == Append(RemoveId(QueueAt(lifted, side, price), id), new)
       IN  [book |-> Index(StoreQueue(lifted, side, price, queue), new),
            muts |-> IF ~known THEN <<AddMutation(new)>>
                     ELSE IF old # new
                          THEN <<ModifyMutation(old, new,
                                   old.side = side /\ old.price = price)>>
                          ELSE <<>>]

\* Tops the level up to the minimum with the agent's own quote.
EnsureLevelMinimum(b, side, price, minimum, agent) ==
  LET id == AgentLevelOrderId(side, price, agent)
      others == TotalQty(RemoveId(QueueAt(b, side, price), id))
      lots == IF minimum > others THEN minimum - others ELSE 0
  IN  UpdateAgentLevel(b, side, price, lots, agent, id, 0)

\* The symmetric baseline ladder a fresh book starts from; no listener is
\* attached yet, so its mutations go nowhere.
Initialize(reference, depth, spacing, base, owner) ==
  LET built[i \in 0..depth] ==
        IF i = 0 THEN EmptyBook
        ELSE LET bid == UpdateLevel(built[i - 1], "buy", reference - i * spacing,
                                    base + i - 1, owner).book
             IN  UpdateLevel(bid, "sell", reference + i * spacing, base + i - 1, owner).book
  IN  built[depth]
=============================================================================
