---------------------------- MODULE MatchingEngine ----------------------------
(***************************************************************************)
(* The matching engine of the simulation kernel                            *)
(* (book/IntegerMatchingEngine.java) over one order book: the commands its *)
(* callers send, the canonical events each one emits, the retained event   *)
(* window and the sequence counter.                                        *)
(*                                                                         *)
(* The callers are the batch kernel (JavaSimulationKernel), the live arena *)
(* (LiveArenaService) and historical replay.  All of them hold one lock    *)
(* (or one thread) for a whole call, so a call is one step.  `tick` is the *)
(* caller's logical clock, the timestamp of every request.                 *)
(***************************************************************************)
EXTENDS OrderBook, SequencesExt

CONSTANTS
  Prices,               \* the price ticks requests may name
  Quantities,           \* the lots requests may ask for
  Agents,               \* the agents that send orders and quotes
  OrderIds,             \* ids that clients and scenarios choose themselves
  ReferencePrice, BaselineLevels, LevelSpacing, BaseQuantity,
                        \* the baseline ladder (depth and sizes)
  BaselineAgent,        \* BASELINE_MM, the owner of baseline top-ups
  EventHistoryCapacity, \* how many events the engine retains in memory
  QuotesCarryContext,   \* does a set_level intent run in a mutation context?
  MaxTick, MaxEvents    \* bounds of the exploration

ASSUME EngineAssumption ==
  /\ Prices \subseteq Nat \ {0}
  /\ Quantities \subseteq Nat \ {0}
  /\ EventHistoryCapacity \in Nat \ {0}
  /\ QuotesCarryContext \in BOOLEAN
  /\ MaxTick \in Nat /\ MaxEvents \in Nat
  /\ BaselineLevels \in Nat /\ {LevelSpacing, BaseQuantity} \subseteq Nat \ {0}
  \* initialize refuses a ladder that would reach price 0.
  /\ ReferencePrice \in Nat /\ ReferencePrice > BaselineLevels * LevelSpacing
  \* An agent has a name (KernelOrder), and no client names an order as replaceLevel
  \* does: the arena, where clients name orders, replaces no level, and the kernel
  \* that does generates its ids.
  /\ "" \notin Agents \cup {BaselineAgent}
  /\ \A id \in OrderIds, s \in Sides : id # SyntheticOrderId(s, id[3])

VARIABLES
  book,     \* the order book
  engineTick,     \* the caller's logical clock
  latest,   \* latestEventSequence
  events,   \* the retained window: sequence number and tick of each event
  call,     \* what the last call was, as far as the properties tell
  tape      \* the book a consumer rebuilds from the canonical events alone

engineVars == <<book, engineTick, latest, events, call, tape>>

Calls == {"none", "match", "requote", "rejected"}

(***************************************************************************)
(* Emitting events.  The tick of an event is the context's; without a      *)
(* context it is the timestamp of the order the event is about.            *)
(***************************************************************************)
NoContext == -1

EventTick(event, context) ==
  IF context = NoContext THEN event.after.ts ELSE context

\* appendEvent: append, advance the sequence, drop the oldest beyond capacity.
Retain(window, added) ==
  LET all == window \o added
      size == Len(all)
  IN  IF size > EventHistoryCapacity
      THEN SubSeq(all, size - EventHistoryCapacity + 1, size)
      ELSE all

\* What a consumer of the stream does with one event: an order keeps its queue
\* place exactly when the event says that priority was preserved.
Visible(order) == [order EXCEPT !.ts = 0]

ReplaceInPlace(t, order) ==
  Index(StoreQueue(t, order.side, order.price,
                   ReplaceId(QueueAt(t, order.side, order.price), order)), order)

TapeStep(t, event) ==
  LET order == Visible(event.after)
      removed == CancelOrder(t, order.id).book
  IN  CASE event.type = "add" -> Add(t, order).book
        [] event.type = "cancel" \/ order.qty = 0 -> removed
        [] OTHER -> IF event.preserved THEN ReplaceInPlace(t, order)
                                       ELSE Add(removed, order).book

Rebuilt(t, emitted) ==
  LET after[k \in 0..Len(emitted)] ==
        IF k = 0 THEN t ELSE TapeStep(after[k - 1], emitted[k])
  IN  after[Len(emitted)]

Emit(emitted, context) ==
  /\ latest + Len(emitted) <= MaxEvents
  /\ latest' = latest + Len(emitted)
  /\ events' = Retain(events,
                 [i \in DOMAIN emitted |->
                    [seq |-> latest + i, tick |-> EventTick(emitted[i], context)]])
  /\ tape' = Rebuilt(tape, emitted)

\* A book operation observed by the listener, in the given context.
Mutate(result, context, kind) ==
  /\ book' = result.book
  /\ Emit(result.muts, context)
  /\ call' = kind
  /\ UNCHANGED engineTick

(***************************************************************************)
(* submit.  Its context tick is the order's timestamp, which is the tick.  *)
(***************************************************************************)
\* A limit order trades first; only then is the remainder added, and a
\* duplicate id is noticed there, after the trades.
SubmitLimit(id, agent, side, qty, price) ==
  LET order == [id |-> id, agent |-> agent, side |-> side, qty |-> qty,
                price |-> price, ts |-> engineTick]
      matched == Match(book, order, price)
      rests == matched.remaining > 0
      duplicate == rests /\ IsDuplicate(matched.book, id)
      added == IF rests /\ ~duplicate
               THEN Add(matched.book, [order EXCEPT !.qty = matched.remaining])
               ELSE Unchanged(matched.book)
  IN  Mutate([book |-> added.book, muts |-> matched.execs \o added.muts], engineTick,
             IF duplicate THEN "rejected" ELSE "match")

\* The unfilled part of a market order is dropped; its id never enters the book.
SubmitMarket(side, qty) ==
  LET order == [side |-> side, qty |-> qty]
      matched == Match(book, order, NoPrice)
  IN  Mutate([book |-> matched.book, muts |-> matched.execs], engineTick, "match")

SubmitCancel(id) == Mutate(CancelOrder(book, id), engineTick, "none")

SubmitModify(id, agent, side, qty, price) ==
  LET request == [id |-> id, agent |-> agent, side |-> side, qty |-> qty,
                  price |-> price, ts |-> engineTick]
  IN  IF ModifyRejected(book, request)
      THEN Mutate(Unchanged(book), engineTick, "rejected")
      ELSE Mutate(ModifyOrder(book, request), engineTick, "none")

(***************************************************************************)
(* Direct book mutations.                                                  *)
(***************************************************************************)
\* A set_level intent: an agent's own quote.  The batch kernel runs it in a
\* mutation context, the live arena does not.
SetLevel(agent, side, price, qty) ==
  Mutate(UpdateAgentLevel(book, side, price, qty, agent,
                          AgentLevelOrderId(side, price, agent), engineTick),
         IF QuotesCarryContext THEN engineTick ELSE NoContext, "requote")

\* A scenario's or a replay source's level, under an id of its own.
SetNamedLevel(id, agent, side, price, qty) ==
  Mutate(UpdateAgentLevel(book, side, price, qty, agent, id, engineTick), engineTick, "requote")

ReplaceLevel(side, price, qty) ==
  Mutate(UpdateLevel(book, side, price, qty, BaselineAgent), engineTick, "none")

DropLevel(side, price) == Mutate(RemoveLevel(book, side, price), engineTick, "none")

MaintainBaselineLevel(i, side) ==
  LET offset == IF side = "buy" THEN - i * LevelSpacing ELSE i * LevelSpacing
  IN  Mutate(EnsureLevelMinimum(book, side, ReferencePrice + offset,
                                BaseQuantity + i - 1, BaselineAgent),
             engineTick, "requote")

\* A snapshot is an event that changes no order.
RecordSnapshot ==
  /\ latest < MaxEvents
  /\ latest' = latest + 1
  /\ events' = Retain(events, <<[seq |-> latest + 1, tick |-> engineTick]>>)
  /\ call' = "none"
  /\ UNCHANGED <<book, engineTick, tape>>

NextTick ==
  /\ engineTick < MaxTick
  /\ engineTick' = engineTick + 1
  /\ call' = "none"
  /\ UNCHANGED <<book, latest, events, tape>>

EngineInit ==
  /\ book = Initialize(ReferencePrice, BaselineLevels, LevelSpacing, BaseQuantity,
                       BaselineAgent)
  /\ engineTick = 0
  /\ latest = 0
  /\ events = <<>>
  /\ call = "none"
  /\ tape = book

EngineNext ==
  \/ NextTick
  \/ RecordSnapshot
  \/ \E s \in Sides, q \in Quantities : SubmitMarket(s, q)
  \/ \E id \in OrderIds, a \in Agents, s \in Sides, q \in Quantities :
       \/ \E p \in Prices : SubmitLimit(id, a, s, q, p)
       \/ \E p \in Prices \cup {NoPrice} : SubmitModify(id, a, s, q, p)
       \/ \E p \in Prices : SetNamedLevel(id, a, s, p, q)
  \/ \E id \in OrderIds \cup DOMAIN book.orders : SubmitCancel(id)
  \/ \E a \in Agents, s \in Sides, p \in Prices, q \in Quantities \cup {0} :
       SetLevel(a, s, p, q)
  \/ \E s \in Sides, p \in Prices :
       \/ DropLevel(s, p)
       \/ \E q \in Quantities : ReplaceLevel(s, p, q)
  \/ \E i \in 1..BaselineLevels, s \in Sides : MaintainBaselineLevel(i, s)

EngineSpec == EngineInit /\ [][EngineNext]_engineVars

(***************************************************************************)
(* Reads of the retained window.                                           *)
(***************************************************************************)
\* eventsAtTick scans from the newest event and stops at the first older tick.
EventsAtTick(t) ==
  {i \in DOMAIN events : /\ events[i].tick = t
                         /\ \A j \in i..Len(events) : events[j].tick >= t}

(***************************************************************************)
(* Properties.                                                             *)
(***************************************************************************)
IsOrder(o) ==
  /\ DOMAIN o = {"id", "agent", "side", "qty", "price", "ts"}
  /\ o.side \in Sides
  /\ o.qty \in Nat \ {0}
  /\ o.price \in Nat \ {0}
  /\ o.ts \in 0..MaxTick

\* Every variable has its type; in particular no order ever rests with zero lots
\* or without a price, whatever sequence of commands the engine received.
EngineTypeOK ==
  /\ \A b \in {book, tape} :
       /\ DOMAIN b = {"levels", "orders"}
       /\ \A id \in DOMAIN b.orders : IsOrder(b.orders[id])
       /\ \A s \in Sides : \A p \in DOMAIN b.levels[s] :
            \A i \in DOMAIN b.levels[s][p] : IsOrder(b.levels[s][p][i])
  /\ engineTick \in 0..MaxTick
  /\ latest \in 0..MaxEvents
  /\ events \in Seq([seq : 1..MaxEvents, tick : 0..MaxTick])
  /\ call \in Calls

\* The order index and the price queues describe the same orders: every queue
\* entry is the indexed order, in the queue of its own side and price, every
\* indexed order is queued exactly once, and no empty level stays in the map
\* (bestBid and bestAsk read its first key).
IndexMatchesQueues ==
  /\ \A s \in Sides : \A p \in DOMAIN book.levels[s] :
       LET queue == book.levels[s][p]
       IN  /\ queue # <<>>
           /\ \A i \in DOMAIN queue :
                /\ queue[i].side = s /\ queue[i].price = p
                /\ queue[i].id \in DOMAIN book.orders
                /\ book.orders[queue[i].id] = queue[i]
  /\ \A id \in DOMAIN book.orders :
       LET o == book.orders[id]
           queue == QueueAt(book, o.side, o.price)
       IN  Cardinality({i \in DOMAIN queue : queue[i].id = id}) = 1

\* The canonical events alone determine the book's content: a consumer that
\* applies them has the same orders, with the same lots, at every level.  No
\* mutation of a level, a quote or a match goes unreported or is reported twice.
TapeTracksBook ==
  \A s \in Sides :
    /\ DOMAIN tape.levels[s] = DOMAIN book.levels[s]
    /\ \A p \in DOMAIN book.levels[s] :
         /\ Len(tape.levels[s][p]) = Len(book.levels[s][p])
         /\ ToSet(tape.levels[s][p])
              = {Visible(book.levels[s][p][i]) : i \in DOMAIN book.levels[s][p]}

\* Price-time priority: when a limit or market order takes lots from a resting
\* order, every order ahead of it (a better price, or earlier in its queue) is
\* completely filled in the same call.
Ahead(x, y) ==
  /\ x.side = y.side
  /\ \/ IF x.side = "buy" THEN x.price > y.price ELSE x.price < y.price
     \/ /\ x.price = y.price
        /\ LET queue == QueueAt(book, x.side, x.price)
           IN  \E i, j \in DOMAIN queue :
                 i < j /\ queue[i].id = x.id /\ queue[j].id = y.id

\* The order left the book: its id is free, or an order of the other side took
\* it (a remainder rests under the id of an order that it filled).
LeftBook(o) == o.id \notin DOMAIN book'.orders \/ book'.orders[o.id].side # o.side

LostLots(o) == LeftBook(o) \/ book'.orders[o.id].qty < o.qty

PriceTimePriority ==
  [][call' = "match" =>
       \A x, y \in {book.orders[id] : id \in DOMAIN book.orders} :
         Ahead(x, y) /\ LostLots(y) => LeftBook(x)]_engineVars

\* The resting orders that an order of side s and this limit could trade with.
CrossingIds(b, s, limit) ==
  {id \in DOMAIN b.orders :
     /\ b.orders[id].side # s
     /\ \/ limit = NoPrice
        \/ s = "buy" /\ b.orders[id].price <= limit
        \/ s = "sell" /\ b.orders[id].price >= limit}

Probe(s, q, limit) ==
  [id |-> <<"probe", s, q, "">>, agent |-> BaselineAgent, side |-> s, qty |-> q,
   price |-> limit, ts |-> engineTick]

\* Whatever order came next, matching would walk through exactly the resting
\* orders it crosses and trade until it or they run out; when it has lots left
\* nothing it crosses remains, so no limit remainder rests against a crossing order.
MatchTakesAll ==
  \A s \in Sides, q \in Quantities, limit \in Prices \cup {NoPrice} :
    LET order == Probe(s, q, limit)
        queue == CrossingQueue(book, order, limit)
        m == Match(book, order, limit)
    IN  /\ IdsOf(queue) = CrossingIds(book, s, limit)
        /\ m.remaining = IF q > TotalQty(queue) THEN q - TotalQty(queue) ELSE 0
        /\ m.remaining > 0 => CrossingIds(m.book, s, limit) = {}

\* And the lots traded are exactly what left the crossing depth of the book.
MatchIsComplete ==
  /\ MatchTakesAll
  /\ \A s \in Sides, q \in Quantities, limit \in Prices \cup {NoPrice} :
       LET m == Match(book, Probe(s, q, limit), limit)
           depth(b) == FoldLeft(LAMBDA n, id : n + b.orders[id].qty, 0,
                                SetToSeq(CrossingIds(b, s, limit)))
       IN  /\ m.remaining = IF q > depth(book) THEN q - depth(book) ELSE 0
           /\ depth(m.book) = depth(book) - (q - m.remaining)
           /\ Len(m.execs) <= Cardinality(CrossingIds(book, s, limit))

\* An order is overtaken in its own queue only when it was itself requoted to
\* the tail: no command about other orders, no partial fill and no same-price
\* modification ever costs an order its place.
OvertakenOnlyByRequote ==
  [][\A s \in Sides : \A p \in DOMAIN book.levels[s] :
       LET old == book.levels[s][p]
           new == IF p \in DOMAIN book'.levels[s] THEN book'.levels[s][p] ELSE <<>>
       IN  \A i, j \in DOMAIN old : \A k, l \in DOMAIN new :
             /\ i < j /\ l < k
             /\ old[i].id = new[k].id /\ old[j].id = new[l].id
             => call' = "requote" /\ k = Len(new)]_engineVars

\* The retained window is the newest part of the stream, without gaps, however
\* many events one call emits around the capacity limit.
WindowIsNewestSuffix ==
  /\ Len(events) = IF latest < EventHistoryCapacity THEN latest ELSE EventHistoryCapacity
  /\ \A i \in DOMAIN events : events[i].seq = latest - Len(events) + i

\* The live features of the current tick (message rate, cancel ratio) read every
\* retained event of that tick: the scan's early stop never skips one.
EventsAtTickComplete ==
  EventsAtTick(engineTick) = {i \in DOMAIN events : events[i].tick = engineTick}

\* After every call, resting orders, price queues and the tape tell one story:
\* the index and the queues hold the same orders, the tape rebuilds the book, the
\* retained window is the newest part of the stream, and a scan of the current
\* tick misses nothing in it; also after a rejected submit has traded, and when quotes are
\* set in a context (IntegerOrderBook, IntegerMatchingEngine.appendEvent).
BookAndTapeAgree ==
  /\ EngineTypeOK /\ IndexMatchesQueues /\ TapeTracksBook /\ WindowIsNewestSuffix /\ EventsAtTickComplete

\* Matching is complete from every reachable book, never takes from an order
\* while a better or an older one at its price still rests, and no order loses
\* its place to another but by its own requote (IntegerOrderBook.match).
MatchingIsFair == []MatchIsComplete /\ PriceTimePriority /\ OvertakenOnlyByRequote
=============================================================================
