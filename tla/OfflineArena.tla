---------------------------- MODULE OfflineArena ----------------------------
(***************************************************************************)
(* The Python simulation of the batch jobs (backend/app/arena, exchange,   *)
(* scenarios, agents): SimulationEngine over a matching engine, a book, a  *)
(* scenario controller and the agents' intents, advanced tick by tick.     *)
(*                                                                         *)
(* The Python book has the operations of OrderBook, except that an agent's *)
(* quote is looked for only at the price it is set at.  Quantities are     *)
(* lots; features, detector scores and display state are left out.         *)
(***************************************************************************)
EXTENDS OrderBook, SequencesExt

CONSTANTS
    Reference, BaseSize,   \* the baseline: one level each side of Reference
    WallOffset,            \* distance of a wall or layer from the touch
    StageAt,               \* elapsed tick at which each stage begins
    Traders, Lots,         \* agents and the sizes they use
    OrderNames,            \* ids an agent may give a limit order
    MaxQuote,              \* max_agent_quote_size
    LastTick,              \* bound on the clock
    MaxInputs              \* bound on launches, resets and intents together

ASSUME OfflineArenaAssumption ==
    /\ StageAt \in Seq(Nat) /\ Len(StageAt) = 6 /\ StageAt[1] = 0
    /\ \A i \in 1..5 : StageAt[i] < StageAt[i + 1]

VARIABLES
    arenaTick, arenaBook,
    stored,     \* the orders resting according to the stored rows of the stream
    unstored,   \* events of the log after _persisted_exchange_sequence
    active,     \* the scenario the controller advances
    left,       \* scenarios replaced, or hit by a failing tick, before they cancelled
    launched,   \* scenarios launched, which number them
    inputs,     \* launches, resets and intents so far
    loop        \* the tick task: none, alive, or ended by an exception

arenaVars ==
    <<arenaTick, arenaBook, stored, unstored, active, left, launched, inputs, loop>>

ArenaFamilies == {"spoofing_like_wall", "layering_like", "quote_stuffing", "liquidity_evaporation"}
Inactive == [n |-> 0, family |-> "none", side |-> "sell", start |-> 0, stage |-> 0, prices |-> <<>>]

\* AttackStage, by position in STAGE_SEQUENCE.
Placed == 2
Pressure == 3
Cancelled == 4

AttackOrder(n, k) == <<"scenario", "", n, k>>
Abuser == "ABUSER"

FreshBook == Initialize(Reference, 1, 1, BaseSize, "normal")

ArenaInit ==
    /\ arenaTick = 0 /\ arenaBook = FreshBook /\ stored = FreshBook.orders
    /\ unstored = <<>>
    /\ active = Inactive /\ left = {} /\ launched = 0 /\ inputs = 0
    /\ loop = "none"

(***************************************************************************)
(* The canonical log: _record_book_mutation and _record_executions append  *)
(* one event per mutation.  `run` threads a book and its events.           *)
(***************************************************************************)
Logged(t, mut) ==
    CASE mut.type = "cancel" -> Without(t, {mut.before.id})
      [] mut.type = "execute" /\ mut.after.qty = 0 -> Without(t, {mut.before.id})
      [] OTHER -> Put(t, mut.after.id, mut.after)

Then(run, result) == [book |-> result.book, events |-> run.events \o result.muts]

(* update_agent_level: the agent's order is dropped from this level and    *)
(* appended to it again; the event says whether it was new.  A quote that  *)
(* carries the tick as its timestamp never equals the one it replaces.     *)
Quote(b, side, price, qty, agent, id, stamped) ==
    IF Removes(qty) THEN CancelOrder(b, id)
    ELSE LET new == [id |-> id, agent |-> agent, side |-> side, qty |-> qty, price |-> price,
                     ts |-> 0]
             here == QueueAt(b, side, price)
             same == SelectSeq(here, LAMBDA o : o.id = id)
         IN  [book |-> Index(StoreQueue(b, side, price, Append(RemoveId(here, id), new)), new),
              muts |-> CASE same = <<>> -> <<AddMutation(new)>>
                         [] same # <<>> /\ (stamped \/ same[1] # new) ->
                                <<ModifyMutation(same[1], new, TRUE)>>
                         [] OTHER -> <<>>]

(* match_limit_order and match_market_order: executions first, then the    *)
(* remainder of a limit order is added.  add_limit_order refuses an id     *)
(* that rests already, after the executions have been recorded.            *)
Submit(b, order) ==
    LET matched == Match(b, order, order.price)
        rest == [order EXCEPT !.qty = matched.remaining]
        rests == order.price # NoPrice /\ matched.remaining > 0
        added == Add(matched.book, rest)
    IN  CASE rests /\ IsDuplicate(matched.book, order.id) ->
               [book |-> matched.book, muts |-> matched.execs, raised |-> TRUE]
          [] rests /\ ~IsDuplicate(matched.book, order.id) ->
               [book |-> added.book, muts |-> matched.execs \o added.muts, raised |-> FALSE]
          [] OTHER -> [book |-> matched.book, muts |-> matched.execs, raised |-> FALSE]

BestPrice(b, side) ==
    IF DOMAIN b.levels[side] = {} THEN NoPrice ELSE BestFirst(b, side)[1]

(***************************************************************************)
(* Agents.  A tick collects the intents of the agents that answered in     *)
(* time; here at most one that does something, and after it possibly one   *)
(* of a remote runner that raises (a market or limit order with no side).  *)
(***************************************************************************)
Intents(b) ==
    {[kind |-> "set_level", side |-> s, price |-> BestPrice(b, s), qty |-> q, agent |-> a] :
             s \in {s \in Sides : BestPrice(b, s) # NoPrice}, q \in Lots \cup {0}, a \in Traders}
    \cup {[kind |-> "market", side |-> s, qty |-> q, agent |-> a] :
             s \in Sides, q \in Lots, a \in Traders}
    \cup {[kind |-> "limit", id |-> i, side |-> s, price |-> Reference, qty |-> q, agent |-> a] :
             i \in OrderNames, s \in Sides, q \in Lots, a \in Traders}
    \cup {[kind |-> "cancel", id |-> i] : i \in {i \in OrderNames : IsDuplicate(b, i)}}

NoIntent == [kind |-> "none"]

Capped(qty) == IF qty > MaxQuote THEN MaxQuote ELSE qty

Quiet(result) == [book |-> result.book, muts |-> result.muts, raised |-> FALSE]

(* _apply_agent_intent. *)
ApplyIntent(b, i) ==
    CASE i.kind = "set_level" ->
           Quiet(Quote(b, i.side, i.price, Capped(i.qty), i.agent,
                       AgentLevelOrderId(i.side, i.price, i.agent), TRUE))
      [] i.kind = "market" ->
           Submit(b, [id |-> <<"market", "", 0, i.agent>>, agent |-> i.agent, side |-> i.side,
                      qty |-> i.qty, price |-> NoPrice, ts |-> 0])
      [] i.kind = "limit" ->
           Submit(b, [id |-> i.id, agent |-> i.agent, side |-> i.side, qty |-> i.qty,
                      price |-> i.price, ts |-> 0])
      [] i.kind = "cancel" -> Quiet(CancelOrder(b, i.id))
      [] OTHER -> Quiet(Unchanged(b))

(***************************************************************************)
(* Scenarios.                                                              *)
(***************************************************************************)
StageLate(s, t) ==
    LET elapsed == IF t > s.start THEN t - s.start ELSE 0
    IN  CHOOSE k \in 1..6 : /\ StageAt[k] <= elapsed \/ k = 1
                            /\ \A j \in 1..6 : StageAt[j] < elapsed => j <= k
                            /\ k = 1 \/ StageAt[k] < elapsed

(* _stage_for_tick: the last rule whose tick has been reached.             *)
StageFor(s, t) ==
    LET elapsed == IF t > s.start THEN t - s.start ELSE 0
    IN  CHOOSE k \in 1..6 : StageAt[k] <= elapsed /\ \A j \in 1..6 : StageAt[j] <= elapsed => j <= k

(* The prices of the orders an attack places when it enters its second     *)
(* stage: one wall of asks, or three layers on the side the seed gives.    *)
AttackPrices(b, s) ==
    LET touch == BestPrice(b, s.side)
        away == IF s.side = "sell" THEN 1 ELSE -1
    IN  IF touch = NoPrice THEN <<>>
        ELSE CASE s.family = "spoofing_like_wall" -> <<touch + WallOffset>>
               [] s.family = "layering_like" ->
                    [k \in 1..3 |-> touch + away * (WallOffset + k - 1)]
               [] OTHER -> <<>>

(* update_agent_level with the order ids of the scenario: placed, then     *)
(* replenished to a larger size (2 and 3 here); cancel_order afterwards.*)
SetAttackOrders(run, s, size) ==
    FoldLeft(LAMBDA r, k : Then(r, Quote(r.book, s.side, s.prices[k], size, Abuser,
                                          AttackOrder(s.n, k), TRUE)),
             run, [k \in DOMAIN s.prices |-> k])

CancelAttackOrders(run, s) ==
    FoldLeft(LAMBDA r, k : Then(r, CancelOrder(r.book, AttackOrder(s.n, k))),
             run, [k \in DOMAIN s.prices |-> k])

(* QuoteStuffingScenario.on_tick: levels placed and removed at once.       *)
Stuff(run) ==
    LET best == BestPrice(run.book, "sell")
        place(r, k) == Then(r, UpdateLevel(r.book, "sell", best + WallOffset + k, 1, Abuser))
        remove(r, k) == Then(r, RemoveLevel(r.book, "sell", best + WallOffset + k))
    IN  IF best = NoPrice THEN run
        ELSE FoldLeft(LAMBDA r, k : remove(place(r, k), k), run, <<1, 2, 3>>)

(* LiquidityEvaporationScenario: the three best levels of each side are    *)
(* thinned on entering the pressure stage and in each of its ticks; the    *)
(* touch is removed when the stage ends.                                   *)
Thinned(qty) ==
    LET thinned == (35 * qty) \div 100 IN IF thinned < 1 THEN 1 ELSE thinned

ThinSide(run, side) ==
    LET best == BestFirst(run.book, side)
    IN  FoldLeft(LAMBDA r, price :
                   Then(r, UpdateLevel(r.book, side, price,
                                       Thinned(TotalQty(QueueAt(r.book, side, price))), "normal")),
                 run, SubSeq(best, 1, IF Len(best) < 3 THEN Len(best) ELSE 3))

Thin(run) == FoldLeft(ThinSide, run, <<"buy", "sell">>)

Widen(run) ==
    FoldLeft(LAMBDA r, side :
               IF BestPrice(r.book, side) = NoPrice THEN r
               ELSE Then(r, RemoveLevel(r.book, side, BestPrice(r.book, side))),
             run, <<"buy", "sell">>)

(* ScenarioBase.apply: a stage is applied once, when first entered, and    *)
(* every tick of the pressure stage has its own effect.                    *)
AdvanceScenario(run, s, t) ==
    LET stage == StageFor(s, t)
        entered == stage # s.stage
        next == [s EXCEPT !.stage = stage,
                          !.prices = IF entered /\ stage = Placed
                                     THEN AttackPrices(run.book, s) ELSE @]
        onEnter ==
          CASE ~entered -> run
            [] entered /\ stage \in {Placed, Pressure} -> SetAttackOrders(run, next, stage)
            [] entered /\ stage = Cancelled ->
                 IF s.family = "liquidity_evaporation" THEN Widen(run)
                 ELSE CancelAttackOrders(run, next)
            [] OTHER -> run
        onTick ==
          CASE stage = Pressure /\ s.family = "quote_stuffing" -> Stuff(onEnter)
            [] stage = Pressure /\ s.family = "liquidity_evaporation" ->
                 FoldLeft(LAMBDA r, times : Thin(r), onEnter,
                          IF entered THEN <<1, 2>> ELSE <<1>>)
            [] OTHER -> onEnter
    IN  [run |-> onTick, scenario |-> next]

(* ScenarioController.start replaces the active scenario, whose orders     *)
(* stay where they are; the new one starts with the next tick.             *)
StartScenario ==
    /\ inputs < MaxInputs /\ inputs' = inputs + 1
    /\ \E f \in ArenaFamilies, side \in Sides :
          /\ side = "buy" => f = "layering_like"
          /\ active' = [Inactive EXCEPT !.n = launched + 1, !.family = f, !.side = side,
                                    !.start = arenaTick + 1]
    /\ left' = IF active.stage \in {Placed, Pressure} THEN left \cup {active.n} ELSE left
    /\ launched' = launched + 1 /\ loop' = "alive"
    /\ UNCHANGED <<arenaTick, arenaBook, stored, unstored>>

(***************************************************************************)
(* The engine.                                                             *)
(***************************************************************************)
TopUp(run) ==
    FoldLeft(LAMBDA r, side :
               LET price == IF side = "buy" THEN Reference - 1 ELSE Reference + 1
                   id == AgentLevelOrderId(side, price, "BASELINE_MM")
                   others == TotalQty(RemoveId(QueueAt(r.book, side, price), id))
               IN  Then(r, Quote(r.book, side, price,
                                 IF BaseSize > others THEN BaseSize - others ELSE 0,
                                 "BASELINE_MM", id, FALSE)),
             run, <<"buy", "sell">>)

(* _persist_exchange_stream appends every event after the last stored one. *)
ToStore(old, new) == old \o new

(* _advance_tick: intents, the scenario, the baseline, the snapshot event, *)
(* and the stored stream.                                                  *)
TickWith(i, fails) ==
    \E applied \in {ApplyIntent(arenaBook, i)} :
       LET afterIntents == [book |-> applied.book, events |-> applied.muts]
       IN  IF applied.raised \/ fails
           THEN /\ arenaBook' = applied.book /\ unstored' = unstored \o applied.muts
                /\ loop' = "ended"
                /\ left' = IF active = Inactive THEN left ELSE left \cup {active.n}
                /\ UNCHANGED <<stored, active>>
           ELSE \E advanced \in {IF active = Inactive
                                 THEN [run |-> afterIntents, scenario |-> Inactive]
                                 ELSE AdvanceScenario(afterIntents, active, arenaTick + 1)} :
                   LET run == TopUp(advanced.run)
                   IN  /\ arenaBook' = run.book
                       /\ stored' = FoldLeft(Logged, stored, ToStore(unstored, run.events))
                       /\ unstored' = <<>>
                       /\ active' = advanced.scenario /\ UNCHANGED <<loop, left>>

Tick ==
    /\ loop = "alive" /\ arenaTick < LastTick
    /\ arenaTick' = arenaTick + 1
    /\ \E i \in {NoIntent} \cup IF inputs < MaxInputs THEN Intents(arenaBook) ELSE {},
          fails \in BOOLEAN :
          /\ TickWith(i, fails)
          /\ inputs' = IF i = NoIntent THEN inputs ELSE inputs + 1
    /\ UNCHANGED launched

(* start, and start_scenario, create a new task when the old one ended.    *)
StartLoop ==
    /\ loop # "alive" /\ loop' = "alive"
    /\ UNCHANGED <<arenaTick, arenaBook, stored, unstored, active, left, launched, inputs>>

PauseLoop ==
    /\ loop = "alive" /\ loop' = "none"
    /\ UNCHANGED <<arenaTick, arenaBook, stored, unstored, active, left, launched, inputs>>

(* reset: a new stream, a new book and log, no scenario; the clock is back *)
(* at zero but scenario numbers go on.                                     *)
ResetArena ==
    /\ inputs < MaxInputs /\ inputs' = inputs + 1 /\ arenaTick' = 0
    /\ arenaBook' = FreshBook /\ stored' = FreshBook.orders /\ unstored' = <<>>
    /\ active' = Inactive /\ left' = {} /\ loop' = "none"
    /\ UNCHANGED launched

ArenaNext == Tick \/ StartScenario \/ StartLoop \/ PauseLoop \/ ResetArena

ArenaSpec == ArenaInit /\ [][ArenaNext]_arenaVars

(***************************************************************************)
(* Properties                                                              *)
(***************************************************************************)

(* The stored stream tells where every order rests: applying its rows, and *)
(* the events not yet stored, to the baseline gives the book's index, and  *)
(* the index is what the queues hold, after any mix of intents, attacks,   *)
(* top-ups, executions, resets and ticks that an exception cut short.      *)
LogRebuildsBook ==
    /\ FoldLeft(Logged, stored, unstored) = arenaBook.orders
    /\ \A s \in Sides : \A p \in DOMAIN arenaBook.levels[s] :
          /\ arenaBook.levels[s][p] # <<>>
          /\ \A k \in DOMAIN arenaBook.levels[s][p] :
                LET o == arenaBook.levels[s][p][k]
                IN  o.id \in DOMAIN arenaBook.orders /\ arenaBook.orders[o.id] = o
    /\ \A id \in DOMAIN arenaBook.orders :
          id \in IdsOf(QueueAt(arenaBook, arenaBook.orders[id].side, arenaBook.orders[id].price))

(* An attack's orders rest only inside the window its label gives: from    *)
(* the tick of its second stage until before the tick of its fourth,       *)
(* unless another scenario took its place in between, or a tick failed     *)
(* before the scenario was advanced.                                       *)
AttackRestsInsideWindow ==
    \A id \in DOMAIN arenaBook.orders :
       id[1] = "scenario" =>
          \/ id[3] \in left
          \/ /\ id[3] = active.n
             /\ active.start + StageAt[Placed] <= arenaTick
             /\ arenaTick < active.start + StageAt[Cancelled]

(* What the Python arena shows is consistent: the event log rebuilds the   *)
(* book it displays, and attack orders rest only inside the window of the  *)
(* scenario that placed them, across launches, pauses and resets           *)
(* (SimulationEngine._advance_tick, ScenarioBase.apply).                   *)
ArenaIsConsistent == LogRebuildsBook /\ AttackRestsInsideWindow
=============================================================================
