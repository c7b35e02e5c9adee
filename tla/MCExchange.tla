----------------------------- MODULE MCExchange -----------------------------
(***************************************************************************)
(* Small instances of the three places where orders meet a book, a         *)
(* behaviour being one of them: the kernel's matching engine, the Python   *)
(* arena, and the replay of a historical source with attacks injected.     *)
(* The engine's baseline is one bid and one ask around a free middle       *)
(* price, so that orders can improve the book, join a level, cross and     *)
(* walk through two levels.  MCOrderIds, the id clients choose, is the id  *)
(* of a baseline top-up: order ids share one name space.  It clashes only  *)
(* once the baseline has been topped up.                                   *)
(***************************************************************************)
EXTENDS MatchingEngine, OfflineArena, HistoricalReplay

VARIABLE scene

exchangeVars == <<engineVars, arenaVars, vars, scene>>

MCPrices == {2, 3}
MCQuantities == {1, 2}
MCOrderIds == {AgentLevelOrderId("sell", 3, "MM")}

\* The rules of ScenarioBase begin at 0, 1, 3, 6, 7, 9; shortened here.
Stages == <<0, 1, 2, 3, 4, 5>>

\* The id one agent gives its limit orders.
Names == {<<"order", "", 1, "A">>}

ExchangeInit ==
    /\ scene \in {"engine", "arena", "replay"}
    /\ EngineInit /\ ArenaInit /\ Init
    /\ scene # "replay" => run = "live" /\ ~hybrid /\ stamps = <<1>>

ReplayStep(A) == scene = "replay" /\ A /\ UNCHANGED <<engineVars, arenaVars, scene>>

ExchangeNext ==
    \/ scene = "engine" /\ EngineNext /\ UNCHANGED <<arenaVars, vars, scene>>
    \/ scene = "arena" /\ ArenaNext /\ UNCHANGED <<engineVars, vars, scene>>
    \/ ReplayStep(Next)

\* The fairness of HistoricalReplay, in its own scene.
ExchangeSpec ==
    /\ ExchangeInit /\ [][ExchangeNext]_exchangeVars
    /\ WF_exchangeVars(ReplayStep(Advance)) /\ WF_exchangeVars(ReplayStep(FinishComparison))
=============================================================================
