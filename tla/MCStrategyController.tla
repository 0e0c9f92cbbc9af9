------------------------ MODULE MCStrategyController ------------------------
EXTENDS StrategyController

CONSTANTS a1, a2, a3, g1, g2, c1, c2

MCApplieds == {a1, a2, a3}
MCAgents == {g1, g2}
MCConfigs == {c1, c2}

(* Two config strategies for overlapping agents and one enable strategy.   *)
MCPlan ==
    [a \in MCApplieds |->
        CASE a = a1 -> [action |-> "config", value |-> c1, agents |-> {g1, g2}]
          [] a = a2 -> [action |-> "config", value |-> c2, agents |-> {g1}]
          [] a = a3 -> [action |-> "enable", value |-> "false", agents |-> {g2}]]
=============================================================================
