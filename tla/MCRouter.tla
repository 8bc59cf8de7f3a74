------------------------------- MODULE MCRouter -------------------------------
(* Instances of Router for TLC.  A behaviour spends its bounded calls and     *)
(* orders on one of the router's concerns.                                    *)
EXTENDS Router

Calls(ts) == left = [t \in Task |-> IF t \in ts THEN 1 ELSE 0]
AllNormal == class = [e \in Email |-> "normal"]

\* Money: two processes, failed answers, crashes and lost writes.
OnSpend ==
    /\ \/ Calls({"intent_parsing_chat", "summary_short"})
       \/ Calls({"hermes_aux", "embedding"})
    /\ AllNormal /\ edits = MaxEdits /\ yeses = MaxYes /\ orders = 0 /\ faults = 0
    /\ labels = MaxLabels

\* Yes, escalate: a token for a draft next to a tool call on two emails; a
\* confidential and an unclassified one; entries that lapse, a restart; labels
\* rewritten under a draft or a tool call.
OnYes ==
    /\ \/ /\ Calls({"tool_call", "draft_reply"}) /\ class = [e \in Email |-> "sensitive"]
          /\ faults = MaxFaults /\ labels = MaxLabels
       \/ /\ Calls({"tool_call"}) /\ class = [e \in Email |-> "sensitive"]
          /\ faults = 0 /\ labels = MaxLabels
       \/ /\ Calls({"tool_call"})
          /\ class = [e \in Email |-> IF e = 1 THEN "none" ELSE "confidential"]
          /\ faults = MaxFaults /\ labels = 0
       \/ /\ Calls({"draft_reply"}) /\ class = [e \in Email |-> "sensitive"]
          /\ faults = MaxFaults /\ labels = 0
    /\ edits = MaxEdits /\ yeses = 0 /\ orders = MaxOrders

\* The files of the policy.
OnPolicy ==
    /\ Calls({}) /\ AllNormal
    /\ edits = 0 /\ yeses = MaxYes /\ orders = MaxOrders /\ faults = 0 /\ labels = MaxLabels

ScenarioInit == (OnSpend \/ OnYes \/ OnPolicy) /\ RouterStart

ScenarioSpec == ScenarioInit /\ [][RouterNext]_vars

\* One chat turn on two sensitive emails: a refused tool call, a yes, and the
\* tool calls that follow it.
OnTurn ==
    /\ left = [t \in Task |-> IF t = "tool_call" THEN 3 ELSE 0]
    /\ class = [e \in Email |-> "sensitive"]
    /\ edits = MaxEdits /\ yeses = 0 /\ orders = MaxOrders /\ faults = MaxFaults
    /\ labels = MaxLabels
    /\ RouterStart

TurnSpec == OnTurn /\ [][RouterNext]_vars
=============================================================================
