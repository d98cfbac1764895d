------------------------------ MODULE MCBridges ------------------------------
(* The tools around the engine, each from its own initial state: the DSH       *)
(* bridges, the model transports, the dispatch of an intent, the start and     *)
(* stop commands, and the offload calculators.                                 *)
EXTENDS Naturals, Calls
VARIABLE part

\* Latency and need of RAM: the least of both, and the worst.
MCCosts == {<<0, 2>>, <<51, 17>>}

vars == <<part, dshVars, modelVars, intentVars, controlVars, offloadVars>>

Init ==
  /\ part \in {"dsh", "models", "intent", "control", "offload"}
  /\ Calculators!Init
  /\ part # "offload" => query = [vram |-> 8, kv |-> 2] /\ \A i \in DOMAIN model : model[i].exps \in {0, 2}
  /\ Dsh!Init /\ (part # "dsh" => adapter.mode = "poll")
  /\ Models!Init /\ (part # "models" => env = [mode |-> "auto", service |-> TRUE, triton |-> TRUE])
  /\ Dispatch!Init /\ (part # "intent" => ~complex /\ ~docker /\ steady)
  /\ Control!Init /\ (part # "control" => service = "engine")

DshOnly == part = "dsh" /\ UNCHANGED <<part, modelVars, intentVars, controlVars, offloadVars>>
ModelsOnly == part = "models" /\ UNCHANGED <<part, dshVars, intentVars, controlVars, offloadVars>>
IntentOnly == part = "intent" /\ UNCHANGED <<part, dshVars, modelVars, controlVars, offloadVars>>
ControlOnly == part = "control" /\ UNCHANGED <<part, dshVars, modelVars, intentVars, offloadVars>>
OffloadOnly == part = "offload" /\ UNCHANGED <<part, dshVars, modelVars, intentVars, controlVars>>

Next ==
  \/ DshOnly /\ Dsh!Next
  \/ ModelsOnly /\ Models!Next
  \/ IntentOnly /\ Dispatch!Next
  \/ ControlOnly /\ Control!Next
  \/ OffloadOnly /\ Calculators!Next

Spec == Init /\ [][Next]_vars

=============================================================================
