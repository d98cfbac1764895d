------------------------------- MODULE Calls --------------------------------
(***************************************************************************)
(* What stands between a program and the answers it gets: the transport to *)
(* a model server, the dispatch of an intent, which gives a sandboxed      *)
(* function its answers, the tools that start and stop the servers, the    *)
(* calculators that place a model's weights, and the bridges from DSH.     *)
(* They share nothing with each other.                                     *)
(***************************************************************************)
EXTENDS Integers, FiniteSets

CONSTANTS
    Nil,                            \* no value
    Ports, Default, Second, MaxCalls, \* the transport
    Questions, Adapted, Misfits, Unknown, MaxQueries, MaxDepth, MaxRetries,
    MaxAsked,                       \* the dispatch
    Pids, MaxCommands, MaxStrangers, \* start and stop
    Sizes, Vrams, Kvs, Margin, PerLayer, Costs, \* the offload calculators
    Sessions, MaxEvents, MaxStreamed, MaxBreaks, MaxCancels \* the DSH bridges

VARIABLES env, chosen, call, calls, runs,
          at, result, complex, docker, attempt, steady, asked, sure, answers, pending, queries,
          swallowed, loose, late,
          service, procs, files, cmds, given, strangers, clean,
          model, query, answer,
          dsh, adapter, wire, threads, sink

modelVars == <<env, chosen, call, calls, runs>>
intentVars == <<at, result, complex, docker, attempt, steady, asked, sure, answers, pending,
                queries, swallowed, loose, late>>
controlVars == <<service, procs, files, cmds, given, strangers, clean>>
offloadVars == <<model, query, answer>>
dshVars == <<dsh, adapter, wire, threads, sink>>

Models == INSTANCE Transport WITH None <- Nil
Dispatch == INSTANCE Intent WITH Tools <- Adapted
Control == INSTANCE ServiceControl WITH None <- Nil
Calculators == INSTANCE Offload WITH None <- Nil
Dsh == INSTANCE DshAdapter WITH None <- Nil

\* There are two model servers, and requests name one of them.
ASSUME TransportAssumption == Ports = {Default, Second}

\* Sizes are no less than nothing; "optimizer" names a tool.
ASSUME CalculatorsAssumption ==
    /\ Sizes \subseteq Nat /\ Vrams \subseteq Int /\ Kvs \subseteq Int
    /\ Margin \in Int /\ PerLayer \in Int /\ Costs \subseteq Int \X Int
    /\ Nil # "optimizer"

\* There are finitely many sessions; no value is not the name of a transport.
ASSUME DshAssumption ==
    /\ IsFiniteSet(Sessions)
    /\ Nil \notin {"auto", "sse", "ws", "poll", "http", "mock", "wsmock"}

\* A chat answer is the answer of the model server that was asked (transport.py).
AnswersAreTheModels == Models!AnswersAreTheModels

\* The n-th call of a deterministic generated function is given the answer to its n-th
\* call, but for what it called after it had caught a stop (laneb.py).
AnswersMatchCalls == Dispatch!AnswersMatchCalls

\* No server is out of reach of the tools while commands do not overlap and none
\* is interrupted (harness.py, enginectl.py).
ServersAreInReach == Control!ServersAreInReach

\* If any strategy compared fits the GPU, so does the one recommended
\* (moe-pcie-optimizer.py).
RecommendedFits == Calculators!RecommendedFits

\* A poller has handed over the known events up to its cursors, once, in order
\* (dsh_adapter.py).
HandedUpToCursor == Dsh!HandedUpToCursor
=============================================================================
