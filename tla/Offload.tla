------------------------------ MODULE Offload -------------------------------
(* The MoE offload calculators (skills/moe-offload-calc): which layers' expert *)
(* weights go to the GPU, what the -ot rules of llama.cpp move, and which      *)
(* strategy the PCIe optimizer recommends.  Sizes are in one unit throughout,  *)
(* the fractions of the code exact.                                            *)
EXTENDS Integers, Sequences, FiniteSets, SequencesExt, Lists

CONSTANTS Sizes,      \* expert weights of a layer
          Vrams,      \* sizes of GPUs
          Kvs,        \* KV cache and overhead
          Margin,     \* the safety margin (200 MB in the code)
          PerLayer,   \* routing overhead of an offloaded layer, 1/100 ms
          Costs,      \* <<ms per token, GB of RAM>> an evaluation comes to
          None

VARIABLES model,   \* layer -> [base, router, exps, shexp]
          query,   \* [vram, kv]
          answer   \* what the tool asked last has answered

vars == <<model, query, answer>>

Layers == DOMAIN model
Base == Total([i \in Layers |-> model[i].base + model[i].router])
Expert(i) == model[i].exps + model[i].shexp

\* Layers with expert tensors are MoE layers, the others dense.
Moe == Among([i \in Layers |-> i], {i \in Layers : Expert(i) > 0})
K == Len(Moe)

SumOver(is) == Total([k \in DOMAIN is |-> Expert(is[k])])
ExpertTotal == SumOver(Moe)
RouterTotal == Total([i \in Layers |-> model[i].router])

Prefix(n) == SubSeq(Moe, 1, n)
Rest(n) == SubSeq(Moe, n + 1, K)

Clip(n) == IF n < 0 THEN 0 ELSE IF n > K THEN K ELSE n

\* int(avail / (total / K)): towards zero, and nothing if there is no average.
Fitting(avail, total) == IF total = 0 \/ avail < 0 THEN 0 ELSE Clip((avail * K) \div total)

-----------------------------------------------------------------------------
(* Reading a model file: analyze_model sorts each tensor of a layer into one   *)
(* bucket by its name; other tensors (embeddings, output) count for no layer.  *)

Tensors == <<"attn", "exps", "shexp", "gate_inp", "exp_probs", "ffn", "norm", "else", "outside">>

Bucket(tensor) ==
  CASE tensor = "exps" -> "exps"
    [] tensor = "shexp" -> "shexp"
    [] tensor \in {"gate_inp", "exp_probs"} -> "router"
    [] tensor = "outside" -> None
    [] OTHER -> "base"

Analyzed(file) ==
  [i \in DOMAIN file |->
     [b \in {"base", "router", "exps", "shexp"} |->
        Total([t \in DOMAIN Tensors |-> IF Bucket(Tensors[t]) = b THEN file[i][t] ELSE 0])]]

\* A dense first layer and MoE layers of unlike sizes, as the demo models have.
Files ==
  {[i \in 1..4 |-> [t \in DOMAIN Tensors |->
      CASE Tensors[t] = "exps" -> (IF i = 1 THEN 0 ELSE sizes[i])
        [] Tensors[t] = "shexp" -> (IF i \in {1, 3} THEN 0 ELSE 1)
        [] Tensors[t] = "gate_inp" -> (IF i = 1 THEN 0 ELSE 1)
        [] Tensors[t] \in {"attn", "outside"} -> 1
        [] OTHER -> 0]] : sizes \in [2..4 -> Sizes]}

Init ==
  /\ \E file \in Files : model = Analyzed(file)
  /\ query \in [vram : Vrams, kv : Kvs]
  /\ answer = [tool |-> None]

-----------------------------------------------------------------------------
(* The calculators.                                                            *)

\* What is left for experts.
Available == query.vram - query.kv - Base - Margin

Split(n) ==
  LET used == Base + SumOver(Prefix(n)) + query.kv IN
  [n |-> n, gpu |-> Prefix(n), cpu |-> Rest(n), used |-> used,
   ram |-> SumOver(Rest(n)), fits |-> query.vram - used > 0]

\* calculate_offload: asked for a number of CPU layers, or for the most that fit.
Offload(ncpu) ==
  Split(IF Available <= 0 THEN 0
        ELSE IF ncpu # None THEN (IF K - ncpu < 0 THEN 0 ELSE K - ncpu)
        ELSE Fitting(Available, ExpertTotal))

\* calculate_vram_budget keeps no margin.
Budget(ngpu) ==
  Split(IF ngpu # None THEN (IF ngpu > K THEN K ELSE ngpu)
        ELSE Fitting(query.vram - query.kv - Base, ExpertTotal))

Calculate ==
  \E tool \in {"calculator", "glm"}, n \in {None} \cup 0..K :
    /\ answer.tool = None
    /\ answer' = [tool |-> tool, asked |-> n,
                  split |-> IF tool = "calculator" THEN Offload(n) ELSE Budget(n)]
    /\ UNCHANGED <<model, query>>

-----------------------------------------------------------------------------
(* -ot rules: layer ranges, a tensor pattern and a device; and their readers.  *)

\* The runs of consecutive layers in a sorted sequence.
Runs(is) ==
  LET Add(rs, i) == IF rs # << >> /\ Last(rs)[2] = i - 1
                    THEN Front(rs) \o << <<Last(rs)[1], i>> >> ELSE Append(rs, <<i, i>>)
  IN FoldLeft(Add, << >>, is)

\* generate_ot_patterns: experts, shared experts and the router of the CPU layers.
Generated(n) ==
  FlattenSeq([j \in DOMAIN Runs(Rest(n)) |->
    LET r == Runs(Rest(n))[j] IN
    [p \in 1..4 |-> [from |-> r[1], to |-> r[2], ranged |-> r[1] # r[2], device |-> "CPU",
                     tensors |-> << {"exps"}, {"shexp"}, {"gate_inp"}, {"exp_probs"} >>[p]]]])

\* Patterns of rules a user may write besides.
Written ==
  {<<a, b>> : a, b \in
     {[from |-> 0, to |-> 0, ranged |-> FALSE, device |-> "CPU", tensors |-> {"outside"}],
      [from |-> 2, to |-> 3, ranged |-> TRUE, device |-> "CPU", tensors |-> {"exps"}],
      [from |-> 3, to |-> 3, ranged |-> FALSE, device |-> "GPU", tensors |-> {"exps"}],
      [from |-> 2, to |-> 4, ranged |-> TRUE, device |-> "VULKAN", tensors |-> {"exps", "shexp"}]}}

\* parse_ot_pattern: rules without a layer are dropped; any device is taken.
CalculatorRules(rules) == SelectSeq(rules, LAMBDA r : r.from > 0)

\* parse_ot_string: devices other than CPU and GPU are dropped.
VisualizerRules(rules) == SelectSeq(rules, LAMBDA r : r.device \in {"CPU", "GPU"})

\* _parse_ot_string, as parse_ot_pattern.
OptimizerRules(rules) == SelectSeq(rules, LAMBDA r : r.from > 0)

Covers(r, i) == r.from <= i /\ i <= r.to

\* OtPattern.matches_tensor: nothing outside the layers is ever matched.
Matches(r, i, tensor) == tensor # "outside" /\ (r.from = 0 \/ Covers(r, i)) /\ tensor \in r.tensors

\* apply_ot_rules: expert tensors only, the first rule that matches.
ByCalculator(rules, i, tensor) ==
  LET rs == SelectSeq(CalculatorRules(rules), LAMBDA r : Covers(r, i) /\ tensor \in r.tensors) IN
  IF tensor \in {"exps", "shexp"} /\ rs # << >> THEN Head(rs).device ELSE "GPU"

\* analyze_ot_impact: every tensor, the last rule that matches.
ByVisualizer(rules, i, tensor) ==
  LET rs == SelectSeq(VisualizerRules(rules), LAMBDA r : Matches(r, i, tensor)) IN
  IF rs # << >> THEN Last(rs).device ELSE "GPU"

\* evaluate_ot_pattern: a layer with a rule about its experts goes, with all its
\* experts, to the CPU, whatever device the rule names.
ByOptimizer(rules, i, tensor) ==
  LET rs == SelectSeq(OptimizerRules(rules), LAMBDA r : Covers(r, i) /\ "exps" \in r.tensors) IN
  IF tensor \in {"exps", "shexp"} /\ rs # << >> THEN "CPU" ELSE "GPU"

\* print_ot_visualization: what the calculator's placement leaves on the GPU.
OnGpu(rules) ==
  LET Gpu(i) == (IF ByCalculator(rules, i, "exps") = "GPU" THEN model[i].exps ELSE 0)
                + (IF ByCalculator(rules, i, "shexp") = "GPU" THEN model[i].shexp ELSE 0)
  IN Base + Total([i \in Layers |-> Gpu(i)])

Moved(By(_, _, _), rules) == {i \in Layers : Expert(i) > 0 /\ By(rules, i, "exps") = "CPU"}

ReadRules ==
  \E n \in 0..K, own \in BOOLEAN, written \in Written :
    /\ answer.tool = None
    /\ own => written = CHOOSE w \in Written : TRUE
    /\ LET rules == IF own THEN Generated(n) ELSE written IN
         answer' = [tool |-> "rules", asked |-> IF own THEN n ELSE None, rules |-> rules,
                    calculator |-> Moved(ByCalculator, rules), visualizer |-> Moved(ByVisualizer, rules),
                    optimizer |-> Moved(ByOptimizer, rules), used |-> OnGpu(rules) + query.kv]
    /\ UNCHANGED <<model, query>>

-----------------------------------------------------------------------------
(* The PCIe optimizer: strategies, scores, the recommendation.                 *)

\* ExpertCacheSimulator.simulate without a profile: slots of the GPU cache.
Cache(slots, n) ==
  LET warm == IF n - slots < slots * 3 THEN n - slots ELSE slots * 3
      cold == n - slots - warm IN
  [hot |-> slots, warm |-> warm, cold |-> IF cold < 0 THEN 0 ELSE cold]

Least(a, b) == IF a < b THEN a ELSE b
Greater(a, b) == IF a > b THEN a ELSE b

\* PipelineOverlapper.compute_overlap, of n layers.
Overlap(n, gpu, pcie) ==
  IF n <= 0 THEN [effective |-> 0, overlap |-> 0, naive |-> 0]
  ELSE [effective |-> IF n = 1 THEN gpu + pcie ELSE gpu + (n - 1) * Greater(gpu, pcie) + pcie,
        overlap |-> Least(gpu, pcie) * Greater(0, n - 1),
        naive |-> n * (gpu + pcie)]

Result(name, gpu, cpu, routing) ==
  LET used == Base + SumOver(gpu) + query.kv IN
  [name |-> name, gpu |-> gpu, cpu |-> cpu, used |-> used, routing |-> routing,
   fits |-> query.vram - used > 0]

FullGpu == Result("full_gpu", Moe, << >>, 0)

NCpuMoe(ncpu) ==
  LET n == Greater(0, K - ncpu) IN Result("n_cpu_moe", Prefix(n), Rest(n), Len(Rest(n)) * PerLayer)

\* evaluate_hybrid: layers in order as long as they stay within what the first
\* n come to.
Hybrid ==
  LET target == SumOver(Prefix(Fitting(Available, ExpertTotal)))
      taken[n \in 0..K] ==
        IF n = 0 THEN << >>
        ELSE IF SumOver(taken[n - 1]) + Expert(Moe[n]) <= target
             THEN Append(taken[n - 1], Moe[n]) ELSE taken[n - 1]
      cpu == Among(Moe, Layers \ {taken[K][k] : k \in DOMAIN taken[K]})
  IN Result("hybrid", taken[K], cpu, (Len(cpu) * PerLayer) \div 5)

Naive == Result("naive", << >>, Moe, 0)

\* evaluate_smart: the average counts the routers too.
Smart ==
  LET n == Fitting(Available, ExpertTotal + RouterTotal) IN Result("smart", Prefix(n), Rest(n), 0)

\* evaluate_pipelined: the split of smart.  The times of the whole token, not of
\* a layer, go into the overlap of n layers, which is added to the GPU's.
Pipelined == [Smart EXCEPT !.name = "pipelined"]
SmartTime(gpu, pcie, cpu) == gpu + pcie + cpu
PipelinedTime(n, gpu, pcie, cpu) == gpu + Overlap(n, gpu, pcie).effective + cpu

\* main, all strategies: the mixed ones only if the automatic split needs the CPU.
Evaluated ==
  LET ncpu == K - Fitting(Available, ExpertTotal) IN
  <<FullGpu>> \o (IF K > 0 /\ ncpu > 0 THEN <<NCpuMoe(ncpu), Hybrid>> ELSE << >>)
    \o <<Naive, Smart, Pipelined>>

VramScore(r) ==
  IF ~r.fits THEN 0
  ELSE IF r.used * 100 > 95 * query.vram THEN 20
  ELSE IF r.used * 100 > 80 * query.vram THEN 25
  ELSE IF r.used * 100 > 60 * query.vram THEN 18
  ELSE 10

LatencyScore(ms) ==
  IF ms <= 0 THEN 25 ELSE IF ms <= 1 THEN 23 ELSE IF ms <= 5 THEN 20
  ELSE IF ms <= 15 THEN 15 ELSE IF ms <= 50 THEN 10 ELSE 5

RamScore(gb) ==
  IF gb <= 2 THEN 25 ELSE IF gb <= 4 THEN 22 ELSE IF gb <= 8 THEN 18 ELSE IF gb <= 16 THEN 12 ELSE 5

RoutingScore(r) ==
  IF r <= 10 THEN 25 ELSE IF r <= 50 THEN 22 ELSE IF r <= 200 THEN 18 ELSE IF r <= 500 THEN 12 ELSE 5

\* variant: the cap on what does not fit is forgotten
Uncapped(r, ms, gb) == VramScore(r) + LatencyScore(ms) + RamScore(gb) + RoutingScore(r.routing)

\* score_strategy: four dimensions; what does not fit is worth 30 at most.
Score(r, ms, gb) ==
  LET total == VramScore(r) + LatencyScore(ms) + RamScore(gb) + RoutingScore(r.routing) IN
  IF r.fits THEN total ELSE Least(total, 30)

\* max() keeps the first of equals.
Best(rs, scores) == CHOOSE i \in DOMAIN rs :
  /\ \A j \in DOMAIN rs : scores[j] <= scores[i]
  /\ \A j \in 1..(i - 1) : scores[j] < scores[i]

\* The latency and the RAM a strategy comes to are chosen.
Compare ==
  LET rs == Evaluated IN
  \E cost \in [DOMAIN rs -> Costs] :
    /\ answer.tool = None
    /\ answer' = [tool |-> "optimizer", results |-> rs,
                  best |-> Best(rs, [i \in DOMAIN rs |-> Score(rs[i], cost[i][1], cost[i][2])])]
    /\ UNCHANGED <<model, query>>

\* The overlap is asked for a number of layers, the cache for one of slots.
Simulate ==
  \E n \in 0..4, gpu, pcie \in 1..3 :
    /\ answer.tool = None
    /\ answer' = [tool |-> "simulator", n |-> n, gpu |-> gpu, pcie |-> pcie,
                  overlap |-> Overlap(n, gpu, pcie), cache |-> Cache(n, 4),
                  smart |-> SmartTime(gpu, IF n = 0 THEN 0 ELSE pcie, 0),
                  pipelined |-> PipelinedTime(n, gpu, IF n = 0 THEN 0 ELSE pcie, 0)]
    /\ UNCHANGED <<model, query>>

Next == Calculate \/ ReadRules \/ Compare \/ Simulate

Spec == Init /\ [][Next]_vars

-----------------------------------------------------------------------------

\* If any of the strategies compared fits the GPU, the recommended one does: one
\* that does not is worth 30 at most, and the naive one, which fits if any does,
\* is worth more, whatever its latency and its need of RAM.
RecommendedFits ==
  answer.tool = "optimizer" /\ (\E i \in DOMAIN answer.results : answer.results[i].fits) =>
    answer.results[answer.best].fits

=============================================================================
