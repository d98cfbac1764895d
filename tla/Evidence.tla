------------------------------ MODULE Evidence ------------------------------
(***************************************************************************)
(* The verdict document of a research task: its normalisation and repair    *)
(* (engine/research/__init__.py), the staged EvidenceValidator              *)
(* (evidence.py) and the verification of its sources (sources.py), as       *)
(* operators on what they tell apart.  A document is a record of            *)
(*   heading: "exact", "variant" (another case, a word before it), "missing" *)
(*   position, confidence: those lines, "absent" or not there               *)
(*   sections: the other sections that are there                            *)
(*   literal: markers have the letter N for a number; malformed: others     *)
(*   claims: <<[id, text, srcs]>>; sources: <<[id, kind, names, cites]>>,   *)
(*      names the claims and cites the source (0: none) its entry refers to *)
(*   cites: the citation lines <<[claim, src, span]>>                       *)
(*   contradictions: how each entry is resolved; dense, answers: BOOLEAN.   *)
(***************************************************************************)
EXTENDS Lists, FiniteSets, SequencesExt

CONSTANTS
    Texts,      \* what a claim may say
    Negations   \* pairs of texts with a negation pair and a common word

ASSUME EvidenceAssumption == Negations \subseteq Texts \X Texts

Either(R, x, y) == <<x, y>> \in R \/ <<y, x>> \in R

Sections == {"Sources", "Claims", "Contradictions", "Citations"}

\* A document, as the parsers here read it; each entry names finitely many claims.
VerdictDocument ==
    [heading : {"exact", "variant", "missing"},
     position : {"absent", "supported", "refuted", "inconclusive"}, confidence : BOOLEAN,
     sections : SUBSET Sections, literal : BOOLEAN, malformed : BOOLEAN,
     claims : Seq([id : Nat, text : Texts, srcs : SUBSET Nat]),
     sources : Seq([id : Nat, kind : {"web", "file", "gone"},
                    names : {ns \in SUBSET Nat : IsFiniteSet(ns)}, cites : Nat]),
     cites : Seq([claim : Nat, src : Nat, span : STRING]),
     contradictions : SUBSET STRING, dense : BOOLEAN, answers : BOOLEAN]

IdsOf(s) == {s[i].id : i \in DOMAIN s}
Files(d) ==
    Among(d.sources, {s \in {d.sources[i] : i \in DOMAIN d.sources} : s.kind # "web"})

----------------------------------------------------------------------------
(* The repair of what the model wrote. *)

\* _normalize_verdict_heading.
Normalized(d) == IF d.heading = "variant" THEN [d EXCEPT !.heading = "exact"] ELSE d

\* Literal markers are numbered in the order of the text, sources first; the
\* markers in the claims so refer to sources there are not.
Renumbered(d) ==
    IF ~d.literal THEN d
    ELSE [d EXCEPT !.literal = FALSE,
            !.sources = [i \in DOMAIN @ |-> [@[i] EXCEPT !.id = i]],
            !.claims = [i \in DOMAIN @ |->
                [d.claims[i] EXCEPT !.id = i,
                    !.srcs = IF @ = {} THEN {} ELSE {Len(d.sources) + i}]],
            !.cites = [i \in DOMAIN @ |-> [@[i] EXCEPT !.claim = i, !.src = i]]]

\* A verdict without a position becomes one that is supported.
WithLines(d) ==
    IF d.heading # "exact" THEN d
    ELSE [d EXCEPT !.position = IF @ = "absent" THEN "supported" ELSE @, !.confidence = TRUE]

\* Missing sections: a source on the web, a claim that cites every source, a
\* citation of the first file, whose span WithSpans makes one of that file.
WithSections(d) ==
    LET lacks(s) == s \notin d.sections
        old == IF lacks("Sources") THEN <<>> ELSE d.sources
        cited == IF old = <<>> THEN {1} ELSE IdsOf(old)
        web == [id |-> 1, kind |-> "web", names |-> {}, cites |-> 0]
        first == Files([d EXCEPT !.sources = old])
    IN [d EXCEPT !.sections = Sections,
          !.sources = IF lacks("Sources") THEN <<web>> ELSE @,
          !.claims = IF lacks("Claims")
                     THEN <<[id |-> 1, text |-> "placeholder", srcs |-> cited]>> ELSE @,
          !.contradictions = IF lacks("Contradictions") THEN {} ELSE @,
          !.cites = IF ~lacks("Citations") THEN @
                    ELSE Append(@, IF first = <<>> THEN [claim |-> 1, src |-> 1, span |-> "placeholder"]
                                   ELSE [claim |-> 1, src |-> first[1].id, span |-> "placeholder"])]

\* A span that does not occur in a file that can be read is replaced by the
\* first line of it.
WithSpans(d) ==
    LET readable(s) == \E i \in DOMAIN d.sources : d.sources[i].id = s /\ d.sources[i].kind = "file"
    IN [d EXCEPT !.cites = [i \in DOMAIN @ |->
            IF readable(@[i].src) THEN [@[i] EXCEPT !.span = "matching"] ELSE @[i]]]

Repaired(d) == WithSpans(WithSections(WithLines(Renumbered(d))))

----------------------------------------------------------------------------
(* The stages of EvidenceValidator; stage 0 cannot fail once repaired. *)

Structured(d) ==
    /\ d.heading = "exact" /\ d.position # "absent" /\ d.confidence
    /\ {"Sources", "Claims", "Contradictions"} \subseteq d.sections

\* _parse_markers: a citation is also an edge of its claim.
SourcesOf(d, c) ==
    UNION {d.claims[i].srcs : i \in {j \in DOMAIN d.claims : d.claims[j].id = c}}
    \union {d.cites[i].src : i \in {j \in DOMAIN d.cites : d.cites[j].claim = c}}

WellCited(d) ==
    /\ ~d.malformed /\ ~d.literal
    /\ \A i \in DOMAIN d.cites :
          d.cites[i].claim \in IdsOf(d.claims) /\ d.cites[i].src \in IdsOf(d.sources)
Covered(d) == \A c \in IdsOf(d.claims) : SourcesOf(d, c) # {}

\* The checks of stage 4, which are all made.
NoOrphans(d) ==
    IdsOf(d.sources) \subseteq UNION {SourcesOf(d, c) : c \in IdsOf(d.claims)}
NotSelfSupported(d) ==
    \A i \in DOMAIN d.cites : d.cites[i].claim = d.cites[i].src => d.cites[i].span # "own"

\* Claims and sources as the nodes of one graph.  What any entry names is
\* taken for named by the first: `(.*)' runs to the end of the section.
ClaimNode(i) == <<"claim", i>>
SourceNode(i) == <<"source", i>>
Nodes(d) == {ClaimNode(i) : i \in IdsOf(d.claims)} \union {SourceNode(i) : i \in IdsOf(d.sources)}
Named(d) ==
    IF d.sources = <<>> THEN {}
    ELSE {<<SourceNode(d.sources[1].id), ClaimNode(c)>> : c \in UNION {d.sources[i].names : i \in DOMAIN d.sources}}
CitationGraph(d) ==
    {<<ClaimNode(d.cites[i].claim), SourceNode(d.cites[i].src)>> : i \in DOMAIN d.cites} \union Named(d)

\* `[src-a] ... cites [src-b]': the search starts at the first entry after the
\* last one that cites, whichever entry it is that cites.
SourceGraph(d) ==
    LET citing == {i \in DOMAIN d.sources : d.sources[i].cites # 0}
        from(i) == CHOOSE k \in 1..i : k - 1 \in citing \union {0}
                                       /\ \A j \in citing : j < i => j < k
    IN {<<SourceNode(d.sources[from(i)].id), SourceNode(d.sources[i].cites)>> : i \in citing}

\* _has_cycle_dfs; before Visit, the same if a node on the path were no cycle.
Targets(G, u) == SetToSeq({e[2] : e \in {x \in G : x[1] = u}})
Searches(ns) == [cyclic : BOOLEAN, color : [ns -> {"white", "gray", "black"}]]
VisitGrayIsDone(dfs, acc, v) ==
    IF ~acc.cyclic /\ acc.color[v] = "white" THEN dfs[v][acc] ELSE acc
Visit(dfs, acc, v) ==
    CASE acc.cyclic -> acc
      [] ~acc.cyclic /\ acc.color[v] = "gray" -> [acc EXCEPT !.cyclic = TRUE]
      [] ~acc.cyclic /\ acc.color[v] = "white" -> dfs[v][acc]
      [] OTHER -> acc
\* One after the other, as both loops do: over a node's targets, and over all nodes,
\* where none is gray when its turn comes.
VisitAll(dfs, acc, vs) ==
    LET after[n \in 0 .. Len(vs)] == IF n = 0 THEN acc ELSE Visit(dfs, after[n - 1], vs[n])
    IN after[Len(vs)]
Search(G, dfs, u, acc) ==
    LET after == VisitAll(dfs, [acc EXCEPT !.color[u] = "gray"], Targets(G, u))
    IN IF after.cyclic THEN after ELSE [after EXCEPT !.color[u] = "black"]
HasCycle(G, ns) ==
    LET all == ns \union {e[1] : e \in G} \union {e[2] : e \in G}
        dfs[u \in all] == [acc \in Searches(all) |-> Search(G, dfs, u, acc)]
        white == [cyclic |-> FALSE, color |-> [n \in all |-> "white"]]
    IN VisitAll(dfs, white, SetToSeq(all)).cyclic

NoEmptySpan(d) == \A i \in DOMAIN d.cites : d.cites[i].span # "empty"
Resolved(d) == d.contradictions \subseteq {"resolved"}
NotSilent(d) ==
    d.contradictions = {} =>
        \A i, j \in DOMAIN d.claims : ~Either(Negations, d.claims[i].text, d.claims[j].text)
Sourced(d) ==
    /\ NoOrphans(d) /\ NotSelfSupported(d)
    /\ ~HasCycle(CitationGraph(d), Nodes(d)) /\ ~HasCycle(SourceGraph(d), {})
    /\ NoEmptySpan(d) /\ d.dense /\ Resolved(d) /\ NotSilent(d)

\* validate: each stage only if those before it pass.
Valid(d) == Structured(d) /\ WellCited(d) /\ Covered(d) /\ Sourced(d) /\ d.answers

----------------------------------------------------------------------------
(* verify_file_sources. *)

\* _collect_file_sources takes the first citation of a source; a file without
\* one has the empty span, which occurs in any file that can be read.
SpanOf(d, s) ==
    LET of == SelectSeq(d.cites, LAMBDA c : c.src = s) IN IF of = <<>> THEN "" ELSE of[1].span
Matches(d, f) == f.kind = "file" /\ SpanOf(d, f.id) \in {"matching", ""}

\* Only the first fifth is checked, and the rest of it not after a failure.
Sample(n) == IF n \div 5 > 1 THEN n \div 5 ELSE 1
Verified(d) == LET fs == Files(d) IN fs = <<>> \/ \A i \in 1..Sample(Len(fs)) : Matches(d, fs[i])

----------------------------------------------------------------------------
(* What an accepted verdict has, said without the validator's algorithms. *)

Reaches(G, u) ==
    LET next(X) == X \union {e[2] : e \in {x \in G : x[1] \in X}}
        steps[n \in 0..Cardinality(G)] ==
            IF n = 0 THEN {e[2] : e \in {x \in G : x[1] = u}} ELSE next(steps[n - 1])
    IN steps[Cardinality(G)]
Circular(G) == \E e \in G : e[1] \in Reaches(G, e[1])
Sound(d) ==
    /\ d.position \in {"supported", "refuted", "inconclusive"}
    /\ \A c \in IdsOf(d.claims) : SourcesOf(d, c) # {}
    /\ \A s \in IdsOf(d.sources) : \E c \in IdsOf(d.claims) : s \in SourcesOf(d, c)
    /\ ~Circular(CitationGraph(d)) /\ ~Circular(SourceGraph(d))
    /\ \A i, j \in DOMAIN d.claims :
          Either(Negations, d.claims[i].text, d.claims[j].text) => "resolved" \in d.contradictions
    /\ Files(d) # <<>> => Files(d)[1].kind = "file"
=============================================================================
