---------------------------- MODULE MCKnowledge ----------------------------
(* Instances of Memory and TaskHandlers for TLC. *)
EXTENDS TaskHandlers

CONSTANTS d1, d2, r1, r2, e1

\* Two runs of one plan: the same atom in both.
MCRun(t) == t
MCAtom(t) == "T01"
MCNegations == {<<"always", "never">>}
MCAlike == {<<"always", "mostly">>}

Document(heading, literal, position, sections, said, sources, cites, contradictions) ==
    [heading |-> heading, position |-> position, confidence |-> FALSE, sections |-> sections,
     literal |-> literal, malformed |-> FALSE, claims |-> said, sources |-> sources,
     cites |-> cites, contradictions |-> contradictions, dense |-> TRUE, answers |-> TRUE]
Claim(i, text, srcs) == [id |-> i, text |-> text, srcs |-> srcs]
Source(i, kind, names, cites) == [id |-> i, kind |-> kind, names |-> names, cites |-> cites]
Cite(c, s, span) == [claim |-> c, src |-> s, span |-> span]

\* Two that pass after repairs and one as it is; one that contradicts itself,
\* one with a ring and one whose file is not there.
Short(heading, literal, position, text) ==
    Document(heading, literal, position, {"Sources", "Claims"}, <<Claim(1, text, {})>>,
             <<Source(1, "file", {}, 0)>>, <<Cite(1, 1, "paraphrased")>>, {})
MCDocuments == {
    Short("variant", TRUE, "absent", "always"),
    Short("exact", FALSE, "supported", "never"),
    Document("exact", FALSE, "refuted", Sections, <<Claim(1, "mostly", {2})>>,
             <<Source(1, "web", {}, 0), Source(2, "file", {}, 0)>>,
             <<Cite(1, 1, "title"), Cite(1, 2, "paraphrased")>>, {}),
    Document("exact", FALSE, "supported", Sections, <<Claim(1, "always", {1}), Claim(2, "never", {1})>>,
             <<Source(1, "file", {}, 0)>>, <<Cite(1, 1, "matching")>>, {}),
    Document("exact", FALSE, "supported", Sections, <<Claim(1, "always", {1})>>,
             <<Source(1, "file", {1}, 0)>>, <<Cite(1, 1, "matching")>>, {}),
    Document("variant", FALSE, "refuted", {"Sources"}, <<>>,
             <<Source(1, "gone", {}, 0)>>, <<>>, {})}

Block(old, new) == [old |-> old, new |-> new]
MCBlocks == {
    <<Block("a", "b")>>, <<Block("b", "a")>>, <<Block("c", "a")>>,
    <<Block("a", "c"), Block("c", "b")>>, <<Block("a", "b"), Block("b", "a")>>}
MCOriginal == [a |-> 1, b |-> 1, c |-> 0]

Symmetry == Permutations(Desks) \union Permutations(Research)

\* The research tasks or the edit task; the others rest.
MCSpec ==
    /\ \E ts \in {Research, Edits} : InitOf(ts)
    /\ [][Next]_vars
============================================================================
