----------------------------- MODULE MCService -----------------------------
(***************************************************************************)
(* Instances of EngineService and of Records for TLC.  The initial state   *)
(* picks what is explored (`part'): the service and its clients, the       *)
(* session log, the results archive, the registry of patterns, the         *)
(* benchmark, or the repository map.                                       *)
(***************************************************************************)
EXTENDS EngineService, Records, TLC

CONSTANTS c1, c2, a1, a2

VARIABLE part

\* Run 3 is another project's.
MCProjectOf == [r \in 1 .. 3 |-> IF r = 3 THEN "p2" ELSE "p1"]

\* One of the two tasks has an automated check.
MCConfigs == <<"c1", "c2">>
MCCorpus == <<"t1", "t2">>

\* All generated files are ignored but b.py, taken back by a later rule.
MCWalk == <<"a.py", "b.py", "gen.py">>
MCRules == <<[hits |-> {"b.py", "gen.py"}, negated |-> FALSE],
             [hits |-> {"b.py"}, negated |-> TRUE]>>
MCContents == {<<>>, <<"f">>, <<"g">>}
MCSize == [n \in {"f", "g"} |-> 2]

\* Who calls what: two calls that overlap, or one beside the GPU poller.
Scenarios == {<<"inference", "inference">>, <<"exec", "none">>, <<"commit", "commit">>,
              <<"write", "none">>, <<"tests", "none">>, <<"read", "none">>,
              <<"snapshot", "none">>, <<"stream", "none">>,
              <<"commit", "invalid">>}

MCInit ==
    /\ part \in {"service", "log", "archive", "patterns", "bench", "map"}
    /\ Init /\ Log!Init /\ Results!Init /\ Registry!Init /\ Benchmark!Init /\ Repository!Init
    /\ <<call[c1].kind, call[c2].kind>> \in
           IF part = "service" THEN Scenarios ELSE {<<"read", "none">>}
    /\ withGpu => call[c2].kind = "none" /\ part = "service"
    /\ part # "map" => \A f \in DOMAIN tree : tree[f].text = <<>>

\* A part at work, and the others at rest.
ServiceOnly == part = "service" /\ UNCHANGED <<logVars, archiveVars, patternVars, benchVars, mapVars>>
LogOnly == part = "log" /\ UNCHANGED <<vars, archiveVars, patternVars, benchVars, mapVars>>
ArchiveOnly == part = "archive" /\ UNCHANGED <<vars, logVars, patternVars, benchVars, mapVars>>
PatternsOnly == part = "patterns" /\ UNCHANGED <<vars, logVars, archiveVars, benchVars, mapVars>>
BenchOnly == part = "bench" /\ UNCHANGED <<vars, logVars, archiveVars, patternVars, mapVars>>
MapOnly == part = "map" /\ UNCHANGED <<vars, logVars, archiveVars, patternVars, benchVars>>

MCNext ==
    /\ part' = part
    /\ \/ ServiceOnly /\ Next
       \/ LogOnly /\ Log!Next
       \/ ArchiveOnly /\ Results!Next
       \/ PatternsOnly /\ Registry!Next
       \/ BenchOnly /\ Benchmark!Next
       \/ MapOnly /\ Repository!Next

\* No step tells one call from the other, or one archiver from the other.
Symmetry == Permutations({c1, c2}) \union Permutations({a1, a2})

MCSpec ==
    MCInit /\ [][MCNext]_<<part, vars, logVars, archiveVars, patternVars, benchVars, mapVars>>
============================================================================
