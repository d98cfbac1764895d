--------------------------------- MODULE Prd ---------------------------------
(***************************************************************************)
(* How a PRD becomes the tasks of a run (src/engine/prd.py and             *)
(* src/legacy/prd_parser.py).                                              *)
(*                                                                         *)
(* The legacy parser groups user stories and requirements by the modules   *)
(* the document lists; where it is not importable or finds nothing, the    *)
(* engine reads a table, a numbered list, bullets or task headings.  Of a  *)
(* story counts how many keywords of each module it contains; of a list    *)
(* item its number and the file it mentions; of a section its heading.     *)
(***************************************************************************)
EXTENDS Lists, FiniteSetsExt, SequencesExt

CONSTANTS
    Files,          \* the files a document may list as modules
    ItemLists,      \* the sequences of items a section may have
    MaxStories, MaxReqs, MaxSections,
    MaxOrder        \* lines of `Dependency Order', and the numbers in them

None == "none"
Own == "own"            \* the module task_<id>.py
General == "general"    \* the group of what belongs to no module
Enough == 2             \* keyword matches that make a story a module's

Item == [num : Nat, mention : {None, "plain", "up", "absolute"}]
Section == [head : {"boilerplate", "plain", "task"}, list : {None, "table", "numbered", "bullets"}, items : ItemLists]

VARIABLES
    pc,         \* read, parsed
    parser,     \* prd_parser is importable
    prd,        \* the document
    tasks       \* what parse_prd returns

vars == <<pc, parser, prd, tasks>>

Seqs(S, n) == UNION {[1 .. k -> S] : k \in 0 .. n}

-----------------------------------------------------------------------------
(* PRDParser *)

Groups == prd.modules \o <<General>>

\* _classify_story_to_module, _classify_req_to_module: the first module with the
\* most keywords, if there are enough.
GroupOf(matches) ==
    LET best == Max({0} \cup {matches[f] : f \in ToSet(prd.modules)})
    IN IF best < Enough THEN General
       ELSE prd.modules[Min({i \in DOMAIN prd.modules : matches[prd.modules[i]] = best})]

StoriesOf(g) == {i \in DOMAIN prd.stories : GroupOf(prd.stories[i]) = g}
ReqsOf(g) == {i \in DOMAIN prd.reqs : GroupOf(prd.reqs[i]) = g}

\* The groups that become tasks, in the document's order.
Grouped == Among(Groups, {g \in ToSet(Groups) : StoriesOf(g) # {} \/ ReqsOf(g) # {}})

\* The number `Dependency Order' gives a file: its last line's.
NumOf(f) == prd.order[Max({i \in DOMAIN prd.order : prd.order[i].file = f})].num
Numbered(f) == \E i \in DOMAIN prd.order : prd.order[i].file = f

\* The files that come before f.
Earlier(f) == {g \in Files \ {f} : Numbered(g) /\ NumOf(g) < NumOf(f)}

\* The tasks that create the files before this group's, each once, as the order
\* first names them.
DependenciesOf(g) ==
    LET deps[n \in 0 .. Len(prd.order)] ==
          IF n = 0 THEN <<>>
          ELSE deps[n - 1] \o
                 SetToSeq({i \in DOMAIN Grouped : /\ Grouped[i] = prd.order[n].file
                                                  /\ Grouped[i] \in Earlier(g)
                                                  /\ i \notin ToSet(deps[n - 1])})
    IN IF g = General \/ ~Numbered(g) THEN <<>> ELSE deps[Len(prd.order)]

\* Every task's spec and imports are those of the first group: the loop that
\* looks for a task's module compares the task's own id with its own number.
SpecOf(i) == Grouped[1]

\* _decompose_grouped
GroupedTasks ==
    [i \in DOMAIN Grouped |->
        [id |-> i, module |-> IF Grouped[i] = General THEN Own ELSE Grouped[i],
         deps |-> DependenciesOf(Grouped[i]), spec |-> SpecOf(i),
         stories |-> StoriesOf(Grouped[i]), reqs |-> ReqsOf(Grouped[i]), from |-> "plain"]]

\* _decompose_flat: one task for each story and each requirement.
FlatTasks ==
    [i \in 1 .. Len(prd.stories) + Len(prd.reqs) |->
        [id |-> i, module |-> Own, deps |-> <<>>, spec |-> None,
         stories |-> IF i <= Len(prd.stories) THEN {i} ELSE {},
         reqs |-> IF i > Len(prd.stories) THEN {i - Len(prd.stories)} ELSE {}, from |-> "plain"]]

\* _decompose_into_tasks, and the engine's view of its tasks.
ParserTasks == IF prd.modules # <<>> THEN GroupedTasks ELSE FlatTasks

-----------------------------------------------------------------------------
(* The engine's own strategies. *)

\* _sanitize_module; without a file the task's own.
Sanitized(mention) == IF mention \in {None, "absolute"} THEN Own ELSE "plain"

ListTask(id, module, section) ==
    [id |-> id, module |-> module, deps |-> <<>>, spec |-> None, stories |-> {}, reqs |-> {},
     from |-> section.head]

\* The items of all sections of a kind, in order, with their sections.
Items(sections, kind) ==
    LET found[n \in 0 .. Len(sections)] ==
          IF n = 0 THEN <<>>
          ELSE IF sections[n].list # kind THEN found[n - 1]
          ELSE found[n - 1] \o [i \in DOMAIN sections[n].items |->
                                   [item |-> sections[n].items[i], in |-> sections[n]]]
    IN found[Len(sections)]

\* _filter_boilerplate; what it would leave nothing of it leaves alone.
Kept == Among(prd.sections, {s \in Section : s.head # "boilerplate"})
Filtered == IF Kept = <<>> THEN prd.sections ELSE Kept

\* Table rows of the whole document, with their ids and modules as they are.
TableTasks ==
    LET found == Items(prd.sections, "table")
    IN [i \in DOMAIN found |-> ListTask(found[i].item.num, found[i].item.mention, found[i].in)]

\* Numbered items: looked for in what the filter left, taken from what is no
\* boilerplate; their ids are their numbers.
NumberedTasks ==
    LET found == IF Items(Filtered, "numbered") = <<>> THEN <<>> ELSE Items(Kept, "numbered")
    IN [i \in DOMAIN found |-> ListTask(found[i].item.num, Sanitized(found[i].item.mention), found[i].in)]

\* Bullets of the whole document, numbered as they come.
BulletTasks ==
    LET found == Items(prd.sections, "bullets")
    IN [i \in DOMAIN found |-> ListTask(i, Sanitized(found[i].item.mention), found[i].in)]

\* `## Task T05' headings; other headings are part of the task before them.
HeaderTasks ==
    LET heads == Among(prd.sections, {s \in Section : s.head = "task"})
    IN [i \in DOMAIN heads |->
          ListTask(heads[i].items[1].num, IF heads[i].items[1].mention = None THEN Own ELSE "plain", heads[i])]

\* The first strategy that finds something.
Found ==
    LET strategies == <<IF parser THEN ParserTasks ELSE <<>>,
                        TableTasks, NumberedTasks, BulletTasks, HeaderTasks>>
        useful == {i \in DOMAIN strategies : strategies[i] # <<>>}
    IN IF useful = {} THEN <<>> ELSE strategies[Min(useful)]

\* task_map: of several tasks with one id the last.
TaskOf(found, id) == found[Max({i \in DOMAIN found : found[i].id = id})]

Known(found) == {found[i].id : i \in DOMAIN found}
Ids(found) == Known(found) \cup UNION {ToSet(found[i].deps) : i \in DOMAIN found}
Sorts(found) == [visited : SUBSET Ids(found), result : Seq(ToSet(found))]

\* for i in ids: visit(i)
VisitAll(visit, acc, ids) ==
    LET after[n \in 0 .. Len(ids)] == IF n = 0 THEN acc ELSE visit[ids[n]][after[n - 1]]
    IN after[Len(ids)]

\* (variant) A task before its dependencies.
VisitFirst(found, visit, id, acc) ==
    IF id \in acc.visited THEN acc
    ELSE IF id \notin Known(found) THEN [acc EXCEPT !.visited = @ \cup {id}]
    ELSE VisitAll(visit, [visited |-> acc.visited \cup {id}, result |-> Append(acc.result, TaskOf(found, id))],
                  TaskOf(found, id).deps)

\* visit: a task after its dependencies, each once; unknown ids are skipped.
Visit(found, visit, id, acc) ==
    LET marked == [acc EXCEPT !.visited = @ \cup {id}] IN
    IF id \in acc.visited THEN acc
    ELSE IF id \notin Known(found) THEN marked
    ELSE LET after == VisitAll(visit, marked, TaskOf(found, id).deps)
         IN [after EXCEPT !.result = Append(@, TaskOf(found, id))]

\* _topological_sort
TopologicalSort(found) ==
    LET visit[id \in Ids(found)] == [acc \in Sorts(found) |-> Visit(found, visit, id, acc)]
    IN VisitAll(visit, [visited |-> {}, result |-> <<>>], [i \in DOMAIN found |-> found[i].id]).result

\* parse_prd
Parse ==
    /\ pc = "read"
    /\ tasks' = TopologicalSort(Found)
    /\ pc' = "parsed"
    /\ UNCHANGED <<parser, prd>>

\* _extract_modules: the files of `Module Organization', each once.
ModuleLists == {q \in Seqs(Files, Cardinality(Files)) : IsInjective(q)}

\* _module_keywords: how many keywords of each module a text contains.
Matches == [Files -> {0, Enough - 1, Enough}]

\* _extract_user_stories, _extract_requirements
StoryLists == Seqs(Matches, MaxStories)
ReqLists == Seqs([Files -> {0, Enough}], MaxReqs)

\* _extract_dependency_order: any numbers, for any files.
Orders == Seqs([num : 1 .. MaxOrder, file : Files], MaxOrder)

\* A document with modules, stories and requirements, or one with lists only.
Structured ==
    {[modules |-> m, stories |-> s, reqs |-> r, order |-> o, sections |-> <<>>] :
        m \in ModuleLists, s \in StoryLists, r \in ReqLists, o \in Orders}
Listed ==
    {[modules |-> <<>>, stories |-> <<>>, reqs |-> <<>>, order |-> <<>>, sections |-> s] :
        s \in Seqs(Section, MaxSections)}

Init ==
    /\ pc = "read" /\ parser \in BOOLEAN /\ tasks = <<>>
    /\ prd \in Listed \/ (parser /\ prd \in Structured)

Next == Parse

Spec == Init /\ [][Next]_vars

-----------------------------------------------------------------------------
\* prd.py:94: tasks are in dependency order, whatever numbers the document gives
\* its files, twice or to files that no task creates; and each has an id of its own.
OrderRespectsDependencies ==
    \A i \in DOMAIN tasks :
        /\ \A k \in DOMAIN tasks \ {i} : tasks[k].id # tasks[i].id
        /\ \A d \in ToSet(tasks[i].deps) :
              (\E k \in DOMAIN tasks : tasks[k].id = d) => \E k \in 1 .. i - 1 : tasks[k].id = d

=============================================================================
