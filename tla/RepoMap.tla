------------------------------ MODULE RepoMap ------------------------------
(***************************************************************************)
(* The repository map of src/engine/retrieval/repo_map.py: a builder walks *)
(* the workspace, parses the source files it does not ignore, remembers    *)
(* their stamps in .ace/repo_map_mtime.json, and later parses only what    *)
(* the stamps say has changed; its caller folds each such delta into the   *)
(* map it holds.  Files are edited and removed while the walk goes on.     *)
(*                                                                         *)
(* A file's text is the sequence of the names it defines, its size the sum *)
(* of Size over them.  The kind, line numbers and language of a definition *)
(* are left out; a rendered line costs what Size gives for its name.       *)
(***************************************************************************)
EXTENDS FiniteSets, SequencesExt, Lists

CONSTANTS Walk,      \* the source files a walk can meet, in walk order
          Rules,     \* .aceignore: sequence of [hits: SUBSET files, negated]
          Texts,     \* what a file may hold: sequences of names
          Size,      \* name -> bytes (and tokens of its line)
          Budget,    \* tokens a rendered map may take
          MaxClock,  \* bound: ticks of the file system's clock
          MaxEdits   \* bound: edits and removals

VARIABLES disk,      \* file -> [at, text], for the files that exist
          cache,     \* repo_map_mtime.json: file -> [at, size]
          held,      \* the caller's RepoMap: sequence of [file, name]
          walk,      \* the walk under way, or NoWalk
          seen,      \* history: file -> [stamp, text, kept], as last parsed for
                     \* the held map, with the last text since build() that
                     \* defined anything
          rendered,  \* the map text the last caller of build put in its prompt
          touched,   \* files changed since the last finished walk began
          clock, edits

vars == <<disk, cache, held, walk, seen, rendered, touched, clock, edits>>

FileNames == ToSet(Walk)
Names == UNION {ToSet(t) : t \in Texts}
Defs(files) == [file : files, name : Names]
NoWalk == [call |-> "none"]
None == [a \in {} |-> a]

SizeOf(text) == FoldLeft(LAMBDA sum, n : sum + Size[n], 0, text)
Stamp(entry) == [at |-> entry.at, size |-> SizeOf(entry.text)]

\* The last rule that matches decides.
Ignored(f) ==
  LET hits == {i \in DOMAIN Rules : f \in Rules[i].hits}
      last == CHOOSE i \in hits : \A j \in hits : j <= i
  IN hits # {} /\ ~Rules[last].negated

DefsOf(map, f) == Among(map, Defs({f}))
Parsed(f, text) == [i \in DOMAIN text |-> [file |-> f, name |-> text[i]]]

\* RepoMap.merge: the files the delta has definitions of are replaced.
MergeAppends(base, delta) == base \o delta
Merge(base, delta) ==
  LET inDelta == {delta[i].file : i \in DOMAIN delta}
  IN Among(base, Defs(FileNames \ inDelta)) \o delta

NeedsReparse(known, f, stamp) ==
  f \notin DOMAIN known \/ known[f] # stamp

Put(func, f, value) ==
  [g \in DOMAIN func \cup {f} |-> IF g = f THEN value ELSE func[g]]
Without(func, f) == [g \in DOMAIN func \ {f} |-> func[g]]
Prune(known, valid) == [g \in DOMAIN known \cap valid |-> known[g]]

\* What a file defines, and the last it defined of what went into the held map.
Now(f) == IF f \in DOMAIN disk THEN disk[f].text ELSE <<>>
LastNamed(f) == IF f \in DOMAIN seen THEN seen[f].kept ELSE <<>>

\* RepoMapBuilder.render: lines in map order until the budget, the first one
\* always; how many are shown, and how many the marker counts.
Tokens(map, n) == FoldLeft(LAMBDA sum, d : sum + Size[d.name], 0, SubSeq(map, 1, n))
Shown(map) ==
  LET fits == {n \in 0..Len(map) : Tokens(map, n) <= Budget}
      most == CHOOSE n \in fits : \A k \in fits : k <= n
  IN IF map # <<>> /\ most = 0 THEN 1 ELSE most
Render(map) == [shown |-> SubSeq(map, 1, Shown(map)), more |-> Len(map) - Shown(map)]
-----------------------------------------------------------------------------
Init ==
  /\ disk \in [FileNames -> [at : {0}, text : Texts]]
  /\ cache = None /\ held = <<>> /\ seen = None /\ touched = FileNames
  /\ rendered = Render(<<>>)
  /\ walk = NoWalk /\ clock = 0 /\ edits = 0

Tick == /\ clock < MaxClock /\ clock' = clock + 1
        /\ UNCHANGED <<disk, cache, held, walk, seen, touched, edits, rendered>>

\* Somebody writes or removes a source file.
Write(f) ==
  /\ edits < MaxEdits
  /\ \E t \in Texts : disk' = Put(disk, f, [at |-> clock, text |-> t])
  /\ touched' = touched \cup {f} /\ edits' = edits + 1
  /\ UNCHANGED <<cache, held, walk, seen, clock, rendered>>

Delete(f) ==
  /\ edits < MaxEdits /\ f \in DOMAIN disk
  /\ disk' = Without(disk, f)
  /\ touched' = touched \cup {f} /\ edits' = edits + 1
  /\ UNCHANGED <<cache, held, walk, seen, clock, rendered>>

\* build() starts an empty map, incremental() an empty delta; both load the
\* cache and list the directory.
Start(call) ==
  /\ walk = NoWalk
  /\ call = "incremental" => seen # None \/ held # <<>>
  /\ walk' = [call |-> call, known |-> cache, delta |-> <<>>, read |-> None,
              left |-> Among(Walk, {f \in DOMAIN disk : ~Ignored(f)}),
              valid |-> {}, open |-> FALSE, stamp |-> Stamp([at |-> 0, text |-> <<>>])]
  /\ touched' = {}
  /\ UNCHANGED <<disk, cache, held, seen, clock, edits, rendered>>

\* full.stat(): a file that is gone by now raises, and nothing is saved.
Stat ==
  /\ walk # NoWalk /\ ~walk.open /\ walk.left # <<>>
  /\ LET f == Head(walk.left) IN
       IF f \notin DOMAIN disk
       THEN walk' = NoWalk /\ touched' = FileNames
       ELSE LET stamp == Stamp(disk[f])
                parse == walk.call = "build" \/ NeedsReparse(walk.known, f, stamp)
            IN /\ walk' = [walk EXCEPT !.valid = @ \cup {f}, !.stamp = stamp,
                             !.open = parse, !.left = IF parse THEN @ ELSE Tail(@)]
               /\ UNCHANGED touched
  /\ UNCHANGED <<disk, cache, held, seen, clock, edits, rendered>>

\* _parse_file and cache.update: a file that cannot be read yields nothing,
\* and is stamped as parsed.
Read ==
  /\ walk # NoWalk /\ walk.open
  /\ LET f == Head(walk.left) IN
       walk' = [walk EXCEPT
         !.open = FALSE, !.left = Tail(@), !.known = Put(@, f, walk.stamp),
         !.read = Put(@, f, [stamp |-> walk.stamp, text |-> Now(f), kept |-> Now(f)]),
         !.delta = @ \o Parsed(f, Now(f))]
  /\ UNCHANGED <<disk, cache, held, seen, touched, clock, edits, rendered>>

\* cache.prune, cache.save; the caller keeps build()'s map, or merges the
\* delta of incremental().
Finish ==
  /\ walk # NoWalk /\ ~walk.open /\ walk.left = <<>>
  /\ cache' = Prune(walk.known, walk.valid)
  /\ held' = IF walk.call = "build" THEN walk.delta ELSE Merge(held, walk.delta)
  /\ seen' = IF walk.call = "build" THEN walk.read
             ELSE [g \in DOMAIN seen \cup DOMAIN walk.read |->
                     IF g \notin DOMAIN walk.read THEN seen[g]
                     ELSE IF walk.read[g].text # <<>> THEN walk.read[g]
                     ELSE [walk.read[g] EXCEPT !.kept = LastNamed(g)]]
  /\ rendered' = IF walk.call = "build" THEN Render(walk.delta) ELSE rendered
  /\ walk' = NoWalk
  /\ UNCHANGED <<disk, touched, clock, edits>>

Next == \/ Tick \/ Stat \/ Read \/ Finish
        \/ \E f \in FileNames : Write(f) \/ Delete(f)
        \/ \E c \in {"build", "incremental"} : Start(c)

Spec == Init /\ [][Next]_vars
-----------------------------------------------------------------------------
\* Between walks, every source file nobody has changed since the last walk
\* began is in the held map as it stands on disk: no edit is lost by being
\* made between a file's stat and its reading, nor by a skipped parse
\* (needs_reparse), nor by a merge - save two.  What no stamp shows is lost: a
\* text of the same size written in the tick of the stat.  And when a file has no
\* definitions left, or is gone, merge drops nothing (repo_map.py:74-77), against
\* incremental's docstring (334-337): the held map keeps, until the next build(),
\* exactly the definitions the file last had.
MapIsCurrent ==
  walk = NoWalk =>
    \A f \in FileNames \ touched :
      ~Ignored(f) =>
        \/ DefsOf(held, f) = Parsed(f, Now(f))
        \/ Now(f) = <<>> /\ DefsOf(held, f) = Parsed(f, LastNamed(f))
        \/ /\ f \in DOMAIN disk \cap DOMAIN seen /\ seen[f].stamp = Stamp(disk[f])
           /\ seen[f].text # disk[f].text

=============================================================================
