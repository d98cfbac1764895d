------------------------------- MODULE Memory -------------------------------
(***************************************************************************)
(* The claim memory (engine/memory): verdicts submit their claims as        *)
(* pending, a comparator sets them against the approved ones, and `ace      *)
(* memory approve' and `reject', typed in any number of shells, decide.     *)
(* Every helper opens a connection of its own: one action, one transaction. *)
(***************************************************************************)
EXTENDS Evidence, TLC

CONSTANTS
    Desks,      \* shells in which a person decides on claims
    Alike       \* pairs of texts whose similarity reaches SIM_THRESHOLD

ASSUME MemoryAssumption == Alike \subseteq Texts \X Texts

VARIABLES
    claims,     \* memory_claims, in the order of their insertion
    conflicts,  \* memory_contradictions
    desk,       \* desk[a]: the approve command under way in shell a
    told        \* the approve commands that approved a claim

memory == <<claims, conflicts, desk, told>>

Ids == DOMAIN claims
\* As Kind, if consensus were looked at before the words.
Opposite(v, w) == {v, w} = {"supported", "refuted"}
ConsensusFirst(c, d) ==
    IF c.run = d.run \/ c.position = d.position THEN "none"
    ELSE IF Either(Negations, c.text, d.text) THEN "negation_pair"
    ELSE IF Either(Alike, c.text, d.text) THEN "semantic_overlap"
    ELSE IF c.atom = d.atom /\ Opposite(c.position, d.position) THEN "verdict_conflict"
    ELSE "none"

\* The layers of CrossRunComparator.compare, first match wins; a run never
\* contradicts itself.  A verdict always has a position when its claims are
\* submitted.
Kind(c, d) ==
    IF c.run = d.run THEN "none"
    ELSE IF Either(Negations, c.text, d.text) THEN "negation_pair"
    ELSE IF Either(Alike, c.text, d.text) /\ c.position # d.position THEN "semantic_overlap"
    ELSE IF c.atom = d.atom /\ Opposite(c.position, d.position) THEN "verdict_conflict"
    ELSE "none"

\* _fetch_approved_claims, and the contradictions of some claims with them.
Approved == {d \in Ids : claims[d].status = "approved"}
Found(cs) ==
    LET pairs == {x \in cs \X Approved : Kind(claims[x[1]], claims[x[2]]) # "none"}
    IN {[a |-> x[1], b |-> x[2], kind |-> Kind(claims[x[1]], claims[x[2]])] : x \in pairs}

\* submit_claims inserts all claims of a verdict; _run_contradiction_check
\* reads the approved ones, and writes what it finds, later on.
Submit(run, atom, position, texts) ==
    /\ claims' = claims \o [i \in DOMAIN texts |->
                    [run |-> run, atom |-> atom, position |-> position,
                     text |-> texts[i], status |-> "pending"]]
    /\ UNCHANGED <<conflicts, desk, told>>
Persist(found) ==
    /\ conflicts' = conflicts \union {[x |-> f, status |-> "pending"] : f \in found}
    /\ UNCHANGED <<claims, desk, told>>

----------------------------------------------------------------------------
(* approve and reject. *)

AtRest == [id |-> 0]

\* approve, first part: the pre-check, which finds nothing when it fails.
PreCheck(a, c) ==
    /\ desk[a] = AtRest
    /\ \E blind \in BOOLEAN :
          desk' = [desk EXCEPT ![a] =
             [id |-> c, blind |-> blind, found |-> IF blind THEN {} ELSE Found({c}),
              during |-> {}]]
    /\ UNCHANGED <<claims, conflicts, told>>

\* approve, second part: the UPDATE of a pending row, and the answer.  The
\* commands under way meanwhile take note of it, for the property below.
Update(c, to) == [claims EXCEPT ![c].status = IF @ = "pending" THEN to ELSE @]

Approve(a) ==
    /\ desk[a] # AtRest
    /\ LET c == desk[a].id  ok == claims[c].status = "pending" IN
          /\ claims' = Update(c, "approved")
          /\ told' = IF ok THEN told \union {desk[a]} ELSE told
          /\ desk' = [b \in Desks |->
                        IF b = a THEN AtRest
                        ELSE IF ok /\ desk[b] # AtRest
                             THEN [desk[b] EXCEPT !.during = @ \union {c}] ELSE desk[b]]
    /\ UNCHANGED conflicts

Reject(a, c) ==
    /\ desk[a] = AtRest
    /\ claims' = Update(c, "rejected")
    /\ UNCHANGED <<conflicts, desk, told>>

\* The shell is closed between the two parts of a command.
Interrupt(a) ==
    /\ desk[a] # AtRest
    /\ desk' = [desk EXCEPT ![a] = AtRest]
    /\ UNCHANGED <<claims, conflicts, told>>

MemoryInit == claims = <<>> /\ conflicts = {} /\ desk = [a \in Desks |-> AtRest] /\ told = {}
MemoryNext ==
    \E a \in Desks :
        \/ \E c \in Ids : PreCheck(a, c) \/ Reject(a, c)
        \/ Approve(a) \/ Interrupt(a)

----------------------------------------------------------------------------
(* Properties. *)

\* Two approved claims of different runs that contradict each other, by any
\* layer of the comparator: someone was told, when a claim was submitted or
\* when the later one was approved -- unless the two approvals overlapped, or
\* a pre-check failed (gate.py:154, 243, 361).
Contradict(c, d) ==
    /\ c.run # d.run
    /\ \/ Either(Negations, c.text, d.text)
       \/ Either(Alike, c.text, d.text) /\ c.position # d.position
       \/ c.atom = d.atom /\ Opposite(c.position, d.position)
Names(f, c, d) == {f.a, f.b} = {c, d}
UntoldConflictsOverlapped ==
    \A c, d \in Approved : c # d /\ Contradict(claims[c], claims[d]) =>
        \/ \E x \in conflicts : Names(x.x, c, d)
        \/ \E t \in told :
              \/ \E f \in t.found : Names(f, c, d)
              \/ t.id \in {c, d} /\ (t.blind \/ t.during \intersect {c, d} # {})

=============================================================================
