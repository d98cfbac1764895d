--------------------------- MODULE ServiceControl ----------------------------
(* Starting and stopping a background server from two command-line tools:      *)
(* harness.py (engine service, streaming server) and enginectl.py (streaming   *)
(* server).  They share a PID file and a state file and take no lock.          *)
EXTENDS Naturals, Sequences, FiniteSets

CONSTANTS Pids,         \* process ids, reused once their process is gone
          MaxCommands,  \* bound: commands given
          MaxStrangers, \* bound: other programs that get a free process id
          None

VARIABLES service,  \* the server in question: "engine" or "stream"
          procs,    \* what each process id is: see Processes
          files,    \* [pid, state]: the PID file and the state file
          cmds,     \* the commands under way
          given,    \* commands given so far
          strangers, \* strangers so far
          clean     \* no two commands have overlapped, none was killed

vars == <<service, procs, files, cmds, given, strangers, clean>>

Processes == {"free", "starting", "listening", "told", "closing", "stranger"}
Tools == {"harness", "enginectl"}
Absent == [st |-> "STOPPED", pid |-> None]

Init ==
  /\ service \in {"engine", "stream"}
  /\ procs = [p \in Pids |-> "free"]
  /\ files = [pid |-> None, state |-> Absent]
  /\ cmds = {} /\ given = 0 /\ strangers = 0 /\ clean = TRUE

Alive(p) == p # None /\ procs[p] # "free"
PortTaken == \E p \in Pids : procs[p] \in {"listening", "told"}

-----------------------------------------------------------------------------
(* What the tools read.  A file being rewritten is empty and reads as absent.  *)

Printed(pid) == [pid |-> pid, running |-> Alive(pid), state |-> files.state.st]

\* harness engine status: the PID file before the state file.
EngineStatus == Printed(IF files.pid # None THEN files.pid ELSE files.state.pid)

\* harness stream status: the state file only.
HarnessStreamStatus == Printed(files.state.pid)

\* enginectl stream status: the state file before the PID file.
CtlStreamStatus == Printed(IF files.state.pid # None THEN files.state.pid ELSE files.pid)

\* enginectl status: for the engine, the PID file only.
CtlStatus == IF service = "engine" THEN Printed(files.pid) ELSE CtlStreamStatus

Seen(tool) ==
  CASE service = "engine" -> EngineStatus
    [] service = "stream" /\ tool = "enginectl" -> CtlStreamStatus
    [] service = "stream" /\ tool = "harness" -> HarnessStreamStatus

-----------------------------------------------------------------------------
(* Commands: the steps each one takes.  Files are written by truncating them    *)
(* and filling them.                                                            *)

EngineStart == <<"check", "truncate", "fill", "spawn", "clear", "pid", "truncate", "fill">>
HarnessStreamStart == <<"check", "spawn", "clear", "pid", "truncate", "fill">>
CtlStreamStart == <<"check", "spawn", "clear", "pid", "truncate", "fill">>
EngineStop == <<"check", "signal", "truncate", "fill">>
HarnessStreamStop == <<"check", "signal", "truncate", "fill">>
CtlStreamStop == <<"check", "signal", "truncate", "fill">>

Steps(tool, kind) ==
  CASE service = "engine" -> IF kind = "start" THEN EngineStart ELSE EngineStop
    [] service = "stream" /\ tool = "harness" -> IF kind = "start" THEN HarnessStreamStart ELSE HarnessStreamStop
    [] OTHER -> IF kind = "start" THEN CtlStreamStart ELSE CtlStreamStop

At(c, step) == c.todo # << >> /\ Head(c.todo) = step
Replace(c, d) == cmds' = (cmds \ {c}) \cup IF d.todo = << >> THEN {} ELSE {d}
Go(c) == Replace(c, [c EXCEPT !.todo = Tail(@)])
Ends(c) == cmds' = cmds \ {c}

Give ==
  \E tool \in Tools, kind \in {"start", "stop"} :
    /\ given < MaxCommands
    /\ service = "engine" => tool = "harness"
    /\ given' = given + 1
    /\ cmds' = cmds \cup {[id |-> given, tool |-> tool, kind |-> kind, todo |-> Steps(tool, kind),
                           seen |-> Seen(tool).pid, new |-> None]}
    /\ clean' = (clean /\ cmds = {})
    /\ UNCHANGED <<service, procs, files, strangers>>

\* variant: only the port is looked at
PortOnly(c) == ~PortTaken

\* A start goes on if the process named is gone and the port is free.
MayStart(c) == ~Alive(c.seen) /\ ~PortTaken

CheckStart ==
  \E c \in cmds :
    /\ c.kind = "start" /\ At(c, "check")
    /\ IF MayStart(c) THEN Go(c) ELSE Ends(c)
    /\ UNCHANGED <<service, procs, files, given, strangers, clean>>

Spawn ==
  \E c \in cmds, p \in Pids :
    /\ At(c, "spawn") /\ procs[p] = "free"
    /\ procs' = [procs EXCEPT ![p] = "starting"]
    /\ Replace(c, [c EXCEPT !.todo = Tail(@), !.new = p])
    /\ UNCHANGED <<service, files, given, strangers, clean>>

WritePid ==
  \E c \in cmds :
    /\ At(c, "clear") \/ At(c, "pid")
    /\ files' = [files EXCEPT !.pid = IF At(c, "clear") THEN None ELSE c.new]
    /\ Go(c)
    /\ UNCHANGED <<service, procs, given, strangers, clean>>

\* The state a command writes.  The engine's start writes one before the server
\* runs, with the pid it has read; harness leaves the pid of a stopped server.
Written(c) ==
  CASE c.kind = "start" /\ c.new = None -> [st |-> "STARTING", pid |-> c.seen]
    [] c.kind = "start" /\ c.new # None -> [st |-> "STARTED", pid |-> c.new]
    [] c.kind = "stop" /\ service = "stream" /\ c.tool = "harness" -> [st |-> "STOPPED", pid |-> c.seen]
    [] OTHER -> Absent

WriteState ==
  \E c \in cmds :
    /\ At(c, "truncate") \/ At(c, "fill")
    /\ files' = [files EXCEPT !.state = IF At(c, "truncate") THEN Absent ELSE Written(c)]
    /\ Go(c)
    /\ UNCHANGED <<service, procs, given, strangers, clean>>

\* The signal goes to whatever process has the id by now.
Signalled(p) == CASE procs[p] = "listening" -> "told"
                  [] procs[p] \in {"starting", "stranger"} -> "free"
                  [] OTHER -> procs[p]

\* Nothing to stop: the state is written all the same, except by harness for the
\* streaming server and for an engine without an id.
WritesAnyway(c) ==
  \/ service = "stream" /\ c.tool = "enginectl"
  \/ service = "engine" /\ c.seen # None

CheckStop ==
  \E c \in cmds :
    /\ c.kind = "stop" /\ At(c, "check")
    /\ IF Alive(c.seen) THEN Go(c)
       ELSE IF WritesAnyway(c) THEN Replace(c, [c EXCEPT !.todo = Tail(Tail(@))])
       ELSE Ends(c)
    /\ UNCHANGED <<service, procs, files, given, strangers, clean>>

\* A process gone since: ProcessLookupError, not caught in harness's stream stop.
Signal ==
  \E c \in cmds :
    /\ At(c, "signal")
    /\ procs' = [procs EXCEPT ![c.seen] = Signalled(c.seen)]
    /\ IF ~Alive(c.seen) /\ service = "stream" /\ c.tool = "harness" THEN Ends(c) ELSE Go(c)
    /\ UNCHANGED <<service, files, given, strangers, clean>>

\* A command is interrupted between two of its steps.
Interrupt ==
  \E c \in cmds :
    /\ Ends(c)
    /\ clean' = FALSE
    /\ UNCHANGED <<service, procs, files, given, strangers>>

-----------------------------------------------------------------------------
(* Processes: external.                                                        *)

\* A server binds its port or exits; once told to stop it closes the port and
\* takes its time to exit; it may die.
ServerStep ==
  \E p \in Pids :
    /\ procs' = [procs EXCEPT ![p] = CASE @ = "starting" -> IF PortTaken THEN "free" ELSE "listening"
                                       [] @ = "told" -> "closing"
                                       [] @ = "closing" -> "free"
                                       [] OTHER -> @]
    /\ procs' # procs
    /\ UNCHANGED <<service, files, cmds, given, strangers, clean>>

ServerDies ==
  \E p \in Pids :
    /\ procs[p] \in {"starting", "listening", "told", "closing"}
    /\ procs' = [procs EXCEPT ![p] = "free"]
    /\ UNCHANGED <<service, files, cmds, given, strangers, clean>>

Stranger ==
  \E p \in Pids :
    /\ procs[p] = "free" /\ strangers < MaxStrangers
    /\ procs' = [procs EXCEPT ![p] = "stranger"]
    /\ strangers' = strangers + 1
    /\ UNCHANGED <<service, files, cmds, given, clean>>

Next ==
  \/ Give \/ CheckStart \/ Spawn \/ WritePid \/ WriteState \/ CheckStop \/ Signal \/ Interrupt
  \/ ServerStep \/ ServerDies \/ Stranger

Spec == Init /\ [][Next]_vars

-----------------------------------------------------------------------------
TypeOK ==
  /\ procs \in [Pids -> Processes]
  /\ files.pid \in Pids \cup {None} /\ files.state.pid \in Pids \cup {None}
  /\ given \in 0..MaxCommands /\ strangers \in 0..MaxStrangers

\* As long as the commands are given one after the other and run to their ends,
\* there is at most one server that nobody told to stop, and, between commands,
\* every tool's status shows it and every tool's stop reaches it: no server is
\* out of reach, whichever tool was used, however slowly servers start and
\* exit, and whoever got their process ids afterwards.
ServersAreInReach ==
  clean =>
    LET servers == {p \in Pids : procs[p] \in {"starting", "listening"}} IN
    /\ Cardinality(servers) <= 1
    /\ cmds = {} => \A p \in servers :
                      /\ \A tool \in Tools : Seen(tool).pid = p /\ Seen(tool).running
                      /\ CtlStatus.pid = p

=============================================================================
