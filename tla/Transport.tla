------------------------------ MODULE Transport ------------------------------
(* transport.py, ssh_utils.py: one process's connection to the machine with the models, by   *)
(* HTTP to the engine service, directly, or through ssh.  The engine service   *)
(* (engine_service.py) is on the way of an HTTP call; the model servers and the *)
(* shell are external: what they answer is chosen.                             *)
EXTENDS Naturals, Sequences, FiniteSets

CONSTANTS Ports,      \* the model servers
          Default,    \* PORT_3090: the port of a request that names none
          Second,     \* PORT_3070
          MaxCalls,   \* bound on the calls made
          None

VARIABLES env,    \* [mode, service, triton]: configuration, and what is reachable
          chosen, \* the transport get_transport keeps
          call,   \* the call under way, or the last one
          calls,  \* how many were made
          runs    \* what became of each run of the call's command

vars == <<env, chosen, call, calls, runs>>

Transports == {"http", "local", "ssh", "client"}
Ssh == {"ssh", "client"}
Commands == {"run", "git", "docker"}
Kinds == {"chat", "raw", "health", "models", "gpus"} \cup Commands
NoCall == [at |-> "idle", kind |-> None, port |-> None, via |-> None, tools |-> FALSE,
           reply |-> None, result |-> None]

\* What comes back on a model server's socket.  A tool call has no content.
Replies == [status : {"ok"}, choices : BOOLEAN, tools : BOOLEAN, timings : BOOLEAN, port : Ports]
             \cup [status : {"error", "garbage", "silent", "down"}, port : Ports]

Status(s) == [status |-> s]
Nothing == Status("unreachable")

\* What the caller of a method is left with.
Value(v) == [kind |-> "value", value |-> v]
Raised(e) == [kind |-> e, value |-> None]

Init ==
  /\ env \in [mode : {"auto", "http", "local", "ssh", "client"}, service : BOOLEAN, triton : BOOLEAN]
  /\ chosen = None /\ call = NoCall /\ calls = 0 /\ runs = << >>

-----------------------------------------------------------------------------
(* get_transport: the first answer is kept, whatever is reachable later.       *)

OnTriton == env.triton
ServiceReachable == env.service

Detected ==
  IF env.mode # "auto" THEN env.mode
  ELSE IF ServiceReachable THEN "http" ELSE IF OnTriton THEN "local" ELSE "ssh"

GetTransport ==
  /\ chosen = None /\ env.mode # "client"
  /\ chosen' = Detected
  /\ UNCHANGED <<env, call, calls, runs>>

\* SSHClient.connect: three attempts; every call of a client that is not
\* connected raises.
Connect ==
  /\ chosen \in {None, "unconnected"} /\ env.mode = "client"
  /\ \E attempt \in 1..3, ok \in BOOLEAN :
       /\ ok \/ attempt = 3
       /\ chosen' = IF ok THEN "client" ELSE "unconnected"
  /\ UNCHANGED <<env, call, calls, runs>>

ServiceComesAndGoes ==
  /\ env' = [env EXCEPT !.service = ~@]
  /\ UNCHANGED <<chosen, call, calls, runs>>

-----------------------------------------------------------------------------
(* A call leaves the process.                                                  *)

AskUnconnected(kind) ==
  /\ chosen = "unconnected" /\ call.at = "idle" /\ calls < MaxCalls
  /\ calls' = calls + 1 /\ runs' = << >>
  /\ call' = [NoCall EXCEPT !.kind = kind, !.result = Raised("ConnectionError")]
  /\ UNCHANGED <<env, chosen>>

Ask(kind) ==
  /\ chosen \in Transports /\ call.at = "idle" /\ calls < MaxCalls
  /\ calls' = calls + 1 /\ runs' = << >>
  /\ \E port \in Ports, tools \in BOOLEAN :
       /\ tools => kind = "raw"
       /\ chosen = "client" => kind \notin {"raw", "git", "docker"}
       /\ kind \in Commands \cup {"gpus"} => port = Default
       /\ call' = [NoCall EXCEPT !.at = IF chosen = "http" THEN "service" ELSE "server",
                     !.kind = kind, !.port = port, !.via = chosen, !.tools = tools]
  /\ UNCHANGED <<env, chosen>>

\* _request: what the engine service's answer, or its absence, becomes.
Unreachable == Raised("RuntimeError")

\* POST /inference takes messages and sampling parameters: it has no field for
\* tools, and raw_chat_completion does not send the port.  There is no route for
\* the health and the models of a port.
Inference ==
  [call EXCEPT !.at = "server", !.tools = FALSE, !.port = IF call.kind = "raw" THEN Default ELSE @]

AtService ==
  /\ call.at = "service"
  /\ \/ /\ ~env.service
        /\ call' = [call EXCEPT !.at = "back", !.reply = Nothing]
     \/ /\ env.service /\ call.kind \in {"health", "models"}
        /\ call' = [call EXCEPT !.at = "back", !.reply = Nothing]
     \/ /\ env.service /\ call.kind \in {"chat", "raw"}
        /\ call' = Inference
     \/ /\ env.service /\ call.kind \in Commands \cup {"gpus"}
        /\ call' = [call EXCEPT !.at = "server"]
  /\ UNCHANGED <<env, chosen, calls, runs>>

\* POST /exec refuses a command that holds a pattern of its blocklist, a commit
\* message as well as a program.
Blocked ==
  /\ call.at = "server" /\ call.via = "http" /\ call.kind \in Commands
  /\ call' = [call EXCEPT !.at = "back", !.reply = Status("blocked")]
  /\ UNCHANGED <<env, chosen, calls, runs>>

-----------------------------------------------------------------------------
(* The far side.                                                               *)

\* LocalTransport knows two addresses: any port but the first is the second's.
Server(port) == IF call.via = "local" /\ port # Default THEN Second ELSE port

ServerReplies ==
  /\ call.at = "server" /\ call.kind \notin Commands \cup {"gpus"}
  /\ \E r \in Replies :
       /\ r.port = Server(call.port)
       /\ r.status = "ok" => (r.tools => call.tools /\ r.choices)
       /\ call' = [call EXCEPT !.at = "back", !.reply = r]
  /\ UNCHANGED <<env, chosen, calls, runs>>

\* A command runs to its end, or past the timeout, after which its process is
\* killed (ssh: is left to run); or the service dies under it.
CommandRuns ==
  /\ call.at = "server" /\ call.kind \in Commands \cup {"gpus"}
  /\ \E r \in {"zero", "failed", "timeout", "lost"} :
       /\ r = "lost" => call.via = "http"
       /\ call' = [call EXCEPT !.at = "back", !.reply = Status(r)]
       /\ runs' = Append(runs, r)
  /\ UNCHANGED <<env, chosen, calls>>

-----------------------------------------------------------------------------
(* What the caller gets: chat requests.                                        *)

\* curl_beellama's reading of an OpenAI response: no choices, no content.
Content(r) == IF r.choices /\ ~r.tools THEN "text" ELSE "empty"

Answer(r) == Value([content |-> Content(r), choices |-> r.choices, port |-> r.port])

\* LocalTransport: HTTP errors are RuntimeErrors; a read that times out and a
\* body that is not JSON escape as they are.
LocalChat(r) ==
  CASE r.status \in {"error", "down"} -> Raised("RuntimeError")
    [] r.status \in {"silent", "garbage"} -> Raised("other")
    [] OTHER -> Answer(r)

\* raw_chat_completion: the response as it is.
LocalRaw(r) == IF r.status = "ok" THEN Value(r) ELSE LocalChat(r)

\* RemoteTransport: curl exits 0 on an HTTP error, whose body has no choices.
SshChat(r) ==
  CASE r.status \in {"silent", "down"} -> Raised("RuntimeError")
    [] r.status = "garbage" -> Raised("other")
    [] r.status = "error" -> Value([content |-> "empty", choices |-> FALSE, port |-> r.port])
    [] OTHER -> Answer(r)

\* SSHClient: a body that is not JSON is a ValueError.
ClientChat(r) == IF r.status = "garbage" THEN Raised("ValueError") ELSE SshChat(r)

SshRaw(r) == IF r.status = "ok" THEN Value(r) ELSE SshChat(r)

\* The engine service's answer: content, timings and usage of the first choice.  A
\* body without choices counts as one whose content is empty; content that is null,
\* as beside a tool call, makes an error status.
Flat(r) ==
  IF r.status = "ok" /\ ~r.tools
  THEN [ok |-> TRUE, content |-> Content(r), timings |-> r.timings, port |-> r.port]
  ELSE [ok |-> FALSE]

\* variant: only the OpenAI format is read
ChoicesOnly(f) == "empty"

\* HTTPTransport reads both formats; timings that are null are not looked into.
FlatContent(f) == f.content

\* A silent model server runs into the service's timeout and the client's own,
\* which are the same; every error status of the service is a RuntimeError.  A list of
\* choices that is there and empty is one of those.
HttpChat(r) ==
  LET f == Flat(r) IN
  CASE r.status = "silent" -> {Unreachable, Raised("other")}
    [] r.status # "silent" /\ ~f.ok -> {Unreachable}
    [] OTHER -> {IF call.kind = "chat" /\ ~f.timings THEN Raised("other")
                 ELSE Value([content |-> FlatContent(f), choices |-> FALSE, port |-> f.port])}
                  \cup {e \in {Unreachable} : ~r.choices}

ChatReturns ==
  /\ call.at = "back" /\ call.kind \in {"chat", "raw"}
  /\ \E result \in CASE call.via = "http" -> HttpChat(call.reply)
                      [] call.via = "local" -> {IF call.kind = "raw" THEN LocalRaw(call.reply) ELSE LocalChat(call.reply)}
                      [] call.via = "client" -> {ClientChat(call.reply)}
                      [] OTHER -> {IF call.kind = "raw" THEN SshRaw(call.reply) ELSE SshChat(call.reply)} :
       call' = [call EXCEPT !.at = "idle", !.result = result]
  /\ UNCHANGED <<env, chosen, calls, runs>>

-----------------------------------------------------------------------------
(* Probes, commands, GPUs: every failure becomes an answer.                    *)

\* check_beellama_health and get_model_list.
LocalProbe(r) == r.status = "ok"
HttpProbe(r) == FALSE      \* the service has no such route
SshProbe(r) == r.status = "ok"
ClientProbe(r) == r.status = "ok"

ProbeReturns ==
  /\ call.at = "back" /\ call.kind \in {"health", "models"}
  /\ call' = [call EXCEPT !.at = "idle",
                !.result = Value(CASE call.via = "http" -> HttpProbe(call.reply)
                                   [] call.via = "local" -> LocalProbe(call.reply)
                                   [] call.via = "client" -> ClientProbe(call.reply)
                                   [] OTHER -> SshProbe(call.reply))]
  /\ UNCHANGED <<env, chosen, calls, runs>>

\* The exit status run_command returns: a timeout is a 1.
LocalExit(r) == IF r.status = "zero" THEN 0 ELSE 1

\* The service's answer names the status; no answer is a 1.
HttpExit(r) ==
  CASE r.status = "zero" -> 0
    [] r.status = "blocked" -> 126
    [] OTHER -> 1

SshExit(r) == IF r.status = "zero" THEN 0 ELSE 1
ClientExit(r) == IF r.status = "zero" THEN 0 ELSE 1

CommandReturns ==
  /\ call.at = "back" /\ call.kind \in Commands
  /\ call' = [call EXCEPT !.at = "idle",
                !.result = Value(CASE call.via = "http" -> HttpExit(call.reply)
                                   [] call.via = "local" -> LocalExit(call.reply)
                                   [] call.via = "client" -> ClientExit(call.reply)
                                   [] OTHER -> SshExit(call.reply))]
  /\ UNCHANGED <<env, chosen, calls, runs>>

\* nvidia_smi: the list, or nothing.  The service answers a failed query with an
\* empty list, and a request for one GPU with a list as well.
LocalGpus(r) == IF r.status = "zero" THEN "gpus" ELSE None
HttpGpus(r) == CASE r.status = "lost" -> None
                 [] r.status = "zero" -> "gpus"
                 [] r.status = "unreachable" -> None
                 [] OTHER -> "empty"
SshGpus(r) == IF r.status = "zero" THEN "gpus" ELSE None
ClientGpus(r) == IF r.status = "zero" THEN Value("gpus") ELSE Raised("RuntimeError")

GpusReturn ==
  /\ call.at = "back" /\ call.kind = "gpus"
  /\ call' = [call EXCEPT !.at = "idle",
                !.result = CASE call.via = "http" -> Value(HttpGpus(call.reply))
                             [] call.via = "local" -> Value(LocalGpus(call.reply))
                             [] call.via = "client" -> ClientGpus(call.reply)
                             [] OTHER -> Value(SshGpus(call.reply))]
  /\ UNCHANGED <<env, chosen, calls, runs>>

Next ==
  \/ GetTransport \/ Connect \/ ServiceComesAndGoes
  \/ \E kind \in Kinds : Ask(kind) \/ AskUnconnected(kind)
  \/ AtService \/ Blocked \/ ServerReplies \/ CommandRuns
  \/ ChatReturns \/ ProbeReturns \/ CommandReturns \/ GpusReturn

Spec == Init /\ [][Next]_vars

-----------------------------------------------------------------------------
TypeOK ==
  /\ chosen \in Transports \cup {"unconnected", None}
  /\ call.at \in {"idle", "service", "server", "back"}
  /\ calls \in 0..MaxCalls

Returned == call.at = "idle" /\ call.result # None

\* An answer to a chat request, other than through ssh, is the answer of the
\* model server that was asked, and its text if it has one, whichever of the
\* two formats it came in.
AnswersAreTheModels ==
  Returned /\ call.kind = "chat" /\ call.via \notin Ssh /\ call.result.kind = "value" =>
    /\ call.reply.status = "ok"
    /\ call.result.value.content = Content(call.reply)
    /\ call.result.value.port = call.port

=============================================================================
