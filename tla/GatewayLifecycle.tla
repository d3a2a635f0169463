--------------------------- MODULE GatewayLifecycle ---------------------------
(***************************************************************************)
(* The gateway process from New to its end (internal/gateway/gateway.go),  *)
(* with the usage tracker that outlives it in a file (consumer.go) and the *)
(* authentication in front of it (auth.go).                                *)
(*                                                                         *)
(* Run, the Reloads of the signal handler, Shutdown, the request handlers  *)
(* and the tracker's persistence goroutine run side by side, and the       *)
(* process may die at any step.  Everything but the file dies with it.     *)
(***************************************************************************)
EXTENDS Integers, FiniteSets, Functions

CONSTANTS
  Configs,      \* [keys |-> API key to consumer, limited |-> the [rate_limit] consumers]
  Keys,         \* the API keys clients send
  Names,        \* the consumer names clients send or configurations list
  Enforced,     \* HIVEMIND_REQUIRE_AUTH
  Handlers,     \* the request handlers that run concurrently
  MaxRecorded,  \* bound on the requests a process records
  NoConfig      \* no configuration yet

Default == "__default__"
Master == "__master__"    \* the bearer token of HIVEMIND_AUTH_TOKEN
NoCredential == "nothing"

(* A request has a bearer token and a consumer header, or neither. *)
Credentials ==
  [bearer : Keys \cup {Master, NoCredential}, header : Names \cup {NoCredential}]

ASSUME CredentialsAssumption ==
  Default \in Names /\ {Master, NoCredential, "idle"} \cap (Keys \cup Names) = {}
ASSUME LifecycleConfigsAssumption ==
  \A c \in Configs : /\ DOMAIN c.keys \subseteq Keys /\ c.keys \in [DOMAIN c.keys -> Names]
                     /\ c.limited \subseteq Names
ASSUME LifecycleAssumption ==
  NoConfig \notin Configs /\ Enforced \in BOOLEAN /\ MaxRecorded \in Nat

VARIABLES
  cfg,      \* g.cfg
  checked,  \* the configuration of the health checker
  boot,     \* the configuration New was given, which the tracker keeps
  current,  \* the configuration currentProxy was built from
  live,     \* the configuration liveHandler was built from
  run,      \* where Run is, and the configuration it read
  reload,   \* where Reload is
  shut,     \* where Shutdown is, and whether it saw any servers
  servers,  \* the HTTP servers
  handler,  \* the consumer each handler serves, or "idle"
  stats,    \* the tracker's counts
  saver,    \* the persistence goroutine, its snapshot, its temporary file, and whether
            \* its last persist replaced usage.json
  stopped,  \* stopCh is closed
  file,     \* usage.json: missing, torn, left by an earlier process, or this
            \* process's with its counts (what an earlier one left is never read)
  raced     \* auxiliary: a Reload ran into the start and none has come since

configVars == <<cfg, checked, boot, current, live>>
usageVars == <<stats, saver, stopped, file>>
vars == <<configVars, run, reload, shut, servers, handler, usageVars, raced>>

(* Requests per consumer; one without an entry in the tracker has none. *)
Counts == [Names -> Nat]
NoCounts == [x \in Names |-> 0]

RunType ==
  [pc : {"new", "started", "built", "seeded", "serving"}, cfg : Configs \cup {NoConfig}]
ShutType == [pc : {"idle", "waiting", "stopping", "clean", "failed"}, saw : BOOLEAN]
SaverType ==
  [pc : {"off", "idle", "snapped", "writing", "written", "exited"}, snap : Counts,
   whole : BOOLEAN, final : BOOLEAN, landed : BOOLEAN]
FileType == [state : {"none", "torn", "left", "whole"}, counts : Counts]

TypeOK ==
  /\ {cfg, checked, boot} \subseteq Configs
  /\ {current, live} \subseteq Configs \cup {NoConfig}
  /\ run \in RunType
  /\ reload \in {"idle", "set", "checked", "built"}
  /\ shut \in ShutType
  /\ servers \in {"none", "registered", "open", "closed"}
  /\ handler \in [Handlers -> Names \cup {"idle"}]
  /\ stats \in Counts
  /\ saver \in SaverType
  /\ stopped \in BOOLEAN
  /\ file \in FileType
  /\ raced \in BOOLEAN

SaverOff ==
  [pc |-> "off", snap |-> NoCounts, whole |-> FALSE, final |-> FALSE, landed |-> FALSE]

(* New: what a process starts from.  The tracker does not read the file,   *)
(* and a temporary file that was left behind is truncated by the next one. *)
Booted(c) ==
  /\ cfg = c /\ checked = c /\ boot = c
  /\ current = NoConfig /\ live = NoConfig
  /\ run = [pc |-> "new", cfg |-> NoConfig]
  /\ reload = "idle"
  /\ shut = [pc |-> "idle", saw |-> FALSE]
  /\ servers = "none"
  /\ handler = [h \in Handlers |-> "idle"]
  /\ stats = NoCounts
  /\ saver = SaverOff
  /\ stopped = FALSE
  /\ raced = FALSE

Init ==
  /\ \E c \in Configs : Booted(c)
  /\ file = [state |-> "none", counts |-> NoCounts]

(* The process dies, by a signal, a crash or the return of main, and is    *)
(* started again.                                                          *)
Restart ==
  /\ \E c \in Configs : cfg' = c /\ checked' = c /\ boot' = c
  /\ current' = NoConfig /\ live' = NoConfig
  /\ run' = [pc |-> "new", cfg |-> NoConfig]
  /\ reload' = "idle" /\ shut' = [pc |-> "idle", saw |-> FALSE] /\ servers' = "none"
  /\ handler' = [h \in Handlers |-> "idle"]
  /\ stats' = NoCounts /\ saver' = SaverOff /\ stopped' = FALSE
  /\ raced' = FALSE
  /\ file' = [state |-> IF file.state = "whole" THEN "left" ELSE file.state,
             counts |-> NoCounts]

-----------------------------------------------------------------------------
(* Run reads the configuration and starts the health checker and the       *)
(* tracker; builds the first chain; seeds the live handler with it;        *)
(* registers the servers; and listens.                                     *)
RunStart ==
  /\ run.pc = "new"
  /\ run' = [pc |-> "started", cfg |-> cfg]
  /\ saver' = [saver EXCEPT !.pc = "idle"]
  /\ UNCHANGED <<configVars, reload, shut, servers, handler, stats, stopped, file, raced>>

RunBuild ==
  /\ run.pc = "started"
  /\ run' = [run EXCEPT !.pc = "built"]
  /\ current' = run.cfg
  /\ UNCHANGED <<cfg, checked, boot, live, reload, shut, servers, handler, usageVars, raced>>

RunSeed ==
  /\ run.pc = "built"
  /\ run' = [pc |-> "seeded", cfg |-> NoConfig]
  /\ live' = run.cfg
  /\ UNCHANGED <<cfg, checked, boot, current, reload, shut, servers, handler, usageVars, raced>>

RunRegister ==
  /\ run.pc = "seeded"
  /\ run' = [run EXCEPT !.pc = "serving"]
  /\ servers' = "registered"
  /\ UNCHANGED <<configVars, reload, shut, handler, usageVars, raced>>

RunListen ==
  /\ servers = "registered"
  /\ servers' = "open"
  /\ UNCHANGED <<configVars, run, reload, shut, handler, usageVars, raced>>

-----------------------------------------------------------------------------
(* Reload, called by one signal handler: g.cfg, the health checker, then   *)
(* buildProxyHandler, which shows the new proxy to the panels page before  *)
(* the live handler is swapped.                                            *)
Reload(c) ==
  /\ reload = "idle"
  /\ reload' = "set"
  /\ cfg' = c
  /\ raced' = (run.pc \in {"started", "built"})
  /\ UNCHANGED <<checked, boot, current, live, run, shut, servers, handler, usageVars>>

(* Mutant: the health checker is left as it was. *)
ReloadUnchecked ==
  /\ reload = "set"
  /\ reload' = "checked"
  /\ UNCHANGED <<configVars, run, shut, servers, handler, usageVars, raced>>

ReloadHealth ==
  /\ reload = "set"
  /\ reload' = "checked"
  /\ checked' = cfg
  /\ UNCHANGED <<cfg, boot, current, live, run, shut, servers, handler, usageVars, raced>>

ReloadBuild ==
  /\ reload = "checked"
  /\ reload' = "built"
  /\ current' = cfg
  /\ UNCHANGED <<cfg, checked, boot, live, run, shut, servers, handler, usageVars, raced>>

ReloadStore ==
  /\ reload = "built"
  /\ reload' = "idle"
  /\ live' = cfg
  /\ UNCHANGED <<cfg, checked, boot, current, run, shut, servers, handler, usageVars, raced>>

-----------------------------------------------------------------------------
(* buildKnownConsumers *)
KnownConsumers(c) == Range(c.keys) \cup c.limited \cup {Default}

(* AuthMiddleware, with the tables its chain was built with. *)
Authorized(c, cred) ==
  Enforced => \/ cred.bearer \in {Master} \cup DOMAIN c.keys
              \/ cred.header \in KnownConsumers(c)

(* Mutant: a key nobody knows is its own consumer. *)
IdentifyByKey(cred) ==
  IF cred.header # NoCredential THEN cred.header
  ELSE IF cred.bearer \in DOMAIN boot.keys THEN boot.keys[cred.bearer] ELSE cred.bearer

(* Identify: the header's name, the name the configuration of the start    *)
(* has for the key, or the default.                                        *)
Identify(cred) ==
  IF cred.header # NoCredential THEN cred.header
  ELSE IF cred.bearer \in DOMAIN boot.keys THEN boot.keys[cred.bearer] ELSE Default

Total(counts) == FoldFunction(+, 0, counts)
InHand == {h \in Handlers : handler[h] # "idle"}

(* A request that reaches the tracker's middleware.  One that the auth     *)
(* gate, the PII shield or the limiter refuses leaves no trace here.       *)
Arrive(h, cred) ==
  /\ servers = "open"
  /\ handler[h] = "idle"
  /\ Authorized(live, cred)
  /\ Total(stats) + Cardinality(InHand) < MaxRecorded
  /\ handler' = [handler EXCEPT ![h] = Identify(cred)]
  /\ UNCHANGED <<configVars, run, reload, shut, servers, usageVars, raced>>

Recorded(x) == [stats EXCEPT ![x] = @ + 1]

(* The tracker's middleware records the request when next has returned, *)
Served(h) ==
  /\ handler[h] # "idle"
  /\ handler' = [handler EXCEPT ![h] = "idle"]
  /\ stats' = Recorded(handler[h])
  /\ UNCHANGED <<configVars, run, reload, shut, servers, saver, stopped, file, raced>>

(* and not when it panics (http.ErrAbortHandler). *)
Aborted(h) ==
  /\ handler[h] # "idle"
  /\ handler' = [handler EXCEPT ![h] = "idle"]
  /\ UNCHANGED <<configVars, run, reload, shut, servers, usageVars, raced>>

-----------------------------------------------------------------------------
(* The persistence goroutine: a tick, or the end, and persist. *)
SaverMoves(pc, whole) ==
  /\ saver' = [saver EXCEPT !.pc = pc, !.whole = whole]
  /\ UNCHANGED <<configVars, run, reload, shut, servers, handler, stats, stopped, raced>>

(* Mutant: the counts start over when they have been taken. *)
SnapshotsAndResets(final) ==
  /\ saver.pc = "idle"
  /\ saver' = [saver EXCEPT !.pc = "snapped", !.snap = stats, !.final = final]
  /\ stats' = NoCounts
  /\ UNCHANGED <<configVars, run, reload, shut, servers, handler, stopped, file, raced>>

Snapshots(final) ==
  /\ saver.pc = "idle"
  /\ saver' = [saver EXCEPT !.pc = "snapped", !.snap = stats, !.final = final]
  /\ UNCHANGED <<configVars, run, reload, shut, servers, handler, stats, stopped, file, raced>>

Ticks == Snapshots(FALSE)
Stops == stopped /\ Snapshots(TRUE)

(* persist returns; what it snapshot is kept only to compare at the end. *)
Persisted(landed) ==
  /\ saver' = IF saver.final
              THEN [saver EXCEPT !.pc = "exited", !.whole = FALSE, !.landed = landed]
              ELSE [SaverOff EXCEPT !.pc = "idle"]
  /\ UNCHANGED <<configVars, run, reload, shut, servers, handler, stats, stopped, raced>>

(* os.WriteFile truncates the temporary file and writes; either can fail,  *)
(* and so can the directory's creation before.                             *)
WriteBegins ==
  /\ saver.pc = "snapped"
  /\ SaverMoves("writing", FALSE)
  /\ UNCHANGED file

WriteEnds ==
  /\ saver.pc = "writing"
  /\ SaverMoves("written", TRUE)
  /\ UNCHANGED file

(* Mutant: the error of the write is not looked at. *)
WriteFailsUnseen ==
  /\ saver.pc = "writing"
  /\ SaverMoves("written", FALSE)
  /\ UNCHANGED file

WriteFails ==
  /\ saver.pc \in {"snapped", "writing"}
  /\ Persisted(FALSE)
  /\ UNCHANGED file

Renames ==
  /\ saver.pc = "written"
  /\ Persisted(TRUE)
  /\ file' = [state |-> IF saver.whole THEN "whole" ELSE "torn", counts |-> saver.snap]

RenameFails ==
  /\ saver.pc = "written"
  /\ Persisted(FALSE)
  /\ UNCHANGED file

-----------------------------------------------------------------------------
(* Shutdown, called once: the servers it finds are closed to new requests. *)
Shutdown ==
  /\ shut.pc = "idle"
  /\ shut' = [pc |-> "waiting", saw |-> servers # "none"]
  /\ servers' = IF servers = "none" THEN "none" ELSE "closed"
  /\ UNCHANGED <<configVars, run, reload, handler, usageVars, raced>>

ShutMoves(pc) ==
  /\ shut' = [shut EXCEPT !.pc = pc]
  /\ UNCHANGED <<configVars, run, reload, servers, handler, stats, saver, file, raced>>

(* Every server is idle: the tracker's stopCh is closed.                   *)
Drained ==
  /\ shut.pc = "waiting" /\ (shut.saw => InHand = {})
  /\ ShutMoves("stopping")
  /\ stopped' = TRUE

(* Mutant: the deadline is not observed. *)
DeadlineIgnored == FALSE

(* The deadline passes with a request in hand, on this server or the admin *)
(* server: Shutdown returns the error, and the tracker is not stopped.     *)
DeadlinePasses ==
  /\ shut.pc = "waiting" /\ shut.saw
  /\ ShutMoves("failed")
  /\ UNCHANGED stopped

(* Mutant: Stop does not wait. *)
StopReturnsAtOnce ==
  /\ shut.pc = "stopping"
  /\ ShutMoves("clean")
  /\ UNCHANGED stopped

(* Stop returns once the goroutine has, if it was ever started. *)
StopReturns ==
  /\ shut.pc = "stopping" /\ saver.pc \in {"off", "exited"}
  /\ ShutMoves("clean")
  /\ UNCHANGED stopped

-----------------------------------------------------------------------------
Starting == RunStart \/ RunBuild \/ RunSeed \/ RunRegister \/ RunListen
Reloading == (\E c \in Configs : Reload(c)) \/ ReloadHealth \/ ReloadBuild \/ ReloadStore
Persisting == WriteBegins \/ WriteEnds \/ WriteFails \/ Renames \/ RenameFails
Stopping == Drained \/ DeadlinePasses \/ StopReturns

Next ==
  \/ Restart
  \/ Starting
  \/ Reloading
  \/ \E h \in Handlers, cred \in Credentials : Arrive(h, cred)
  \/ \E h \in Handlers : Served(h) \/ Aborted(h)
  \/ Ticks \/ Stops \/ Persisting
  \/ Shutdown \/ Stopping

Spec == Init /\ [][Next]_vars

(* The persistence goroutine runs, and its select, which chooses at random *)
(* among what is ready, does not overlook a closed channel for ever; the   *)
(* deadline of Shutdown passes.  Request handlers owe nothing.             *)
FairSpec ==
  /\ Spec
  /\ WF_vars(Persisting) /\ SF_vars(Stops) /\ WF_vars(Stopping)

-----------------------------------------------------------------------------
Within(a, b) == \A x \in Names : a[x] <= b[x]

(* usage.json is whole whenever the process dies and a write fails, and    *)
(* never claims more than this process has counted.                        *)
FileTrue == file.state # "torn" /\ (file.state = "whole" => Within(file.counts, stats))

(* From its first save on, a process never takes a count in the file back. *)
FileGrows == [][file.state = "whole" /\ file.state' = "whole" => Within(file.counts, file.counts')]_file

(* After a Shutdown that found the servers and reports success, no request *)
(* is in hand, and unless its write failed the file has every request that *)
(* was ever recorded, those in hand when Shutdown began included.          *)
CleanShutdown ==
  shut.pc = "clean" /\ shut.saw =>
    /\ InHand = {} /\ servers = "closed"
    /\ saver.pc = "exited" /\ saver.snap = stats
    /\ saver.landed => file = [state |-> "whole", counts |-> stats]

(* Outside a Reload everything is of the configuration loaded last, unless *)
(* a Reload ran into the start of the gateway; the next one repairs that.  *)
ConfigInForce ==
  reload = "idle" /\ run.pc \in {"seeded", "serving"} /\ ~raced =>
    live = cfg /\ checked = cfg /\ current = cfg

(* Shutdown returns, although handlers may never do.                       *)
ShutdownReturns == shut.pc \in {"waiting", "stopping"} ~> shut.pc \notin {"waiting", "stopping"}
=============================================================================
