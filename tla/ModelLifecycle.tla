--------------------------- MODULE ModelLifecycle ---------------------------
(***************************************************************************)
(* Loading, unloading and swapping models (internal/models/lifecycle.go,   *)
(* launcher.go, internal/vram/calculator.go).                              *)
(*                                                                         *)
(* Each command is a process of its own.  What they share is a directory   *)
(* with a PID file per model name, which no lock protects, and the         *)
(* machine's process table, where llama-servers end when they like and     *)
(* PIDs are used again.                                                    *)
(***************************************************************************)
EXTENDS Integers

CONSTANTS
  Commands,  \* the commands that may run at a time
  Names,     \* the model names on their command lines
  Pids,      \* the process table
  Sizes,     \* of the file each name resolves to, in MiB, 0 when there is none
  Options,   \* context length and draft steps a command may ask for
  NoName, NoPid

ASSUME NoNameAssumption == NoName \notin Names
ASSUME PidsAssumption == NoPid \notin Pids /\ "absent" \notin Pids /\ "empty" \notin Pids
ASSUME SizesAssumption == Sizes \in [Names -> Nat]
ASSUME OptionsAssumption == Options \subseteq [ctx : Nat, draft : Nat]

VARIABLES
  pidfile,  \* <name>.pid: "absent", "empty" once truncated, or the PID in it
  proc,     \* what runs under each PID
  cmd,      \* the state of each command
  clash,    \* auxiliary: names two commands met on, whose loader was killed,
            \* or whose running server a Load has overlooked
  stale     \* auxiliary: names whose PID file has outlived its server

vars == <<pidfile, proc, cmd, clash, stale>>

(* "other" programs a SIGTERM of ours ends, "foreign" ones may never be    *)
(* signalled; servers may, or may not by this command, which then takes    *)
(* them for gone.  `told' is set once a server has its SIGTERM.            *)
ProcType == [kind : {"server"}, of : Names, told : BOOLEAN]
            \cup [kind : {"none", "other", "foreign"}, of : {NoName}, told : {FALSE}]
Process(kind) == [kind |-> kind, of |-> NoName, told |-> FALSE]
Server(n) == [kind |-> "server", of |-> n, told |-> FALSE]
NoProcess == Process("none")

(* Auxiliary: `alone', no other command has run beside this one so far;    *)
(* `missed', names of running models it has failed to list or to unload.   *)
CmdType ==
  [op : {"none", "load", "unload", "swap"}, name : Names \cup {NoName},
   pc : {"idle", "list", "read", "signal", "remove", "look", "start", "truncate", "write"},
   todo : SUBSET Names, at : Names \cup {NoName}, pid : Pids \cup {NoPid}, alone : BOOLEAN,
   missed : SUBSET Names]

NoCommand == [op |-> "none", name |-> NoName, pc |-> "idle", todo |-> {}, at |-> NoName,
              pid |-> NoPid, alone |-> FALSE, missed |-> {}]

TypeOK ==
  /\ pidfile \in [Names -> Pids \cup {"absent", "empty"}]
  /\ proc \in [Pids -> ProcType]
  /\ cmd \in [Commands -> CmdType]
  /\ clash \in SUBSET Names
  /\ stale \in SUBSET Names

Init ==
  /\ pidfile = [n \in Names |-> "absent"]
  /\ proc = [p \in Pids |-> NoProcess]
  /\ cmd = [c \in Commands |-> NoCommand]
  /\ clash = {}
  /\ stale = {}

-----------------------------------------------------------------------------
(* vram.Estimate of 24 GiB, in eighths of a MiB: 2 * 32 layers * 8 heads * *)
(* 128 * 2 bytes make 1/8 MiB of fp16 cache per token of context, a draft  *)
(* step costs 256 MiB.                                                     *)
Fits(mib, o) == 8 * mib + o.ctx + 8 * 256 * o.draft <= 8 * 24 * 1024

Loading(q) == q.pc \in {"truncate", "write"}
Held(p) == \E c \in Commands : Loading(cmd[c]) /\ cmd[c].pid = p

(* A child is not reaped, and its PID not used again, before its command   *)
(* has ended.                                                              *)
Free(p) == proc[p].kind = "none" /\ ~Held(p)

(* readPID and isRunning: signal 0 reaches what we may signal. *)
Running(n) == pidfile[n] \in Pids /\ proc[pidfile[n]].kind \in {"server", "other"}

(* The names a command reads or writes the PID files of. *)
Scope(q) == CASE q.op = "none" -> {} [] q.op = "swap" -> Names [] OTHER -> {q.name}

Started(op, n, alone) ==
  [NoCommand EXCEPT !.op = op, !.name = n, !.alone = alone,
     !.pc = CASE op = "load" -> "look" [] op = "unload" -> "read" [] op = "swap" -> "list",
     !.todo = IF op = "unload" THEN {n} ELSE {}]

(* A user runs load, unload or swap for a model. *)
Begin(c, op, n) ==
  LET q == Started(op, n, \A d \in Commands \ {c} : cmd[d].pc = "idle") IN
  /\ cmd[c].pc = "idle"
  /\ cmd' = [d \in Commands |-> IF d = c THEN q ELSE [cmd[d] EXCEPT !.alone = FALSE]]
  /\ clash' = clash \cup {m \in Scope(q) : \E d \in Commands \ {c} : m \in Scope(cmd[d])}
  /\ UNCHANGED <<pidfile, proc, stale>>

(* After one Unload: the next of the list, then, in a Swap, the Load. *)
Onward(q) ==
  IF q.todo # {} THEN [q EXCEPT !.pc = "read", !.at = NoName, !.pid = NoPid]
  ELSE IF q.op = "swap" THEN [q EXCEPT !.pc = "look", !.at = NoName, !.pid = NoPid]
  ELSE NoCommand

Moves(c, q) == cmd' = [cmd EXCEPT ![c] = q]

(* Mutant: spares the model that is to be loaded. *)
ListOthers(c) ==
  /\ cmd[c].pc = "list"
  /\ Moves(c, Onward([cmd[c] EXCEPT !.todo = {n \in Names \ {cmd[c].name} : Running(n)}]))
  /\ UNCHANGED <<pidfile, proc, clash, stale>>

(* ListRunning; the PID files are looked at in one step.  A directory or a *)
(* file that cannot be read hides its models, a server that may not be     *)
(* signalled counts as gone; the errors are ignored.                       *)
List(c) ==
  /\ cmd[c].pc = "list"
  /\ \E hidden \in SUBSET {n \in Names : Running(n)} :
       Moves(c, Onward([cmd[c] EXCEPT !.todo = {n \in Names \ hidden : Running(n)},
                                      !.missed = @ \cup hidden]))
  /\ UNCHANGED <<pidfile, proc, clash, stale>>

(* Mutant: what does not parse is taken for a PID. *)
ReadUnparsed(c) ==
  /\ cmd[c].pc = "read"
  /\ \E n \in cmd[c].todo :
       Moves(c, [cmd[c] EXCEPT !.todo = @ \ {n}, !.pc = "signal", !.at = n, !.pid = pidfile[n]])
  /\ UNCHANGED <<pidfile, proc, clash, stale>>

(* Unload reads the PID; without one, or when the file cannot be read, it  *)
(* returns an error, which a Swap ignores.                                 *)
Read(c) ==
  /\ cmd[c].pc = "read"
  /\ \E n \in cmd[c].todo :
       LET q == [cmd[c] EXCEPT !.todo = @ \ {n}] IN
       \/ /\ pidfile[n] \in Pids
          /\ Moves(c, [q EXCEPT !.pc = "signal", !.at = n, !.pid = pidfile[n]])
       \/ pidfile[n] \notin Pids /\ Moves(c, Onward(q))
       \/ Running(n) /\ Moves(c, Onward([q EXCEPT !.missed = @ \cup {n}]))
  /\ UNCHANGED <<pidfile, proc, clash, stale>>

(* SIGTERM.  A process that is gone counts as signalled; a signal refused  *)
(* ends the Unload with an error, which a Swap ignores, and the PID file   *)
(* kept.                                                                   *)
Signalled(x) ==
  CASE x.kind = "server" -> [x EXCEPT !.told = TRUE]
    [] x.kind = "other"  -> NoProcess
    [] OTHER             -> x

Signal(c) ==
  LET q == cmd[c]
      x == proc[q.pid] IN
  /\ q.pc = "signal"
  /\ \/ /\ x.kind # "foreign"
        /\ Moves(c, [q EXCEPT !.pc = "remove", !.pid = NoPid])
        /\ proc' = [proc EXCEPT ![q.pid] = Signalled(x)]
        /\ stale' = IF x.kind = "server" /\ x.of # q.at THEN stale \cup {x.of} ELSE stale
     \/ /\ x.kind # "none"
        /\ Moves(c, Onward([q EXCEPT !.missed = @ \cup {q.at}]))
        /\ UNCHANGED <<proc, stale>>
  /\ UNCHANGED <<pidfile, clash>>

(* Mutant: the PID file is left behind. *)
RemoveForgotten(c) ==
  /\ cmd[c].pc = "remove"
  /\ Moves(c, Onward(cmd[c]))
  /\ stale' = stale \ {cmd[c].at}
  /\ UNCHANGED <<pidfile, proc, clash>>

(* removePID; an error of it is ignored. *)
Remove(c) ==
  /\ cmd[c].pc = "remove"
  /\ Moves(c, Onward(cmd[c]))
  /\ \/ /\ pidfile' = [pidfile EXCEPT ![cmd[c].at] = "absent"]
        /\ stale' = stale \ {cmd[c].at}
     \/ /\ stale' = stale \cup {cmd[c].at}
        /\ UNCHANGED pidfile
  /\ UNCHANGED <<proc, clash>>

(* Mutant: a running model is loaded once more. *)
LookAway(c) ==
  /\ cmd[c].pc = "look"
  /\ \E o \in Options :
       Moves(c, IF Sizes[cmd[c].name] > 0 /\ Fits(Sizes[cmd[c].name], o)
                THEN [cmd[c] EXCEPT !.pc = "start"] ELSE NoCommand)
  /\ UNCHANGED <<pidfile, proc, clash, stale>>

(* Load: the file is there, fits with what the command asks for, and the   *)
(* model is not running; else the command has failed.                      *)
Look(c) ==
  LET n == cmd[c].name IN
  /\ cmd[c].pc = "look"
  /\ \E o \in Options :
       Moves(c, IF Sizes[n] > 0 /\ Fits(Sizes[n], o) /\ ~Running(n)
                THEN [cmd[c] EXCEPT !.pc = "start"] ELSE NoCommand)
  /\ UNCHANGED <<pidfile, proc, clash, stale>>

(* The model runs, but its PID file cannot be read or its server may not   *)
(* be signalled: Load ignores that and starts another.                     *)
Overlook(c) ==
  LET n == cmd[c].name IN
  /\ cmd[c].pc = "look"
  /\ Sizes[n] > 0 /\ (\E o \in Options : Fits(Sizes[n], o)) /\ Running(n)
  /\ Moves(c, [cmd[c] EXCEPT !.pc = "start"])
  /\ clash' = clash \cup {n}
  /\ UNCHANGED <<pidfile, proc, stale>>

(* BuildCommand and Start, or MkdirAll or Start fail. *)
Start(c) ==
  /\ cmd[c].pc = "start"
  /\ \/ \E p \in Pids :
          /\ Free(p)
          /\ proc' = [proc EXCEPT ![p] = Server(cmd[c].name)]
          /\ Moves(c, [cmd[c] EXCEPT !.pc = "truncate", !.pid = p])
     \/ Moves(c, NoCommand) /\ UNCHANGED proc
  /\ UNCHANGED <<pidfile, clash, stale>>

(* writePID: os.WriteFile first truncates, *)
Truncate(c) ==
  /\ cmd[c].pc = "truncate"
  /\ pidfile' = [pidfile EXCEPT ![cmd[c].name] = "empty"]
  /\ Moves(c, [cmd[c] EXCEPT !.pc = "write"])
  /\ UNCHANGED <<proc, clash, stale>>

(* then writes; *)
OwnServer(p, n) == proc[p] = Server(n)

Write(c) ==
  LET q == cmd[c] IN
  /\ q.pc = "write"
  /\ pidfile' = [pidfile EXCEPT ![q.name] = q.pid]
  /\ Moves(c, NoCommand)
  /\ stale' = IF OwnServer(q.pid, q.name) THEN stale \ {q.name} ELSE stale \cup {q.name}
  /\ UNCHANGED <<proc, clash>>

(* when either fails the child is killed. *)
WriteFails(c) ==
  /\ Loading(cmd[c])
  /\ proc' = [proc EXCEPT ![cmd[c].pid] = NoProcess]
  /\ Moves(c, NoCommand)
  /\ UNCHANGED <<pidfile, clash, stale>>

(* The command itself is killed, what it has started lives on. *)
CommandDies(c) ==
  LET q == cmd[c] IN
  /\ q.pc # "idle"
  /\ Moves(c, NoCommand)
  /\ clash' = IF Loading(q) THEN clash \cup {q.name} ELSE clash
  /\ stale' = IF q.pc = "remove" THEN stale \cup {q.at} ELSE stale
  /\ UNCHANGED <<pidfile, proc>>

(* A process ends; a server may crash without having been told to. *)
Ends(p) ==
  /\ proc[p].kind # "none"
  /\ proc' = [proc EXCEPT ![p] = NoProcess]
  /\ stale' = IF proc[p].kind = "server" /\ ~proc[p].told THEN stale \cup {proc[p].of} ELSE stale
  /\ UNCHANGED <<pidfile, cmd, clash>>

(* An unrelated program starts, under any PID that is free. *)
StrangerStarts(p, kind) ==
  /\ Free(p)
  /\ proc' = [proc EXCEPT ![p] = Process(kind)]
  /\ UNCHANGED <<pidfile, cmd, clash, stale>>

CommandStep(c) ==
  \/ List(c) \/ Read(c) \/ Signal(c) \/ Remove(c)
  \/ Look(c) \/ Start(c) \/ Truncate(c) \/ Write(c) \/ WriteFails(c)

Next ==
  \/ \E c \in Commands, op \in {"load", "unload", "swap"}, n \in Names : Begin(c, op, n)
  \/ \E c \in Commands : CommandStep(c)
  \/ \E c \in Commands : Overlook(c) \/ CommandDies(c)
  \/ \E p \in Pids : Ends(p)
  \/ \E p \in Pids, kind \in {"other", "foreign"} : StrangerStarts(p, kind)

Spec == Init /\ [][Next]_vars

-----------------------------------------------------------------------------
Live(p) == proc[p].kind = "server" /\ ~proc[p].told

(* A server nobody told to end is never lost: its PID file names it or the *)
(* command that started it is about to write that.  Servers that crash,    *)
(* writes that fail, signals that are refused and PIDs that come back do   *)
(* not change that; two commands meeting on one name, a loader killed      *)
(* half-way or one that overlooked the server do.                          *)
NothingLost ==
  \A p \in Pids : Live(p) /\ proc[p].of \notin clash => pidfile[proc[p].of] = p \/ Held(p)

(* A PID file names its own model's server, which has not been told to     *)
(* end, unless an Unload is about to remove it, for a name that neither    *)
(* commands met on nor a server crashed of.                                *)
FilesNameServers ==
  \A n \in Names \ (clash \cup stale) :
    pidfile[n] \in Pids =>
      OwnServer(pidfile[n], n) \/ \E c \in Commands : cmd[c].pc = "remove" /\ cmd[c].at = n

(* SIGTERM reaches a process that is not the server of the model being     *)
(* unloaded only through a PID file that has outlived its server, or that  *)
(* two commands have met on.                                               *)
StrangersSafe ==
  [][\A c \in Commands : cmd[c].pc = "signal" /\ cmd'[c].pc = "remove" =>
       LET x == proc[cmd[c].pid] IN
       x.kind = "none" \/ x.of = cmd[c].at \/ cmd[c].at \in stale \cup clash]_vars

(* Once a Swap that ran by itself begins to load, every server that runs   *)
(* on untold is its own, one whose name it failed to list or to unload, or *)
(* one of a name commands had met on: nothing else is passed by, whatever  *)
(* crashes, or has its PID used again, while the Swap works on its list.   *)
SwapClears ==
  \A c \in Commands :
    cmd[c].op = "swap" /\ cmd[c].alone /\ cmd[c].pc \in {"look", "start", "truncate", "write"} =>
      \A p \in Pids : Live(p) /\ proc[p].of \notin clash \cup cmd[c].missed => p = cmd[c].pid
=============================================================================
