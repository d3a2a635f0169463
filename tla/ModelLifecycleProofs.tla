------------------------ MODULE ModelLifecycleProofs ------------------------
(* Proofs about ModelLifecycle for any commands, names, processes, files   *)
(* and options.                                                            *)
EXTENDS ModelLifecycle, TLAPS

(* What a command's record looks like at each of its steps. *)
ShapeOK(q) ==
  /\ q.op = "none" <=> q.pc = "idle"
  /\ q.op # "none" => q.name \in Names
  /\ q.todo \subseteq Scope(q)
  /\ q.pc = "idle" => ~q.alone
  /\ q.pc = "list" => q.op = "swap"
  /\ q.pc \in {"look", "start", "truncate", "write"} => q.op \in {"load", "swap"}
  /\ q.pc \in {"read", "signal", "remove"} => q.op \in {"unload", "swap"}
  /\ q.pc \in {"signal", "remove"} => q.at \in Scope(q)
  /\ q.pc \in {"look", "start"} => q.pid = NoPid
  /\ q.pc \in {"signal", "truncate", "write"} => q.pid \in Pids

(* Commands whose names overlap have met, an undisturbed one runs alone. *)
Exclusive ==
  \A c \in Commands, d \in Commands : c # d =>
    /\ \A n \in Names : n \in Scope(cmd[c]) /\ n \in Scope(cmd[d]) => n \in clash
    /\ cmd[c].alone => cmd[d].pc = "idle"

(* What a loader holds is its own server or has ended; no other server of  *)
(* the name runs on, and the name's PID file is out of date.               *)
HolderOK(q) ==
  Loading(q) => proc[q.pid].kind = "none" \/ (proc[q.pid].kind = "server" /\ proc[q.pid].of = q.name)
LoaderOK(q) ==
  q.pc \in {"start", "truncate", "write"} /\ q.name \notin clash =>
    /\ \A p \in Pids : Live(p) /\ proc[p].of = q.name => p = q.pid
    /\ pidfile[q.name] \in Pids => q.name \in stale /\ q.pc # "write"

(* From reading the PID to removing the file nobody else touches it, and   *)
(* after the signal no server of the name runs on.                         *)
UnloaderOK(q) ==
  /\ q.pc = "signal" /\ q.at \notin clash => pidfile[q.at] = q.pid
  /\ q.pc = "remove" /\ q.at \notin clash => \A p \in Pids : ~(Live(p) /\ proc[p].of = q.at)

(* An undisturbed Swap has every server that runs on and that it has not   *)
(* missed still on its list.                                               *)
Listed(q, p) ==
  CASE q.pc = "signal" -> proc[p].of \in q.todo \cup {q.at}
    [] q.pc \in {"read", "remove"} -> proc[p].of \in q.todo
    [] q.pc \in {"look", "start", "truncate", "write"} -> p = q.pid
    [] OTHER -> TRUE
SwapOK(q) ==
  q.op = "swap" /\ q.alone =>
    \A p \in Pids : Live(p) /\ proc[p].of \notin clash \cup q.missed => Listed(q, p)

(* The inductive invariant: that no server is lost rests on what each      *)
(* command at work on its name knows.                                      *)
CommandsOK ==
  \A c \in Commands : ShapeOK(cmd[c]) /\ HolderOK(cmd[c]) /\ LoaderOK(cmd[c])
                      /\ UnloaderOK(cmd[c]) /\ SwapOK(cmd[c])
ModelInv == TypeOK /\ Exclusive /\ CommandsOK /\ NothingLost /\ FilesNameServers

-----------------------------------------------------------------------------
LEMMA InitModelInv == Init => ModelInv
<1>. SUFFICES ASSUME Init PROVE ModelInv
  OBVIOUS
<1>1. NoCommand \in CmdType /\ NoProcess \in ProcType
  BY DEF NoCommand, CmdType, NoProcess, Process, ProcType
<1>2. TypeOK
  BY <1>1 DEF Init, TypeOK
<1>3. /\ NoCommand.op = "none" /\ NoCommand.pc = "idle" /\ NoCommand.todo = {}
      /\ NoCommand.alone = FALSE /\ Scope(NoCommand) = {}
  BY DEF NoCommand, Scope
<1>4. Exclusive
  BY <1>3 DEF Init, Exclusive
<1>5. ShapeOK(NoCommand) /\ HolderOK(NoCommand) /\ LoaderOK(NoCommand)
      /\ UnloaderOK(NoCommand) /\ SwapOK(NoCommand)
  BY <1>3 DEF ShapeOK, HolderOK, Loading, LoaderOK, UnloaderOK, SwapOK
<1>6. CommandsOK
  BY <1>5 DEF Init, CommandsOK
<1>7. \A p \in Pids : ~Live(p)
  BY DEF Init, Live, NoProcess, Process
<1>8. NothingLost /\ FilesNameServers
  BY <1>7, PidsAssumption DEF Init, NothingLost, FilesNameServers
<1>. QED BY <1>2, <1>4, <1>6, <1>8 DEF ModelInv

(* The ways a command goes on. *)
Follows(q, r) ==
  /\ r \in CmdType /\ ShapeOK(r)
  /\ \A n \in Scope(r) : n \in Scope(q)
  /\ r.alone => q.alone /\ r.op = q.op /\ r.name = q.name /\ q.missed \subseteq r.missed

LEMMA EndFollows ==
  ASSUME NEW q
  PROVE  Follows(q, NoCommand) /\ NoCommand.pc = "idle" /\ NoCommand.op = "none"
  BY DEF Follows, NoCommand, CmdType, ShapeOK, Scope

LEMMA OnwardFollows ==
  ASSUME NEW q \in CmdType, q.op \in {"unload", "swap"}, q.name \in Names, q.todo \subseteq Scope(q)
  PROVE  LET r == Onward(q) IN
         /\ Follows(q, r)
         /\ r.pc \in {"idle", "read", "look"}
         /\ r.pc = "read" => r.todo = q.todo
         /\ r.pc # "read" => q.todo = {}
         /\ r.pc # "idle" => r.missed = q.missed
<1>1. CASE q.todo # {}
  <2>1. Onward(q) = [q EXCEPT !.pc = "read", !.at = NoName, !.pid = NoPid]
    BY <1>1 DEF Onward
  <2>. QED BY <2>1 DEF Follows, CmdType, ShapeOK, Scope
<1>2. CASE q.todo = {} /\ q.op = "swap"
  <2>1. Onward(q) = [q EXCEPT !.pc = "look", !.at = NoName, !.pid = NoPid]
    BY <1>2 DEF Onward
  <2>. QED BY <1>2, <2>1 DEF Follows, CmdType, ShapeOK, Scope
<1>3. CASE q.todo = {} /\ q.op # "swap"
  <2>1. Onward(q) = NoCommand
    BY <1>3 DEF Onward
  <2>. QED BY <1>3, <2>1, EndFollows
<1>. QED BY <1>1, <1>2, <1>3

(* Every step of a command moves it on within its scope and leaves the     *)
(* other commands and what they have met on alone.                         *)
LEMMA StepFollows ==
  ASSUME ModelInv, NEW c \in Commands, CommandStep(c)
  PROVE  /\ clash' = clash /\ cmd' = [cmd EXCEPT ![c] = cmd'[c]]
         /\ Follows(cmd[c], cmd'[c])
<1>. DEFINE q == cmd[c]
<1>1. q \in CmdType /\ ShapeOK(q) /\ cmd \in [Commands -> CmdType]
  BY DEF ModelInv, TypeOK, CommandsOK
<1>2. ASSUME NEW r, Moves(c, r), Follows(q, r)
      PROVE  cmd' = [cmd EXCEPT ![c] = cmd'[c]] /\ Follows(q, cmd'[c])
  BY <1>1, <1>2 DEF Moves
<1>3. CASE List(c)
  <2>0. PICK h \in SUBSET {n \in Names : Running(n)} :
          Moves(c, Onward([q EXCEPT !.todo = {n \in Names \ h : Running(n)}, !.missed = q.missed \cup h]))
    BY <1>1, <1>3 DEF List, CmdType
  <2>. DEFINE l == {n \in Names \ h : Running(n)}
              r == [q EXCEPT !.todo = l, !.missed = q.missed \cup h]
  <2>1. q.op = "swap" /\ q.name \in Names
    BY <1>1, <1>3 DEF List, ShapeOK
  <2>2. r \in CmdType /\ r.op = "swap" /\ r.name = q.name /\ r.alone = q.alone /\ Scope(r) = Names
        /\ r.todo \subseteq Names /\ q.missed \subseteq r.missed
    BY <1>1, <2>0, <2>1 DEF CmdType, Scope
  <2>3. Follows(r, Onward(r))
    BY <2>1, <2>2, OnwardFollows
  <2>4. Follows(q, Onward(r))
    BY <2>1, <2>2, <2>3 DEF Follows, Scope
  <2>. QED BY <1>2, <1>3, <2>0, <2>4 DEF List
<1>4. CASE Read(c)
  <2>1. q.op \in {"unload", "swap"} /\ q.name \in Names /\ q.todo \subseteq Scope(q)
    BY <1>1, <1>4 DEF Read, ShapeOK
  <2>2. PICK n \in q.todo :
          \/ /\ pidfile[n] \in Pids
             /\ Moves(c, [q EXCEPT !.todo = q.todo \ {n}, !.pc = "signal", !.at = n, !.pid = pidfile[n]])
          \/ Moves(c, Onward([q EXCEPT !.todo = q.todo \ {n}]))
          \/ Moves(c, Onward([q EXCEPT !.todo = q.todo \ {n}, !.missed = q.missed \cup {n}]))
    BY <1>4, <1>1 DEF Read, CmdType
  <2>. DEFINE r == [q EXCEPT !.todo = q.todo \ {n}]
              t == [q EXCEPT !.todo = q.todo \ {n}, !.missed = q.missed \cup {n}]
              s == [q EXCEPT !.todo = q.todo \ {n}, !.pc = "signal", !.at = n, !.pid = pidfile[n]]
  <2>3. r \in CmdType /\ r.op = q.op /\ r.name = q.name /\ r.alone = q.alone /\ Scope(r) = Scope(q)
        /\ r.todo \subseteq Scope(q) /\ r.missed = q.missed
    BY <1>1, <2>1 DEF CmdType, Scope
  <2>4. Follows(q, Onward(r))
    <3>1. Follows(r, Onward(r))
      BY <2>1, <2>3, OnwardFollows
    <3>. QED BY <2>3, <3>1 DEF Follows
  <2>6. Follows(q, Onward(t))
    <3>1. t \in CmdType /\ t.op = q.op /\ t.name = q.name /\ t.alone = q.alone /\ Scope(t) = Scope(q)
          /\ t.todo \subseteq Scope(q) /\ q.missed \subseteq t.missed
      BY <1>1, <2>1 DEF CmdType, Scope
    <3>2. Follows(t, Onward(t))
      BY <2>1, <3>1, OnwardFollows
    <3>. QED BY <3>1, <3>2 DEF Follows
  <2>5. ASSUME pidfile[n] \in Pids PROVE Follows(q, s)
    <3>1. n \in Names
      BY <1>1 DEF CmdType
    <3>2. s \in CmdType /\ s.op = q.op /\ s.name = q.name /\ s.alone = q.alone
          /\ s.pc = "signal" /\ s.at = n /\ s.pid \in Pids /\ s.todo \subseteq q.todo
      BY <1>1, <2>5, <3>1 DEF CmdType
    <3>. QED BY <2>1, <3>2 DEF Follows, ShapeOK, Scope
  <2>. QED BY <1>2, <1>4, <2>2, <2>4, <2>5, <2>6 DEF Read
<1>5. CASE Signal(c)
  <2>1. q.op \in {"unload", "swap"} /\ q.name \in Names /\ q.todo \subseteq Scope(q)
        /\ q.at \in Scope(q)
    BY <1>1, <1>5 DEF Signal, ShapeOK
  <2>. DEFINE t == [q EXCEPT !.missed = q.missed \cup {q.at}]
  <2>2. Follows(q, Onward(t))
    <3>1. t \in CmdType /\ t.op = q.op /\ t.name = q.name /\ t.alone = q.alone /\ Scope(t) = Scope(q)
          /\ t.todo \subseteq Scope(q) /\ q.missed \subseteq t.missed
      BY <1>1, <2>1 DEF CmdType, Scope
    <3>2. Follows(t, Onward(t))
      BY <2>1, <3>1, OnwardFollows
    <3>. QED BY <3>1, <3>2 DEF Follows
  <2>4. Moves(c, Onward(t)) \/ Moves(c, [q EXCEPT !.pc = "remove", !.pid = NoPid])
    BY <1>1, <1>5 DEF Signal, CmdType
  <2>3. Follows(q, [q EXCEPT !.pc = "remove", !.pid = NoPid])
    BY <1>1, <2>1 DEF Follows, CmdType, ShapeOK, Scope
  <2>. QED BY <1>2, <1>5, <2>2, <2>3, <2>4 DEF Signal
<1>6. CASE Remove(c)
  <2>1. q.op \in {"unload", "swap"} /\ q.name \in Names /\ q.todo \subseteq Scope(q)
    BY <1>1, <1>6 DEF Remove, ShapeOK
  <2>2. Follows(q, Onward(q))
    BY <1>1, <2>1, OnwardFollows
  <2>. QED BY <1>2, <1>6, <2>2 DEF Remove
<1>7. CASE Look(c)
  <2>1. Follows(q, [q EXCEPT !.pc = "start"])
    BY <1>1, <1>7 DEF Look, Follows, CmdType, ShapeOK, Scope
  <2>. QED BY <1>2, <1>7, <2>1, EndFollows DEF Look
<1>8. CASE Start(c)
  <2>1. ASSUME NEW p \in Pids PROVE Follows(q, [q EXCEPT !.pc = "truncate", !.pid = p])
    BY <1>1, <1>8 DEF Start, Follows, CmdType, ShapeOK, Scope
  <2>. QED BY <1>2, <1>8, <2>1, EndFollows DEF Start
<1>9. CASE Truncate(c)
  <2>1. Follows(q, [q EXCEPT !.pc = "write"])
    BY <1>1, <1>9 DEF Truncate, Follows, CmdType, ShapeOK, Scope
  <2>. QED BY <1>2, <1>9, <2>1 DEF Truncate
<1>10. CASE Write(c)
  BY <1>2, <1>10, EndFollows DEF Write
<1>11. CASE WriteFails(c)
  BY <1>2, <1>11, EndFollows DEF WriteFails
<1>. QED BY <1>3, <1>4, <1>5, <1>6, <1>7, <1>8, <1>9, <1>10, <1>11 DEF CommandStep

(* What a step does to the process table, and to names out of its scope.   *)
Kept(p) == \/ proc'[p].kind = "none"
           \/ proc'[p].kind = proc[p].kind /\ proc'[p].of = proc[p].of /\ (Live(p)' => Live(p))
Effects(c) ==
  /\ \A n \in Names : n \notin Scope(cmd[c]) =>
       pidfile'[n] = pidfile[n] /\ (n \in stale => n \in stale')
  /\ \A p \in Pids : Kept(p) \/ (/\ Free(p) /\ proc'[p] = Server(cmd[c].name)
                                 /\ cmd[c].pc = "start" /\ cmd'[c].pid = p /\ Loading(cmd'[c]))

LEMMA StepEffects ==
  ASSUME ModelInv, NEW c \in Commands, CommandStep(c)
  PROVE  TypeOK' /\ Effects(c)
<1>. DEFINE q == cmd[c]
<1>1. /\ q \in CmdType /\ ShapeOK(q) /\ cmd \in [Commands -> CmdType]
      /\ pidfile \in [Names -> Pids \cup {"absent", "empty"}] /\ proc \in [Pids -> ProcType]
      /\ clash \in SUBSET Names /\ stale \in SUBSET Names
  BY DEF ModelInv, TypeOK, CommandsOK
<1>2. cmd' \in [Commands -> CmdType] /\ clash' \in SUBSET Names
  BY <1>1, StepFollows DEF Follows
<1>3. UNCHANGED proc => \A p \in Pids : Kept(p)
  BY DEF Kept, Live
<1>4. CASE UNCHANGED <<pidfile, proc, stale>>
  BY <1>1, <1>2, <1>3, <1>4 DEF TypeOK, Effects
<1>5. CASE Signal(c)
  <2>. DEFINE x == proc[q.pid]
  <2>1. x \in ProcType /\ q.pid \in Pids /\ q.at \in Names
    BY <1>1, <1>5 DEF Signal, ShapeOK, Scope
  <2>2. Signalled(x) \in ProcType
    BY <2>1 DEF Signalled, ProcType, NoProcess, Process
  <2>3. \/ Signalled(x).kind = "none"
        \/ Signalled(x).kind = x.kind /\ Signalled(x).of = x.of /\ (~Signalled(x).told => ~x.told)
    BY <2>1 DEF Signalled, ProcType, NoProcess, Process
  <2>4. pidfile' = pidfile /\ (proc' = proc \/ proc' = [proc EXCEPT ![q.pid] = Signalled(x)])
    BY <1>5 DEF Signal
  <2>5. \A p \in Pids : Kept(p)
    BY <1>1, <1>3, <2>1, <2>3, <2>4 DEF Kept, Live
  <2>6. stale' \in SUBSET Names /\ stale \subseteq stale'
    BY <1>1, <1>5, <2>1 DEF Signal, ProcType
  <2>. QED BY <1>1, <1>2, <2>2, <2>4, <2>5, <2>6 DEF TypeOK, Effects
<1>6. CASE Remove(c)
  <2>1. q.at \in Scope(q) /\ q.at \in Names
    BY <1>1, <1>6 DEF Remove, ShapeOK, Scope
  <2>2. UNCHANGED proc
    BY <1>6 DEF Remove
  <2>3. pidfile' \in [Names -> Pids \cup {"absent", "empty"}] /\ stale' \in SUBSET Names
    BY <1>1, <1>6, <2>1 DEF Remove
  <2>4. \A n \in Names : n \notin Scope(q) => pidfile'[n] = pidfile[n] /\ (n \in stale => n \in stale')
    BY <1>1, <1>6, <2>1 DEF Remove
  <2>. QED BY <1>1, <1>2, <1>3, <2>2, <2>3, <2>4 DEF TypeOK, Effects
<1>7. CASE Start(c)
  <2>1. q.name \in Names /\ q.pc = "start"
    BY <1>1, <1>7 DEF Start, ShapeOK
  <2>2. CASE UNCHANGED proc
    BY <1>1, <1>2, <1>3, <1>7, <2>2 DEF TypeOK, Effects, Start
  <2>3. CASE proc' # proc
    <3>1. PICK p \in Pids : Free(p) /\ proc' = [proc EXCEPT ![p] = Server(q.name)]
                           /\ cmd' = [cmd EXCEPT ![c] = [q EXCEPT !.pc = "truncate", !.pid = p]]
      BY <1>7, <2>3 DEF Start, Moves
    <3>2. cmd'[c].pid = p /\ Loading(cmd'[c])
      BY <1>1, <3>1 DEF Loading, CmdType
    <3>3. \A r \in Pids \ {p} : Kept(r)
      BY <1>1, <3>1 DEF Kept, Live
    <3>4. proc' \in [Pids -> ProcType] /\ proc'[p] = Server(q.name)
      BY <1>1, <2>1, <3>1 DEF Server, ProcType
    <3>. QED BY <1>1, <1>2, <1>7, <2>1, <3>1, <3>2, <3>3, <3>4 DEF TypeOK, Effects, Start
  <2>. QED BY <2>2, <2>3
<1>8. CASE Truncate(c)
  <2>1. q.name \in Names /\ q.name \in Scope(q)
    BY <1>1, <1>8 DEF Truncate, ShapeOK, Scope
  <2>. QED BY <1>1, <1>2, <1>3, <1>8, <2>1 DEF Truncate, TypeOK, Effects
<1>9. CASE Write(c)
  <2>1. q.name \in Names /\ q.name \in Scope(q) /\ q.pid \in Pids
    BY <1>1, <1>9 DEF Write, ShapeOK, Scope
  <2>2. stale' \in SUBSET Names /\ \A n \in Names \ {q.name} : n \in stale => n \in stale'
    BY <1>1, <1>9, <2>1 DEF Write
  <2>. QED BY <1>1, <1>2, <1>3, <1>9, <2>1, <2>2 DEF Write, TypeOK, Effects
<1>10. CASE WriteFails(c)
  <2>1. NoProcess \in ProcType /\ NoProcess.kind = "none"
    BY DEF NoProcess, Process, ProcType
  <2>2. proc' = [proc EXCEPT ![q.pid] = NoProcess] /\ UNCHANGED <<pidfile, clash, stale>>
    BY <1>10 DEF WriteFails
  <2>3. \A p \in Pids : Kept(p)
    BY <1>1, <2>1, <2>2 DEF Kept, Live
  <2>4. proc' \in [Pids -> ProcType]
    BY <1>1, <2>1, <2>2
  <2>. QED BY <1>1, <1>2, <2>2, <2>3, <2>4 DEF TypeOK, Effects
<1>. QED BY <1>4, <1>5, <1>6, <1>7, <1>8, <1>9, <1>10 DEF CommandStep, List, Read, Look

(* Servers and files of names out of the step's scope. *)
LEMMA Elsewhere ==
  ASSUME ModelInv, NEW c \in Commands, CommandStep(c), NEW n \in Names, n \notin Scope(cmd[c])
  PROVE  /\ pidfile'[n] = pidfile[n] /\ (n \in stale => n \in stale')
         /\ \A p \in Pids : Live(p)' /\ proc'[p].of = n => Live(p) /\ proc[p].of = n
<1>1. Effects(c)
  BY StepEffects
<1>2. cmd[c].pc = "start" => cmd[c].name \in Scope(cmd[c])
  BY DEF ModelInv, CommandsOK, ShapeOK, Scope
<1>3. ASSUME NEW p \in Pids, Live(p)', proc'[p].of = n PROVE Live(p) /\ proc[p].of = n
  <2>1. CASE Kept(p)
    BY <1>3, <2>1 DEF Kept, Live
  <2>2. CASE proc'[p] = Server(cmd[c].name) /\ cmd[c].pc = "start"
    BY <1>2, <1>3, <2>2 DEF Server
  <2>. QED BY <1>1, <2>1, <2>2 DEF Effects
<1>. QED BY <1>1, <1>3 DEF Effects

LEMMA Steps == ASSUME NEW c \in Commands, CommandStep(c) PROVE cmd[c].pc # "idle"
  BY DEF CommandStep, List, Read, Signal, Remove, Look, Start, Truncate, Write, WriteFails, Loading

(* What the other commands know stays true. *)
LEMMA OthersKept ==
  ASSUME ModelInv, NEW c \in Commands, CommandStep(c), NEW d \in Commands, d # c
  PROVE  /\ cmd'[d] = cmd[d] /\ ShapeOK(cmd'[d])
         /\ HolderOK(cmd[d])' /\ LoaderOK(cmd[d])' /\ UnloaderOK(cmd[d])' /\ SwapOK(cmd[d])'
<1>. DEFINE q == cmd[d]
<1>1. /\ clash' = clash /\ cmd'[d] = q /\ ShapeOK(q) /\ HolderOK(q) /\ LoaderOK(q) /\ UnloaderOK(q)
      /\ Effects(c)
  BY StepFollows, StepEffects DEF ModelInv, TypeOK, CommandsOK
<1>2. \A n \in Scope(q) : n \in Names /\ (n \notin clash => n \notin Scope(cmd[c]))
  BY <1>1 DEF ModelInv, Exclusive, ShapeOK, Scope
<1>3. HolderOK(cmd[d])'
  <2>1. SUFFICES ASSUME Loading(q)
                 PROVE  proc'[q.pid].kind = "none" \/ (proc'[q.pid].kind = "server" /\ proc'[q.pid].of = q.name)
    BY <1>1 DEF HolderOK, Loading
  <2>2. q.pid \in Pids /\ Held(q.pid)
    BY <1>1, <2>1 DEF ShapeOK, Loading, Held
  <2>3. Kept(q.pid)
    BY <1>1, <2>2 DEF Effects, Free
  <2>. QED BY <1>1, <2>1, <2>3 DEF Kept, HolderOK
<1>4. LoaderOK(cmd[d])'
  <2>1. SUFFICES ASSUME q.pc \in {"start", "truncate", "write"}, q.name \notin clash
                 PROVE  /\ \A p \in Pids : Live(p)' /\ proc'[p].of = q.name => p = q.pid
                        /\ pidfile'[q.name] \in Pids => q.name \in stale' /\ q.pc # "write"
    BY <1>1 DEF LoaderOK
  <2>2. q.name \in Names /\ q.name \notin Scope(cmd[c])
    BY <1>1, <1>2, <2>1 DEF ShapeOK, Scope
  <2>. QED BY <1>1, <2>1, <2>2, Elsewhere DEF LoaderOK
<1>5. UnloaderOK(cmd[d])'
  <2>1. SUFFICES ASSUME q.pc \in {"signal", "remove"}, q.at \notin clash
                 PROVE  /\ q.pc = "signal" => pidfile'[q.at] = q.pid
                        /\ q.pc = "remove" => \A p \in Pids : ~(Live(p)' /\ proc'[p].of = q.at)
    BY <1>1 DEF UnloaderOK
  <2>2. q.at \in Names /\ q.at \notin Scope(cmd[c])
    BY <1>1, <1>2, <2>1 DEF ShapeOK
  <2>. QED BY <1>1, <2>1, <2>2, Elsewhere DEF UnloaderOK
<1>6. SwapOK(cmd[d])'
  BY <1>1, Steps DEF SwapOK, ModelInv, Exclusive
<1>. QED BY <1>1, <1>3, <1>4, <1>5, <1>6

LEMMA ExclusiveKept ==
  ASSUME ModelInv, NEW c \in Commands, CommandStep(c) PROVE Exclusive'
<1>1. clash' = clash /\ Follows(cmd[c], cmd'[c]) /\ \A d \in Commands \ {c} : cmd'[d] = cmd[d]
  BY StepFollows, OthersKept
<1>2. ASSUME NEW d \in Commands
      PROVE  /\ \A n \in Names : n \in Scope(cmd'[d]) => n \in Scope(cmd[d])
             /\ cmd'[d].alone => cmd[d].alone
             /\ cmd[d].pc = "idle" => cmd'[d].pc = "idle"
  BY <1>1, Steps DEF Follows
<1>3. SUFFICES ASSUME NEW a \in Commands, NEW d \in Commands, a # d
               PROVE  /\ \A n \in Names : n \in Scope(cmd'[a]) /\ n \in Scope(cmd'[d]) => n \in clash'
                      /\ cmd'[a].alone => cmd'[d].pc = "idle"
  BY DEF Exclusive, Scope
<1>4. /\ \A n \in Names : n \in Scope(cmd[a]) /\ n \in Scope(cmd[d]) => n \in clash
      /\ cmd[a].alone => cmd[d].pc = "idle"
  BY <1>3 DEF ModelInv, Exclusive
<1>5. /\ \A n \in Names : n \in Scope(cmd'[a]) => n \in Scope(cmd[a])
      /\ cmd'[a].alone => cmd[a].alone
  BY <1>2
<1>6. /\ \A n \in Names : n \in Scope(cmd'[d]) => n \in Scope(cmd[d])
      /\ cmd[d].pc = "idle" => cmd'[d].pc = "idle"
  BY <1>2
<1>. HIDE <1>2
<1>7. cmd'[a].alone => cmd'[d].pc = "idle"
  BY <1>4, <1>5, <1>6
<1>8. \A n \in Names : n \in Scope(cmd'[a]) /\ n \in Scope(cmd'[d]) => n \in clash'
  BY <1>1, <1>4, <1>5, <1>6
<1>. QED BY <1>7, <1>8

(* A server that runs on, of a name commands have not met on, is in its    *)
(* file, unless a command whose name it is holds it.                       *)
LEMMA InItsFile ==
  ASSUME ModelInv, NEW p \in Pids, Live(p), proc[p].of \notin clash
  PROVE  /\ proc[p].of \in Names
         /\ \/ pidfile[proc[p].of] = p
            \/ \E d \in Commands : /\ Loading(cmd[d]) /\ cmd[d].pid = p
                                   /\ cmd[d].name = proc[p].of /\ proc[p].of \in Scope(cmd[d])
<1>1. proc[p].of \in Names
  BY DEF ModelInv, TypeOK, ProcType, Live
<1>2. CASE Held(p)
  <2>1. PICK d \in Commands : Loading(cmd[d]) /\ cmd[d].pid = p
    BY <1>2 DEF Held
  <2>2. cmd[d].name = proc[p].of
    BY <2>1 DEF ModelInv, CommandsOK, HolderOK, Live
  <2>3. proc[p].of \in Scope(cmd[d])
    BY <1>1, <2>1, <2>2 DEF ModelInv, CommandsOK, ShapeOK, Loading, Scope
  <2>. QED BY <1>1, <2>1, <2>2, <2>3
<1>. QED BY <1>1, <1>2 DEF ModelInv, NothingLost
(* How List and Read leave their command. *)
LEMMA ListMoves ==
  ASSUME ModelInv, NEW c \in Commands, List(c)
  PROVE  /\ cmd'[c].pc \in {"idle", "read", "look"}
         /\ cmd'[c].pc # "idle" => \A n \in Names : Running(n) /\ n \notin cmd'[c].missed =>
                                    cmd'[c].pc = "read" /\ n \in cmd'[c].todo
<1>. DEFINE q == cmd[c]
<1>0. PICK h \in SUBSET {n \in Names : Running(n)} :
        Moves(c, Onward([q EXCEPT !.todo = {n \in Names \ h : Running(n)}, !.missed = q.missed \cup h]))
  BY DEF List, ModelInv, TypeOK, CmdType
<1>. DEFINE l == {n \in Names \ h : Running(n)}
            r == [q EXCEPT !.todo = l, !.missed = q.missed \cup h]
<1>1. q \in CmdType /\ q.op = "swap" /\ q.name \in Names /\ cmd \in [Commands -> CmdType]
  BY DEF ModelInv, TypeOK, CommandsOK, ShapeOK, List
<1>2. r \in CmdType /\ r.op = "swap" /\ r.name = q.name /\ r.todo = l /\ r.todo \subseteq Scope(r)
      /\ r.missed = q.missed \cup h
  BY <1>0, <1>1 DEF CmdType, Scope
<1>3. cmd'[c] = Onward(r)
  BY <1>0, <1>1 DEF Moves
<1>. HIDE DEF r
<1>4. /\ cmd'[c].pc \in {"idle", "read", "look"}
      /\ cmd'[c].pc = "read" => cmd'[c].todo = l
      /\ cmd'[c].pc # "read" => l = {}
      /\ cmd'[c].pc # "idle" => cmd'[c].missed = q.missed \cup h
  BY <1>1, <1>2, <1>3, OnwardFollows
<1>. QED BY <1>4

LEMMA ReadMoves ==
  ASSUME ModelInv, NEW c \in Commands, Read(c)
  PROVE  \E n \in cmd[c].todo :
           \/ /\ pidfile[n] \in Pids /\ cmd'[c].pc = "signal" /\ cmd'[c].at = n
              /\ cmd'[c].pid = pidfile[n] /\ cmd'[c].todo = cmd[c].todo \ {n}
           \/ /\ cmd'[c].pc \in {"idle", "read", "look"}
              /\ cmd'[c].pc = "read" => cmd'[c].todo = cmd[c].todo \ {n}
              /\ cmd'[c].pc # "read" => cmd[c].todo \ {n} = {}
              /\ cmd'[c].pc # "idle" => pidfile[n] \notin Pids \/ n \in cmd'[c].missed
<1>. DEFINE q == cmd[c]
<1>1. /\ q \in CmdType /\ q.op \in {"unload", "swap"} /\ q.name \in Names /\ cmd \in [Commands -> CmdType]
      /\ q.todo \subseteq Scope(q) /\ q.todo \subseteq Names
  BY DEF ModelInv, TypeOK, CommandsOK, ShapeOK, Read, CmdType
<1>2. PICK n \in q.todo :
        \/ /\ pidfile[n] \in Pids
           /\ Moves(c, [q EXCEPT !.todo = q.todo \ {n}, !.pc = "signal", !.at = n, !.pid = pidfile[n]])
        \/ pidfile[n] \notin Pids /\ Moves(c, Onward([q EXCEPT !.todo = q.todo \ {n}]))
        \/ Moves(c, Onward([q EXCEPT !.todo = q.todo \ {n}, !.missed = q.missed \cup {n}]))
  BY <1>1 DEF Read, CmdType
<1>. DEFINE r == [q EXCEPT !.todo = q.todo \ {n}]
            t == [q EXCEPT !.todo = q.todo \ {n}, !.missed = q.missed \cup {n}]
<1>3. /\ r \in CmdType /\ r.op = q.op /\ r.name = q.name /\ r.todo = q.todo \ {n} /\ r.todo \subseteq Scope(r)
      /\ t \in CmdType /\ t.op = q.op /\ t.name = q.name /\ t.todo = q.todo \ {n} /\ t.todo \subseteq Scope(t)
      /\ t.missed = q.missed \cup {n}
  BY <1>1 DEF CmdType, Scope
<1>4. CASE /\ pidfile[n] \in Pids
           /\ Moves(c, [q EXCEPT !.todo = q.todo \ {n}, !.pc = "signal", !.at = n, !.pid = pidfile[n]])
  BY <1>1, <1>4 DEF Moves, CmdType
<1>5. ASSUME pidfile[n] \notin Pids, Moves(c, Onward(r))
      PROVE  /\ pidfile[n] \notin Pids /\ cmd'[c].pc \in {"idle", "read", "look"}
             /\ cmd'[c].pc = "read" => cmd'[c].todo = q.todo \ {n}
             /\ cmd'[c].pc # "read" => q.todo \ {n} = {}
  <2>1. cmd'[c] = Onward(r)
    BY <1>1, <1>5 DEF Moves
  <2>. HIDE DEF r
  <2>. QED BY <1>1, <1>3, <1>5, <2>1, OnwardFollows
<1>6. ASSUME Moves(c, Onward(t))
      PROVE  /\ cmd'[c].pc \in {"idle", "read", "look"}
             /\ cmd'[c].pc = "read" => cmd'[c].todo = q.todo \ {n}
             /\ cmd'[c].pc # "read" => q.todo \ {n} = {}
             /\ cmd'[c].pc # "idle" => n \in cmd'[c].missed
  <2>1. cmd'[c] = Onward(t)
    BY <1>1, <1>6 DEF Moves
  <2>. HIDE DEF t
  <2>. QED BY <1>1, <1>3, <2>1, OnwardFollows
<1>. QED BY <1>2, <1>4, <1>5, <1>6

LEMMA SignalMoves ==
  ASSUME ModelInv, NEW c \in Commands, Signal(c)
  PROVE  /\ cmd[c].pid \in Pids /\ cmd[c].at \in Names
         /\ \/ /\ cmd'[c].pc \in {"idle", "read", "look"} /\ UNCHANGED <<proc, stale>>
               /\ cmd'[c].pc = "read" => cmd'[c].todo = cmd[c].todo
               /\ cmd'[c].pc # "read" => cmd[c].todo = {}
               /\ cmd'[c].pc # "idle" => cmd[c].at \in cmd'[c].missed
            \/ /\ cmd'[c].pc = "remove" /\ cmd'[c].at = cmd[c].at
               /\ cmd'[c].todo = cmd[c].todo /\ \A p \in Pids : Live(p)' => p # cmd[c].pid
         /\ \A p \in Pids : Live(p)' => Live(p) /\ proc'[p].of = proc[p].of
<1>. DEFINE q == cmd[c]
            t == [q EXCEPT !.missed = q.missed \cup {q.at}]
<1>1. /\ q \in CmdType /\ q.op \in {"unload", "swap"} /\ q.name \in Names /\ cmd \in [Commands -> CmdType]
      /\ q.todo \subseteq Scope(q) /\ q.pid \in Pids /\ q.at \in Names /\ proc \in [Pids -> ProcType]
  BY DEF ModelInv, TypeOK, CommandsOK, ShapeOK, Signal, Scope
<1>2. \/ Moves(c, Onward(t)) /\ UNCHANGED <<proc, stale>>
      \/ /\ Moves(c, [q EXCEPT !.pc = "remove", !.pid = NoPid])
         /\ proc' = [proc EXCEPT ![q.pid] = Signalled(proc[q.pid])]
  BY <1>1 DEF Signal, CmdType
<1>3. Signalled(proc[q.pid]).kind # "server" \/ Signalled(proc[q.pid]).told
  BY <1>1 DEF Signalled, ProcType, NoProcess, Process
<1>4. \A p \in Pids : Live(p)' => Live(p) /\ proc'[p].of = proc[p].of
  BY <1>1, <1>2, <1>3 DEF Live
<1>5. ASSUME Moves(c, Onward(t))
      PROVE  /\ cmd'[c].pc \in {"idle", "read", "look"}
             /\ cmd'[c].pc = "read" => cmd'[c].todo = q.todo
             /\ cmd'[c].pc # "read" => q.todo = {}
             /\ cmd'[c].pc # "idle" => q.at \in cmd'[c].missed
  <2>1. /\ t \in CmdType /\ t.op = q.op /\ t.name = q.name /\ t.todo = q.todo /\ t.todo \subseteq Scope(t)
        /\ q.at \in t.missed
    BY <1>1 DEF CmdType, Scope
  <2>2. cmd'[c] = Onward(t)
    BY <1>1, <1>5 DEF Moves
  <2>. HIDE DEF t
  <2>. QED BY <1>1, <2>1, <2>2, OnwardFollows
<1>6. ASSUME Moves(c, [q EXCEPT !.pc = "remove", !.pid = NoPid]),
             proc' = [proc EXCEPT ![q.pid] = Signalled(proc[q.pid])]
      PROVE  /\ cmd'[c].pc = "remove" /\ cmd'[c].at = q.at /\ cmd'[c].todo = q.todo
             /\ ~(proc'[q.pid].kind = "server" /\ ~proc'[q.pid].told)
  <2>1. cmd'[c] = [q EXCEPT !.pc = "remove", !.pid = NoPid]
    BY <1>1, <1>6 DEF Moves
  <2>. QED BY <1>1, <1>3, <1>6, <2>1 DEF CmdType
<1>. QED BY <1>1, <1>2, <1>4, <1>5, <1>6 DEF Live

LEMMA RemoveMoves ==
  ASSUME ModelInv, NEW c \in Commands, Remove(c)
  PROVE  /\ cmd[c].at \in Names /\ cmd'[c].pc \in {"idle", "read", "look"}
         /\ cmd'[c].pc = "read" => cmd'[c].todo = cmd[c].todo
         /\ cmd'[c].pc # "read" => cmd[c].todo = {}
<1>. DEFINE q == cmd[c]
<1>1. /\ q \in CmdType /\ q.op \in {"unload", "swap"} /\ q.name \in Names /\ cmd \in [Commands -> CmdType]
      /\ q.todo \subseteq Scope(q) /\ q.at \in Names
  BY DEF ModelInv, TypeOK, CommandsOK, ShapeOK, Remove, Scope
<1>2. cmd'[c] = Onward(q)
  BY <1>1 DEF Remove, Moves
<1>. QED BY <1>1, <1>2, OnwardFollows

(* How Look, Start and the rest of a Load go on. *)
LEMMA LoadMoves ==
  ASSUME ModelInv, NEW c \in Commands,
         Look(c) \/ Start(c) \/ Truncate(c) \/ Write(c) \/ WriteFails(c)
  PROVE  /\ cmd[c].name \in Names /\ cmd[c].name \in Scope(cmd[c])
         /\ \/ cmd'[c].pc = "idle" /\ cmd'[c].op = "none"
            \/ cmd'[c].name = cmd[c].name /\
               \/ Look(c) /\ cmd'[c].pc = "start" /\ ~Running(cmd[c].name) /\ cmd'[c].pid = NoPid
               \/ Start(c) /\ cmd'[c].pc = "truncate" /\ cmd'[c].pid \in Pids
                  /\ proc' = [proc EXCEPT ![cmd'[c].pid] = Server(cmd[c].name)]
               \/ Truncate(c) /\ cmd'[c].pc = "write" /\ cmd'[c].pid = cmd[c].pid
<1>. DEFINE q == cmd[c]
<1>1. /\ q \in CmdType /\ ShapeOK(q) /\ cmd \in [Commands -> CmdType]
      /\ q.pc \in {"look", "start", "truncate", "write"}
  BY DEF ModelInv, TypeOK, CommandsOK, Look, Start, Truncate, Write, WriteFails, Loading
<1>2. q.name \in Names /\ q.name \in Scope(q)
  BY <1>1 DEF ShapeOK, Scope
<1>3. NoCommand.pc = "idle" /\ NoCommand.op = "none"
  BY DEF NoCommand
<1>4. CASE Look(c)
  <2>1. Moves(c, NoCommand) \/ (~Running(q.name) /\ Moves(c, [q EXCEPT !.pc = "start"]))
    BY <1>4 DEF Look
  <2>2. q.pid = NoPid
    BY <1>1, <1>4 DEF Look, ShapeOK
  <2>. QED BY <1>1, <1>2, <1>3, <1>4, <2>1, <2>2 DEF Moves, CmdType
<1>5. CASE Start(c)
  <2>1. CASE Moves(c, NoCommand)
    BY <1>1, <1>2, <1>3, <2>1 DEF Moves
  <2>2. ASSUME NEW p \in Pids, proc' = [proc EXCEPT ![p] = Server(q.name)],
               Moves(c, [q EXCEPT !.pc = "truncate", !.pid = p])
        PROVE  /\ cmd'[c].name = q.name /\ cmd'[c].pc = "truncate" /\ cmd'[c].pid \in Pids
               /\ proc' = [proc EXCEPT ![cmd'[c].pid] = Server(q.name)]
    <3>1. cmd'[c] = [q EXCEPT !.pc = "truncate", !.pid = p]
      BY <1>1, <2>2 DEF Moves
    <3>2. cmd'[c].pid = p /\ cmd'[c].name = q.name /\ cmd'[c].pc = "truncate"
      BY <1>1, <3>1 DEF CmdType
    <3>. QED BY <2>2, <3>2
  <2>. QED BY <1>2, <1>5, <2>1, <2>2 DEF Start
<1>6. CASE Truncate(c)
  BY <1>1, <1>2, <1>6 DEF Truncate, Moves, CmdType
<1>7. CASE Write(c) \/ WriteFails(c)
  BY <1>1, <1>2, <1>3, <1>7 DEF Write, WriteFails, Moves
<1>. QED BY <1>4, <1>5, <1>6, <1>7

(* What a command knows of its name after its own step, one lemma for each *)
(* kind of knowledge.                                                      *)
LEMMA OwnHolder ==
  ASSUME ModelInv, NEW c \in Commands, CommandStep(c) PROVE HolderOK(cmd[c])'
<1>. DEFINE q == cmd[c]
<1>1. q \in CmdType /\ ShapeOK(q) /\ HolderOK(q) /\ cmd \in [Commands -> CmdType] /\ proc \in [Pids -> ProcType]
  BY DEF ModelInv, TypeOK, CommandsOK
<1>2. CASE Start(c)
  <2>1. CASE Moves(c, NoCommand)
    BY <1>1, <2>1 DEF Moves, NoCommand, HolderOK, Loading
  <2>2. CASE \E p \in Pids : /\ proc' = [proc EXCEPT ![p] = Server(q.name)]
                             /\ Moves(c, [q EXCEPT !.pc = "truncate", !.pid = p])
    <3>1. PICK p \in Pids : /\ proc' = [proc EXCEPT ![p] = Server(q.name)]
                           /\ Moves(c, [q EXCEPT !.pc = "truncate", !.pid = p])
      BY <2>2
    <3>2. cmd'[c].pid = p /\ cmd'[c].name = q.name /\ proc'[p] = Server(q.name)
      BY <1>1, <3>1 DEF Moves, CmdType
    <3>. QED BY <3>2 DEF HolderOK, Server
  <2>. QED BY <1>2, <2>1, <2>2 DEF Start
<1>3. CASE Truncate(c)
  <2>1. cmd'[c].pid = q.pid /\ cmd'[c].name = q.name /\ proc' = proc /\ Loading(q)
    BY <1>1, <1>3 DEF Truncate, Moves, CmdType, Loading
  <2>. QED BY <1>1, <2>1 DEF HolderOK
<1>4. ASSUME ~Start(c), ~Truncate(c) PROVE ~Loading(cmd'[c])
  <2>1. CASE Write(c) \/ WriteFails(c)
    BY <1>1, <2>1 DEF Write, WriteFails, Moves, NoCommand, Loading
  <2>2. CASE Look(c)
    BY <1>1, <2>2 DEF Look, Moves, NoCommand, Loading, CmdType
  <2>3. CASE Remove(c)
    BY <1>1, <2>3, OnwardFollows DEF Remove, ShapeOK, Moves, Loading
  <2>4. CASE Signal(c)
    BY <2>4, SignalMoves DEF Loading
  <2>5. CASE Read(c)
    BY <1>1, <2>5, ReadMoves DEF Loading
  <2>6. CASE List(c)
    BY <1>1, <2>6, ListMoves DEF Loading
  <2>. QED BY <1>4, <2>1, <2>2, <2>3, <2>4, <2>5, <2>6 DEF CommandStep
<1>5. ~Loading(cmd'[c]) => HolderOK(cmd[c])'
  BY DEF HolderOK, Loading
<1>. QED BY <1>2, <1>3, <1>4, <1>5
(* A command finds a name's server not running only when no server of the  *)
(* name runs on, and its PID file is then out of date.                     *)
LEMMA OwnLoader ==
  ASSUME ModelInv, NEW c \in Commands, CommandStep(c) PROVE LoaderOK(cmd[c])'
<1>. DEFINE q == cmd[c]
            n == q.name
<1>1. clash' = clash /\ LoaderOK(q) /\ proc \in [Pids -> ProcType] /\ pidfile \in [Names -> Pids \cup {"absent", "empty"}]
  BY StepFollows DEF ModelInv, TypeOK, CommandsOK
<1>2. SUFFICES ASSUME cmd'[c].pc \in {"start", "truncate", "write"}, cmd'[c].name \notin clash
               PROVE  /\ \A p \in Pids : Live(p)' /\ proc'[p].of = cmd'[c].name => p = cmd'[c].pid
                      /\ pidfile'[cmd'[c].name] \in Pids => cmd'[c].name \in stale' /\ cmd'[c].pc # "write"
  BY <1>1 DEF LoaderOK
<1>3. Look(c) \/ Start(c) \/ Truncate(c) \/ Write(c) \/ WriteFails(c)
  BY <1>2, ListMoves, ReadMoves, SignalMoves, RemoveMoves DEF CommandStep
<1>4. n \in Names /\ n \in Scope(q) /\ cmd'[c].name = n
  BY <1>2, <1>3, LoadMoves
<1>5. CASE cmd'[c].pc = "start"
  <2>1. Look(c) /\ ~Running(n)
    BY <1>3, <1>5, LoadMoves
  <2>2. UNCHANGED <<pidfile, proc, stale>> /\ q.pc = "look"
    BY <2>1 DEF Look
  <2>3. \A d \in Commands : d # c => n \notin Scope(cmd[d])
    BY <1>2, <1>4 DEF ModelInv, Exclusive
  <2>4. ASSUME NEW p \in Pids, Live(p), proc[p].of = n PROVE FALSE
    <3>1. pidfile[n] = p
      BY <1>2, <1>4, <2>2, <2>3, <2>4, InItsFile DEF Loading
    <3>. QED BY <2>1, <2>4, <3>1 DEF Running, Live
  <2>5. ASSUME pidfile[n] \in Pids, n \notin stale PROVE FALSE
    <3>1. OwnServer(pidfile[n], n) \/ \E d \in Commands : cmd[d].pc = "remove" /\ cmd[d].at = n
      BY <1>2, <1>4, <2>5 DEF ModelInv, FilesNameServers
    <3>2. ~OwnServer(pidfile[n], n)
      BY <2>1, <2>5 DEF Running, OwnServer, Server
    <3>3. \A d \in Commands : cmd[d].pc = "remove" => cmd[d].at \in Scope(cmd[d]) /\ d # c
      BY <2>2 DEF ModelInv, CommandsOK, ShapeOK
    <3>. QED BY <2>3, <3>1, <3>2, <3>3
  <2>6. \A p \in Pids : Live(p)' <=> Live(p)
    BY <2>2 DEF Live
  <2>. QED BY <1>4, <1>5, <2>2, <2>4, <2>5, <2>6
<1>6. CASE cmd'[c].pc = "truncate"
  <2>1. /\ Start(c) /\ cmd'[c].pid \in Pids /\ proc' = [proc EXCEPT ![cmd'[c].pid] = Server(n)]
    BY <1>3, <1>6, LoadMoves
  <2>2. UNCHANGED <<pidfile, stale>> /\ q.pc = "start" /\ q.pid = NoPid
    BY <2>1 DEF Start, ModelInv, CommandsOK, ShapeOK
  <2>3. \A p \in Pids : Live(p) => proc[p].of # n
    BY <1>1, <1>2, <1>4, <2>2, PidsAssumption DEF LoaderOK
  <2>4. ASSUME NEW p \in Pids, p # cmd'[c].pid PROVE Live(p)' => Live(p) /\ proc'[p].of = proc[p].of
    BY <1>1, <2>1, <2>4 DEF Live
  <2>5. pidfile[n] \in Pids => n \in stale
    BY <1>1, <1>2, <1>4, <2>2 DEF LoaderOK
  <2>. QED BY <1>4, <1>6, <2>2, <2>3, <2>4, <2>5
<1>7. CASE cmd'[c].pc = "write"
  <2>1. Truncate(c) /\ cmd'[c].pid = q.pid
    BY <1>3, <1>7, LoadMoves
  <2>2. UNCHANGED proc /\ q.pc = "truncate" /\ pidfile' = [pidfile EXCEPT ![n] = "empty"]
    BY <2>1 DEF Truncate
  <2>3. \A p \in Pids : Live(p)' <=> Live(p)
    BY <2>2 DEF Live
  <2>4. pidfile'[n] \notin Pids
    BY <1>1, <1>4, <2>2, PidsAssumption
  <2>. QED BY <1>1, <1>2, <1>4, <2>1, <2>2, <2>3, <2>4 DEF LoaderOK
<1>. QED BY <1>2, <1>5, <1>6, <1>7

(* The SIGTERM that ends an Unload goes to the one server of its name.     *)
LEMMA OwnUnloader ==
  ASSUME ModelInv, NEW c \in Commands, CommandStep(c) PROVE UnloaderOK(cmd[c])'
<1>. DEFINE q == cmd[c]
<1>1. clash' = clash /\ UnloaderOK(q)
  BY StepFollows DEF ModelInv, CommandsOK
<1>2. SUFFICES ASSUME cmd'[c].pc \in {"signal", "remove"}, cmd'[c].at \notin clash
               PROVE  /\ cmd'[c].pc = "signal" => pidfile'[cmd'[c].at] = cmd'[c].pid
                      /\ cmd'[c].pc = "remove" => \A p \in Pids : ~(Live(p)' /\ proc'[p].of = cmd'[c].at)
  BY <1>1 DEF UnloaderOK
<1>3. Read(c) \/ Signal(c)
  BY <1>2, ListMoves, RemoveMoves, LoadMoves DEF CommandStep
<1>4. CASE Read(c)
  <2>1. cmd'[c].pc = "signal" /\ pidfile[cmd'[c].at] = cmd'[c].pid
    BY <1>2, <1>4, ReadMoves
  <2>. QED BY <1>4, <2>1 DEF Read
<1>5. CASE Signal(c)
  <2>1. cmd'[c].pc = "remove" /\ cmd'[c].at = q.at /\ q.at \in Names /\ q.pc = "signal"
    BY <1>2, <1>5, SignalMoves DEF Signal
  <2>2. \A d \in Commands : d # c => q.at \notin Scope(cmd[d])
    BY <1>2, <2>1 DEF ModelInv, Exclusive, CommandsOK, ShapeOK
  <2>3. ASSUME NEW p \in Pids, Live(p)', proc'[p].of = q.at PROVE FALSE
    <3>1. Live(p) /\ proc[p].of = q.at /\ p # q.pid
      BY <1>5, <2>1, <2>3, SignalMoves
    <3>2. pidfile[q.at] = p
      BY <1>2, <2>1, <2>2, <3>1, InItsFile DEF Loading
    <3>. QED BY <1>1, <1>2, <2>1, <3>1, <3>2 DEF UnloaderOK
  <2>. QED BY <2>1, <2>3
<1>. QED BY <1>3, <1>4, <1>5
(* An undisturbed Swap passes no server by: what is not on its list was    *)
(* told to end, or is in no file, so that it does not run on.              *)
LEMMA OwnSwap ==
  ASSUME ModelInv, NEW c \in Commands, CommandStep(c) PROVE SwapOK(cmd[c])'
<1>. DEFINE q == cmd[c]
<1>1. clash' = clash /\ SwapOK(q) /\ ShapeOK(q) /\ UnloaderOK(q) /\ Follows(q, cmd'[c])
      /\ proc \in [Pids -> ProcType]
  BY StepFollows DEF ModelInv, TypeOK, CommandsOK
<1>2. SUFFICES ASSUME cmd'[c].op = "swap", cmd'[c].alone, NEW p \in Pids, Live(p)',
                      proc'[p].of \notin clash \cup cmd'[c].missed
               PROVE  Listed(cmd[c], p)'
  BY <1>1 DEF SwapOK
<1>3. q.op = "swap" /\ q.alone /\ q.missed \subseteq cmd'[c].missed /\ \A d \in Commands : d # c => cmd[d].pc = "idle"
  BY <1>1, <1>2 DEF Follows, ModelInv, Exclusive
<1>4. ASSUME Live(p), proc[p].of \notin clash, ~Loading(q)
      PROVE  proc[p].of \in Names /\ pidfile[proc[p].of] = p /\ Running(proc[p].of)
  <2>1. proc[p].of \in Names /\ pidfile[proc[p].of] = p
    BY <1>3, <1>4, InItsFile DEF Loading
  <2>. QED BY <1>4, <2>1 DEF Running, Live
<1>5. Live(p) /\ proc[p].of \notin clash \cup q.missed => Listed(q, p)
  BY <1>1, <1>3 DEF SwapOK
<1>6. UNCHANGED proc => Live(p) /\ proc[p].of \notin clash \cup q.missed /\ proc'[p].of = proc[p].of
  BY <1>2, <1>3 DEF Live
<1>14. cmd'[c].pc # "idle"
  BY <1>1, <1>2 DEF Follows, ShapeOK
<1>7. CASE List(c)
  <2>1. UNCHANGED proc /\ ~Loading(q)
    BY <1>7 DEF List, Loading
  <2>2. proc'[p].of \in {n \in Names : Running(n)}
    BY <1>4, <1>6, <2>1
  <2>. QED BY <1>2, <1>7, <1>14, <2>2, ListMoves DEF Listed
<1>8. CASE Read(c)
  <2>1. UNCHANGED proc /\ ~Loading(q) /\ q.pc = "read"
    BY <1>8 DEF Read, Loading
  <2>2. proc'[p].of \in q.todo /\ pidfile[proc'[p].of] \in Pids
    BY <1>4, <1>5, <1>6, <2>1 DEF Listed
  <2>. QED BY <1>2, <1>8, <1>14, <2>2, ReadMoves DEF Listed
<1>9. CASE Signal(c)
  <2>1. Live(p) /\ proc'[p].of = proc[p].of /\ ~Loading(q) /\ q.pc = "signal"
    BY <1>2, <1>9, SignalMoves DEF Signal, Loading
  <2>2. proc[p].of \in q.todo \cup {q.at} /\ pidfile[proc[p].of] = p
    BY <1>2, <1>3, <1>4, <1>5, <2>1 DEF Listed
  <2>3. cmd'[c].pc = "remove" => proc[p].of # q.at
    BY <1>1, <1>2, <1>9, <2>1, <2>2, SignalMoves DEF UnloaderOK
  <2>4. cmd'[c].pc # "remove" => proc[p].of # q.at
    BY <1>2, <1>9, <1>14, <2>1, SignalMoves
  <2>. QED BY <1>9, <2>1, <2>2, <2>3, <2>4, SignalMoves DEF Listed
<1>10. CASE Remove(c)
  <2>1. UNCHANGED proc /\ q.pc = "remove"
    BY <1>10 DEF Remove
  <2>2. proc'[p].of \in q.todo
    BY <1>5, <1>6, <2>1 DEF Listed
  <2>. QED BY <1>10, <2>2, RemoveMoves DEF Listed
<1>11. CASE Look(c) \/ Truncate(c)
  <2>1. UNCHANGED proc /\ q.pc \in {"look", "truncate"} /\ (q.pc = "look" => q.pid = NoPid)
    BY <1>1, <1>11 DEF Look, Truncate, ShapeOK
  <2>2. p = q.pid
    BY <1>5, <1>6, <2>1 DEF Listed
  <2>3. q.pc = "truncate" /\ Truncate(c)
    BY <1>11, <2>1, <2>2, PidsAssumption DEF Look
  <2>4. cmd'[c].pid = q.pid /\ cmd'[c].pc = "write"
    BY <1>2, <2>3, LoadMoves DEF Look, Start, Truncate
  <2>. QED BY <2>2, <2>4 DEF Listed
<1>12. CASE Start(c)
  <2>1. q.pc = "start" /\ q.pid = NoPid
    BY <1>1, <1>12 DEF Start, ShapeOK
  <2>2. ~(Live(p) /\ proc[p].of \notin clash \cup q.missed)
    BY <1>5, <2>1, PidsAssumption DEF Listed
  <2>3. cmd'[c].pc = "truncate" /\ proc' = [proc EXCEPT ![cmd'[c].pid] = Server(q.name)]
    BY <1>2, <1>12, LoadMoves DEF Look, Start, Truncate
  <2>4. p = cmd'[c].pid
    BY <1>1, <1>2, <1>3, <2>2, <2>3 DEF Live
  <2>. QED BY <2>3, <2>4 DEF Listed
<1>13. CASE Write(c) \/ WriteFails(c)
  <2>1. q.pc \in {"truncate", "write"} /\ cmd' = [cmd EXCEPT ![c] = NoCommand]
    BY <1>13 DEF Write, WriteFails, Moves, Loading
  <2>2. cmd'[c].op = "none"
    BY <2>1 DEF ModelInv, TypeOK, NoCommand
  <2>. QED BY <1>2, <2>2
<1>. QED BY <1>7, <1>8, <1>9, <1>10, <1>11, <1>12, <1>13 DEF CommandStep

(* No step of a command loses a server. *)
LEMMA NothingLostKept ==
  ASSUME ModelInv, NEW c \in Commands, CommandStep(c) PROVE NothingLost'
<1>. DEFINE q == cmd[c]
<1>1. /\ clash' = clash /\ LoaderOK(q) /\ UnloaderOK(q) /\ ShapeOK(q) /\ HolderOK(q) /\ Effects(c)
      /\ pidfile \in [Names -> Pids \cup {"absent", "empty"}] /\ proc \in [Pids -> ProcType]
  BY StepFollows, StepEffects DEF ModelInv, TypeOK, CommandsOK
<1>2. SUFFICES ASSUME NEW p \in Pids, Live(p)', proc'[p].of \notin clash
               PROVE  pidfile'[proc'[p].of] = p \/ Held(p)'
  BY <1>1 DEF NothingLost
<1>3. Loading(cmd'[c]) /\ cmd'[c].pid = p => Held(p)'
  BY DEF Held, Loading
<1>4. ASSUME NEW d \in Commands, d # c, Loading(cmd[d]), cmd[d].pid = p PROVE Held(p)'
  BY <1>4, OthersKept DEF Held, Loading
<1>5. CASE ~Kept(p)
  BY <1>1, <1>3, <1>5 DEF Effects
<1>6. CASE Kept(p)
  <2>1. Live(p) /\ proc'[p].of = proc[p].of
    BY <1>2, <1>6 DEF Kept, Live
  <2>. DEFINE n == proc[p].of
  <2>2. n \in Names /\ n \notin clash
    BY <1>2, <2>1, InItsFile
  <2>3. CASE pidfile[n] = p /\ pidfile'[n] # p
    <3>1. Remove(c) \/ Truncate(c) \/ Write(c)
      BY <2>3 DEF CommandStep, List, Read, Signal, Look, Start, WriteFails
    <3>2. ~Remove(c)
      <4>1. Remove(c) => q.pc = "remove" /\ n = q.at
        BY <1>1, <2>2, <2>3 DEF Remove
      <4>. QED BY <1>1, <2>1, <2>2, <4>1 DEF UnloaderOK
    <3>3. q.pc \in {"truncate", "write"} /\ n = q.name
      BY <1>1, <2>2, <2>3, <3>1, <3>2 DEF Truncate, Write
    <3>4. p = q.pid
      BY <1>1, <2>1, <2>2, <3>3 DEF LoaderOK
    <3>5. CASE Truncate(c)
      <4>1. cmd'[c].pid = p /\ cmd'[c].pc = "write"
        BY <3>4, <3>5 DEF Truncate, Moves, ModelInv, TypeOK, CmdType
      <4>. QED BY <1>3, <4>1 DEF Loading
    <3>6. CASE Write(c)
      BY <1>1, <2>1, <2>2, <3>3, <3>4, <3>6 DEF Write
    <3>. QED BY <3>1, <3>2, <3>5, <3>6
  <2>4. CASE Loading(q) /\ q.pid = p
    <3>1. n = q.name
      BY <1>1, <2>1, <2>4 DEF HolderOK, Live
    <3>2. CASE Truncate(c)
      <4>1. cmd'[c].pid = p /\ cmd'[c].pc = "write"
        BY <2>4, <3>2 DEF Truncate, Moves, ModelInv, TypeOK, CmdType
      <4>. QED BY <1>3, <4>1 DEF Loading
    <3>3. CASE Write(c)
      BY <1>1, <2>1, <2>2, <2>4, <3>1, <3>3 DEF Write
    <3>4. ~WriteFails(c)
      <4>1. WriteFails(c) => proc'[p].kind = "none"
        BY <1>1, <2>4 DEF WriteFails, NoProcess, Process
      <4>. QED BY <1>2, <4>1 DEF Live
    <3>. QED BY <2>4, <3>2, <3>3, <3>4 DEF CommandStep, Loading, List, Read, Signal, Remove, Look, Start
  <2>5. CASE Held(p) /\ ~(Loading(q) /\ q.pid = p)
    BY <1>4, <2>5 DEF Held
  <2>6. pidfile[n] = p \/ Held(p)
    BY <2>1, <2>2 DEF ModelInv, NothingLost
  <2>. QED BY <2>1, <2>3, <2>4, <2>5, <2>6
<1>. QED BY <1>5, <1>6
(* A PID file that names its server goes on to, or the name is recorded as *)
(* one whose file may be out of date.                                      *)
LEMMA FilesKept ==
  ASSUME ModelInv, NEW c \in Commands, CommandStep(c) PROVE FilesNameServers'
<1>. DEFINE q == cmd[c]
<1>1. /\ clash' = clash /\ LoaderOK(q) /\ ShapeOK(q) /\ HolderOK(q)
      /\ pidfile \in [Names -> Pids \cup {"absent", "empty"}] /\ proc \in [Pids -> ProcType]
      /\ cmd \in [Commands -> CmdType]
  BY StepFollows DEF ModelInv, TypeOK, CommandsOK
<1>2. SUFFICES ASSUME NEW n \in Names, n \notin clash, n \notin stale', pidfile'[n] \in Pids
               PROVE  \/ OwnServer(pidfile[n], n)'
                      \/ \E d \in Commands : cmd'[d].pc = "remove" /\ cmd'[d].at = n
  BY <1>1 DEF FilesNameServers
<1>3. ASSUME NEW d \in Commands, d # c, cmd[d].pc = "remove", cmd[d].at = n
      PROVE  \E e \in Commands : cmd'[e].pc = "remove" /\ cmd'[e].at = n
  BY <1>3, OthersKept
<1>4. ASSUME pidfile[n] \in Pids, n \notin stale, q.pc # "remove" \/ q.at # n
      PROVE  \/ OwnServer(pidfile[n], n)
             \/ \E e \in Commands : cmd'[e].pc = "remove" /\ cmd'[e].at = n
  <2>1. OwnServer(pidfile[n], n) \/ \E d \in Commands : cmd[d].pc = "remove" /\ cmd[d].at = n
    BY <1>2, <1>4 DEF ModelInv, FilesNameServers
  <2>. QED BY <1>3, <1>4, <2>1
<1>5. CASE List(c) \/ Read(c) \/ Look(c)
  <2>1. UNCHANGED <<pidfile, proc, stale>> /\ q.pc # "remove"
    BY <1>5 DEF List, Read, Look
  <2>. QED BY <1>2, <1>4, <2>1 DEF OwnServer
<1>12. CASE Signal(c) /\ UNCHANGED <<proc, stale>>
  <2>1. UNCHANGED pidfile /\ q.pc = "signal"
    BY <1>12 DEF Signal
  <2>. QED BY <1>2, <1>4, <1>12, <2>1 DEF OwnServer
<1>6. CASE Signal(c) /\ ~UNCHANGED <<proc, stale>>
  <2>1. /\ UNCHANGED pidfile /\ q.pc = "signal" /\ q.pid \in Pids
        /\ proc' = [proc EXCEPT ![q.pid] = Signalled(proc[q.pid])]
        /\ stale' = IF proc[q.pid].kind = "server" /\ proc[q.pid].of # q.at
                    THEN stale \cup {proc[q.pid].of} ELSE stale
    BY <1>1, <1>6 DEF Signal, ShapeOK
  <2>2. n \notin stale
    BY <1>2, <2>1
  <2>3. CASE OwnServer(pidfile[n], n) /\ pidfile[n] = q.pid
    <3>1. proc[q.pid].kind = "server" /\ proc[q.pid].of = n
      BY <2>3 DEF OwnServer, Server
    <3>2. q.at = n
      BY <1>2, <2>1, <3>1
    <3>3. cmd'[c].pc = "remove" /\ cmd'[c].at = n
      BY <1>6, <3>1, <3>2, SignalMoves
    <3>. QED BY <3>3
  <2>4. CASE OwnServer(pidfile[n], n) /\ pidfile[n] # q.pid
    BY <1>1, <1>2, <2>1, <2>4 DEF OwnServer
  <2>. QED BY <1>2, <1>4, <2>1, <2>2, <2>3, <2>4
<1>7. CASE Remove(c)
  <2>1. UNCHANGED proc /\ q.at \in Names
    BY <1>7, RemoveMoves DEF Remove
  <2>2. CASE n = q.at
    BY <1>1, <1>2, <1>7, <2>2, PidsAssumption DEF Remove
  <2>3. CASE n # q.at
    <3>1. pidfile'[n] = pidfile[n] /\ n \notin stale
      BY <1>1, <1>2, <1>7, <2>1, <2>3 DEF Remove
    <3>. QED BY <1>2, <1>4, <2>1, <2>3, <3>1 DEF OwnServer
  <2>. QED BY <2>2, <2>3
<1>8. CASE Start(c)
  <2>1. UNCHANGED <<pidfile, stale>> /\ q.pc = "start"
    BY <1>8 DEF Start
  <2>2. ASSUME OwnServer(pidfile[n], n) PROVE OwnServer(pidfile[n], n)'
    <3>1. proc[pidfile[n]].kind = "server"
      BY <2>2 DEF OwnServer, Server
    <3>2. proc'[pidfile[n]] = proc[pidfile[n]]
      BY <1>1, <1>2, <1>8, <2>1, <3>1 DEF Start, Free
    <3>. QED BY <2>1, <2>2, <3>2 DEF OwnServer
  <2>. QED BY <1>2, <1>4, <2>1, <2>2
<1>9. CASE Truncate(c)
  <2>1. UNCHANGED <<proc, stale>> /\ q.pc = "truncate" /\ pidfile' = [pidfile EXCEPT ![q.name] = "empty"]
    BY <1>9 DEF Truncate
  <2>2. pidfile'[n] = pidfile[n]
    BY <1>1, <1>2, <2>1, PidsAssumption
  <2>. QED BY <1>2, <1>4, <2>1, <2>2 DEF OwnServer
<1>10. CASE Write(c)
  <2>1. /\ UNCHANGED proc /\ q.pc = "write" /\ pidfile' = [pidfile EXCEPT ![q.name] = q.pid]
        /\ stale' = IF OwnServer(q.pid, q.name) THEN stale \ {q.name} ELSE stale \cup {q.name}
    BY <1>10 DEF Write
  <2>2. CASE n = q.name
    BY <1>1, <1>2, <2>1, <2>2 DEF OwnServer
  <2>3. CASE n # q.name
    <3>1. pidfile'[n] = pidfile[n] /\ n \notin stale
      BY <1>1, <1>2, <2>1, <2>3
    <3>. QED BY <1>2, <1>4, <2>1, <3>1 DEF OwnServer
  <2>. QED BY <2>2, <2>3
<1>11. CASE WriteFails(c)
  <2>1. /\ UNCHANGED <<pidfile, stale>> /\ q.pc \in {"truncate", "write"} /\ Loading(q)
        /\ proc' = [proc EXCEPT ![q.pid] = NoProcess]
    BY <1>11 DEF WriteFails, Loading
  <2>2. ASSUME OwnServer(pidfile[n], n) PROVE pidfile[n] # q.pid
    <3>1. SUFFICES ASSUME pidfile[n] = q.pid PROVE FALSE
      OBVIOUS
    <3>2. n = q.name
      BY <1>1, <2>1, <2>2, <3>1 DEF HolderOK, OwnServer, Server
    <3>. QED BY <1>1, <1>2, <2>1, <3>2 DEF LoaderOK
  <2>. QED BY <1>1, <1>2, <1>4, <2>1, <2>2 DEF OwnServer
<1>. QED BY <1>5, <1>6, <1>7, <1>8, <1>9, <1>10, <1>11, <1>12 DEF CommandStep

LEMMA CommandStepKept ==
  ASSUME ModelInv, NEW c \in Commands, CommandStep(c) PROVE ModelInv'
<1>1. ASSUME NEW d \in Commands
      PROVE  (ShapeOK(cmd[d]) /\ HolderOK(cmd[d]) /\ LoaderOK(cmd[d]) /\ UnloaderOK(cmd[d]) /\ SwapOK(cmd[d]))'
  <2>1. CASE d = c
    BY <2>1, StepFollows, OwnHolder, OwnLoader, OwnUnloader, OwnSwap DEF Follows
  <2>2. CASE d # c
    BY <2>2, OthersKept
  <2>. QED BY <2>1, <2>2
<1>2. CommandsOK'
  BY <1>1 DEF CommandsOK
<1>. QED BY <1>2, StepEffects, ExclusiveKept, NothingLostKept, FilesKept DEF ModelInv

LEMMA BeginKept ==
  ASSUME ModelInv, NEW c \in Commands, NEW op \in {"load", "unload", "swap"}, NEW n \in Names,
         Begin(c, op, n)
  PROVE  ModelInv'
<1>. DEFINE r == Started(op, n, \A d \in Commands \ {c} : cmd[d].pc = "idle")
<1>1. /\ cmd \in [Commands -> CmdType] /\ UNCHANGED <<pidfile, proc, stale>> /\ cmd[c].pc = "idle"
      /\ cmd' = [d \in Commands |-> IF d = c THEN r ELSE [cmd[d] EXCEPT !.alone = FALSE]]
      /\ clash' = clash \cup {m \in Scope(r) : \E d \in Commands \ {c} : m \in Scope(cmd[d])}
  BY DEF ModelInv, TypeOK, Begin
<1>2. /\ r \in CmdType /\ r.op = op /\ r.name = n /\ r.pc \in {"look", "read", "list"}
      /\ r.alone <=> \A d \in Commands \ {c} : cmd[d].pc = "idle"
      /\ r.pc = "look" <=> op = "load"
      /\ r.pc = "list" <=> op = "swap"
      /\ r.pid = NoPid /\ r.todo \subseteq Scope(r)
  BY DEF Started, NoCommand, CmdType, Scope
<1>3. ShapeOK(r) /\ Scope(r) \subseteq Names
  BY <1>2 DEF ShapeOK, Scope
<1>4. ASSUME NEW d \in Commands, d # c
      PROVE  /\ cmd'[d] \in CmdType /\ ~cmd'[d].alone /\ cmd'[d].op = cmd[d].op /\ cmd'[d].name = cmd[d].name
             /\ cmd'[d].pc = cmd[d].pc /\ cmd'[d].todo = cmd[d].todo /\ cmd'[d].at = cmd[d].at
             /\ cmd'[d].pid = cmd[d].pid /\ Scope(cmd'[d]) = Scope(cmd[d])
  BY <1>1, <1>4 DEF CmdType, Scope
<1>. HIDE DEF r
<1>5. cmd'[c] = r /\ clash \subseteq clash' /\ clash' \in SUBSET Names
  BY <1>1, <1>3 DEF ModelInv, TypeOK
<1>6. TypeOK'
  <2>1. cmd' \in [Commands -> CmdType]
    BY <1>1, <1>2, <1>4, <1>5
  <2>. QED BY <1>1, <1>5, <2>1 DEF ModelInv, TypeOK
<1>7. Exclusive'
  <2>1. SUFFICES ASSUME NEW a \in Commands, NEW d \in Commands, a # d
                 PROVE  /\ \A m \in Names : m \in Scope(cmd'[a]) /\ m \in Scope(cmd'[d]) => m \in clash'
                        /\ cmd'[a].alone => cmd'[d].pc = "idle"
    BY DEF Exclusive, Scope
  <2>2. \A m \in Names : m \in Scope(cmd[a]) /\ m \in Scope(cmd[d]) => m \in clash
    BY <2>1 DEF ModelInv, Exclusive
  <2>3. CASE a = c
    BY <1>1, <1>2, <1>4, <1>5, <2>1, <2>3
  <2>4. CASE d = c
    BY <1>1, <1>4, <1>5, <2>1, <2>4
  <2>5. CASE a # c /\ d # c
    BY <1>4, <1>5, <2>2, <2>5
  <2>. QED BY <2>3, <2>4, <2>5
<1>8. \A p \in Pids : (Live(p)' <=> Live(p)) /\ (Held(p) => Held(p)')
  <2>1. \A d \in Commands : Loading(cmd[d]) => d # c
    BY <1>1 DEF Loading
  <2>. QED BY <1>1, <1>4, <2>1 DEF Live, Held, Loading
<1>9. CommandsOK'
  <2>1. HolderOK(cmd[c])' /\ LoaderOK(cmd[c])' /\ UnloaderOK(cmd[c])' /\ SwapOK(cmd[c])'
    BY <1>2, <1>5 DEF HolderOK, Loading, LoaderOK, UnloaderOK, SwapOK, Listed
  <2>2. ASSUME NEW d \in Commands, d # c
        PROVE  ShapeOK(cmd'[d]) /\ HolderOK(cmd[d])' /\ LoaderOK(cmd[d])' /\ UnloaderOK(cmd[d])' /\ SwapOK(cmd[d])'
    <3>1. ShapeOK(cmd[d]) /\ HolderOK(cmd[d]) /\ LoaderOK(cmd[d]) /\ UnloaderOK(cmd[d])
      BY DEF ModelInv, CommandsOK
    <3>2. ShapeOK(cmd'[d])
      BY <1>4, <2>2, <3>1 DEF ShapeOK
    <3>3. HolderOK(cmd[d])'
      BY <1>1, <1>4, <2>2, <3>1 DEF HolderOK, Loading
    <3>4. LoaderOK(cmd[d])'
      BY <1>1, <1>4, <1>5, <1>8, <2>2, <3>1 DEF LoaderOK
    <3>5. UnloaderOK(cmd[d])'
      BY <1>1, <1>4, <1>5, <1>8, <2>2, <3>1 DEF UnloaderOK
    <3>6. SwapOK(cmd[d])'
      BY <1>4, <2>2 DEF SwapOK
    <3>. QED BY <3>2, <3>3, <3>4, <3>5, <3>6
  <2>. QED BY <1>3, <1>5, <2>1, <2>2 DEF CommandsOK
<1>10. NothingLost'
  BY <1>1, <1>5, <1>8 DEF ModelInv, NothingLost
<1>11. FilesNameServers'
  <2>1. SUFFICES ASSUME NEW m \in Names, m \notin clash', m \notin stale, pidfile[m] \in Pids
                 PROVE  OwnServer(pidfile[m], m) \/ \E d \in Commands : cmd'[d].pc = "remove" /\ cmd'[d].at = m
    BY <1>1 DEF FilesNameServers, OwnServer
  <2>2. OwnServer(pidfile[m], m) \/ \E d \in Commands : cmd[d].pc = "remove" /\ cmd[d].at = m
    BY <1>5, <2>1 DEF ModelInv, FilesNameServers
  <2>. QED BY <1>1, <1>4, <2>2
<1>. QED BY <1>6, <1>7, <1>9, <1>10, <1>11 DEF ModelInv

(* A Load that overlooks its model's server records the name.              *)
LEMMA OverlookKept ==
  ASSUME ModelInv, NEW c \in Commands, Overlook(c)
  PROVE  ModelInv'
<1>. DEFINE q == cmd[c]
            r == [q EXCEPT !.pc = "start"]
<1>1. /\ cmd \in [Commands -> CmdType] /\ UNCHANGED <<pidfile, proc, stale>> /\ cmd' = [cmd EXCEPT ![c] = r]
      /\ clash' = clash \cup {q.name} /\ q.pc = "look" /\ q \in CmdType /\ ShapeOK(q) /\ SwapOK(q)
  BY DEF ModelInv, TypeOK, CommandsOK, Overlook, Moves
<1>2. /\ cmd'[c] = r /\ clash \subseteq clash' /\ q.name \in clash'
      /\ \A d \in Commands : d # c => cmd'[d] = cmd[d]
  BY <1>1
<1>3. /\ r \in CmdType /\ ShapeOK(r) /\ r.pc = "start" /\ r.op = q.op /\ r.name = q.name /\ r.pid = q.pid
      /\ r.alone = q.alone /\ r.missed = q.missed /\ Scope(r) = Scope(q) /\ q.name \in Names
  BY <1>1 DEF CmdType, ShapeOK, Scope
<1>. HIDE DEF r
<1>4. \A p \in Pids : Live(p)' <=> Live(p)
  BY <1>1 DEF Live
<1>5. ASSUME NEW d \in Commands
      PROVE  /\ Scope(cmd'[d]) = Scope(cmd[d]) /\ (cmd'[d].alone <=> cmd[d].alone)
             /\ (cmd'[d].pc = "idle" <=> cmd[d].pc = "idle") /\ cmd'[d].pid = cmd[d].pid
             /\ (Loading(cmd'[d]) <=> Loading(cmd[d]))
             /\ (cmd[d].pc = "remove" => cmd'[d] = cmd[d])
  BY <1>1, <1>2, <1>3 DEF Loading
<1>6. TypeOK'
  <2>1. cmd' \in [Commands -> CmdType]
    BY <1>1, <1>3
  <2>. QED BY <1>1, <1>3, <2>1 DEF ModelInv, TypeOK
<1>7. Exclusive'
  <2>1. SUFFICES ASSUME NEW a \in Commands, NEW d \in Commands, a # d
                 PROVE  /\ \A m \in Names : m \in Scope(cmd'[a]) /\ m \in Scope(cmd'[d]) => m \in clash'
                        /\ cmd'[a].alone => cmd'[d].pc = "idle"
    BY DEF Exclusive, Scope
  <2>2. /\ \A m \in Names : m \in Scope(cmd[a]) /\ m \in Scope(cmd[d]) => m \in clash
        /\ cmd[a].alone => cmd[d].pc = "idle"
    BY <2>1 DEF ModelInv, Exclusive
  <2>. QED BY <1>2, <1>5, <2>2
<1>8. CommandsOK'
  <2>1. HolderOK(cmd[c])' /\ LoaderOK(cmd[c])' /\ UnloaderOK(cmd[c])'
    BY <1>2, <1>3 DEF HolderOK, Loading, LoaderOK, UnloaderOK
  <2>2. SwapOK(cmd[c])'
    BY <1>1, <1>2, <1>3, <1>4 DEF SwapOK, Listed
  <2>3. ASSUME NEW d \in Commands, d # c
        PROVE  ShapeOK(cmd'[d]) /\ HolderOK(cmd[d])' /\ LoaderOK(cmd[d])' /\ UnloaderOK(cmd[d])' /\ SwapOK(cmd[d])'
    <3>1. ShapeOK(cmd[d]) /\ HolderOK(cmd[d]) /\ LoaderOK(cmd[d]) /\ UnloaderOK(cmd[d]) /\ SwapOK(cmd[d])
      BY DEF ModelInv, CommandsOK
    <3>2. HolderOK(cmd[d])'
      BY <1>1, <1>2, <2>3, <3>1 DEF HolderOK, Loading
    <3>3. LoaderOK(cmd[d])'
      BY <1>1, <1>2, <1>4, <2>3, <3>1 DEF LoaderOK
    <3>4. UnloaderOK(cmd[d])'
      BY <1>1, <1>2, <1>4, <2>3, <3>1 DEF UnloaderOK
    <3>5. SwapOK(cmd[d])'
      BY <1>1, <1>2, <1>4, <2>3, <3>1 DEF SwapOK, Listed
    <3>. QED BY <1>2, <2>3, <3>1, <3>2, <3>3, <3>4, <3>5
  <2>. QED BY <1>2, <1>3, <2>1, <2>2, <2>3 DEF CommandsOK
<1>9. NothingLost'
  <2>1. SUFFICES ASSUME NEW p \in Pids, Live(p), proc[p].of \notin clash'
                 PROVE  pidfile[proc[p].of] = p \/ Held(p)'
    BY <1>1, <1>4 DEF NothingLost
  <2>2. pidfile[proc[p].of] = p \/ Held(p)
    BY <1>2, <2>1 DEF ModelInv, NothingLost
  <2>. QED BY <1>5, <2>2 DEF Held, Loading
<1>10. FilesNameServers'
  <2>1. SUFFICES ASSUME NEW m \in Names, m \notin clash', m \notin stale, pidfile[m] \in Pids
                 PROVE  OwnServer(pidfile[m], m) \/ \E d \in Commands : cmd'[d].pc = "remove" /\ cmd'[d].at = m
    BY <1>1 DEF FilesNameServers, OwnServer
  <2>2. OwnServer(pidfile[m], m) \/ \E d \in Commands : cmd[d].pc = "remove" /\ cmd[d].at = m
    BY <1>2, <2>1 DEF ModelInv, FilesNameServers
  <2>. QED BY <1>5, <2>1, <2>2
<1>. QED BY <1>6, <1>7, <1>8, <1>9, <1>10 DEF ModelInv

LEMMA CommandDiesKept ==
  ASSUME ModelInv, NEW c \in Commands, CommandDies(c)
  PROVE  ModelInv'
<1>. DEFINE q == cmd[c]
<1>1. /\ cmd \in [Commands -> CmdType] /\ UNCHANGED <<pidfile, proc>> /\ cmd' = [cmd EXCEPT ![c] = NoCommand]
      /\ clash' = IF Loading(q) THEN clash \cup {q.name} ELSE clash
      /\ stale' = IF q.pc = "remove" THEN stale \cup {q.at} ELSE stale
  BY DEF ModelInv, TypeOK, CommandDies, Moves
<1>2. /\ cmd'[c] = NoCommand /\ clash \subseteq clash' /\ stale \subseteq stale'
      /\ \A d \in Commands : d # c => cmd'[d] = cmd[d]
  BY <1>1
<1>3. Follows(q, NoCommand) /\ NoCommand.pc = "idle" /\ NoCommand.op = "none" /\ NoCommand.alone = FALSE
      /\ Scope(NoCommand) = {}
  BY EndFollows DEF NoCommand, Scope
<1>4. \A p \in Pids : Live(p)' <=> Live(p)
  BY <1>1 DEF Live
<1>5. (Loading(q) => q.name \in Names) /\ (q.pc = "remove" => q.at \in Names)
  BY DEF ModelInv, CommandsOK, ShapeOK, Loading, Scope
<1>6. TypeOK'
  <2>1. cmd' \in [Commands -> CmdType]
    BY <1>1, <1>3 DEF Follows
  <2>. QED BY <1>1, <1>5, <2>1 DEF ModelInv, TypeOK
<1>7. Exclusive'
  <2>1. SUFFICES ASSUME NEW a \in Commands, NEW d \in Commands, a # d
                 PROVE  /\ \A m \in Names : m \in Scope(cmd'[a]) /\ m \in Scope(cmd'[d]) => m \in clash'
                        /\ cmd'[a].alone => cmd'[d].pc = "idle"
    BY DEF Exclusive, Scope
  <2>2. /\ \A m \in Names : m \in Scope(cmd[a]) /\ m \in Scope(cmd[d]) => m \in clash
        /\ cmd[a].alone => cmd[d].pc = "idle"
    BY <2>1 DEF ModelInv, Exclusive
  <2>3. CASE a = c \/ d = c
    BY <1>2, <1>3, <2>2, <2>3
  <2>4. CASE a # c /\ d # c
    BY <1>2, <2>2, <2>4
  <2>. QED BY <2>3, <2>4
<1>8. CommandsOK'
  <2>1. ShapeOK(cmd'[c]) /\ HolderOK(cmd[c])' /\ LoaderOK(cmd[c])' /\ UnloaderOK(cmd[c])' /\ SwapOK(cmd[c])'
    BY <1>2, <1>3 DEF Follows, HolderOK, Loading, LoaderOK, UnloaderOK, SwapOK
  <2>2. ASSUME NEW d \in Commands, d # c
        PROVE  ShapeOK(cmd'[d]) /\ HolderOK(cmd[d])' /\ LoaderOK(cmd[d])' /\ UnloaderOK(cmd[d])' /\ SwapOK(cmd[d])'
    <3>1. ShapeOK(cmd[d]) /\ HolderOK(cmd[d]) /\ LoaderOK(cmd[d]) /\ UnloaderOK(cmd[d]) /\ SwapOK(cmd[d])
      BY DEF ModelInv, CommandsOK
    <3>2. HolderOK(cmd[d])'
      BY <1>1, <1>2, <2>2, <3>1 DEF HolderOK, Loading
    <3>3. LoaderOK(cmd[d])'
      BY <1>1, <1>2, <1>4, <2>2, <3>1 DEF LoaderOK
    <3>4. UnloaderOK(cmd[d])'
      BY <1>1, <1>2, <1>4, <2>2, <3>1 DEF UnloaderOK
    <3>5. SwapOK(cmd[d])'
      BY <1>1, <1>2, <1>4, <2>2, <3>1 DEF SwapOK, Listed
    <3>. QED BY <1>2, <2>2, <3>1, <3>2, <3>3, <3>4, <3>5
  <2>. QED BY <2>1, <2>2 DEF CommandsOK
<1>9. NothingLost'
  <2>1. SUFFICES ASSUME NEW p \in Pids, Live(p), proc[p].of \notin clash'
                 PROVE  pidfile[proc[p].of] = p \/ Held(p)'
    BY <1>1, <1>4 DEF NothingLost
  <2>2. pidfile[proc[p].of] = p \/ Held(p)
    BY <1>2, <2>1 DEF ModelInv, NothingLost
  <2>3. ~(Loading(q) /\ q.pid = p)
    BY <1>1, <2>1 DEF ModelInv, CommandsOK, HolderOK, Live
  <2>. QED BY <1>2, <2>2, <2>3 DEF Held, Loading
<1>10. FilesNameServers'
  <2>1. SUFFICES ASSUME NEW m \in Names, m \notin clash', m \notin stale', pidfile[m] \in Pids
                 PROVE  OwnServer(pidfile[m], m) \/ \E d \in Commands : cmd'[d].pc = "remove" /\ cmd'[d].at = m
    BY <1>1 DEF FilesNameServers, OwnServer
  <2>2. OwnServer(pidfile[m], m) \/ \E d \in Commands : cmd[d].pc = "remove" /\ cmd[d].at = m
    BY <1>2, <2>1 DEF ModelInv, FilesNameServers
  <2>. QED BY <1>1, <1>2, <2>1, <2>2
<1>. QED BY <1>6, <1>7, <1>8, <1>9, <1>10 DEF ModelInv

(* Processes that end, and unrelated ones that start. *)
LEMMA MachineKept ==
  ASSUME ModelInv, TypeOK', UNCHANGED <<pidfile, cmd, clash>>, stale \subseteq stale',
         \A p \in Pids : Live(p)' => Live(p) /\ proc'[p].of = proc[p].of,
         \A p \in Pids : Held(p) => proc'[p].kind = "none" \/ proc'[p] = proc[p],
         \A p \in Pids, n \in Names : OwnServer(p, n) => OwnServer(p, n)' \/ n \in stale'
  PROVE  ModelInv'
<1>1. Exclusive'
  BY DEF ModelInv, Exclusive, Scope
<1>2. ASSUME NEW d \in Commands
      PROVE  (ShapeOK(cmd[d]) /\ HolderOK(cmd[d]) /\ LoaderOK(cmd[d]) /\ UnloaderOK(cmd[d]) /\ SwapOK(cmd[d]))'
  <2>. DEFINE q == cmd[d]
  <2>1. ShapeOK(q) /\ HolderOK(q) /\ LoaderOK(q) /\ UnloaderOK(q) /\ SwapOK(q) /\ cmd'[d] = q
    BY DEF ModelInv, CommandsOK
  <2>2. HolderOK(cmd[d])'
    BY <2>1 DEF HolderOK, ShapeOK, Loading, Held
  <2>3. LoaderOK(cmd[d])'
    BY <2>1 DEF LoaderOK
  <2>4. UnloaderOK(cmd[d])'
    BY <2>1 DEF UnloaderOK
  <2>5. SwapOK(cmd[d])'
    BY <2>1 DEF SwapOK, Listed
  <2>. QED BY <2>1, <2>2, <2>3, <2>4, <2>5
<1>3. CommandsOK'
  BY <1>2 DEF CommandsOK
<1>4. NothingLost'
  BY DEF ModelInv, NothingLost, Held
<1>5. FilesNameServers'
  <2>1. SUFFICES ASSUME NEW m \in Names, m \notin clash, m \notin stale', pidfile[m] \in Pids
                 PROVE  OwnServer(pidfile[m], m)' \/ \E d \in Commands : cmd[d].pc = "remove" /\ cmd[d].at = m
    BY DEF FilesNameServers
  <2>2. OwnServer(pidfile[m], m) \/ \E d \in Commands : cmd[d].pc = "remove" /\ cmd[d].at = m
    BY <2>1 DEF ModelInv, FilesNameServers
  <2>3. OwnServer(pidfile[m], m) => OwnServer(pidfile[m], m)'
    BY <2>1 DEF OwnServer
  <2>. QED BY <2>2, <2>3
<1>. QED BY <1>1, <1>3, <1>4, <1>5 DEF ModelInv

LEMMA EndsKept == ASSUME ModelInv, NEW p \in Pids, Ends(p) PROVE ModelInv'
<1>1. /\ proc \in [Pids -> ProcType] /\ proc' = [proc EXCEPT ![p] = NoProcess] /\ UNCHANGED <<pidfile, cmd, clash>>
      /\ stale' = IF proc[p].kind = "server" /\ ~proc[p].told THEN stale \cup {proc[p].of} ELSE stale
  BY DEF ModelInv, TypeOK, Ends
<1>2. NoProcess \in ProcType /\ NoProcess.kind = "none"
  BY DEF NoProcess, Process, ProcType
<1>3. proc[p].kind = "server" => proc[p].of \in Names
  BY <1>1 DEF ProcType
<1>4. TypeOK'
  BY <1>1, <1>2, <1>3 DEF ModelInv, TypeOK
<1>5. \A r \in Pids : proc'[r] = IF r = p THEN NoProcess ELSE proc[r]
  BY <1>1
<1>6. ASSUME NEW r \in Pids, NEW n \in Names, OwnServer(r, n) PROVE OwnServer(r, n)' \/ n \in stale'
  <2>1. proc[r].kind = "server" /\ proc[r].of = n /\ ~proc[r].told
    BY <1>6 DEF OwnServer, Server
  <2>. QED BY <1>1, <1>5, <1>6, <2>1 DEF OwnServer
<1>7. \A r \in Pids : Live(r)' => Live(r) /\ proc'[r].of = proc[r].of
  BY <1>2, <1>5 DEF Live
<1>8. \A r \in Pids : proc'[r].kind = "none" \/ proc'[r] = proc[r]
  BY <1>2, <1>5
<1>. QED BY <1>1, <1>4, <1>6, <1>7, <1>8, MachineKept

LEMMA StrangerStartsKept ==
  ASSUME ModelInv, NEW p \in Pids, NEW kind \in {"other", "foreign"}, StrangerStarts(p, kind)
  PROVE  ModelInv'
<1>1. /\ proc \in [Pids -> ProcType] /\ proc' = [proc EXCEPT ![p] = Process(kind)]
      /\ UNCHANGED <<pidfile, cmd, clash, stale>> /\ proc[p].kind = "none" /\ ~Held(p)
  BY DEF ModelInv, TypeOK, StrangerStarts, Free
<1>2. Process(kind) \in ProcType /\ Process(kind).kind # "server"
  BY DEF Process, ProcType
<1>3. TypeOK'
  BY <1>1, <1>2 DEF ModelInv, TypeOK
<1>4. \A r \in Pids : proc'[r] = IF r = p THEN Process(kind) ELSE proc[r]
  BY <1>1
<1>5. ASSUME NEW r \in Pids, NEW n \in Names, OwnServer(r, n) PROVE OwnServer(r, n)'
  <2>1. r # p
    BY <1>1, <1>5 DEF OwnServer, Server
  <2>. QED BY <1>4, <1>5, <2>1 DEF OwnServer
<1>6. \A r \in Pids : Live(r)' => Live(r) /\ proc'[r].of = proc[r].of
  BY <1>2, <1>4 DEF Live
<1>7. \A r \in Pids : Held(r) => proc'[r].kind = "none" \/ proc'[r] = proc[r]
  BY <1>1, <1>4
<1>. QED BY <1>1, <1>3, <1>5, <1>6, <1>7, MachineKept

LEMMA ModelInvKept == ModelInv /\ [Next]_vars => ModelInv'
<1>. SUFFICES ASSUME ModelInv, [Next]_vars PROVE ModelInv'
  OBVIOUS
<1>1. CASE Next
  BY <1>1, BeginKept, CommandStepKept, OverlookKept, CommandDiesKept, EndsKept, StrangerStartsKept DEF Next
<1>2. CASE UNCHANGED vars
  <2>1. TypeOK'
    BY <1>2 DEF vars, ModelInv, TypeOK
  <2>. QED BY <1>2, <2>1, MachineKept DEF vars, Live, OwnServer
<1>. QED BY <1>1, <1>2

-----------------------------------------------------------------------------
LEMMA ModelInvAlways == Spec => []ModelInv
  BY InitModelInv, ModelInvKept, PTL DEF Spec

(* The files, processes and commands keep their types.                     *)
THEOREM ModelTypeCorrect == Spec => []TypeOK
<1>1. ModelInv => TypeOK
  BY DEF ModelInv
<1>. QED BY <1>1, ModelInvAlways, PTL

(* For any commands, names and processes, a server nobody told to end is   *)
(* in its PID file or with the command that started it, unless commands    *)
(* met on its name, its loader was killed or another overlooked it.        *)
THEOREM NothingLostTheorem == Spec => []NothingLost
<1>1. ModelInv => NothingLost
  BY DEF ModelInv
<1>. QED BY <1>1, ModelInvAlways, PTL

(* A PID file names its own model's untold server, but for the names whose *)
(* file is recorded to be out of date.                                     *)
THEOREM FilesTheorem == Spec => []FilesNameServers
<1>1. ModelInv => FilesNameServers
  BY DEF ModelInv
<1>. QED BY <1>1, ModelInvAlways, PTL

(* When an undisturbed Swap begins to load, no other server runs on untold *)
(* but those whose names it failed to list or to unload.                   *)
THEOREM SwapClearsTheorem == Spec => []SwapClears
<1>1. ASSUME ModelInv PROVE SwapClears
  BY <1>1 DEF ModelInv, CommandsOK, SwapOK, Listed, SwapClears
<1>. QED BY <1>1, ModelInvAlways, PTL

(* An Unload's SIGTERM reaches a stranger only through a file that outlived*)
(* its server, or on a name commands met on.                               *)
THEOREM StrangersSafeTheorem == Spec => StrangersSafe
<1>. DEFINE Safe == \A c \in Commands : cmd[c].pc = "signal" /\ cmd'[c].pc = "remove" =>
                      LET x == proc[cmd[c].pid] IN
                      x.kind = "none" \/ x.of = cmd[c].at \/ cmd[c].at \in stale \cup clash
<1>1. ASSUME ModelInv, NEW c \in Commands, cmd[c].pc = "signal", cmd[c].at \notin stale \cup clash
      PROVE  proc[cmd[c].pid].of = cmd[c].at
  <2>1. pidfile[cmd[c].at] = cmd[c].pid /\ cmd[c].at \in Names /\ cmd[c].pid \in Pids /\ cmd[c].at \in Scope(cmd[c])
    BY <1>1 DEF ModelInv, CommandsOK, UnloaderOK, ShapeOK, Scope
  <2>2. \A d \in Commands : cmd[d].pc = "remove" => cmd[d].at # cmd[c].at
    BY <1>1, <2>1 DEF ModelInv, Exclusive, CommandsOK, ShapeOK
  <2>3. OwnServer(cmd[c].pid, cmd[c].at)
    BY <1>1, <2>1, <2>2 DEF ModelInv, FilesNameServers
  <2>. QED BY <2>3 DEF OwnServer, Server
<1>2. ModelInv => Safe
  BY <1>1
<1>3. ModelInv => [Safe]_vars
  BY <1>2
<1>. QED BY <1>3, ModelInvAlways, PTL DEF StrangersSafe
=============================================================================
