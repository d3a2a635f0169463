----------------------- MODULE GatewayLifecycleProofs -----------------------
(* What GatewayLifecycle promises for any configurations, consumers and    *)
(* request handlers, and any number of requests, reloads and crashes.      *)
EXTENDS GatewayLifecycle, TLAPS

(* The configurations.  Until Run has seeded the live handler, what it     *)
(* read is what is loaded, unless a Reload ran into the start.             *)
ConfigInv ==
  /\ reload # "set" => checked = cfg
  /\ ~raced /\ run.pc \in {"started", "built"} => run.cfg = cfg
  /\ ~raced /\ (run.pc = "built" \/ reload = "built") => current = cfg
  /\ ~raced /\ reload = "idle" /\ run.pc \in {"seeded", "serving"} => current = cfg /\ live = cfg

(* Who has started, who was told to stop, and what they left in hand. *)
StopInv ==
  /\ servers # "none" => run.pc = "serving"
  /\ saver.pc = "off" <=> run.pc = "new"
  /\ shut.pc = "idle" => ~shut.saw
  /\ shut.saw => servers = "closed"
  /\ stopped <=> shut.pc \in {"stopping", "clean"}
  /\ stopped /\ shut.saw => \A h \in Handlers : handler[h] = "idle"
  /\ shut.pc = "clean" /\ shut.saw => saver.pc = "exited"

Saving == {"snapped", "writing", "written"}

(* The file, the snapshot on its way to it, and the counts. *)
UsageInv ==
  /\ file.state # "torn"
  /\ file.state = "whole" => Within(file.counts, stats)
  /\ saver.pc \in Saving => Within(saver.snap, stats)
  /\ file.state = "whole" /\ saver.pc \in Saving => Within(file.counts, saver.snap)
  /\ saver.pc = "written" => saver.whole
  /\ saver.final => stopped /\ (shut.saw => saver.snap = stats)
  /\ saver.pc = "exited" => saver.final
  /\ saver.landed => saver.pc = "exited" /\ file.state = "whole" /\ file.counts = saver.snap

LifecycleInv == TypeOK /\ ConfigInv /\ StopInv /\ UsageInv

-----------------------------------------------------------------------------
LEMMA NoCountsType == NoCounts \in Counts /\ \A a \in Counts : Within(NoCounts, a)
  BY DEF NoCounts, Counts, Within

LEMMA IdentifyType ==
  ASSUME TypeOK, NEW cred \in Credentials
  PROVE  Identify(cred) \in Names
<1>1. boot \in Configs
  BY DEF TypeOK
<1>2. boot.keys \in [DOMAIN boot.keys -> Names]
  BY <1>1, LifecycleConfigsAssumption
<1>. QED BY <1>2, CredentialsAssumption DEF Identify, Credentials

LEMMA RecordedFacts ==
  ASSUME stats \in Counts, NEW x \in Names
  PROVE  Recorded(x) \in Counts /\ \A a \in Counts : Within(a, stats) => Within(a, Recorded(x))
<1>1. Recorded(x) \in Counts
  BY DEF Recorded, Counts
<1>2. \A y \in Names : stats[y] <= Recorded(x)[y]
  BY DEF Recorded, Counts
<1>. QED BY <1>1, <1>2 DEF Within, Counts

LEMMA InitInv == Init => LifecycleInv
<1>. SUFFICES ASSUME Init PROVE LifecycleInv
  OBVIOUS
<1>1. PICK c \in Configs : Booted(c)
  BY DEF Init
<1>2. TypeOK
  BY <1>1, NoCountsType
  DEF Init, Booted, TypeOK, SaverOff, RunType, ShutType, SaverType, FileType
<1>3. ConfigInv /\ StopInv
  BY <1>1 DEF Booted, ConfigInv, StopInv, SaverOff
<1>4. UsageInv
  BY <1>1 DEF Init, Booted, UsageInv, SaverOff, Saving
<1>. QED BY <1>2, <1>3, <1>4 DEF LifecycleInv

LEMMA RestartInv == LifecycleInv /\ Restart => LifecycleInv'
<1>. SUFFICES ASSUME LifecycleInv, Restart PROVE LifecycleInv'
  OBVIOUS
<1>1. TypeOK'
  BY NoCountsType
  DEF LifecycleInv, Restart, TypeOK, SaverOff, RunType, ShutType, SaverType, FileType
<1>2. ConfigInv' /\ StopInv'
  BY DEF Restart, ConfigInv, StopInv, SaverOff
<1>3. UsageInv'
  BY DEF LifecycleInv, Restart, UsageInv, SaverOff, Saving, TypeOK, FileType
<1>. QED BY <1>1, <1>2, <1>3 DEF LifecycleInv

(* The start of Run and the Reloads leave the tracker's counts alone. *)
LEMMA StartingInv == LifecycleInv /\ Starting => LifecycleInv'
<1>. SUFFICES ASSUME LifecycleInv, Starting PROVE LifecycleInv'
  OBVIOUS
<1>. USE DEF LifecycleInv, configVars, usageVars
<1>. USE DEF Starting, RunStart, RunBuild, RunSeed, RunRegister, RunListen
<1>1. run' \in RunType
  BY DEF TypeOK, RunType
<1>2. /\ saver' \in SaverType /\ saver'.snap = saver.snap /\ saver'.whole = saver.whole
      /\ saver'.final = saver.final /\ saver'.landed = saver.landed
      /\ saver'.pc \in {saver.pc, "idle"}
      /\ (saver'.pc # saver.pc => run.pc = "new" /\ run'.pc = "started")
  BY DEF TypeOK, SaverType
<1>3. TypeOK'
  BY <1>1, <1>2 DEF TypeOK, RunType
<1>4. ConfigInv'
  BY DEF TypeOK, RunType, ConfigInv
<1>5. servers = "none" \/ run.pc = "serving"
  BY DEF StopInv
<1>6. StopInv'
  <2>1. CASE RunStart
    BY <2>1, <1>5 DEF StopInv, TypeOK, SaverType
  <2>2. CASE RunBuild \/ RunSeed
    BY <2>2, <1>5 DEF StopInv, TypeOK, RunType
  <2>3. CASE RunRegister
    BY <2>3, <1>5 DEF StopInv, TypeOK, RunType
  <2>4. CASE RunListen
    BY <2>4 DEF StopInv
  <2>. QED BY <2>1, <2>2, <2>3, <2>4
<1>7. /\ file' = file /\ stats' = stats /\ stopped' = stopped /\ shut' = shut
  OBVIOUS
<1>8. saver.pc # "off" => saver'.pc = saver.pc
  BY <1>2 DEF StopInv
<1>9. saver.pc = "off" => saver'.pc \in {"off", "idle"}
  BY <1>2
<1>10. UsageInv'
  BY <1>2, <1>7, <1>8, <1>9 DEF UsageInv, Saving, Within
<1>. QED BY <1>3, <1>4, <1>6, <1>10

LEMMA ReloadingInv == LifecycleInv /\ Reloading => LifecycleInv'
<1>. SUFFICES ASSUME LifecycleInv, Reloading PROVE LifecycleInv'
  OBVIOUS
<1>. USE DEF LifecycleInv, configVars, usageVars
<1>1. TypeOK'
  <2>1. ASSUME NEW c \in Configs, Reload(c) PROVE TypeOK'
    BY <2>1 DEF Reload, TypeOK
  <2>2. CASE ReloadHealth
    BY <2>2 DEF ReloadHealth, TypeOK
  <2>3. CASE ReloadBuild
    BY <2>3 DEF ReloadBuild, TypeOK
  <2>4. CASE ReloadStore
    BY <2>4 DEF ReloadStore, TypeOK
  <2>. QED BY <2>1, <2>2, <2>3, <2>4 DEF Reloading
<1>2. ConfigInv'
  BY DEF Reloading, Reload, ReloadHealth, ReloadBuild, ReloadStore, TypeOK, ConfigInv
<1>3. StopInv'
  BY DEF Reloading, Reload, ReloadHealth, ReloadBuild, ReloadStore, StopInv
<1>4. UsageInv'
  BY DEF Reloading, Reload, ReloadHealth, ReloadBuild, ReloadStore, UsageInv, Saving, Within
<1>. QED BY <1>1, <1>2, <1>3, <1>4

-----------------------------------------------------------------------------
(* Requests: counts only grow, and not once the servers are drained. *)
LEMMA ArriveInv ==
  ASSUME LifecycleInv, NEW h \in Handlers, NEW cred \in Credentials, Arrive(h, cred)
  PROVE  LifecycleInv'
<1>. USE DEF LifecycleInv, configVars, usageVars
<1>1. Identify(cred) \in Names
  BY IdentifyType
<1>2. TypeOK'
  BY <1>1 DEF Arrive, TypeOK
<1>3. ConfigInv'
  BY DEF Arrive, ConfigInv
<1>4. StopInv'
  BY DEF Arrive, StopInv
<1>5. UsageInv'
  BY DEF Arrive, UsageInv, Saving, Within
<1>. QED BY <1>2, <1>3, <1>4, <1>5

LEMMA ServedInv ==
  ASSUME LifecycleInv, NEW h \in Handlers, Served(h)
  PROVE  LifecycleInv'
<1>. USE DEF LifecycleInv, configVars
<1>1. handler[h] \in Names /\ stats \in Counts
  BY DEF Served, TypeOK
<1>2. stats' \in Counts /\ \A a \in Counts : Within(a, stats) => Within(a, stats')
  BY <1>1, RecordedFacts DEF Served
<1>3. TypeOK'
  BY <1>2 DEF Served, TypeOK
<1>4. ConfigInv'
  BY DEF Served, ConfigInv
<1>5. StopInv'
  BY DEF Served, StopInv, TypeOK
<1>6. ~(stopped /\ shut.saw)
  BY DEF Served, StopInv
<1>7. saver.snap \in Counts /\ file.counts \in Counts
  BY DEF TypeOK, SaverType, FileType
<1>8. /\ file' = file /\ saver' = saver /\ stopped' = stopped /\ shut' = shut
  BY DEF Served
<1>9. Within(file.counts, saver.snap) => Within(file.counts, saver.snap)'
  BY <1>8 DEF Within
<1>10. UsageInv'
  BY <1>2, <1>6, <1>7, <1>8, <1>9 DEF UsageInv, Saving
<1>. QED BY <1>3, <1>4, <1>5, <1>10

LEMMA AbortedInv ==
  ASSUME LifecycleInv, NEW h \in Handlers, Aborted(h)
  PROVE  LifecycleInv'
<1>. USE DEF LifecycleInv, configVars, usageVars
<1>1. TypeOK'
  BY DEF Aborted, TypeOK
<1>2. ConfigInv'
  BY DEF Aborted, ConfigInv
<1>3. StopInv'
  BY DEF Aborted, StopInv, TypeOK
<1>4. UsageInv'
  BY DEF Aborted, UsageInv, Saving, Within
<1>. QED BY <1>1, <1>2, <1>3, <1>4

-----------------------------------------------------------------------------
(* Persisting: the snapshot is above the file and below the counts. *)
LEMMA WithinReflexive == ASSUME NEW a \in Counts PROVE Within(a, a)
  BY DEF Counts, Within

LEMMA SnapshotsInv ==
  ASSUME LifecycleInv, NEW final \in BOOLEAN, Snapshots(final), final => stopped
  PROVE  LifecycleInv'
<1>. USE DEF LifecycleInv, configVars
<1>1. TypeOK'
  <2>1. saver' \in SaverType
    BY DEF Snapshots, TypeOK, SaverType
  <2>. QED BY <2>1 DEF Snapshots, TypeOK
<1>2. ConfigInv'
  BY DEF Snapshots, ConfigInv
<1>3. StopInv'
  BY DEF Snapshots, StopInv, TypeOK, SaverType
<1>4. /\ saver'.pc = "snapped" /\ saver'.snap = stats /\ saver'.final = final
      /\ saver'.landed = saver.landed
  BY DEF Snapshots, TypeOK, SaverType
<1>5. /\ file' = file /\ stats' = stats /\ stopped' = stopped /\ shut' = shut
      /\ saver.pc = "idle"
  BY DEF Snapshots
<1>6. Within(stats, stats)
  BY WithinReflexive DEF TypeOK
<1>7. UsageInv'
  BY <1>4, <1>5, <1>6 DEF UsageInv, Saving, Within
<1>. QED BY <1>1, <1>2, <1>3, <1>7

LEMMA PersistingInv == LifecycleInv /\ Persisting => LifecycleInv'
<1>. SUFFICES ASSUME LifecycleInv, Persisting PROVE LifecycleInv'
  OBVIOUS
<1>. USE DEF LifecycleInv, configVars
<1>. USE DEF Persisting, WriteBegins, WriteEnds, WriteFails, Renames, RenameFails
<1>1. TypeOK'
  <2>1. saver' \in SaverType
    BY NoCountsType DEF SaverMoves, Persisted, SaverOff, TypeOK, SaverType
  <2>2. file' \in FileType
    <3>1. CASE Renames
      <4>1. saver.snap \in Counts
        BY DEF TypeOK, SaverType
      <4>. QED BY <3>1, <4>1 DEF FileType
    <3>2. CASE ~Renames
      BY <3>2 DEF TypeOK
    <3>. QED BY <3>1, <3>2
  <2>. QED BY <2>1, <2>2 DEF SaverMoves, Persisted, TypeOK
<1>2. ConfigInv'
  BY DEF SaverMoves, Persisted, ConfigInv
<1>3. StopInv'
  <2>1. saver.pc \in Saving /\ saver'.pc # "off"
    BY DEF SaverMoves, Persisted, SaverOff, TypeOK, SaverType, Saving
  <2>2. UNCHANGED <<run, shut, servers, handler, stopped>>
    BY DEF SaverMoves, Persisted
  <2>. QED BY <2>1, <2>2 DEF StopInv, Saving
<1>4. ASSUME NEW pc \in {"writing", "written"}, NEW whole \in BOOLEAN, saver.pc \in Saving,
             SaverMoves(pc, whole), pc = "written" => whole, UNCHANGED file
      PROVE  UsageInv'
  <2>1. /\ saver'.pc = pc /\ saver'.whole = whole /\ saver'.snap = saver.snap
        /\ saver'.final = saver.final /\ saver'.landed = saver.landed
    BY <1>4 DEF SaverMoves, TypeOK, SaverType
  <2>2. /\ stats' = stats /\ stopped' = stopped /\ shut' = shut
    BY <1>4 DEF SaverMoves
  <2>. QED BY <1>4, <2>1, <2>2 DEF UsageInv, Saving, Within
<1>5. ASSUME NEW landed \in BOOLEAN, saver.pc \in Saving, Persisted(landed),
             landed => file' = [state |-> "whole", counts |-> saver.snap],
             ~landed => UNCHANGED file
      PROVE  UsageInv'
  <2>1. saver'.pc \in {"idle", "exited"}
        /\ (saver'.pc = "exited" => saver'.final /\ saver.final /\ saver'.snap = saver.snap)
        /\ (saver'.landed => landed /\ saver'.pc = "exited")
        /\ (saver'.final => saver'.pc = "exited")
    BY <1>5 DEF Persisted, SaverOff, TypeOK, SaverType, Saving
  <2>2. /\ stats' = stats /\ stopped' = stopped /\ shut' = shut
    BY <1>5 DEF Persisted
  <2>3. CASE landed
    <3>1. file'.state = "whole" /\ file'.counts = saver.snap
      BY <1>5, <2>3
    <3>. QED BY <1>5, <2>1, <2>2, <3>1 DEF UsageInv, Saving, Within
  <2>4. CASE ~landed
    BY <1>5, <2>1, <2>2, <2>4 DEF UsageInv, Saving, Within
  <2>. QED BY <2>3, <2>4
<1>6. UsageInv'
  <2>1. CASE WriteBegins
    BY <1>4, <2>1 DEF Saving
  <2>2. CASE WriteEnds
    BY <1>4, <2>2 DEF Saving
  <2>3. CASE WriteFails
    BY <1>5, <2>3 DEF Saving
  <2>4. CASE Renames
    BY <1>5, <2>4 DEF Saving, UsageInv
  <2>5. CASE RenameFails
    BY <1>5, <2>5 DEF Saving
  <2>. QED BY <2>1, <2>2, <2>3, <2>4, <2>5
<1>. QED BY <1>1, <1>2, <1>3, <1>6

-----------------------------------------------------------------------------
LEMMA ShuttingInv == LifecycleInv /\ (Shutdown \/ Stopping) => LifecycleInv'
<1>. SUFFICES ASSUME LifecycleInv, Shutdown \/ Stopping PROVE LifecycleInv'
  OBVIOUS
<1>. USE DEF LifecycleInv, configVars, usageVars
<1>. USE DEF Stopping, Shutdown, Drained, DeadlinePasses, StopReturns, ShutMoves
<1>1. TypeOK'
  <2>1. ASSUME NEW pc \in {"stopping", "failed", "clean"}, ShutMoves(pc)
        PROVE  shut' \in ShutType
    BY <2>1 DEF TypeOK, ShutType
  <2>2. CASE Shutdown
    BY <2>2 DEF TypeOK, ShutType
  <2>3. CASE Stopping
    <3>1. shut' \in ShutType
      BY <2>1, <2>3
    <3>. QED BY <2>3, <3>1 DEF TypeOK
  <2>. QED BY <2>2, <2>3
<1>2. ConfigInv'
  BY DEF ConfigInv
<1>3. StopInv'
  BY DEF StopInv, InHand, TypeOK, ShutType
<1>4. UsageInv'
  BY DEF UsageInv, StopInv, Saving, Within, TypeOK, ShutType
<1>. QED BY <1>1, <1>2, <1>3, <1>4

LEMMA StutterInv == LifecycleInv /\ UNCHANGED vars => LifecycleInv'
<1>. SUFFICES ASSUME LifecycleInv, UNCHANGED vars PROVE LifecycleInv'
  OBVIOUS
<1>. USE DEF LifecycleInv, vars, configVars, usageVars
<1>1. TypeOK' /\ ConfigInv'
  BY DEF TypeOK, ConfigInv
<1>2. StopInv' /\ UsageInv'
  BY DEF StopInv, UsageInv, Saving, Within
<1>. QED BY <1>1, <1>2

LEMMA NextInv == LifecycleInv /\ [Next]_vars => LifecycleInv'
<1>. SUFFICES ASSUME LifecycleInv, [Next]_vars PROVE LifecycleInv'
  OBVIOUS
<1>1. CASE Ticks \/ Stops
  BY <1>1, SnapshotsInv DEF Ticks, Stops
<1>. QED
  BY <1>1, RestartInv, StartingInv, ReloadingInv, ArriveInv, ServedInv, AbortedInv,
     PersistingInv, ShuttingInv, StutterInv DEF Next

THEOREM LifecycleInvariant == Spec => []LifecycleInv
  BY InitInv, NextInv, PTL DEF Spec

-----------------------------------------------------------------------------
(* The process's state keeps its types, across any number of restarts. *)
THEOREM LifecycleTypeCorrect == Spec => []TypeOK
<1>1. LifecycleInv => TypeOK
  BY DEF LifecycleInv
<1>. QED BY <1>1, LifecycleInvariant, PTL

(* usage.json is whole in every state, hence at every crash, and claims    *)
(* nothing its process has not counted.                                    *)
THEOREM FileTrueTheorem == Spec => []FileTrue
<1>1. LifecycleInv => FileTrue
  BY DEF LifecycleInv, UsageInv, FileTrue
<1>. QED BY <1>1, LifecycleInvariant, PTL

(* A Shutdown that found the servers and reports success leaves no request *)
(* in hand and, unless writing failed, every recorded request in the file. *)
THEOREM CleanShutdownTheorem == Spec => []CleanShutdown
<1>1. LifecycleInv => CleanShutdown
  <2>. SUFFICES ASSUME LifecycleInv, shut.pc = "clean", shut.saw
                PROVE  /\ InHand = {} /\ servers = "closed"
                       /\ saver.pc = "exited" /\ saver.snap = stats
                       /\ saver.landed => file = [state |-> "whole", counts |-> stats]
    BY DEF CleanShutdown
  <2>1. InHand = {} /\ servers = "closed" /\ saver.pc = "exited"
    BY DEF LifecycleInv, StopInv, InHand
  <2>2. saver.snap = stats
    BY <2>1 DEF LifecycleInv, UsageInv
  <2>3. saver.landed => file = [state |-> "whole", counts |-> stats]
    BY <2>2 DEF LifecycleInv, UsageInv, TypeOK, FileType
  <2>. QED BY <2>1, <2>2, <2>3
<1>. QED BY <1>1, LifecycleInvariant, PTL

(* Outside a Reload one configuration is in force in the health checker,   *)
(* the panels page and the live chain, unless one ran into the start.      *)
THEOREM ConfigInForceTheorem == Spec => []ConfigInForce
<1>1. LifecycleInv => ConfigInForce
  BY DEF LifecycleInv, ConfigInv, ConfigInForce
<1>. QED BY <1>1, LifecycleInvariant, PTL

(* Within a process usage.json never takes a count back.                   *)
THEOREM FileGrowsTheorem == Spec => FileGrows
<1>. DEFINE Grows == file.state = "whole" /\ file.state' = "whole"
                       => Within(file.counts, file.counts')
<1>1. ASSUME LifecycleInv, [Next]_vars PROVE [Grows]_file
  <2>1. CASE Renames
    BY <1>1, <2>1 DEF LifecycleInv, UsageInv, Saving, Renames, Within
  <2>2. CASE Restart
    BY <2>2 DEF Restart
  <2>3. ASSUME ~Renames, ~Restart PROVE UNCHANGED file
    BY <1>1, <2>3
    DEF Next, vars, configVars, usageVars, Starting, RunStart, RunBuild, RunSeed, RunRegister,
        RunListen, Reloading, Reload, ReloadHealth, ReloadBuild, ReloadStore, Arrive, Served,
        Aborted, Ticks, Stops, Snapshots, Persisting, WriteBegins, WriteEnds, WriteFails,
        RenameFails, Shutdown, Stopping, Drained, DeadlinePasses, StopReturns, ShutMoves
  <2>. QED BY <2>1, <2>2, <2>3
<1>. QED BY <1>1, LifecycleInvariant, PTL DEF Spec, FileGrows
=============================================================================
