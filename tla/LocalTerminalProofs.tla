----------------------- MODULE LocalTerminalProofs --------------------------
(* Theorems about LocalNetwork in one terminal, for every value of its      *)
(* other constants: what the sidecars and the plugins directory say of the  *)
(* network, and that the commands keep the promise of the README.           *)
EXTENDS LocalNetworkProofs

-----------------------------------------------------------------------------
(* One terminal, and no failure but that of a call: what holds between the *)
(* calls of its command c.                                                 *)
OnlyCallsFail == Faults \subseteq {"rpc", "version", "config", "kill", "archive"}

(* The run file tells the truth about the backend, and only a network that *)
(* has never run finds no default snapshot.                                *)
World ==
    /\ IF net.up THEN server ELSE net = Down
    /\ server <=> runFile = "live"
    /\ stale => ~net.up /\ snaps[Default] = Missing

BackendKnown(c) ==
    /\ IF cmd[c].pc = "runfile"
       THEN /\ server /\ cmd[c].child = "live" /\ net = Down /\ ~net.up
            /\ stale => snaps[Default] = Missing
       ELSE World
    /\ cmd[c].pc \in {"spawn", "rmrun"} => ~server

(* The default snapshot is replaced only before the first network.         *)
FirstReset(c) ==
    /\ stale => cmd[c].pc \in {"idle", "server", "spawn", "runfile", "env",
                               "remove", "kill", "signal", "rmrun", "reset",
                               "unplug", "sidecars"}
    /\ cmd[c].pc \notin {"restart", "replug"}
    /\ cmd[c].pc = "status" /\ cmd[c].restart => ~net.up
    /\ cmd[c].pc = "boot" => ~net.up

ShutsDown(c) ==
    /\ cmd[c].pc \in {"reset", "unplug", "sidecars"} => cmd[c].kind = "clean"
    /\ cmd[c].pc = "save" => net.up /\ ~snaps[cmd[c].snap].there
    /\ cmd[c].kind = "stop" /\ cmd[c].pc = "kill" => ~net.up
    /\ cmd[c].pc \in {"signal", "rmrun"} => ~net.up
    /\ cmd[c].pc \in {"kill", "signal", "rmrun"}
        => cmd[c].kind \in {"deploy", "stop", "clean"}

(* A deploy that started the backend booted its network too, and until it  *)
(* creates the blockchain that network is the one of the default snapshot. *)
StartedHere(c) ==
    /\ cmd[c].started => cmd[c].pc \notin {"server", "spawn", "runfile"} /\ ~cmd[c].booted
    /\ cmd[c].started /\ cmd[c].pc \in {"env", "status", "boot"} => ~net.up
    /\ cmd[c].booted => cmd[c].pc \in {"idle", "version", "select", "install",
                                       "create", "wait", "record"}
    /\ cmd[c].kind = "deploy" /\ cmd[c].pc = "kill" => cmd[c].started

OwnNetwork(c) ==
    /\ cmd[c].kind = "deploy" /\ cmd[c].pc # "idle" => cmd[c].snap = Default
    /\ cmd[c].pc \in {"install", "create", "wait", "record"} => net.up
    /\ cmd[c].pc \in {"install", "create"} => cmd[c].name \notin NamesOf(net.chains)
    /\ cmd[c].pc \in {"version", "select", "install", "create"} /\ ~cmd[c].booted
       /\ net.up => snaps[Default] = [there |-> TRUE, chains |-> net.chains]

Sound(c) == /\ BackendKnown(c) /\ FirstReset(c) /\ ShutsDown(c)
            /\ StartedHere(c) /\ OwnNetwork(c)

LEMMA IdleSound ==
    ASSUME NEW c \in Slots, World', cmd'[c].pc = "idle",
           ~cmd'[c].started, ~cmd'[c].booted
    PROVE  Sound(c)'
BY DEF Sound, BackendKnown, FirstReset, ShutsDown, StartedHere, OwnNetwork

LEMMA FinishSound ==
    ASSUME TypeOK, NEW c \in Slots, NEW r, World', Finish(c, r)
    PROVE  Sound(c)'
BY FinishKeeps, IdleSound DEF TypeOK

LEMMA FailSound ==
    ASSUME TypeOK, NEW c \in Slots, Sound(c), Running(c), World', Fail(c)
    PROVE  Sound(c)'
<1>1. CASE Finish(c, "err")
  BY <1>1, FinishSound
<1>2. CASE Goto(c, "kill") /\ cmd[c].kind = "deploy" /\ cmd[c].started
  <2>1. /\ cmd'[c].pc = "kill" /\ cmd'[c].kind = "deploy"
        /\ cmd'[c].started /\ ~cmd'[c].booted /\ cmd'[c].snap = Default
    BY <1>2, GotoKeeps DEF TypeOK, Sound, StartedHere, OwnNetwork, Running
  <2>2. QED
    BY <2>1 DEF Sound, BackendKnown, FirstReset, ShutsDown, StartedHere, OwnNetwork
<1>3. QED
  BY <1>1, <1>2 DEF Fail

LEMMA KillReturnsSound ==
    ASSUME TypeOK, NEW c \in Slots, Sound(c), cmd[c].pc \in {"kill", "signal", "rmrun"},
           World', stale' = stale, NEW r, KillReturns(c, r)
    PROVE  Sound(c)'
<1>1. CASE Finish(c, r)
  BY <1>1, FinishSound
<1>2. CASE Goto(c, "unplug") /\ cmd[c].kind = "clean"
  <2>1. cmd'[c].pc = "unplug" /\ cmd'[c].kind = "clean" /\ cmd'[c].booted = cmd[c].booted
    /\ cmd'[c].started = cmd[c].started
    BY <1>2, GotoKeeps DEF TypeOK
  <2>2. ~cmd[c].booted
    BY <1>2 DEF Sound, StartedHere
  <2>3. QED
    BY <2>1, <2>2 DEF Sound, BackendKnown, FirstReset, ShutsDown, StartedHere, OwnNetwork
<1>3. CASE Finish(c, "err")
  BY <1>3, FinishSound
<1>4. QED
  BY <1>1, <1>2, <1>3 DEF KillReturns

LEMMA WorldNow ==
    ASSUME NEW c \in Slots, Sound(c), cmd[c].pc # "runfile"
    PROVE  World
BY DEF Sound, BackendKnown

LEMMA BeginSound ==
    ASSUME TypeOK, NEW c \in Slots, Sound(c), Begin(c)
    PROVE  Sound(c)'
<1>1. UNCHANGED <<server, runFile, net, snaps, stale>> /\ World
  BY WorldNow DEF Begin, BeginDeploy, BeginStart, BeginStop, BeginClean, Running
<1>2. World'
  BY <1>1 DEF World
<1>3. /\ \/ cmd'[c].pc = "server" /\ cmd'[c].kind = "deploy" /\ cmd'[c].snap = Default
         \/ cmd'[c].pc = "server" /\ cmd'[c].kind = "start"
         \/ cmd'[c].pc = "remove" /\ cmd'[c].kind = "stop"
         \/ cmd'[c].pc = "reset" /\ cmd'[c].kind = "clean"
      /\ ~cmd'[c].started /\ ~cmd'[c].booted
  <2>0. cmd \in [Slots -> Commands]
    BY DEF TypeOK, CmdOK
  <2>1. ASSUME NEW n \in Names, BeginDeploy(c, n)
        PROVE  /\ cmd'[c].pc = "server" /\ cmd'[c].kind = "deploy"
               /\ cmd'[c].snap = Default /\ ~cmd'[c].started /\ ~cmd'[c].booted
    BY <2>0, <2>1 DEF BeginDeploy, Idle
  <2>2. ASSUME NEW s \in Snapshots, BeginStart(c, s)
        PROVE  /\ cmd'[c].pc = "server" /\ cmd'[c].kind = "start"
               /\ ~cmd'[c].started /\ ~cmd'[c].booted
    BY <2>0, <2>2 DEF BeginStart, Idle
  <2>3. ASSUME NEW s \in Snapshots, BeginStop(c, s)
        PROVE  /\ cmd'[c].pc = "remove" /\ cmd'[c].kind = "stop"
               /\ ~cmd'[c].started /\ ~cmd'[c].booted
    BY <2>0, <2>3 DEF BeginStop, Idle
  <2>4. ASSUME NEW h \in BOOLEAN, BeginClean(c, h)
        PROVE  /\ cmd'[c].pc = "reset" /\ cmd'[c].kind = "clean"
               /\ ~cmd'[c].started /\ ~cmd'[c].booted
    BY <2>0, <2>4 DEF BeginClean, Idle
  <2>5. QED
    BY <2>1, <2>2, <2>3, <2>4 DEF Begin
<1>4. QED
  BY <1>2, <1>3 DEF Sound, BackendKnown, FirstReset, ShutsDown, StartedHere, OwnNetwork

(* The calls that start the backend. *)
LEMMA StartServerSound ==
    ASSUME TypeOK, NEW c \in Slots, Sound(c),
           CheckServer(c) \/ Spawn(c) \/ WriteRunFile(c)
    PROVE  Sound(c)'
<1>1. CASE CheckServer(c)
  <2>1. /\ cmd[c].pc = "server" /\ UNCHANGED <<server, runFile, net, snaps, stale>>
        /\ Goto(c, IF runFile = "live" THEN "env" ELSE "spawn")
    BY <1>1 DEF CheckServer
  <2>2. /\ cmd'[c].pc = IF runFile = "live" THEN "env" ELSE "spawn"
        /\ cmd'[c].kind = cmd[c].kind /\ cmd'[c].started = cmd[c].started
        /\ cmd'[c].booted = cmd[c].booted /\ cmd'[c].snap = cmd[c].snap
    BY <2>1, GotoKeeps DEF TypeOK
  <2>3. /\ cmd[c].kind \in {"deploy", "start"} /\ ~cmd[c].started /\ ~cmd[c].booted
        /\ cmd[c].kind = "deploy" => cmd[c].snap = Default
    BY <2>1 DEF TypeOK, CmdOK, WellFormed, Sound, StartedHere, OwnNetwork
  <2>4. World /\ World'
    BY <2>1, WorldNow DEF World
  <2>5. QED
    BY <2>1, <2>2, <2>3, <2>4
    DEF World, Sound, BackendKnown, FirstReset, ShutsDown, StartedHere, OwnNetwork
<1>2. CASE Spawn(c)
  <2>1. /\ cmd[c].pc = "spawn" /\ UNCHANGED <<runFile, net, snaps, stale>>
        /\ server' /\ ~server /\ net = Down /\ ~net.up
        /\ stale => snaps[Default] = Missing
    BY <1>2 DEF Spawn, Sound, BackendKnown, World, Down
  <2>2. /\ cmd'[c].pc = "runfile" /\ cmd'[c].child = "live"
        /\ cmd'[c].kind = cmd[c].kind /\ cmd'[c].started = cmd[c].started
        /\ cmd'[c].booted = cmd[c].booted /\ cmd'[c].snap = cmd[c].snap
    BY <1>2, <2>1 DEF Spawn, TypeOK, CmdOK, Commands
  <2>3. /\ cmd[c].kind \in {"deploy", "start"} /\ ~cmd[c].started /\ ~cmd[c].booted
        /\ cmd[c].kind = "deploy" => cmd[c].snap = Default
    BY <2>1 DEF TypeOK, CmdOK, WellFormed, Sound, StartedHere, OwnNetwork
  <2>4. QED
    BY <2>1, <2>2, <2>3
    DEF Sound, BackendKnown, FirstReset, ShutsDown, StartedHere, OwnNetwork
<1>3. CASE WriteRunFile(c)
  <2>1. /\ cmd[c].pc = "runfile" /\ UNCHANGED <<server, net, snaps, stale>>
        /\ server /\ runFile' = "live" /\ net = Down /\ ~net.up
        /\ stale => snaps[Default] = Missing
    BY <1>3 DEF WriteRunFile, Sound, BackendKnown
  <2>2. /\ cmd'[c].pc = "env" /\ cmd'[c].started
        /\ cmd'[c].kind = cmd[c].kind
        /\ cmd'[c].booted = cmd[c].booted /\ cmd'[c].snap = cmd[c].snap
    BY <1>3 DEF WriteRunFile, TypeOK, CmdOK, Commands
  <2>3. /\ cmd[c].kind \in {"deploy", "start"} /\ ~cmd[c].booted
        /\ cmd[c].kind = "deploy" => cmd[c].snap = Default
    BY <2>1 DEF TypeOK, CmdOK, WellFormed, Sound, StartedHere, OwnNetwork
  <2>4. World'
    BY <2>1 DEF World
  <2>5. QED
    BY <2>1, <2>2, <2>3, <2>4
    DEF Sound, BackendKnown, FirstReset, ShutsDown, StartedHere, OwnNetwork
<1>4. QED
  BY <1>1, <1>2, <1>3

(* A bootstrap snapshot that cannot be installed replaces none.            *)
LEMMA SetupFailsSame ==
    ASSUME TypeOK, NEW c \in Slots, Sound(c), SetupEnvFails(c)
    PROVE  UNCHANGED snaps
<1>1. snaps[Default] = Missing /\ snaps' \in {snaps, [snaps EXCEPT ![Default] = Missing]}
  BY WorldNow DEF SetupEnvFails, World
<1>2. QED
  BY <1>1, ConstantsAssumption DEF TypeOK

(* The calls that boot the network. *)
LEMMA BootSound ==
    ASSUME TypeOK, OnlyCallsFail, NEW c \in Slots, Sound(c),
           \/ SetupEnv(c) \/ SetupEnvFails(c) \/ Status(c) \/ RestartStop(c)
           \/ RestartResetPlugins(c) \/ Boot(c) \/ BootWithoutConfig(c) \/ CallFails(c)
    PROVE  Sound(c)'
<1>1. CASE SetupEnv(c)
  <2>1. /\ cmd[c].pc = "env" /\ UNCHANGED <<server, runFile, net>> /\ ~stale'
        /\ World /\ cmd[c].kind \in {"deploy", "start"}
    BY <1>1, WorldNow DEF SetupEnv, TypeOK, CmdOK, WellFormed
  <2>2. /\ cmd'[c].pc = "status" /\ cmd'[c].restart = stale
        /\ cmd'[c].kind = cmd[c].kind /\ cmd'[c].started = cmd[c].started
        /\ cmd'[c].booted = cmd[c].booted /\ cmd'[c].snap = cmd[c].snap
    BY <1>1 DEF SetupEnv, TypeOK, CmdOK, Commands
  <2>3. World' /\ (stale => ~net.up)
    BY <2>1 DEF World
  <2>4. QED
    BY <2>1, <2>2, <2>3
    DEF Sound, BackendKnown, FirstReset, ShutsDown, StartedHere, OwnNetwork
<1>2. CASE SetupEnvFails(c)
  <2>1. /\ cmd[c].pc = "env" /\ stale /\ UNCHANGED <<server, runFile, net>> /\ World
        /\ stale' \in BOOLEAN
    BY <1>2, WorldNow DEF SetupEnvFails
  <2>2. UNCHANGED snaps
    BY <1>2, SetupFailsSame
  <2>3. World'
    BY <2>1, <2>2 DEF World
  <2>4. QED
    BY <1>2, <2>1, <2>3, FailSound DEF SetupEnvFails, Running
<1>3. CASE Status(c)
  <2>1. /\ cmd[c].pc = "status" /\ UNCHANGED <<server, runFile, net, snaps, stale>>
        /\ World /\ cmd[c].kind \in {"deploy", "start"}
        /\ ~(net.up /\ cmd[c].restart) /\ ~stale /\ ~cmd[c].booted
        /\ cmd[c].started => ~net.up
        /\ cmd[c].kind = "deploy" => cmd[c].snap = Default
    BY <1>3, WorldNow
    DEF Status, TypeOK, CmdOK, WellFormed, Sound, FirstReset, StartedHere, OwnNetwork
  <2>2. World'
    BY <2>1 DEF World
  <2>3. CASE Finish(c, "ok")
    BY <2>2, <2>3, FinishSound
  <2>4. CASE ~net.up /\ Goto(c, "boot")
    <3>1. /\ cmd'[c].pc = "boot" /\ cmd'[c].kind = cmd[c].kind
          /\ cmd'[c].started = cmd[c].started
          /\ cmd'[c].booted = cmd[c].booted /\ cmd'[c].snap = cmd[c].snap
      BY <2>4, GotoKeeps DEF TypeOK
    <3>2. QED
      BY <2>1, <2>2, <2>4, <3>1
      DEF Sound, BackendKnown, FirstReset, ShutsDown, StartedHere, OwnNetwork
  <2>5. CASE /\ net.up /\ cmd[c].kind = "deploy"
             /\ cmd' = [cmd EXCEPT ![c].pc = "version", ![c].booted = TRUE]
    <3>1. /\ cmd'[c].pc = "version" /\ cmd'[c].kind = "deploy" /\ cmd'[c].booted
          /\ cmd'[c].started = cmd[c].started /\ cmd'[c].snap = cmd[c].snap
      BY <2>5 DEF TypeOK, CmdOK, Commands
    <3>2. QED
      BY <2>1, <2>2, <2>5, <3>1
      DEF Sound, BackendKnown, FirstReset, ShutsDown, StartedHere, OwnNetwork
  <2>6. QED
    BY <1>3, <2>1, <2>3, <2>4, <2>5 DEF Status
<1>4. CASE RestartStop(c) \/ RestartResetPlugins(c)
  BY <1>4 DEF RestartStop, RestartResetPlugins, Sound, FirstReset
<1>5. CASE Boot(c)
  <2>1. /\ cmd[c].pc = "boot" /\ UNCHANGED <<server, runFile, snaps, stale>>
        /\ World /\ server /\ ~stale /\ ~cmd[c].booted
        /\ net' = [up |-> TRUE, chains |-> snaps[cmd[c].snap].chains]
        /\ snaps[cmd[c].snap].there
        /\ cmd[c].kind = "deploy" => cmd[c].snap = Default
    BY <1>5, WorldNow
    DEF Boot, Sound, FirstReset, StartedHere, OwnNetwork
  <2>2. World'
    BY <2>1 DEF World
  <2>3. CASE Finish(c, "ok")
    BY <2>2, <2>3, FinishSound
  <2>4. CASE cmd[c].kind = "deploy" /\ Goto(c, "version")
    <3>1. /\ cmd'[c].pc = "version" /\ cmd'[c].kind = cmd[c].kind
          /\ cmd'[c].started = cmd[c].started
          /\ cmd'[c].booted = cmd[c].booted /\ cmd'[c].snap = cmd[c].snap
      BY <2>4, GotoKeeps DEF TypeOK
    <3>2. snaps'[Default] = [there |-> TRUE, chains |-> net'.chains]
      <4>1. snaps[Default] \in [there : BOOLEAN, chains : Seq(Chain)]
        BY ConstantsAssumption DEF TypeOK
      <4>2. QED
        BY <2>1, <2>4, <4>1
    <3>3. QED
      BY <2>1, <2>2, <2>4, <3>1, <3>2
      DEF Sound, BackendKnown, FirstReset, ShutsDown, StartedHere, OwnNetwork
  <2>5. QED
    BY <1>5, <2>3, <2>4 DEF Boot
<1>6. CASE BootWithoutConfig(c)
  <2>1. /\ cmd[c].pc = "boot" /\ UNCHANGED <<server, runFile, net, snaps, stale>>
        /\ World /\ ~net.up /\ ~stale /\ ~cmd[c].booted
        /\ cmd[c].kind = "deploy" => cmd[c].snap = Default
    BY <1>6, WorldNow
    DEF BootWithoutConfig, Sound, FirstReset, StartedHere, OwnNetwork
  <2>2. World'
    BY <2>1 DEF World
  <2>3. CASE Finish(c, "err")
    BY <2>2, <2>3, FinishSound
  <2>4. CASE cmd[c].kind = "deploy" /\ Goto(c, "version")
    <3>1. /\ cmd'[c].pc = "version" /\ cmd'[c].kind = cmd[c].kind
          /\ cmd'[c].started = cmd[c].started
          /\ cmd'[c].booted = cmd[c].booted /\ cmd'[c].snap = cmd[c].snap
      BY <2>4, GotoKeeps DEF TypeOK
    <3>2. QED
      BY <2>1, <2>2, <2>4, <3>1
      DEF Sound, BackendKnown, FirstReset, ShutsDown, StartedHere, OwnNetwork
  <2>5. QED
    BY <1>6, <2>3, <2>4 DEF BootWithoutConfig
<1>7. CASE CallFails(c)
  <2>1. /\ Running(c) /\ Fail(c) /\ cmd[c].pc # "runfile"
        /\ UNCHANGED <<server, runFile, net, snaps, stale>>
    BY <1>7 DEF CallFails, Refused, Running
  <2>2. World'
    BY <2>1, WorldNow DEF World
  <2>3. QED
    BY <2>1, <2>2, FailSound
<1>8. QED
  BY <1>1, <1>2, <1>3, <1>4, <1>5, <1>6, <1>7

(* The calls of deploy. *)
LEMMA ChooseSound ==
    ASSUME TypeOK, NEW c \in Slots, Sound(c),
           CheckVersion(c) \/ VersionMismatch(c) \/ Select(c)
           \/ InstallPlugin(c) \/ InstallRefused(c)
    PROVE  Sound(c)'
<1>0. /\ cmd[c].kind = "deploy" /\ cmd[c].snap = Default
      /\ cmd[c].pc \in {"version", "select", "install"} /\ World /\ ~stale
      /\ Running(c)
  BY WorldNow DEF CheckVersion, VersionMismatch, Select, InstallPlugin, InstallRefused,
                  TypeOK, CmdOK, WellFormed, Sound, FirstReset, OwnNetwork, Running
<1>1. CASE CheckVersion(c)
  <2>1. /\ cmd[c].pc = "version" /\ UNCHANGED <<server, runFile, net, snaps, stale>>
    BY <1>1 DEF CheckVersion
  <2>2. /\ cmd'[c].pc = "select" /\ cmd'[c].kind = cmd[c].kind
        /\ cmd'[c].started = cmd[c].started
        /\ cmd'[c].booted = cmd[c].booted /\ cmd'[c].snap = cmd[c].snap
    BY <1>1, GotoKeeps DEF CheckVersion, TypeOK
  <2>3. World'
    BY <1>0, <2>1 DEF World
  <2>4. QED
    BY <1>0, <2>1, <2>2, <2>3
    DEF Sound, BackendKnown, FirstReset, ShutsDown, StartedHere, OwnNetwork
<1>2. CASE VersionMismatch(c)
  <2>1. /\ UNCHANGED <<server, runFile, snaps, stale>> /\ net' \in {net, Down}
        /\ Fail(c)
    BY <1>2 DEF VersionMismatch
  <2>2. World'
    BY <1>0, <2>1 DEF World, Down
  <2>3. QED
    BY <1>0, <2>1, <2>2, FailSound
<1>3. CASE Select(c)
  <2>1. /\ cmd[c].pc = "select" /\ UNCHANGED <<server, runFile, net, snaps, stale>>
        /\ net.up
    BY <1>3 DEF Select
  <2>2. /\ \/ cmd'[c].pc = "record"
           \/ cmd'[c].pc = "install" /\ cmd[c].name \notin NamesOf(net.chains)
        /\ cmd'[c].kind = cmd[c].kind /\ cmd'[c].name = cmd[c].name
        /\ cmd'[c].started = cmd[c].started
        /\ cmd'[c].booted = cmd[c].booted /\ cmd'[c].snap = cmd[c].snap
    BY <1>3 DEF Select, TypeOK, CmdOK, Commands
  <2>3. World'
    BY <1>0, <2>1 DEF World
  <2>4. QED
    BY <1>0, <2>1, <2>2, <2>3
    DEF Sound, BackendKnown, FirstReset, ShutsDown, StartedHere, OwnNetwork
<1>4. CASE InstallPlugin(c)
  <2>1. /\ cmd[c].pc = "install" /\ UNCHANGED <<server, runFile, net, snaps, stale>>
    BY <1>4 DEF InstallPlugin
  <2>2. /\ cmd'[c].pc = "create" /\ cmd'[c].kind = cmd[c].kind
        /\ cmd'[c].name = cmd[c].name /\ cmd'[c].started = cmd[c].started
        /\ cmd'[c].booted = cmd[c].booted /\ cmd'[c].snap = cmd[c].snap
    BY <1>4, GotoKeeps DEF InstallPlugin, TypeOK
  <2>3. World'
    BY <1>0, <2>1 DEF World
  <2>4. QED
    BY <1>0, <2>1, <2>2, <2>3
    DEF Sound, BackendKnown, FirstReset, ShutsDown, StartedHere, OwnNetwork
<1>5. CASE InstallRefused(c)
  <2>1. UNCHANGED <<server, runFile, net, snaps, stale>> /\ Fail(c)
    BY <1>5 DEF InstallRefused
  <2>2. World'
    BY <1>0, <2>1 DEF World
  <2>3. QED
    BY <1>0, <2>1, <2>2, FailSound
<1>6. QED
  BY <1>1, <1>2, <1>3, <1>4, <1>5

LEMMA CreateSound ==
    ASSUME TypeOK, NEW c \in Slots, Sound(c),
           CreateChain(c) \/ CreateChainFails(c) \/ WaitChain(c)
           \/ WaitChainFails(c) \/ RecordDeploy(c)
    PROVE  Sound(c)'
<1>0. /\ cmd[c].kind = "deploy" /\ cmd[c].snap = Default /\ net.up
      /\ cmd[c].pc \in {"create", "wait", "record"} /\ World /\ ~stale
      /\ Running(c) /\ server
  <2>1. cmd[c].pc \in {"create", "wait", "record"}
    BY DEF CreateChain, CreateChainFails, WaitChain, WaitChainFails, RecordDeploy
  <2>2. cmd[c].kind = "deploy" /\ cmd[c].snap = Default /\ net.up /\ World /\ ~stale
    BY <2>1, WorldNow DEF TypeOK, CmdOK, WellFormed, Sound, FirstReset, OwnNetwork
  <2>3. QED
    BY <2>1, <2>2 DEF World, Running
<1>1. ASSUME \/ net' = net
             \/ net' = [net EXCEPT !.chains = Append(net.chains, NewChain(c))]
      PROVE  net'.up
  BY <1>0, <1>1 DEF TypeOK
<1>2. ASSUME net'.up, UNCHANGED <<server, runFile, snaps, stale>> PROVE World'
  BY <1>0, <1>2 DEF World
<1>3. CASE CreateChain(c)
  <2>1. /\ UNCHANGED <<server, runFile, snaps, stale>> /\ net'.up
    BY <1>1, <1>3 DEF CreateChain
  <2>2. /\ cmd'[c].pc = "wait" /\ cmd'[c].kind = cmd[c].kind
        /\ cmd'[c].started = cmd[c].started
        /\ cmd'[c].booted = cmd[c].booted /\ cmd'[c].snap = cmd[c].snap
    BY <1>3, GotoKeeps DEF CreateChain, TypeOK
  <2>3. QED
    BY <1>0, <1>2, <2>1, <2>2
    DEF Sound, BackendKnown, FirstReset, ShutsDown, StartedHere, OwnNetwork
<1>4. CASE CreateChainFails(c)
  <2>1. /\ UNCHANGED <<server, runFile, snaps, stale>> /\ net'.up /\ Fail(c)
    BY <1>1, <1>4 DEF CreateChainFails
  <2>2. QED
    BY <1>0, <1>2, <2>1, FailSound
<1>5. CASE WaitChain(c)
  <2>1. /\ UNCHANGED <<server, runFile, snaps, stale>> /\ net'.up
    BY <1>0, <1>5 DEF WaitChain
  <2>2. /\ cmd'[c].pc = "record" /\ cmd'[c].kind = cmd[c].kind
        /\ cmd'[c].started = cmd[c].started
        /\ cmd'[c].booted = cmd[c].booted /\ cmd'[c].snap = cmd[c].snap
    <3>1. PICK i : cmd' = [cmd EXCEPT ![c].pc = "record", ![c].id = i]
      BY <1>5 DEF WaitChain
    <3>2. QED
      BY <3>1 DEF TypeOK, CmdOK, Commands
  <2>3. QED
    BY <1>0, <1>2, <2>1, <2>2
    DEF Sound, BackendKnown, FirstReset, ShutsDown, StartedHere, OwnNetwork
<1>6. CASE WaitChainFails(c)
  <2>1. /\ UNCHANGED <<server, runFile, snaps, stale>> /\ net'.up /\ Fail(c)
    BY <1>0, <1>6 DEF WaitChainFails
  <2>2. QED
    BY <1>0, <1>2, <2>1, FailSound
<1>7. CASE RecordDeploy(c)
  <2>1. /\ UNCHANGED <<server, runFile, snaps, stale>> /\ net'.up /\ Finish(c, "ok")
    BY <1>0, <1>7 DEF RecordDeploy
  <2>2. QED
    BY <1>2, <2>1, FinishSound
<1>8. QED
  BY <1>3, <1>4, <1>5, <1>6, <1>7

(* The calls of stop. *)
LEMMA StopSound ==
    ASSUME TypeOK, OnlyCallsFail, NEW c \in Slots, Sound(c), Stop(c)
    PROVE  Sound(c)'
<1>0. /\ cmd[c].pc \in {"remove", "save"} /\ cmd[c].kind = "stop" /\ World
      /\ cmd[c].snap \in Snapshots /\ ~cmd[c].booted
  BY WorldNow DEF Stop, RemoveSnapshot, RemoveSnapshotFails, SaveSnapshot,
                  SaveSnapshotFails, TypeOK, CmdOK, WellFormed, Sound, StartedHere
<1>1. ASSUME NEW p, Goto(c, p)
      PROVE  /\ cmd'[c].pc = p /\ cmd'[c].kind = "stop"
             /\ cmd'[c].started = cmd[c].started
             /\ cmd'[c].booted = cmd[c].booted /\ cmd'[c].snap = cmd[c].snap
  BY <1>0, <1>1, GotoKeeps DEF TypeOK
<1>2. ASSUME Goto(c, "kill"), World', ~net'.up PROVE Sound(c)'
  BY <1>0, <1>1, <1>2
  DEF Sound, BackendKnown, FirstReset, ShutsDown, StartedHere, OwnNetwork
<1>3. CASE RemoveSnapshot(c)
  <2>1. cmd[c].pc = "remove" /\ UNCHANGED <<server, runFile, net, stale>>
    BY <1>3 DEF RemoveSnapshot
  <2>2. ASSUME UNCHANGED snaps PROVE World'
    BY <1>0, <2>1, <2>2 DEF World
  <2>3. CASE Finish(c, "ok") /\ UNCHANGED snaps
    BY <2>2, <2>3, FinishSound
  <2>4. CASE ~net.up /\ Goto(c, "kill") /\ UNCHANGED snaps
    BY <1>2, <2>1, <2>2, <2>4
  <2>5. CASE /\ server /\ net.up /\ Goto(c, "save")
             /\ snaps' = [snaps EXCEPT ![cmd[c].snap] = Missing]
    <3>1. World' /\ net'.up /\ ~stale /\ ~stale'
      BY <1>0, <2>1, <2>5 DEF World
    <3>2. ~snaps'[cmd[c].snap].there
      BY <1>0, <2>5 DEF TypeOK, Missing
    <3>3. QED
      BY <1>0, <1>1, <2>1, <2>5, <3>1, <3>2
      DEF Sound, BackendKnown, FirstReset, ShutsDown, StartedHere, OwnNetwork
  <2>6. QED
    BY <1>3, <2>3, <2>4, <2>5 DEF RemoveSnapshot
<1>4. CASE RemoveSnapshotFails(c)
  BY <1>4 DEF RemoveSnapshotFails, OnlyCallsFail
<1>5. CASE SaveSnapshot(c)
  <2>1. UNCHANGED <<server, runFile, stale>> /\ net.up /\ net' = Down /\ Goto(c, "kill")
    BY <1>5 DEF SaveSnapshot
  <2>2. World' /\ ~net'.up
    BY <1>0, <2>1 DEF World, Down
  <2>3. QED
    BY <1>2, <2>1, <2>2
<1>6. CASE SaveSnapshotFails(c)
  BY <1>6 DEF SaveSnapshotFails, OnlyCallsFail, Sound, ShutsDown
<1>7. QED
  BY <1>3, <1>4, <1>5, <1>6 DEF Stop

(* The calls that kill the backend. *)
LEMMA KillSound ==
    ASSUME TypeOK, NEW c \in Slots, Sound(c), Kill(c)
    PROVE  Sound(c)'
<1>0. cmd[c].pc \in {"kill", "signal", "rmrun"} /\ World /\ stale' = stale
  BY WorldNow DEF Kill, KillNetwork, KillDialFails, KillSignal, KillRemoveRunFile
<1>1. ASSUME NEW p \in {"signal", "rmrun"}, Goto(c, p), World', ~net'.up,
             p = "rmrun" => ~server'
      PROVE  Sound(c)'
  <2>1. /\ cmd'[c].pc = p /\ cmd'[c].kind = cmd[c].kind
        /\ cmd'[c].started = cmd[c].started
        /\ cmd'[c].booted = cmd[c].booted /\ cmd'[c].snap = cmd[c].snap
    BY <1>1, GotoKeeps DEF TypeOK
  <2>2. QED
    BY <1>0, <1>1, <2>1
    DEF Sound, BackendKnown, FirstReset, ShutsDown, StartedHere, OwnNetwork
<1>2. CASE KillNetwork(c)
  <2>1. World' /\ ~net'.up
    BY <1>0, <1>2 DEF KillNetwork, World, Down
  <2>2. QED
    BY <1>1, <1>2, <2>1 DEF KillNetwork
<1>3. CASE KillDialFails(c)
  <2>1. World'
    BY <1>0, <1>3 DEF KillDialFails, World
  <2>2. QED
    BY <1>0, <1>3, <2>1, KillReturnsSound DEF KillDialFails
<1>4. CASE KillSignal(c)
  <2>1. CASE runFile = "live"
    <3>1. World' /\ ~net'.up /\ ~server'
      BY <1>0, <1>4, <2>1 DEF KillSignal, BackendGone, World, Down
    <3>2. QED
      BY <1>1, <1>4, <2>1, <3>1 DEF KillSignal
  <2>2. CASE runFile # "live"
    <3>1. World'
      BY <1>0, <1>4, <2>2 DEF KillSignal, World
    <3>2. QED
      BY <1>0, <1>4, <2>2, <3>1, KillReturnsSound DEF KillSignal
  <2>3. QED
    BY <2>1, <2>2
<1>5. CASE KillRemoveRunFile(c)
  <2>1. ~server
    BY <1>5 DEF KillRemoveRunFile, Sound, BackendKnown
  <2>2. World'
    BY <1>0, <1>5, <2>1 DEF KillRemoveRunFile, World
  <2>3. QED
    BY <1>0, <1>5, <2>2, KillReturnsSound DEF KillRemoveRunFile
<1>6. QED
  BY <1>2, <1>3, <1>4, <1>5 DEF Kill

(* The calls of clean. *)
LEMMA CleanSound ==
    ASSUME TypeOK, OnlyCallsFail, NEW c \in Slots, Sound(c), Clean(c)
    PROVE  Sound(c)'
<1>0. /\ cmd[c].pc \in {"reset", "unplug", "sidecars"} /\ World
      /\ cmd[c].kind = "clean" /\ ~cmd[c].booted
  BY WorldNow DEF Clean, CleanReset, CleanResetFails, CleanPlugins, CleanSidecar,
                  CleanDone, Sound, ShutsDown, StartedHere
<1>1. ASSUME NEW p \in {"kill", "sidecars"}, Goto(c, p), World'
      PROVE  Sound(c)'
  <2>1. /\ cmd'[c].pc = p /\ cmd'[c].kind = "clean"
        /\ cmd'[c].started = cmd[c].started
        /\ cmd'[c].booted = cmd[c].booted /\ cmd'[c].snap = cmd[c].snap
    BY <1>0, <1>1, GotoKeeps DEF TypeOK
  <2>2. QED
    BY <1>0, <1>1, <2>1
    DEF Sound, BackendKnown, FirstReset, ShutsDown, StartedHere, OwnNetwork
<1>2. CASE CleanReset(c)
  <2>1. World'
    BY <1>0, <1>2 DEF CleanReset, World
  <2>2. QED
    BY <1>1, <1>2, <2>1 DEF CleanReset
<1>3. CASE CleanResetFails(c)
  <2>1. snaps' = snaps \/ snaps'[Default] = Missing
    BY <1>3, ConstantsAssumption DEF CleanResetFails, TypeOK
  <2>2. UNCHANGED <<server, runFile, net>> /\ (stale' = stale \/ ~stale')
    BY <1>3 DEF CleanResetFails, TypeOK
  <2>3. World'
    <3>1. stale' => stale
      BY <2>2
    <3>2. stale' => ~net'.up /\ snaps'[Default] = Missing
      BY <1>0, <2>1, <2>2, <3>1 DEF World
    <3>3. QED
      BY <1>0, <2>2, <3>2 DEF World
  <2>4. QED
    BY <1>1, <1>3, <2>3 DEF CleanResetFails
<1>4. CASE CleanPlugins(c)
  <2>1. UNCHANGED <<snaps, stale>> /\ Goto(c, "sidecars")
    BY <1>4 DEF CleanPlugins
  <2>2. World'
    <3>1. CASE BackendGone
      BY <1>0, <2>1, <3>1 DEF BackendGone, World, Down
    <3>2. CASE UNCHANGED <<server, runFile, net>>
      BY <1>0, <2>1, <3>2 DEF World
    <3>3. QED
      BY <1>4, <3>1, <3>2 DEF CleanPlugins
  <2>3. QED
    BY <1>1, <2>1, <2>2
<1>5. CASE \E n \in Names : CleanSidecar(c, n)
  <2>1. UNCHANGED <<server, runFile, net, snaps, stale, cmd>>
    BY <1>5 DEF CleanSidecar
  <2>2. QED
    BY <2>1 DEF World, Sound, BackendKnown, FirstReset, ShutsDown, StartedHere, OwnNetwork
<1>6. CASE CleanDone(c)
  <2>1. World'
    BY <1>0, <1>6 DEF CleanDone, World
  <2>2. QED
    BY <1>6, <2>1, FinishSound DEF CleanDone
<1>7. QED
  BY <1>2, <1>3, <1>4, <1>5, <1>6 DEF Clean

LEMMA InitSound ==
    ASSUME Init, NEW c \in Slots
    PROVE  Sound(c)
<1>1. World
  BY ConstantsAssumption DEF Init, World, Down
<1>2. cmd[c] = Idle
  BY DEF Init
<1>3. QED
  BY <1>1, <1>2
  DEF Idle, Sound, BackendKnown, FirstReset, ShutsDown, StartedHere, OwnNetwork

LEMMA NextSound ==
    ASSUME NEW c, Slots = {c}, OnlyCallsFail, TypeOK, Sound(c), [Next]_vars
    PROVE  Sound(c)'
<1>1. CASE Begin(c) \/ Step(c)
  BY <1>1, BeginSound, StartServerSound, BootSound, ChooseSound, CreateSound,
     StopSound, KillSound, CleanSound
  DEF Step, Prepare, Deploy
<1>2. CASE Crash(c) \/ BackendDies \/ NewImage
  BY <1>2 DEF Crash, BackendDies, NewImage, OnlyCallsFail
<1>3. CASE UNCHANGED vars
  BY <1>3
  DEF vars, World, Sound, BackendKnown, FirstReset, ShutsDown, StartedHere, OwnNetwork
<1>4. QED
  BY <1>1, <1>2, <1>3 DEF Next

LEMMA SoundAlways ==
    ASSUME NEW c, Slots = {c}, OnlyCallsFail
    PROVE  Spec => []Sound(c)
<1>1. TypeOK /\ Sound(c) /\ [Next]_vars => Sound(c)'
  BY NextSound
<1>2. Init => Sound(c)
  BY InitSound
<1>3. QED
  BY <1>1, <1>2, TypeCorrect, PTL DEF Spec

-----------------------------------------------------------------------------
(* What the sidecars and the plugins directory say of some blockchains.    *)
Agree(chains) ==
    \A n \in Names :
        /\ sidecar[n] # NoEntry => n \in NamesOf(chains)
        /\ sidecar[n].id > 0 => RecordedIn(n, chains)

Fit(chains) == Agree(chains) /\ plugins \subseteq NamesOf(chains)

(* What a deploy knows of the blockchain it waits for, and of the one it   *)
(* is about to record.                                                     *)
Waited(c) ==
    /\ cmd[c].name \in NamesOf(net.chains)
    /\ \A i \in 1..Len(net.chains) :
        net.chains[i].name = cmd[c].name => net.chains[i].sub = cmd[c].sub

Answered(c) ==
    /\ cmd[c].name \in NamesOf(net.chains)
    /\ cmd[c].id > 0 => \E i \in 1..Len(net.chains) :
        net.chains[i] = [name |-> cmd[c].name, sub |-> cmd[c].sub, id |-> cmd[c].id]

(* A deploy that still may kill the backend it started falls back to the   *)
(* default snapshot, which the sidecars and the plugins have to fit then.  *)
Matched(c) ==
    /\ cmd[c].kind # "clean" \/ cmd[c].pc \in {"idle", "reset"} =>
        Agree(Held) /\ (cmd[c].pc # "create" => Fit(Held))
    /\ cmd[c].pc = "create" => plugins \subseteq NamesOf(Held) \cup {cmd[c].name}
    /\ cmd[c].pc = "sidecars" => plugins = {}
    /\ cmd[c].pc # "record" => cmd[c].id = 0
    /\ cmd[c].pc = "wait" => Waited(c)
    /\ cmd[c].pc = "record" => Answered(c)
    /\ cmd[c].pc = "wait" /\ ~cmd[c].booted =>
        /\ Agree(snaps[Default].chains)
        /\ plugins \subseteq NamesOf(snaps[Default].chains) \cup {cmd[c].name}
    /\ cmd[c].kind = "deploy" /\ cmd[c].pc = "kill" => Fit(snaps[Default].chains)

LEMMA NamesAppend ==
    ASSUME NEW chains \in Seq(Chain), NEW ch \in Chain
    PROVE  NamesOf(Append(chains, ch)) = NamesOf(chains) \cup {ch.name}
<1> DEFINE longer == Append(chains, ch)
<1>1. /\ Len(chains) \in Nat /\ Len(longer) = Len(chains) + 1
      /\ longer[Len(chains) + 1] = ch
      /\ \A i \in 1..Len(chains) : longer[i] = chains[i]
  OBVIOUS
<1> HIDE DEF longer
<1>2. 1..Len(longer) = 1..Len(chains) \cup {Len(chains) + 1}
  BY <1>1
<1>3. NamesOf(longer) = NamesOf(chains) \cup {ch.name}
  BY <1>1, <1>2, ZenonT(60) DEF NamesOf
<1>4. QED
  BY <1>3 DEF longer

LEMMA AgreeAppend ==
    ASSUME NEW chains \in Seq(Chain), NEW ch \in Chain, Agree(chains)
    PROVE  Agree(Append(chains, ch))
<1>1. /\ Len(chains) \in Nat /\ Len(Append(chains, ch)) = Len(chains) + 1
      /\ \A i \in 1..Len(chains) : Append(chains, ch)[i] = chains[i]
  OBVIOUS
<1>2. 1..Len(chains) \subseteq 1..Len(Append(chains, ch))
  BY <1>1
<1>3. ASSUME NEW n \in Names, RecordedIn(n, chains)
      PROVE  RecordedIn(n, Append(chains, ch))
  <2>1. PICK i \in 1..Len(chains) :
          chains[i] = [name |-> n, sub |-> sidecar[n].sub, id |-> sidecar[n].id]
    BY <1>3 DEF RecordedIn
  <2>2. Append(chains, ch)[i] = chains[i] /\ i \in 1..Len(Append(chains, ch))
    BY <1>1, <1>2
  <2> HIDE DEF RecordedIn
  <2>3. QED
    BY <2>1, <2>2, Zenon DEF RecordedIn
<1>4. NamesOf(chains) \subseteq NamesOf(Append(chains, ch))
  BY NamesAppend
<1>5. QED
  BY <1>3, <1>4 DEF Agree

(* What a step leaves alone still fits.                                    *)
LEMMA HeldKept ==
    ASSUME NEW chains, Held' = chains, Agree(chains), UNCHANGED sidecar
    PROVE  Agree(Held)'
BY DEF Agree, RecordedIn

LEMMA HeldFits ==
    ASSUME NEW chains, Held' = chains, Fit(chains), UNCHANGED sidecar,
           plugins' \subseteq plugins
    PROVE  Fit(Held)'
<1>1. Agree(Held)'
  BY HeldKept DEF Fit
<1>2. plugins' \subseteq NamesOf(Held')
  BY DEF Fit
<1>3. QED
  BY <1>1, <1>2 DEF Fit, NamesOf

LEMMA SnapFits ==
    ASSUME NEW chains, snaps'[Default].chains = chains, Fit(chains),
           UNCHANGED sidecar, plugins' \subseteq plugins
    PROVE  Fit(snaps[Default].chains)'
<1>1. Agree(snaps[Default].chains)'
  BY DEF Fit, Agree, RecordedIn
<1>2. QED
  BY <1>1 DEF Fit, NamesOf

(* Most steps go on to a call that asks for nothing else.                  *)
LEMMA GoesOn ==
    ASSUME NEW c \in Slots, Fit(Held)', cmd'[c].id = 0,
           cmd'[c].pc \notin {"create", "wait", "record", "sidecars"},
           cmd'[c].kind = "deploy" /\ cmd'[c].pc = "kill"
             => Fit(snaps[Default].chains)'
    PROVE  Matched(c)'
BY DEF Matched, Fit

LEMMA FailMatched ==
    ASSUME TypeOK, NEW c \in Slots, cmd[c].id = 0, Fail(c), Fit(Held)',
           cmd[c].started => Fit(snaps[Default].chains)'
    PROVE  Matched(c)'
BY FailKeeps, GoesOn DEF TypeOK

(* A deploy that started the backend has not changed its network yet.      *)
LEMMA StartedHeld ==
    ASSUME NEW c \in Slots, Sound(c), cmd[c].started,
           cmd[c].pc \in {"env", "status", "boot", "version", "select", "install", "create"}
    PROVE  Held = snaps[Default].chains
BY DEF Held, Sound, StartedHere, OwnNetwork

LEMMA HeldUnchanged ==
    ASSUME UNCHANGED <<net, snaps>>
    PROVE  Held' = Held
BY DEF Held

LEMMA PrepareHeld ==
    ASSUME TypeOK, OnlyCallsFail, Snapshots = {Default}, NEW c \in Slots, Sound(c),
           Prepare(c)
    PROVE  Held' = Held
<1>1. CASE SetupEnv(c)
  <2>1. CASE stale
    <3>1. ~net.up /\ snaps[Default] = Missing /\ UNCHANGED net
      BY <1>1, <2>1, WorldNow DEF SetupEnv, World
    <3>2. snaps'[Default] = Bootstrap
      BY <1>1, <2>1, ConstantsAssumption DEF SetupEnv, ResetDefault, TypeOK
    <3>3. QED
      BY <3>1, <3>2 DEF Held, Missing, Bootstrap
  <2>2. CASE ~stale
    BY <1>1, <2>2, HeldUnchanged DEF SetupEnv
  <2>3. QED
    BY <2>1, <2>2
<1>2. CASE Boot(c)
  <2>1. /\ ~net.up /\ UNCHANGED snaps /\ cmd[c].snap = Default
        /\ net' = [up |-> TRUE, chains |-> snaps[cmd[c].snap].chains]
    BY <1>2 DEF Boot, TypeOK, CmdOK, WellFormed
  <2>2. QED
    BY <2>1 DEF Held
<1>3. CASE RestartStop(c) \/ RestartResetPlugins(c)
  BY <1>3 DEF RestartStop, RestartResetPlugins, Sound, FirstReset
<1>4. CASE \/ CheckServer(c) \/ Spawn(c) \/ WriteRunFile(c) \/ Status(c)
           \/ BootWithoutConfig(c) \/ CallFails(c)
  BY <1>4, HeldUnchanged
  DEF CheckServer, Spawn, WriteRunFile, Status, BootWithoutConfig, CallFails
<1>5. CASE SetupEnvFails(c)
  BY <1>5, SetupFailsSame, HeldUnchanged DEF SetupEnvFails
<1>6. QED
  BY <1>1, <1>2, <1>3, <1>4, <1>5 DEF Prepare

LEMMA PrepareMatched ==
    ASSUME TypeOK, OnlyCallsFail, Snapshots = {Default}, NEW c \in Slots, Sound(c),
           Matched(c), Prepare(c)
    PROVE  Matched(c)'
<1>1. /\ cmd[c].kind \in {"deploy", "start"} /\ cmd[c].pc # "create"
      /\ cmd[c].pc # "record" /\ cmd[c].pc # "replug"
  BY PrepareLeads
  DEF Prepare, CheckServer, Spawn, WriteRunFile, SetupEnv, SetupEnvFails, Status,
      RestartStop, RestartResetPlugins, Boot, BootWithoutConfig, CallFails, Refused,
      Sound, FirstReset
<1>2. Fit(Held) /\ cmd[c].id = 0
  BY <1>1 DEF Matched
<1>3. UNCHANGED <<sidecar, plugins>> /\ Held' = Held
  BY <1>1, PrepareLeads, PrepareHeld
<1>4. Fit(Held)'
  BY <1>2, <1>3, HeldFits
<1>5. /\ cmd'[c].id = 0
      /\ cmd'[c].pc \in {"idle", "spawn", "runfile", "env", "status",
                         "restart", "replug", "boot", "version", "kill"}
  BY <1>2, PrepareLeads
<1>6. ASSUME cmd'[c].pc = "kill", cmd'[c].kind = "deploy"
      PROVE  Fit(snaps[Default].chains)'
  <2>1. Fail(c)
    BY <1>6, PrepareLeads
  <2>2. cmd[c].started /\ cmd'[c].pc = "kill"
    BY <1>6, <2>1, FailKeeps DEF TypeOK
  <2>3. SetupEnvFails(c) \/ CallFails(c)
    <3>1. ASSUME NEW p, Goto(c, p) PROVE p = "kill"
      BY <1>6, <3>1, GotoKeeps DEF TypeOK
    <3>2. ASSUME NEW r, Finish(c, r) PROVE FALSE
      BY <1>6, <3>2, FinishKeeps DEF TypeOK
    <3>3. /\ ~Spawn(c) /\ ~WriteRunFile(c) /\ ~SetupEnv(c)
      BY <1>6 DEF Spawn, WriteRunFile, SetupEnv, TypeOK, CmdOK, Commands
    <3>4. ~Status(c)
      <4>1. ~(cmd' = [cmd EXCEPT ![c].pc = "version", ![c].booted = TRUE])
        BY <1>6 DEF TypeOK, CmdOK, Commands
      <4>2. QED
        BY <3>1, <3>2, <4>1 DEF Status
    <3>5. /\ ~CheckServer(c) /\ ~RestartStop(c) /\ ~RestartResetPlugins(c)
          /\ ~Boot(c) /\ ~BootWithoutConfig(c)
      BY <3>1, <3>2
      DEF CheckServer, RestartStop, RestartResetPlugins, Boot, BootWithoutConfig
    <3>6. QED
      BY <3>3, <3>4, <3>5 DEF Prepare
  <2>4. UNCHANGED snaps
    BY <2>3, SetupFailsSame DEF CallFails
  <2>5. Held = snaps[Default].chains
    BY <2>2, <2>3, StartedHeld DEF SetupEnvFails, CallFails, Refused, Sound, FirstReset
  <2>6. QED
    BY <1>2, <1>3, <2>4, <2>5, SnapFits
<1>7. QED
  BY <1>4, <1>5, <1>6, GoesOn

LEMMA ChooseMatched ==
    ASSUME TypeOK, NEW c \in Slots, Sound(c), Matched(c),
           CheckVersion(c) \/ VersionMismatch(c) \/ Select(c)
           \/ InstallPlugin(c) \/ InstallRefused(c)
    PROVE  Matched(c)'
<1>1. /\ cmd[c].kind = "deploy" /\ cmd[c].pc \in {"version", "select", "install"}
      /\ Fit(Held) /\ cmd[c].id = 0 /\ CmdOK
  BY DEF CheckVersion, VersionMismatch, Select, InstallPlugin, InstallRefused,
         TypeOK, CmdOK, WellFormed, Matched
<1>2. ASSUME UNCHANGED <<snaps, sidecar>>, plugins' = plugins, Held' = Held, Fail(c)
      PROVE  Matched(c)'
  <2>1. Fit(Held)'
    BY <1>1, <1>2, HeldFits
  <2>2. cmd[c].started => Fit(snaps[Default].chains)'
    BY <1>1, <1>2, StartedHeld, SnapFits
  <2>3. QED
    BY <1>1, <1>2, <2>1, <2>2, FailMatched
<1>3. CASE CheckVersion(c)
  <2>1. UNCHANGED <<net, snaps, sidecar, plugins>> /\ Goto(c, "select")
    BY <1>3 DEF CheckVersion
  <2>2. Fit(Held)'
    BY <1>1, <2>1, HeldUnchanged, HeldFits
  <2>3. QED
    BY <1>1, <2>1, <2>2, GotoKeeps, GoesOn
<1>4. CASE VersionMismatch(c)
  <2>1. /\ cmd[c].pc = "version" /\ UNCHANGED <<snaps, sidecar, plugins>> /\ Fail(c)
        /\ net' = IF cmd[c].booted THEN net ELSE Down
    BY <1>4 DEF VersionMismatch
  <2>2. Held' = Held
    <3>1. CASE cmd[c].booted
      BY <2>1, <3>1, HeldUnchanged
    <3>2. CASE ~cmd[c].booted
      <4>1. net.up => snaps[Default].chains = net.chains
        BY <2>1, <3>2 DEF Sound, OwnNetwork
      <4>2. QED
        BY <2>1, <3>2, <4>1 DEF Held, Down
    <3>3. QED
      BY <3>1, <3>2
  <2>3. QED
    BY <1>2, <2>1, <2>2
<1>5. CASE Select(c)
  <2>1. UNCHANGED <<net, snaps, sidecar, plugins>>
    BY <1>5 DEF Select
  <2>2. Fit(Held)'
    BY <1>1, <2>1, HeldUnchanged, HeldFits
  <2>3. /\ cmd'[c].id = 0 /\ cmd'[c].name = cmd[c].name /\ cmd'[c].kind = "deploy"
        /\ \/ cmd'[c].pc = "install"
           \/ cmd'[c].pc = "record" /\ cmd[c].name \in NamesOf(net.chains)
    BY <1>1, <1>5 DEF Select, TypeOK, CmdOK, Commands
  <2>4. CASE cmd'[c].pc = "install"
    BY <2>2, <2>3, <2>4, GoesOn
  <2>5. CASE cmd'[c].pc = "record" /\ cmd[c].name \in NamesOf(net.chains)
    <3>1. Answered(c)'
      BY <2>1, <2>3, <2>5 DEF Answered
    <3>2. QED
      BY <2>2, <2>3, <2>5, <3>1 DEF Matched, Fit
  <2>6. QED
    BY <2>3, <2>4, <2>5
<1>6. CASE InstallPlugin(c)
  <2>1. /\ UNCHANGED <<net, snaps, sidecar>> /\ plugins' = plugins \cup {cmd[c].name}
        /\ Goto(c, "create")
    BY <1>6 DEF InstallPlugin
  <2>2. /\ cmd'[c].pc = "create" /\ cmd'[c].id = 0 /\ cmd'[c].name = cmd[c].name
    BY <1>1, <2>1, GotoKeeps
  <2>3. Agree(Held)' /\ Held' = Held
    BY <1>1, <2>1, HeldUnchanged, HeldKept DEF Fit
  <2>4. plugins' \subseteq NamesOf(Held)' \cup {cmd'[c].name}
    <3>1. plugins' \subseteq NamesOf(Held) \cup {cmd[c].name}
      BY <1>1, <2>1 DEF Fit
    <3>2. NamesOf(Held)' = NamesOf(Held)
      BY <2>3 DEF NamesOf
    <3>3. QED
      BY <2>2, <3>1, <3>2
  <2>5. QED
    BY <2>2, <2>3, <2>4 DEF Matched
<1>7. CASE InstallRefused(c)
  BY <1>2, <1>7, HeldUnchanged DEF InstallRefused
<1>8. QED
  BY <1>3, <1>4, <1>5, <1>6, <1>7

(* The blockchain of a deploy joins those that are held.                   *)
LEMMA ChainHeld ==
    ASSUME TypeOK, NEW c \in Slots, Sound(c), Matched(c), cmd[c].pc = "create",
           net' = [net EXCEPT !.chains = Append(net.chains, NewChain(c))]
    PROVE  /\ NewChain(c) \in Chain
           /\ net.up /\ net'.up /\ net'.chains = Append(net.chains, NewChain(c))
           /\ Held' = Append(net.chains, NewChain(c))
           /\ Agree(Append(net.chains, NewChain(c)))
           /\ NamesOf(Append(net.chains, NewChain(c)))
                = NamesOf(Held) \cup {cmd[c].name}
<1>1. cmd[c].name \in Names /\ cmd[c].sub \in 1..NumSubnets
  BY DEF TypeOK, CmdOK, WellFormed
<1>2. NewChain(c) \in Chain /\ NewChain(c).name = cmd[c].name
  BY <1>1 DEF NewChain, Chain, TypeOK
<1>3. net.up /\ Held = net.chains /\ net.chains \in Seq(Chain)
  BY DEF TypeOK, Sound, OwnNetwork, Held
<1>4. net'.up /\ net'.chains = Append(net.chains, NewChain(c))
  BY <1>3 DEF TypeOK
<1>5. cmd[c].kind = "deploy"
  BY DEF TypeOK, CmdOK, WellFormed
<1>6. Agree(net.chains)
  BY <1>3, <1>5 DEF Matched
<1>7. Agree(Append(net.chains, NewChain(c)))
  BY <1>2, <1>3, <1>6, AgreeAppend
<1>8. NamesOf(Append(net.chains, NewChain(c))) = NamesOf(Held) \cup {cmd[c].name}
  BY <1>2, <1>3, NamesAppend
<1>9. Held' = Append(net.chains, NewChain(c))
  BY <1>4 DEF Held
<1>10. QED
  BY <1>2, <1>3, <1>4, <1>7, <1>8, <1>9

LEMMA CreateMatched ==
    ASSUME TypeOK, NEW c \in Slots, Sound(c), Matched(c),
           CreateChain(c) \/ CreateChainFails(c)
    PROVE  Matched(c)'
<1>1. /\ cmd[c].pc = "create" /\ cmd[c].kind = "deploy" /\ net.up
      /\ cmd[c].id = 0 /\ CmdOK /\ Agree(Held) /\ Held = net.chains
      /\ plugins \subseteq NamesOf(Held) \cup {cmd[c].name}
      /\ UNCHANGED <<snaps, sidecar>>
  BY DEF CreateChain, CreateChainFails, TypeOK, CmdOK, WellFormed, Matched,
         Sound, OwnNetwork, Held
<1>2. ~cmd[c].booted => snaps[Default].chains = net.chains
  BY <1>1 DEF Sound, OwnNetwork
<1> DEFINE longer == Append(net.chains, NewChain(c))
<1>3. CASE CreateChain(c)
  <2>1. /\ UNCHANGED plugins /\ Goto(c, "wait")
        /\ net' = [net EXCEPT !.chains = longer]
    BY <1>3 DEF CreateChain
  <2>2. /\ NewChain(c) \in Chain /\ net'.chains = longer /\ Held' = longer
        /\ Agree(longer) /\ NamesOf(longer) = NamesOf(Held) \cup {cmd[c].name}
    BY <1>1, <2>1, ChainHeld
  <2>3. /\ cmd'[c].pc = "wait" /\ cmd'[c].id = 0 /\ cmd'[c].name = cmd[c].name
        /\ cmd'[c].sub = cmd[c].sub /\ cmd'[c].booted = cmd[c].booted
        /\ cmd'[c].kind = "deploy"
    BY <1>1, <2>1, GotoKeeps
  <2>4. Fit(longer) /\ plugins' \subseteq plugins
    BY <1>1, <2>1, <2>2 DEF Fit
  <2>5. Fit(Held)'
    BY <1>1, <2>2, <2>4, HeldFits
  <2>6. Waited(c)'
    <3>1. cmd[c].name \in NamesOf(longer)
      BY <2>2
    <3>2. \A i \in 1..Len(longer) : longer[i].name = cmd[c].name
            => longer[i].sub = cmd[c].sub
      <4>1. /\ Len(net.chains) \in Nat /\ Len(longer) = Len(net.chains) + 1
            /\ longer[Len(net.chains) + 1] = NewChain(c)
            /\ \A i \in 1..Len(net.chains) : longer[i] = net.chains[i]
        BY <2>2 DEF TypeOK
      <4>2. cmd[c].name \notin NamesOf(net.chains)
        BY <1>1 DEF Sound, OwnNetwork
      <4>3. \A i \in 1..Len(net.chains) : net.chains[i].name # cmd[c].name
        BY <4>2 DEF NamesOf
      <4>4. NewChain(c).sub = cmd[c].sub
        BY DEF NewChain
      <4> HIDE DEF longer
      <4>5. 1..Len(longer) = 1..Len(net.chains) \cup {Len(net.chains) + 1}
        BY <4>1
      <4>6. QED
        BY <4>1, <4>3, <4>4, <4>5
    <3> HIDE DEF longer
    <3>3. QED
      BY <2>2, <2>3, <3>1, <3>2 DEF Waited, NamesOf
  <2>7. ~cmd'[c].booted =>
          /\ Agree(snaps[Default].chains)'
          /\ plugins' \subseteq NamesOf(snaps[Default].chains)' \cup {cmd'[c].name}
    <3>1. ASSUME ~cmd[c].booted
          PROVE  /\ Agree(snaps[Default].chains)'
                 /\ NamesOf(snaps[Default].chains)' = NamesOf(Held)
      BY <1>1, <1>2, <3>1 DEF Agree, RecordedIn, NamesOf
    <3>2. QED
      BY <1>1, <2>1, <2>3, <3>1
  <2>8. QED
    BY <2>3, <2>5, <2>6, <2>7 DEF Matched, Fit
<1>4. CASE CreateChainFails(c)
  <2>1. plugins' = plugins \ {cmd[c].name} /\ Fail(c)
    BY <1>4 DEF CreateChainFails
  <2>2. Fit(Held)'
    <3>1. CASE net' = net
      <4>1. Held' = Held /\ plugins' \subseteq NamesOf(Held)
        BY <1>1, <2>1, <3>1, HeldUnchanged
      <4>2. Agree(Held)' /\ NamesOf(Held)' = NamesOf(Held)
        BY <1>1, <4>1, HeldKept DEF NamesOf
      <4>3. QED
        BY <4>1, <4>2 DEF Fit
    <3>2. CASE net' = [net EXCEPT !.chains = longer]
      <4>1. /\ Held' = longer /\ Agree(longer)
            /\ NamesOf(longer) = NamesOf(Held) \cup {cmd[c].name}
        BY <1>1, <3>2, ChainHeld
      <4>2. Fit(longer) /\ plugins' \subseteq plugins
        BY <1>1, <2>1, <4>1 DEF Fit
      <4>3. QED
        BY <1>1, <4>1, <4>2, HeldFits
    <3>3. QED
      BY <1>4, <3>1, <3>2 DEF CreateChainFails
  <2>3. cmd[c].started => Fit(snaps[Default].chains)'
    <3>1. ASSUME cmd[c].started PROVE snaps[Default].chains = Held
      BY <1>1, <3>1, StartedHeld
    <3>2. ASSUME cmd[c].started
          PROVE  /\ Agree(snaps[Default].chains)'
                 /\ NamesOf(snaps[Default].chains)' = NamesOf(Held)
      BY <1>1, <3>1, <3>2 DEF Agree, RecordedIn, NamesOf
    <3>3. QED
      BY <1>1, <2>1, <3>2 DEF Fit
  <2>4. QED
    BY <1>1, <2>1, <2>2, <2>3, FailMatched
<1>5. QED
  BY <1>3, <1>4

LEMMA WaitMatched ==
    ASSUME TypeOK, NEW c \in Slots, Sound(c), Matched(c),
           WaitChain(c) \/ WaitChainFails(c) \/ RecordDeploy(c)
    PROVE  Matched(c)'
<1>1. /\ cmd[c].pc \in {"wait", "record"} /\ cmd[c].kind = "deploy" /\ net.up
      /\ CmdOK /\ Fit(Held) /\ Held = net.chains /\ UNCHANGED <<net, snaps>>
      /\ Held' = Held
  BY DEF WaitChain, WaitChainFails, RecordDeploy, TypeOK, CmdOK, WellFormed, Matched,
         Sound, OwnNetwork, Held
<1>2. CASE WaitChain(c)
  <2>1. /\ cmd[c].pc = "wait" /\ UNCHANGED <<sidecar, plugins>>
    BY <1>2 DEF WaitChain
  <2>2. Waited(c) /\ IdsOf(net.chains, cmd[c].name) # {}
    <3>1. Waited(c)
      BY <2>1 DEF Matched
    <3>2. PICK k \in 1..Len(net.chains) : net.chains[k].name = cmd[c].name
      BY <3>1 DEF Waited, NamesOf
    <3>3. net.chains[k].id \in IdsOf(net.chains, cmd[c].name)
      BY <3>2 DEF IdsOf
    <3>4. QED
      BY <3>1, <3>3
  <2>3. PICK i \in IdsOf(net.chains, cmd[c].name) :
          cmd' = [cmd EXCEPT ![c].pc = "record", ![c].id = i]
    BY <1>2, <2>2 DEF WaitChain
  <2>4. /\ cmd'[c].pc = "record" /\ cmd'[c].id = i /\ cmd'[c].name = cmd[c].name
        /\ cmd'[c].sub = cmd[c].sub /\ cmd'[c].kind = "deploy"
    BY <1>1, <2>3 DEF CmdOK, Commands
  <2>5. PICK k \in 1..Len(net.chains) :
          net.chains[k].name = cmd[c].name /\ net.chains[k].id = i
    BY <2>3 DEF IdsOf
  <2>6. net.chains[k] = [name |-> cmd[c].name, sub |-> cmd[c].sub, id |-> i]
    <3>1. net.chains[k] \in Chain
      BY DEF TypeOK
    <3>2. net.chains[k].sub = cmd[c].sub
      BY <2>2, <2>5 DEF Waited
    <3>3. QED
      BY <2>5, <3>1, <3>2 DEF Chain
  <2>7. Answered(c)'
    BY <1>1, <2>2, <2>4, <2>6 DEF Answered, Waited
  <2>8. Fit(Held)'
    BY <1>1, <2>1, HeldFits
  <2>9. QED
    BY <2>4, <2>7, <2>8 DEF Matched, Fit
<1>3. CASE WaitChainFails(c)
  <2>1. /\ cmd[c].pc = "wait" /\ cmd[c].id = 0 /\ UNCHANGED sidecar /\ Fail(c)
        /\ plugins' = plugins \ {cmd[c].name}
    BY <1>3 DEF WaitChainFails, Matched
  <2>2. Fit(Held)'
    BY <1>1, <2>1, HeldFits
  <2>3. ASSUME cmd[c].started PROVE Fit(snaps[Default].chains)'
    <3>1. ~cmd[c].booted
      BY <2>3 DEF Sound, StartedHere
    <3>2. /\ Agree(snaps[Default].chains)
          /\ plugins \subseteq NamesOf(snaps[Default].chains) \cup {cmd[c].name}
      BY <2>1, <3>1 DEF Matched
    <3>3. Agree(snaps[Default].chains)'
      BY <1>1, <2>1, <3>2 DEF Agree, RecordedIn
    <3>4. NamesOf(snaps[Default].chains)' = NamesOf(snaps[Default].chains)
      BY <1>1 DEF NamesOf
    <3>5. QED
      BY <2>1, <3>2, <3>3, <3>4 DEF Fit
  <2>4. QED
    BY <1>1, <2>1, <2>2, <2>3, FailMatched
<1>4. CASE RecordDeploy(c)
  <2> DEFINE n == cmd[c].name
             entry == [sub |-> cmd[c].sub, id |-> cmd[c].id]
  <2>1. /\ cmd[c].pc = "record" /\ UNCHANGED plugins /\ Finish(c, "ok")
        /\ sidecar' = [sidecar EXCEPT ![n] = entry] /\ n \in Names
    BY <1>1, <1>4 DEF RecordDeploy, CmdOK, WellFormed
  <2>2. /\ cmd'[c].pc = "idle" /\ cmd'[c].id = 0
    BY <1>1, <2>1, FinishKeeps
  <2>3. Answered(c)
    BY <2>1 DEF Matched
  <2>4. /\ n \in NamesOf(Held)
        /\ entry.id > 0 => \E i \in 1..Len(Held) :
             Held[i] = [name |-> n, sub |-> entry.sub, id |-> entry.id]
    BY <1>1, <2>3 DEF Answered
  <2>5. /\ sidecar'[n] = entry
        /\ \A m \in Names \ {n} : sidecar'[m] = sidecar[m]
    BY <2>1 DEF TypeOK
  <2> HIDE DEF entry, n
  <2>6. ASSUME NEW m \in Names
        PROVE  /\ sidecar'[m] # NoEntry => m \in NamesOf(Held)
               /\ sidecar'[m].id > 0 => \E i \in 1..Len(Held) :
                    Held[i] = [name |-> m, sub |-> sidecar'[m].sub, id |-> sidecar'[m].id]
    <3>1. CASE m = n
      BY <2>4, <2>5, <3>1
    <3>2. CASE m # n
      <4>1. sidecar'[m] = sidecar[m]
        BY <2>5, <3>2
      <4>2. QED
        BY <1>1, <4>1 DEF Fit, Agree, RecordedIn
    <3>3. QED
      BY <3>1, <3>2
  <2>7. Agree(Held)'
    BY <1>1, <2>6 DEF Agree, RecordedIn, NamesOf
  <2>8. Fit(Held)'
    BY <1>1, <2>1, <2>7 DEF Fit, NamesOf
  <2>9. QED
    BY <2>2, <2>8, GoesOn
<1>5. QED
  BY <1>2, <1>3, <1>4

LEMMA StopMatched ==
    ASSUME TypeOK, OnlyCallsFail, Snapshots = {Default}, NEW c \in Slots, Sound(c),
           Matched(c), Stop(c)
    PROVE  Matched(c)'
<1>1. /\ cmd[c].pc \in {"remove", "save"} /\ cmd[c].kind = "stop" /\ CmdOK
      /\ cmd[c].snap = Default /\ UNCHANGED <<sidecar, plugins>>
      /\ Fit(Held) /\ cmd[c].id = 0
  BY DEF Stop, RemoveSnapshot, RemoveSnapshotFails, SaveSnapshot, SaveSnapshotFails,
         TypeOK, CmdOK, WellFormed, Matched
<1>2. Held' = Held
  <2>1. CASE RemoveSnapshot(c)
    <3>1. UNCHANGED net /\ (UNCHANGED snaps \/ net.up)
      BY <2>1 DEF RemoveSnapshot
    <3>2. QED
      BY <3>1 DEF Held
  <2>2. CASE SaveSnapshot(c)
    <3>1. /\ net.up /\ net' = Down
          /\ snaps' = [snaps EXCEPT ![Default] = [there |-> TRUE, chains |-> net.chains]]
      BY <1>1, <2>2 DEF SaveSnapshot
    <3>2. snaps'[Default].chains = net.chains
      BY <3>1, ConstantsAssumption DEF TypeOK
    <3>3. QED
      BY <3>1, <3>2 DEF Held, Down
  <2>3. CASE RemoveSnapshotFails(c) \/ SaveSnapshotFails(c)
    BY <2>3, HeldUnchanged DEF RemoveSnapshotFails, SaveSnapshotFails
  <2>4. QED
    BY <2>1, <2>2, <2>3 DEF Stop
<1>3. Fit(Held)'
  BY <1>1, <1>2, HeldFits
<1>4. cmd'[c].id = 0 /\ cmd'[c].kind = "stop" /\ cmd'[c].pc \in {"idle", "save", "kill"}
  <2>1. \/ \E p : Goto(c, p)
        \/ \E r : Finish(c, r)
    BY DEF Stop, RemoveSnapshot, RemoveSnapshotFails, SaveSnapshot, SaveSnapshotFails
  <2>2. cmd'[c].id = 0
    BY <1>1, <2>1, GotoKeeps, FinishKeeps
  <2>3. QED
    BY <2>2, StopLeads
<1>5. QED
  BY <1>3, <1>4, GoesOn

(* A kill of anything but clean leaves what is held as it was, or falls    *)
(* back to the default snapshot.                                           *)
LEMMA KillMatched ==
    ASSUME TypeOK, NEW c \in Slots, Sound(c), Matched(c), Kill(c)
    PROVE  Matched(c)'
<1>1. /\ CmdOK /\ UNCHANGED <<snaps, sidecar, plugins>> /\ cmd[c].id = 0
      /\ cmd[c].pc \in {"kill", "signal", "rmrun"}
      /\ cmd'[c].kind = cmd[c].kind
      /\ cmd'[c].pc \in {"signal", "rmrun", "idle", "unplug"}
  BY KillLeads DEF TypeOK, Matched
<1>2. cmd'[c].id = 0
  <2>1. \/ \E p : Goto(c, p)
        \/ \E r : Finish(c, r)
    BY DEF Kill, KillNetwork, KillDialFails, KillSignal, KillRemoveRunFile, KillReturns
  <2>2. QED
    BY <1>1, <2>1, GotoKeeps, FinishKeeps
<1>3. CASE cmd[c].kind = "clean"
  <2>1. cmd'[c].pc # "idle"
    BY <1>3, KillLeads
  <2>2. QED
    BY <1>1, <1>2, <1>3, <2>1 DEF Matched
<1>4. CASE cmd[c].kind # "clean"
  <2>1. Fit(Held)
    BY <1>1, <1>4 DEF Matched
  <2>2. Fit(Held)'
    <3>1. CASE Held' = Held
      BY <1>1, <2>1, <3>1, HeldFits
    <3>2. CASE Held' # Held
      <4>1. net.up /\ net' = Down
        BY <1>1, <3>2
        DEF Kill, KillNetwork, KillDialFails, KillSignal, KillRemoveRunFile,
            BackendGone, Held, Down
      <4>2. cmd[c].pc = "kill" /\ cmd[c].kind = "deploy"
        <5>1. cmd[c].pc = "kill" /\ cmd[c].kind # "stop"
          BY <1>1, <4>1 DEF Sound, ShutsDown
        <5>2. KillNetwork(c)
          BY <5>1, <4>1
          DEF Kill, KillNetwork, KillDialFails, KillSignal, KillRemoveRunFile, Down
        <5>3. cmd[c].kind \in {"deploy", "stop", "clean"}
          BY <5>1 DEF Sound, ShutsDown
        <5>4. QED
          BY <1>4, <5>1, <5>3
      <4>3. Held' = snaps[Default].chains /\ Fit(snaps[Default].chains)
        BY <1>1, <4>1, <4>2 DEF Held, Down, Matched
      <4>4. QED
        BY <1>1, <4>3, HeldFits
    <3>3. QED
      BY <3>1, <3>2
  <2>3. QED
    BY <1>1, <1>2, <2>2, GoesOn
<1>5. QED
  BY <1>3, <1>4

LEMMA CleanMatched ==
    ASSUME TypeOK, NEW c \in Slots, Sound(c), Matched(c), Clean(c)
    PROVE  Matched(c)'
<1>1. /\ CmdOK /\ cmd[c].pc \in {"reset", "unplug", "sidecars"}
      /\ cmd[c].kind = "clean" /\ cmd'[c].kind = "clean" /\ cmd[c].id = 0
      /\ cmd'[c].pc \in {"kill", "sidecars", "idle"}
  BY CleanLeads DEF TypeOK, Matched, Sound, ShutsDown
<1>2. cmd'[c].id = 0
  <2>1. \/ \E p : Goto(c, p)
        \/ \E r : Finish(c, r)
        \/ UNCHANGED cmd
    BY DEF Clean, CleanReset, CleanResetFails, CleanPlugins, CleanSidecar, CleanDone
  <2>2. QED
    BY <1>1, <2>1, GotoKeeps, FinishKeeps
<1>3. cmd'[c].pc = "sidecars" => plugins' = {}
  BY CleanLeads DEF Matched
<1>4. CASE cmd'[c].pc = "idle"
  <2>1. /\ UNCHANGED <<sidecar, plugins>> /\ plugins = {}
        /\ \A n \in Names : sidecar'[n] = NoEntry
    BY <1>4, CleanLeads DEF Matched
  <2>2. Fit(Held)'
    BY <2>1 DEF Fit, Agree, NoEntry
  <2>3. QED
    BY <1>2, <1>4, <2>2, GoesOn
<1>5. CASE cmd'[c].pc # "idle"
  BY <1>1, <1>2, <1>3, <1>5 DEF Matched
<1>6. QED
  BY <1>4, <1>5

LEMMA BeginMatched ==
    ASSUME TypeOK, NEW c \in Slots, Matched(c), Begin(c)
    PROVE  Matched(c)'
<1>1. /\ UNCHANGED <<net, snaps, sidecar, plugins>>
      /\ cmd[c].pc = "idle" /\ cmd'[c].pc \in {"server", "remove", "reset"}
  BY BeginLeads DEF Running
<1>2. Fit(Held)
  BY <1>1 DEF Matched
<1>3. Fit(Held)'
  BY <1>1, <1>2, HeldUnchanged, HeldFits
<1>4. cmd'[c].id = 0
  <2>1. cmd \in [Slots -> Commands]
    BY DEF TypeOK, CmdOK
  <2>2. ASSUME NEW n \in Names, BeginDeploy(c, n) PROVE cmd'[c].id = 0
    BY <2>1, <2>2 DEF BeginDeploy, Idle
  <2>3. ASSUME NEW s \in Snapshots, BeginStart(c, s) \/ BeginStop(c, s)
        PROVE  cmd'[c].id = 0
    BY <2>1, <2>3 DEF BeginStart, BeginStop, Idle
  <2>4. ASSUME NEW h \in BOOLEAN, BeginClean(c, h) PROVE cmd'[c].id = 0
    BY <2>1, <2>4 DEF BeginClean, Idle
  <2>5. QED
    BY <2>2, <2>3, <2>4 DEF Begin
<1>5. QED
  BY <1>1, <1>3, <1>4, GoesOn

LEMMA InitMatched ==
    ASSUME Init, NEW c \in Slots
    PROVE  Matched(c)
<1>1. /\ cmd[c].pc = "idle" /\ cmd[c].id = 0 /\ plugins = {}
      /\ \A n \in Names : sidecar[n] = NoEntry
  BY DEF Init, Idle
<1>2. Fit(Held)
  BY <1>1 DEF Fit, Agree, NoEntry
<1>3. QED
  BY <1>1, <1>2 DEF Matched, Fit

LEMMA NextMatched ==
    ASSUME NEW c, Slots = {c}, Snapshots = {Default}, OnlyCallsFail,
           TypeOK, Sound(c), Matched(c), [Next]_vars
    PROVE  Matched(c)'
<1>1. CASE Begin(c) \/ Step(c)
  BY <1>1, BeginMatched, PrepareMatched, ChooseMatched, CreateMatched, WaitMatched,
     StopMatched, KillMatched, CleanMatched
  DEF Step, Deploy
<1>2. CASE Crash(c) \/ BackendDies \/ NewImage
  BY <1>2 DEF Crash, BackendDies, NewImage, OnlyCallsFail
<1>3. CASE UNCHANGED vars
  BY <1>3 DEF vars, Matched, Fit, Agree, RecordedIn, NamesOf, Held, Waited, Answered
<1>4. QED
  BY <1>1, <1>2, <1>3 DEF Next

LEMMA MatchedAlways ==
    ASSUME NEW c, Slots = {c}, Snapshots = {Default}, OnlyCallsFail
    PROVE  Spec => []Matched(c)
<1>1. TypeOK /\ Sound(c) /\ Matched(c) /\ [Next]_vars => Matched(c)'
  BY NextMatched
<1>2. Init => Matched(c)
  BY InitMatched
<1>3. Spec => []Sound(c)
  BY SoundAlways
<1>4. QED
  BY <1>1, <1>2, <1>3, TypeCorrect, PTL DEF Spec

(* With one terminal and the default snapshot only, whatever calls fail,   *)
(* no command leaves behind a Local entry of a blockchain that is gone or  *)
(* IDs that are not those of the blockchain it names.                      *)
THEOREM SidecarsSpeakTruth ==
    ASSUME NEW c, Slots = {c}, Snapshots = {Default}, OnlyCallsFail
    PROVE  Spec => []SidecarsAgree
<1>1. TypeOK /\ Matched(c) => SidecarsAgree
  <2> SUFFICES ASSUME TypeOK, Matched(c), Quiet, NEW n \in Names
               PROVE  /\ sidecar[n] # NoEntry => n \in NamesOf(Held)
                      /\ sidecar[n].id > 0 =>
                            /\ sidecar[n] \in HeldEntries
                            /\ sidecar[n].id \in IdsOf(Held, n)
    BY DEF SidecarsAgree
  <2>1. Agree(Held)
    BY DEF Quiet, Running, Matched
  <2>2. sidecar[n] # NoEntry => n \in NamesOf(Held)
    BY <2>1 DEF Agree
  <2>3. ASSUME sidecar[n].id > 0
        PROVE  sidecar[n] \in HeldEntries /\ sidecar[n].id \in IdsOf(Held, n)
    <3>1. PICK i \in 1..Len(Held) :
            Held[i] = [name |-> n, sub |-> sidecar[n].sub, id |-> sidecar[n].id]
      BY <2>1, <2>3 DEF Agree, RecordedIn
    <3>2. Held[i].name = n /\ Held[i].sub = sidecar[n].sub /\ Held[i].id = sidecar[n].id
      BY <3>1
    <3>3. sidecar[n] = [sub |-> Held[i].sub, id |-> Held[i].id]
      BY <3>2 DEF TypeOK
    <3>4. QED
      BY <3>2, <3>3 DEF HeldEntries, IdsOf
  <2>4. QED
    BY <2>2, <2>3
<1>2. QED
  BY <1>1, MatchedAlways, TypeCorrect, PTL

(* The error that "should never happen" does not: a deploy that reaches    *)
(* the installation of its VM finds no binary of that name.                *)
THEOREM InstallIsFirst ==
    ASSUME NEW c, Slots = {c}, Snapshots = {Default}, OnlyCallsFail
    PROVE  Spec => []InstallFindsNoPlugin
<1>1. TypeOK /\ Sound(c) /\ Matched(c) => InstallFindsNoPlugin
  <2> SUFFICES ASSUME TypeOK, Sound(c), Matched(c), cmd[c].pc = "install"
               PROVE  cmd[c].name \notin plugins
    BY DEF InstallFindsNoPlugin
  <2>1. cmd[c].kind = "deploy" /\ net.up /\ cmd[c].name \notin NamesOf(net.chains)
    BY DEF TypeOK, CmdOK, WellFormed, Sound, OwnNetwork
  <2>2. plugins \subseteq NamesOf(net.chains)
    BY <2>1 DEF Matched, Fit, Held
  <2>3. QED
    BY <2>1, <2>2
<1>2. Spec => []Sound(c)
  BY SoundAlways
<1>3. QED
  BY <1>1, <1>2, MatchedAlways, TypeCorrect, PTL

ChainsSurvive == \A n \in Names :
    (RecordedIn(n, net.chains) \/ RecordedIn(n, snaps[Default].chains))
    /\ sidecar'[n] = sidecar[n]
    /\ (\A c \in Slots : cmd[c].kind # "clean")
    => \E i \in 1..(Len(net'.chains) + Len(snaps'[Default].chains)) :
        (net'.chains \o snaps'[Default].chains)[i]
            = [name |-> n, sub |-> sidecar[n].sub, id |-> sidecar[n].id]

(* What is recorded stays among the blockchains that are held.             *)
LEMMA NextChainsSurvive ==
    ASSUME NEW c, Slots = {c}, Snapshots = {Default}, OnlyCallsFail,
           TypeOK, Sound(c), Matched(c), [Next]_vars
    PROVE  ChainsSurvive
<1> SUFFICES ASSUME NEW n \in Names,
                    RecordedIn(n, net.chains) \/ RecordedIn(n, snaps[Default].chains),
                    sidecar'[n] = sidecar[n], cmd[c].kind # "clean"
             PROVE  \E i \in 1..(Len(net'.chains) + Len(snaps'[Default].chains)) :
                      (net'.chains \o snaps'[Default].chains)[i]
                        = [name |-> n, sub |-> sidecar[n].sub, id |-> sidecar[n].id]
  BY DEF ChainsSurvive
<1> DEFINE lost == [name |-> n, sub |-> sidecar[n].sub, id |-> sidecar[n].id]
<1>1. TypeOK' /\ Matched(c)'
  BY StepTyped, NextMatched
<1>2. Agree(Held)'
  <2>1. cmd'[c].kind # "clean" \/ cmd'[c].pc \in {"idle", "reset"}
    <3>1. CASE Begin(c)
      BY <3>1, BeginLeads
    <3>2. CASE Step(c)
      BY <3>2, PrepareLeads, DeployLeads, StopLeads, KillLeads, CleanLeads DEF Step
    <3>3. CASE Crash(c) \/ BackendDies \/ NewImage
      BY <3>3 DEF Crash, BackendDies, NewImage, OnlyCallsFail
    <3>4. CASE UNCHANGED vars
      BY <3>4 DEF vars
    <3>5. QED
      BY <3>1, <3>2, <3>3, <3>4 DEF Next
  <2>2. QED
    BY <1>1, <2>1 DEF Matched
<1>3. sidecar[n].id > 0
  <2>1. /\ net.chains \in Seq(Chain) /\ snaps[Default].chains \in Seq(Chain)
    BY ConstantsAssumption DEF TypeOK
  <2>2. ASSUME NEW chains \in Seq(Chain), RecordedIn(n, chains)
        PROVE  sidecar[n].id > 0
    <3>1. PICK i \in 1..Len(chains) : chains[i] = lost
      BY <2>2 DEF RecordedIn
    <3>2. chains[i] \in Chain
      OBVIOUS
    <3>3. chains[i].id = sidecar[n].id
      BY <3>1
    <3>4. QED
      BY <3>2, <3>3 DEF Chain
  <2>3. QED
    BY <2>1, <2>2
<1>4. \E i \in 1..Len(Held') : Held'[i] = lost
  BY <1>2, <1>3 DEF Agree, RecordedIn
<1>5. net'.chains \in Seq(Chain) /\ snaps'[Default].chains \in Seq(Chain)
  BY <1>1, ConstantsAssumption DEF TypeOK
<1>6. Held' = net'.chains \/ Held' = snaps'[Default].chains
  BY DEF Held
<1> HIDE DEF lost
<1>7. ASSUME NEW s \in Seq(Chain), NEW t \in Seq(Chain),
             (\E i \in 1..Len(s) : s[i] = lost) \/ (\E i \in 1..Len(t) : t[i] = lost)
      PROVE  \E i \in 1..(Len(s) + Len(t)) : (s \o t)[i] = lost
  <2>1. ASSUME NEW i \in 1..Len(s), s[i] = lost
        PROVE  i \in 1..(Len(s) + Len(t)) /\ (s \o t)[i] = lost
    BY <2>1
  <2>2. ASSUME NEW i \in 1..Len(t), t[i] = lost
        PROVE  Len(s) + i \in 1..(Len(s) + Len(t)) /\ (s \o t)[Len(s) + i] = lost
    BY <2>2
  <2>3. QED
    BY <1>7, <2>1, <2>2
<1>8. QED
  BY <1>4, <1>5, <1>6, <1>7, ZenonT(60) DEF lost

LEMMA SurviveMeans ==
    ChainsSurvive =>
        \A n \in Names :
            (RecordedIn(n, net.chains) \/ RecordedIn(n, snaps[Default].chains))
            /\ sidecar'[n] = sidecar[n]
            /\ (\A c \in Slots : cmd[c].kind # "clean")
            => \E i \in 1..(Len(net'.chains) + Len(snaps'[Default].chains)) :
                (net'.chains \o snaps'[Default].chains)[i]
                    = [name |-> n, sub |-> sidecar[n].sub, id |-> sidecar[n].id]
BY DEF ChainsSurvive

(* A recorded blockchain is lost only to a clean: a deploy that fails, and *)
(* the kill of the backend it started, take back no more than it did.      *)
THEOREM RecordedSurvive ==
    ASSUME NEW c, Slots = {c}, Snapshots = {Default}, OnlyCallsFail
    PROVE  Spec => RecordedChainsSurvive
<1>1. TypeOK /\ Sound(c) /\ Matched(c) /\ [Next]_vars => ChainsSurvive
  BY NextChainsSurvive
<1>2. Spec => []Sound(c)
  BY SoundAlways
<1>3. QED
  BY <1>1, <1>2, SurviveMeans, MatchedAlways, TypeCorrect, PTL
  DEF Spec, RecordedChainsSurvive

-----------------------------------------------------------------------------
(* The snapshots as the README speaks of them, and a step of its promise.  *)
SavedAs == [s \in Snapshots |->
              IF Saving(s) THEN [there |-> TRUE, chains |-> net.chains]
              ELSE snaps[s]]

PromiseStep == [Readme!PNext]_(Readme!pvars)

LEMMA StutterStep ==
    ASSUME UNCHANGED <<net, SavedAs, Wiping>>
    PROVE  PromiseStep
BY DEF PromiseStep, Readme!pvars, SavedAs

LEMMA ProvideStep ==
    ASSUME UNCHANGED <<net, Wiping>>, ~SavedAs[Default].there,
           SavedAs' = [SavedAs EXCEPT ![Default] = Bootstrap]
    PROVE  PromiseStep
<1>1. Readme!Provide
  BY DEF Readme!Provide, Readme!BootstrapImage, Bootstrap, SavedAs
<1>2. QED
  BY <1>1 DEF PromiseStep, Readme!PNext

LEMMA LoadStep ==
    ASSUME UNCHANGED <<SavedAs, Wiping>>, NEW s \in Snapshots, ~net.up,
           SavedAs[s].there, net' = [up |-> TRUE, chains |-> SavedAs[s].chains]
    PROVE  PromiseStep
<1>1. Readme!Load(s)
  BY DEF Readme!Load, SavedAs
<1>2. QED
  BY <1>1 DEF PromiseStep, Readme!PNext

LEMMA ExtendStep ==
    ASSUME UNCHANGED <<SavedAs, Wiping>>, net.up, NEW n \in Names,
           n \notin NamesOf(net.chains), NEW i \in 1..MaxChains,
           \A k \in 1..Len(net.chains) : net.chains[k].id # i,
           \A s \in Snapshots : \A k \in 1..Len(SavedAs[s].chains) :
              SavedAs[s].chains[k].id # i,
           net' = [net EXCEPT !.chains = Append(net.chains,
                    [name |-> n, sub |-> SelectSubnet(net.chains), id |-> i])]
    PROVE  PromiseStep
<1>1. i \in (1..MaxChains) \ Readme!UsedIds
  BY DEF Readme!UsedIds, SavedAs
<1>2. Readme!Extend(n)
  BY <1>1 DEF Readme!Extend, NamesOf, SelectSubnet, SavedAs
<1>3. QED
  BY <1>2 DEF PromiseStep, Readme!PNext

LEMMA PersistStep ==
    ASSUME UNCHANGED <<net, Wiping>>, net.up, NEW s \in Snapshots,
           SavedAs' = [SavedAs EXCEPT ![s] = [there |-> TRUE, chains |-> net.chains]]
    PROVE  PromiseStep
<1>1. Readme!Persist(s)
  BY DEF Readme!Persist, SavedAs
<1>2. QED
  BY <1>1 DEF PromiseStep, Readme!PNext

LEMMA HaltStep ==
    ASSUME UNCHANGED <<SavedAs, Wiping>>, net.up, net' = Down,
           Wiping \/ \E s \in Snapshots :
              SavedAs[s] = [there |-> TRUE, chains |-> net.chains]
    PROVE  PromiseStep
<1>1. Readme!Halt
  BY DEF Readme!Halt, Readme!Off, Down, SavedAs
<1>2. QED
  BY <1>1 DEF PromiseStep, Readme!PNext

LEMMA WipeStep ==
    ASSUME UNCHANGED net, ~Wiping, Wiping',
           SavedAs' = [SavedAs EXCEPT ![Default] = Bootstrap]
    PROVE  PromiseStep
<1>1. Readme!Wipe
  BY DEF Readme!Wipe, Readme!BootstrapImage, Bootstrap, SavedAs, Wiping
<1>2. QED
  BY <1>1 DEF PromiseStep, Readme!PNext

LEMMA WipedStep ==
    ASSUME UNCHANGED <<net, SavedAs>>, ~net.up, Wiping, ~Wiping'
    PROVE  PromiseStep
<1>1. Readme!Wiped
  BY DEF Readme!Wiped, SavedAs, Wiping
<1>2. QED
  BY <1>1 DEF PromiseStep, Readme!PNext

-----------------------------------------------------------------------------
(* No step saves and the two sides agree on the snapshots.                 *)
LEMMA SavedPlain ==
    ASSUME TypeOK, NEW c, Slots = {c}, cmd[c].pc # "save"
    PROVE  SavedAs = snaps
<1>1. \A s \in Snapshots : ~Saving(s)
  BY DEF Saving
<1>2. snaps = [s \in Snapshots |-> snaps[s]]
  BY DEF TypeOK
<1>3. QED
  BY <1>1, <1>2 DEF SavedAs

LEMMA SavedInSave ==
    ASSUME TypeOK, NEW c, Slots = {c}, cmd[c].pc = "save"
    PROVE  SavedAs = [snaps EXCEPT ![cmd[c].snap] =
                        [there |-> TRUE, chains |-> net.chains]]
<1>1. \A s \in Snapshots : Saving(s) <=> s = cmd[c].snap
  BY DEF Saving
<1>2. snaps \in [Snapshots -> [there : BOOLEAN, chains : Seq(Chain)]]
  BY DEF TypeOK
<1>3. QED
  BY <1>1, <1>2 DEF SavedAs

LEMMA WipingMeans ==
    ASSUME NEW c, Slots = {c}
    PROVE  /\ Wiping <=> cmd[c].kind = "clean" /\ cmd[c].pc \in {"kill", "signal", "rmrun"}
           /\ Wiping' <=> cmd'[c].kind = "clean" /\ cmd'[c].pc \in {"kill", "signal", "rmrun"}
           /\ Wiping \in BOOLEAN /\ Wiping' \in BOOLEAN
BY DEF Wiping

LEMMA SavedPlainNext ==
    ASSUME TypeOK', NEW c, Slots = {c}, cmd'[c].pc # "save"
    PROVE  SavedAs' = snaps'
<1>1. \A s \in Snapshots : ~Saving(s)'
  BY DEF Saving
<1>2. snaps' = [s \in Snapshots |-> snaps'[s]]
  BY DEF TypeOK
<1>3. QED
  BY <1>1, <1>2 DEF SavedAs

LEMMA SavedInSaveNext ==
    ASSUME TypeOK', NEW c, Slots = {c}, cmd'[c].pc = "save"
    PROVE  SavedAs' = [snaps' EXCEPT ![cmd'[c].snap] =
                        [there |-> TRUE, chains |-> net'.chains]]
<1>1. \A s \in Snapshots : Saving(s)' <=> s = cmd'[c].snap
  BY DEF Saving
<1>2. snaps' \in [Snapshots -> [there : BOOLEAN, chains : Seq(Chain)]]
  BY DEF TypeOK
<1>3. QED
  BY <1>1, <1>2 DEF SavedAs

(* Steps that neither save nor change what the README speaks of.           *)
LEMMA PlainStep ==
    ASSUME TypeOK, TypeOK', NEW c, Slots = {c}, UNCHANGED <<net, snaps, Wiping>>,
           cmd[c].pc # "save", cmd'[c].pc # "save"
    PROVE  PromiseStep
BY SavedPlain, SavedPlainNext, StutterStep

-----------------------------------------------------------------------------
(* What the refinement needs besides Sound: the calls that may fail are    *)
(* those that leave the network as it was.                                 *)
NoCallLost == Faults \subseteq {"version", "config"}

(* The IDs of blockchains are given once, and a deploy on its way has room *)
(* for one more.                                                           *)
IdsGiven(chains) == \A i \in 1..Len(chains) : chains[i].id < nextId

Choosing == {"server", "spawn", "runfile", "env", "status", "restart", "replug",
             "boot", "version", "select", "install", "create"}

Counted(c) ==
    /\ IdsGiven(net.chains)
    /\ \A s \in Snapshots : IdsGiven(snaps[s].chains)
    /\ cmd[c].kind = "deploy" /\ cmd[c].pc \in Choosing => nextId <= MaxChains

(* A deploy kills a running network only before it has changed it.         *)
FallsBack(c) ==
    cmd[c].kind = "deploy" /\ cmd[c].pc = "kill" /\ net.up
        => snaps[Default] = [there |-> TRUE, chains |-> net.chains]

Kept(c) == Counted(c) /\ FallsBack(c)

(* Where the blockchains of a network or a snapshot come from.             *)
ChainsFrom(c) ==
    /\ \/ net'.chains \in {net.chains, <<>>}
       \/ \E s \in Snapshots : net'.chains = snaps[s].chains
    /\ \A s \in Snapshots : snaps'[s].chains \in {snaps[s].chains, net.chains, <<>>}
    /\ nextId' = nextId

LEMMA IdsFrom ==
    ASSUME NEW c \in Slots, Counted(c), ChainsFrom(c)
    PROVE  IdsGiven(net.chains)' /\ \A s \in Snapshots : IdsGiven(snaps[s].chains)'
<1>1. IdsGiven(<<>>)
  BY DEF IdsGiven
<1>2. ASSUME NEW x, IdsGiven(x) PROVE \A i \in 1..Len(x) : x[i].id < nextId'
  BY <1>2 DEF IdsGiven, ChainsFrom
<1>3. IdsGiven(net.chains)'
  <2>1. IdsGiven(net'.chains)
    BY <1>1 DEF Counted, ChainsFrom
  <2>2. QED
    BY <1>2, <2>1 DEF IdsGiven
<1>4. ASSUME NEW s \in Snapshots PROVE IdsGiven(snaps[s].chains)'
  <2>1. IdsGiven(snaps'[s].chains)
    BY <1>1 DEF Counted, ChainsFrom
  <2>2. QED
    BY <1>2, <2>1 DEF IdsGiven
<1>5. QED
  BY <1>3, <1>4

LEMMA FromSame ==
    ASSUME NEW c \in Slots, nextId' = nextId, net' \in {net, Down},
           snaps' = snaps \/ snaps' = [snaps EXCEPT ![Default] = Bootstrap],
           TypeOK
    PROVE  ChainsFrom(c)
<1>1. net'.chains \in {net.chains, <<>>}
  BY DEF Down
<1>2. ASSUME NEW s \in Snapshots PROVE snaps'[s].chains \in {snaps[s].chains, <<>>}
  <2>1. CASE snaps' = snaps
    BY <2>1
  <2>2. CASE snaps' = [snaps EXCEPT ![Default] = Bootstrap]
    <3>1. snaps'[s] = snaps[s] \/ snaps'[s] = Bootstrap
      BY <2>2 DEF TypeOK
    <3>2. QED
      BY <3>1 DEF Bootstrap
  <2>3. QED
    BY <2>1, <2>2
<1>3. QED
  BY <1>1, <1>2 DEF ChainsFrom

LEMMA PrepareFrom ==
    ASSUME TypeOK, NoCallLost, NEW c \in Slots, Prepare(c)
    PROVE  ChainsFrom(c)
<1>1. CASE Boot(c)
  <2>1. /\ net' = [up |-> TRUE, chains |-> snaps[cmd[c].snap].chains]
        /\ cmd[c].snap \in Snapshots /\ UNCHANGED <<snaps, nextId>>
    BY <1>1 DEF Boot, TypeOK, CmdOK, WellFormed
  <2>2. QED
    BY <2>1 DEF ChainsFrom
<1>2. CASE ~Boot(c)
  <2>1. ~SetupEnvFails(c)
    BY DEF SetupEnvFails, NoCallLost
  <2>2. nextId' = nextId /\ net' \in {net, Down}
        /\ (snaps' = snaps \/ snaps' = [snaps EXCEPT ![Default] = Bootstrap])
    BY <1>2, <2>1
    DEF Prepare, CheckServer, Spawn, WriteRunFile, SetupEnv, Status, RestartStop,
        RestartResetPlugins, BootWithoutConfig, CallFails, ResetDefault
  <2>3. QED
    BY <2>2, FromSame
<1>3. QED
  BY <1>1, <1>2

LEMMA StopFrom ==
    ASSUME TypeOK, NEW c \in Slots, Stop(c)
    PROVE  ChainsFrom(c)
<1>1. CASE RemoveSnapshot(c)
  BY <1>1 DEF RemoveSnapshot, ChainsFrom, TypeOK, Missing
<1>2. CASE SaveSnapshot(c)
  BY <1>2 DEF SaveSnapshot, ChainsFrom, TypeOK, Down
<1>3. CASE RemoveSnapshotFails(c) \/ SaveSnapshotFails(c)
  BY <1>3, FromSame DEF RemoveSnapshotFails, SaveSnapshotFails
<1>4. QED
  BY <1>1, <1>2, <1>3 DEF Stop

LEMMA KillCleanFrom ==
    ASSUME TypeOK, NoCallLost, NEW c \in Slots, Kill(c) \/ Clean(c)
    PROVE  ChainsFrom(c)
<1>1. CASE Kill(c)
  BY <1>1, FromSame
  DEF Kill, KillNetwork, KillDialFails, KillSignal, KillRemoveRunFile, BackendGone
<1>2. CASE Clean(c)
  <2>1. ~CleanResetFails(c)
    BY DEF CleanResetFails, NoCallLost
  <2>2. QED
    BY <1>2, <2>1, FromSame
    DEF Clean, CleanReset, CleanPlugins, CleanSidecar, CleanDone, BackendGone, ResetDefault
<1>3. QED
  BY <1>1, <1>2

(* The one step that gives an ID away.                                     *)
LEMMA CreateCounted ==
    ASSUME TypeOK, NEW c \in Slots, Sound(c), Counted(c), CreateChain(c)
    PROVE  Counted(c)'
<1>1. /\ cmd'[c].pc = "wait" /\ nextId' = nextId + 1 /\ UNCHANGED snaps
      /\ net' = [net EXCEPT !.chains = Append(net.chains, NewChain(c))]
      /\ cmd[c].pc = "create"
  BY GotoKeeps DEF CreateChain, TypeOK
<1>2. net'.chains = Append(net.chains, NewChain(c)) /\ net.chains \in Seq(Chain)
  BY <1>1 DEF TypeOK
<1>3. nextId \in Nat /\ NewChain(c).id = nextId
  BY DEF TypeOK, NewChain
<1>4. ASSUME NEW x \in Seq(Chain), IdsGiven(x), NEW i \in 1..Len(x)
      PROVE  x[i].id < nextId'
  <2>1. x[i].id < nextId /\ x[i].id \in Nat
    BY <1>4, ChainFields DEF IdsGiven
  <2>2. QED
    BY <1>1, <1>3, <2>1
<1>5. ASSUME NEW i \in 1..Len(net'.chains) PROVE net'.chains[i].id < nextId'
  <2>1. CASE i \in 1..Len(net.chains)
    <3>1. net'.chains[i] = net.chains[i]
      BY <1>2, <2>1
    <3>2. QED
      BY <1>2, <1>4, <2>1, <3>1 DEF Counted
  <2>2. CASE i \notin 1..Len(net.chains)
    <3>1. net'.chains[i] = NewChain(c)
      BY <1>2, <1>5, <2>2
    <3>2. QED
      BY <1>1, <1>3, <3>1
  <2>3. QED
    BY <2>1, <2>2
<1>6. IdsGiven(net.chains)'
  BY <1>5 DEF IdsGiven
<1>7. ASSUME NEW s \in Snapshots PROVE IdsGiven(snaps[s].chains)'
  <2>1. snaps[s].chains \in Seq(Chain) /\ IdsGiven(snaps[s].chains)
    BY DEF TypeOK, Counted
  <2>2. QED
    BY <1>1, <1>4, <2>1 DEF IdsGiven
<1>8. QED
  BY <1>1, <1>6, <1>7 DEF Counted, Choosing

LEMMA DeployFrom ==
    ASSUME TypeOK, NoCallLost, NEW c \in Slots, Sound(c), Deploy(c), ~CreateChain(c)
    PROVE  ChainsFrom(c)
<1>1. ~CreateChainFails(c)
  BY DEF CreateChainFails, NoCallLost, Sound, OwnNetwork
<1>2. nextId' = nextId /\ net' \in {net, Down} /\ snaps' = snaps
  BY <1>1
  DEF Deploy, CheckVersion, VersionMismatch, Select, InstallPlugin, InstallRefused,
      WaitChain, WaitChainFails, RecordDeploy
<1>3. QED
  BY <1>2, FromSame

LEMMA NextCounted ==
    ASSUME NEW c, Slots = {c}, NoCallLost, TypeOK, Sound(c), Counted(c), [Next]_vars
    PROVE  Counted(c)'
<1>1. ASSUME ChainsFrom(c),
             cmd'[c].kind = "deploy" /\ cmd'[c].pc \in Choosing
               => \/ nextId <= MaxChains
                  \/ cmd[c].kind = "deploy" /\ cmd[c].pc \in Choosing
      PROVE  Counted(c)'
  <2>1. nextId' = nextId
    BY <1>1 DEF ChainsFrom
  <2>2. QED
    BY <1>1, <2>1, IdsFrom DEF Counted
<1>2. CASE Begin(c)
  <2>1. UNCHANGED <<net, snaps, nextId>>
    BY <1>2, BeginLeads
  <2>2. cmd'[c].kind = "deploy" => nextId <= MaxChains
    <3>0. cmd \in [Slots -> Commands]
      BY DEF TypeOK, CmdOK
    <3>1. ASSUME NEW s \in Snapshots, BeginStart(c, s) PROVE cmd'[c].kind = "start"
      BY <3>0, <3>1 DEF BeginStart, Idle
    <3>2. ASSUME NEW s \in Snapshots, BeginStop(c, s) PROVE cmd'[c].kind = "stop"
      BY <3>0, <3>2 DEF BeginStop, Idle
    <3>3. ASSUME NEW h \in BOOLEAN, BeginClean(c, h) PROVE cmd'[c].kind = "clean"
      BY <3>0, <3>3 DEF BeginClean, Idle
    <3>4. ASSUME NEW n \in Names, BeginDeploy(c, n) PROVE nextId <= MaxChains
      BY <3>4 DEF BeginDeploy
    <3>5. QED
      BY <1>2, <3>1, <3>2, <3>3, <3>4 DEF Begin
  <2>3. ChainsFrom(c)
    BY <2>1, FromSame
  <2>4. QED
    BY <1>1, <2>2, <2>3
<1>3. CASE Prepare(c)
  <2>1. cmd[c].kind = cmd'[c].kind /\ cmd[c].pc \in Choosing
    BY <1>3, PrepareLeads
    DEF Prepare, CheckServer, Spawn, WriteRunFile, SetupEnv, SetupEnvFails, Status,
        RestartStop, RestartResetPlugins, Boot, BootWithoutConfig, CallFails, Refused,
        Choosing
  <2>2. QED
    BY <1>1, <1>3, <2>1, PrepareFrom
<1>4. CASE Deploy(c) /\ ~CreateChain(c)
  <2>1. cmd[c].kind = "deploy" /\ (cmd[c].pc \in Choosing \/ cmd'[c].pc \notin Choosing)
    <3>1. ASSUME cmd[c].pc \in {"wait", "record"} PROVE cmd'[c].pc \notin Choosing
      <4>1. WaitChain(c) \/ WaitChainFails(c) \/ RecordDeploy(c)
        BY <1>4, <3>1
        DEF Deploy, CheckVersion, VersionMismatch, Select, InstallPlugin,
            InstallRefused, CreateChainFails
      <4>2. CmdOK
        BY DEF TypeOK
      <4>3. CASE WaitChain(c)
        <5>1. PICK i : cmd' = [cmd EXCEPT ![c].pc = "record", ![c].id = i]
          BY <4>3 DEF WaitChain
        <5>2. cmd'[c].pc = "record"
          BY <5>1 DEF TypeOK, CmdOK, Commands
        <5>3. QED
          BY <5>2 DEF Choosing
      <4>4. CASE WaitChainFails(c) \/ RecordDeploy(c)
        BY <4>2, <4>4, FailKeeps, FinishKeeps DEF WaitChainFails, RecordDeploy, Choosing
      <4>5. QED
        BY <4>1, <4>3, <4>4
    <3>2. cmd[c].pc \in {"version", "select", "install", "create", "wait", "record"}
      BY <1>4
      DEF Deploy, CheckVersion, VersionMismatch, Select, InstallPlugin,
          InstallRefused, CreateChainFails, WaitChain, WaitChainFails, RecordDeploy
    <3>3. QED
      BY <1>4, <3>1, <3>2, DeployLeads DEF Choosing
  <2>2. QED
    BY <1>1, <1>4, <2>1, DeployFrom
<1>5. CASE CreateChain(c)
  BY <1>5, CreateCounted
<1>6. CASE Stop(c) \/ Kill(c) \/ Clean(c)
  <2>1. cmd'[c].pc \notin Choosing
    BY <1>6, StopLeads, KillLeads, CleanLeads DEF Choosing
  <2>2. QED
    BY <1>1, <1>6, <2>1, StopFrom, KillCleanFrom
<1>7. CASE Crash(c) \/ BackendDies \/ NewImage
  BY <1>7 DEF Crash, BackendDies, NewImage, NoCallLost
<1>8. CASE UNCHANGED vars
  BY <1>8 DEF vars, Counted, IdsGiven
<1>9. QED
  BY <1>2, <1>3, <1>4, <1>5, <1>6, <1>7, <1>8 DEF Next, Step

LEMMA NextFallsBack ==
    ASSUME NEW c, Slots = {c}, NoCallLost, TypeOK, Sound(c), Sound(c)', FallsBack(c),
           [Next]_vars
    PROVE  FallsBack(c)'
<1>0. CmdOK /\ OnlyCallsFail
  BY DEF TypeOK, NoCallLost, OnlyCallsFail
<1>1. SUFFICES ASSUME cmd'[c].kind = "deploy", cmd'[c].pc = "kill", net'.up
               PROVE  snaps'[Default] = [there |-> TRUE, chains |-> net'.chains]
  BY DEF FallsBack
<1>2. ASSUME Fail(c), cmd[c].pc \in {"env", "status", "boot", "version", "select", "install"},
             UNCHANGED <<net, snaps>>
      PROVE  snaps'[Default] = [there |-> TRUE, chains |-> net'.chains]
  <2>1. cmd[c].started /\ ~cmd[c].booted
    BY <1>0, <1>1, <1>2, FailKeeps DEF Sound, StartedHere
  <2>2. QED
    BY <1>1, <1>2, <2>1 DEF Sound, StartedHere, OwnNetwork
<1>3. CASE Begin(c)
  BY <1>1, <1>3, BeginLeads
<1>4. CASE Prepare(c)
  <2>1. Fail(c)
    BY <1>1, <1>4, PrepareLeads
  <2>2. ~SetupEnvFails(c) /\ ~RestartStop(c) /\ ~RestartResetPlugins(c)
    BY DEF SetupEnvFails, RestartStop, RestartResetPlugins, NoCallLost, Sound, FirstReset
  <2>3. ~Spawn(c) /\ ~WriteRunFile(c) /\ ~SetupEnv(c)
    BY <1>1 DEF Spawn, WriteRunFile, SetupEnv, TypeOK, CmdOK, Commands
  <2>4. ASSUME NEW p, Goto(c, p) PROVE p = "kill"
    BY <1>0, <1>1, <2>4, GotoKeeps
  <2>5. ASSUME NEW r, Finish(c, r) PROVE FALSE
    BY <1>0, <1>1, <2>5, FinishKeeps
  <2>6. ~CheckServer(c) /\ ~Boot(c) /\ ~BootWithoutConfig(c)
    BY <2>4, <2>5 DEF CheckServer, Boot, BootWithoutConfig
  <2>7. ~Status(c)
    <3>1. ~(cmd' = [cmd EXCEPT ![c].pc = "version", ![c].booted = TRUE])
      BY <1>1 DEF TypeOK, CmdOK, Commands
    <3>2. QED
      BY <2>4, <2>5, <3>1 DEF Status
  <2>8. CallFails(c)
    BY <1>4, <2>2, <2>3, <2>6, <2>7 DEF Prepare
  <2>9. cmd[c].pc \in {"status", "boot", "select"} /\ UNCHANGED <<net, snaps>>
    BY <2>8 DEF CallFails, Refused, Sound, FirstReset
  <2>10. QED
    BY <1>2, <2>1, <2>9
<1>5. CASE Deploy(c)
  <2>1. CASE VersionMismatch(c) \/ InstallRefused(c)
    <3>1. /\ Fail(c) /\ cmd[c].pc \in {"version", "install"}
          /\ UNCHANGED snaps /\ (net' = net \/ net' = Down)
      BY <2>1 DEF VersionMismatch, InstallRefused
    <3>2. UNCHANGED net
      BY <1>1, <3>1 DEF Down
    <3>3. QED
      BY <1>2, <3>1, <3>2
  <2>2. CASE CreateChainFails(c) \/ WaitChainFails(c)
    BY <2>2 DEF CreateChainFails, WaitChainFails, NoCallLost, Sound, OwnNetwork
  <2>3. ASSUME NEW p, Goto(c, p) PROVE p = "kill"
    BY <1>0, <1>1, <2>3, GotoKeeps
  <2>4. ASSUME NEW r, Finish(c, r) PROVE FALSE
    BY <1>0, <1>1, <2>4, FinishKeeps
  <2>5. /\ ~CheckVersion(c) /\ ~InstallPlugin(c) /\ ~CreateChain(c) /\ ~RecordDeploy(c)
    BY <2>3, <2>4 DEF CheckVersion, InstallPlugin, CreateChain, RecordDeploy
  <2>6. ~Select(c)
    BY <1>1 DEF Select, TypeOK, CmdOK, Commands
  <2>7. ~WaitChain(c)
    <3>1. ASSUME NEW i, cmd' = [cmd EXCEPT ![c].pc = "record", ![c].id = i]
          PROVE  FALSE
      BY <1>1, <3>1 DEF TypeOK, CmdOK, Commands
    <3>2. QED
      BY <3>1 DEF WaitChain
  <2>8. QED
    BY <1>5, <2>1, <2>2, <2>5, <2>6, <2>7 DEF Deploy
<1>6. CASE Stop(c) \/ Kill(c) \/ Clean(c)
  BY <1>1, <1>6, StopLeads, KillLeads, CleanLeads DEF Sound, ShutsDown
<1>7. CASE Crash(c) \/ BackendDies \/ NewImage
  BY <1>7 DEF Crash, BackendDies, NewImage, NoCallLost
<1>8. CASE UNCHANGED vars
  BY <1>1, <1>8 DEF vars, FallsBack
<1>9. QED
  BY <1>3, <1>4, <1>5, <1>6, <1>7, <1>8 DEF Next, Step

LEMMA InitKept ==
    ASSUME Init, NEW c \in Slots
    PROVE  Kept(c)
BY DEF Init, Kept, Counted, FallsBack, IdsGiven, Idle, Down, Missing

LEMMA KeptAlways ==
    ASSUME NEW c, Slots = {c}, NoCallLost
    PROVE  Spec => []Kept(c)
<1>1. OnlyCallsFail
  BY DEF NoCallLost, OnlyCallsFail
<1>2. TypeOK /\ Sound(c) /\ Kept(c) /\ [Next]_vars => Kept(c)'
  BY <1>1, NextSound, NextCounted, NextFallsBack DEF Kept
<1>3. Init => Kept(c)
  BY InitKept
<1>4. Spec => []Sound(c)
  BY <1>1, SoundAlways
<1>5. QED
  BY <1>2, <1>3, <1>4, TypeCorrect, PTL DEF Spec

-----------------------------------------------------------------------------
(* Each call is a step of the promise, or none at all.                     *)
LEMMA BeginPromise ==
    ASSUME TypeOK, TypeOK', NEW c, Slots = {c}, Begin(c)
    PROVE  PromiseStep
<1>1. /\ UNCHANGED <<net, snaps>> /\ cmd[c].pc = "idle"
      /\ cmd'[c].pc \in {"server", "remove", "reset"}
  BY BeginLeads DEF Running
<1>2. UNCHANGED Wiping
  BY <1>1, WipingMeans
<1>3. QED
  BY <1>1, <1>2, PlainStep

LEMMA PreparePromise ==
    ASSUME TypeOK, TypeOK', NEW c, Slots = {c}, NoCallLost, Sound(c), Prepare(c)
    PROVE  PromiseStep
<1>1. /\ cmd[c].kind \in {"deploy", "start"} /\ cmd'[c].kind = cmd[c].kind
      /\ cmd[c].pc # "save" /\ cmd'[c].pc # "save"
  BY PrepareLeads DEF TypeOK, CmdOK, WellFormed
<1>2. UNCHANGED Wiping
  BY <1>1, WipingMeans
<1>3. SavedAs = snaps /\ SavedAs' = snaps'
  BY <1>1, SavedPlain, SavedPlainNext
<1>4. CASE SetupEnv(c)
  <2>1. CASE stale
    <3>1. World /\ UNCHANGED net
      BY <1>4, WorldNow DEF SetupEnv
    <3>2. ~snaps[Default].there
      BY <2>1, <3>1 DEF World, Missing
    <3>3. snaps' = [snaps EXCEPT ![Default] = Bootstrap]
      BY <1>4, <2>1 DEF SetupEnv, ResetDefault
    <3>4. QED
      BY <1>2, <1>3, <3>1, <3>2, <3>3, ProvideStep
  <2>2. CASE ~stale
    BY <1>1, <1>2, <1>4, <2>2, PlainStep DEF SetupEnv
  <2>3. QED
    BY <2>1, <2>2
<1>5. CASE Boot(c)
  <2>1. /\ ~net.up /\ UNCHANGED snaps /\ cmd[c].snap \in Snapshots
        /\ snaps[cmd[c].snap].there
        /\ net' = [up |-> TRUE, chains |-> snaps[cmd[c].snap].chains]
    BY <1>5 DEF Boot, TypeOK, CmdOK, WellFormed
  <2>2. QED
    BY <1>2, <1>3, <2>1, LoadStep
<1>6. CASE SetupEnvFails(c) \/ RestartStop(c) \/ RestartResetPlugins(c)
  BY <1>6
  DEF SetupEnvFails, RestartStop, RestartResetPlugins, NoCallLost, Sound, FirstReset
<1>7. CASE \/ CheckServer(c) \/ Spawn(c) \/ WriteRunFile(c) \/ Status(c)
           \/ BootWithoutConfig(c) \/ CallFails(c)
  <2>1. UNCHANGED <<net, snaps>>
    BY <1>7
    DEF CheckServer, Spawn, WriteRunFile, Status, BootWithoutConfig, CallFails
  <2>2. QED
    BY <1>1, <1>2, <2>1, PlainStep
<1>8. QED
  BY <1>4, <1>5, <1>6, <1>7 DEF Prepare

LEMMA DeployPromise ==
    ASSUME TypeOK, TypeOK', NEW c, Slots = {c}, NoCallLost, Sound(c), Counted(c),
           SelectionStillNext, Deploy(c)
    PROVE  PromiseStep
<1>1. /\ cmd[c].kind = "deploy" /\ cmd'[c].kind = "deploy"
      /\ cmd[c].pc # "save" /\ cmd'[c].pc # "save" /\ UNCHANGED snaps
  BY DeployLeads DEF TypeOK, CmdOK, WellFormed
<1>2. UNCHANGED Wiping
  BY <1>1, WipingMeans
<1>3. SavedAs = snaps /\ SavedAs' = snaps'
  BY <1>1, SavedPlain, SavedPlainNext
<1>4. CASE UNCHANGED net
  BY <1>1, <1>2, <1>4, PlainStep
<1>5. CASE VersionMismatch(c) /\ net' # net
  <2>1. cmd[c].pc = "version" /\ ~cmd[c].booted /\ net' = Down
    BY <1>5 DEF VersionMismatch
  <2>2. net.up
    BY <1>5, <2>1, WorldNow DEF World
  <2>3. snaps[Default] = [there |-> TRUE, chains |-> net.chains]
    BY <2>1, <2>2 DEF Sound, OwnNetwork
  <2>4. QED
    BY <1>1, <1>2, <1>3, <2>1, <2>2, <2>3, ConstantsAssumption, HaltStep
<1>6. CASE CreateChain(c)
  <2>1. /\ cmd[c].pc = "create" /\ net.up
        /\ net' = [net EXCEPT !.chains = Append(net.chains, NewChain(c))]
    BY <1>6 DEF CreateChain
  <2>2. /\ cmd[c].name \in Names /\ cmd[c].name \notin NamesOf(net.chains)
        /\ cmd[c].sub = SelectSubnet(net.chains) /\ nextId <= MaxChains
    BY <1>1, <2>1
    DEF TypeOK, CmdOK, WellFormed, Sound, OwnNetwork, SelectionStillNext,
        Counted, Choosing
  <2>3. nextId \in 1..MaxChains
    BY <2>2, ConstantsAssumption DEF TypeOK
  <2>4. NewChain(c) = [name |-> cmd[c].name, sub |-> SelectSubnet(net.chains), id |-> nextId]
    BY <2>2 DEF NewChain
  <2>5. ASSUME NEW x \in Seq(Chain), IdsGiven(x), NEW k \in 1..Len(x)
        PROVE  x[k].id # nextId
    <3>1. x[k].id < nextId /\ x[k].id \in Nat /\ nextId \in Nat
      BY <2>5, ChainFields DEF IdsGiven, TypeOK
    <3>2. QED
      BY <3>1
  <2>6. /\ \A k \in 1..Len(net.chains) : net.chains[k].id # nextId
        /\ \A s \in Snapshots : \A k \in 1..Len(snaps[s].chains) :
             snaps[s].chains[k].id # nextId
    BY <2>5 DEF TypeOK, Counted
  <2>7. QED
    BY <1>1, <1>2, <1>3, <2>1, <2>2, <2>3, <2>4, <2>6, ExtendStep
<1>7. CASE CreateChainFails(c)
  BY <1>7 DEF CreateChainFails, NoCallLost, Sound, OwnNetwork
<1>8. QED
  BY <1>4, <1>5, <1>6, <1>7
  DEF Deploy, CheckVersion, Select, InstallPlugin, InstallRefused,
      WaitChain, WaitChainFails, RecordDeploy

LEMMA StopPromise ==
    ASSUME TypeOK, TypeOK', NEW c, Slots = {c}, NoCallLost, Sound(c), Stop(c)
    PROVE  PromiseStep
<1>1. cmd[c].kind = "stop" /\ cmd'[c].kind = "stop" /\ CmdOK
  BY StopLeads DEF TypeOK
<1>2. UNCHANGED Wiping
  BY <1>1, WipingMeans
<1>3. CASE RemoveSnapshot(c)
  <2>1. /\ cmd[c].pc = "remove" /\ cmd[c].snap \in Snapshots /\ UNCHANGED net
        /\ SavedAs = snaps
    BY <1>3, SavedPlain DEF RemoveSnapshot, TypeOK, CmdOK, WellFormed
  <2>2. CASE UNCHANGED snaps /\ (Finish(c, "ok") \/ Goto(c, "kill"))
    <3>1. cmd'[c].pc \in {"idle", "kill"}
      BY <1>1, <2>2, GotoKeeps, FinishKeeps
    <3>2. QED
      BY <1>2, <2>1, <2>2, <3>1, PlainStep
  <2>3. CASE /\ net.up /\ Goto(c, "save")
             /\ snaps' = [snaps EXCEPT ![cmd[c].snap] = Missing]
    <3>1. cmd'[c].pc = "save" /\ cmd'[c].snap = cmd[c].snap
      BY <1>1, <2>3, GotoKeeps
    <3> DEFINE s == cmd[c].snap
               held == [there |-> TRUE, chains |-> net.chains]
    <3>2. SavedAs' = [snaps' EXCEPT ![s] = held]
      BY <2>1, <3>1, SavedInSaveNext
    <3>3. SavedAs' = [snaps EXCEPT ![s] = held]
      BY <2>1, <2>3, <3>2 DEF TypeOK
    <3>4. QED
      BY <1>2, <2>1, <2>3, <3>3, PersistStep
  <2>4. QED
    BY <1>3, <2>2, <2>3 DEF RemoveSnapshot
<1>4. CASE SaveSnapshot(c)
  <2>1. /\ cmd[c].pc = "save" /\ cmd[c].snap \in Snapshots /\ net.up /\ net' = Down
        /\ snaps' = [snaps EXCEPT ![cmd[c].snap] = [there |-> TRUE, chains |-> net.chains]]
    BY <1>4 DEF SaveSnapshot, TypeOK, CmdOK, WellFormed
  <2>2. cmd'[c].pc = "kill"
    BY <1>1, <1>4, GotoKeeps DEF SaveSnapshot
  <2>3. SavedAs = snaps' /\ SavedAs' = snaps'
    BY <2>1, <2>2, SavedInSave, SavedPlainNext
  <2>4. SavedAs[cmd[c].snap] = [there |-> TRUE, chains |-> net.chains]
    BY <2>1, <2>3 DEF TypeOK
  <2>5. QED
    BY <1>2, <2>1, <2>3, <2>4, HaltStep
<1>5. CASE RemoveSnapshotFails(c) \/ SaveSnapshotFails(c)
  BY <1>5
  DEF RemoveSnapshotFails, SaveSnapshotFails, NoCallLost, Sound, ShutsDown
<1>6. QED
  BY <1>3, <1>4, <1>5 DEF Stop

LEMMA KillPromise ==
    ASSUME TypeOK, TypeOK', NEW c, Slots = {c}, NoCallLost, Sound(c), FallsBack(c),
           Kill(c)
    PROVE  PromiseStep
<1>1. /\ cmd[c].pc \in {"kill", "signal", "rmrun"} /\ cmd'[c].kind = cmd[c].kind
      /\ cmd[c].kind \in {"deploy", "stop", "clean"}
      /\ cmd'[c].pc \in {"signal", "rmrun", "idle", "unplug"}
      /\ UNCHANGED snaps /\ World
  BY KillLeads, WorldNow DEF Sound, ShutsDown
<1>2. SavedAs = snaps /\ SavedAs' = snaps'
  BY <1>1, SavedPlain, SavedPlainNext
<1>3. net' = net \/ net' = Down
  BY DEF Kill, KillNetwork, KillDialFails, KillSignal, KillRemoveRunFile, BackendGone
<1>4. CASE net.up
  <2>1. cmd[c].pc = "kill"
    BY <1>1, <1>4 DEF Sound, ShutsDown
  <2>2. cmd'[c].pc = "signal" /\ net' = Down
    <3>1. ~KillDialFails(c)
      BY <1>1, <1>4 DEF KillDialFails, NoCallLost, World
    <3>2. KillNetwork(c)
      BY <2>1, <3>1 DEF Kill, KillSignal, KillRemoveRunFile
    <3>3. QED
      BY <3>2, GotoKeeps DEF KillNetwork, TypeOK
  <2>3. UNCHANGED Wiping
    BY <1>1, <2>1, <2>2, WipingMeans
  <2>4. Wiping \/ snaps[Default] = [there |-> TRUE, chains |-> net.chains]
    BY <1>1, <1>4, <2>1, WipingMeans DEF FallsBack, Sound, ShutsDown
  <2>5. QED
    BY <1>1, <1>2, <1>4, <2>2, <2>3, <2>4, ConstantsAssumption, HaltStep
<1>5. CASE ~net.up
  <2>1. UNCHANGED net
    BY <1>1, <1>3, <1>5 DEF World
  <2>2. CASE UNCHANGED Wiping
    BY <1>1, <2>1, <2>2, PlainStep
  <2>3. CASE Wiping' # Wiping
    <3>1. Wiping /\ ~Wiping'
      BY <1>1, <2>3, WipingMeans
    <3>2. QED
      BY <1>1, <1>2, <1>5, <2>1, <3>1, WipedStep
  <2>4. QED
    BY <2>2, <2>3
<1>6. QED
  BY <1>4, <1>5

LEMMA CleanPromise ==
    ASSUME TypeOK, TypeOK', NEW c, Slots = {c}, NoCallLost, Sound(c), Cleaned, Clean(c)
    PROVE  PromiseStep
<1>1. /\ cmd[c].pc \in {"reset", "unplug", "sidecars"} /\ CmdOK /\ World
      /\ cmd[c].kind = "clean" /\ cmd'[c].kind = "clean"
      /\ cmd'[c].pc \in {"kill", "sidecars", "idle"}
      /\ cmd'[c].pc = "kill" => cmd[c].pc = "reset"
  BY CleanLeads, WorldNow DEF TypeOK, Sound, ShutsDown
<1>2. SavedAs = snaps /\ SavedAs' = snaps'
  BY <1>1, SavedPlain, SavedPlainNext
<1>3. CASE CleanReset(c)
  <2>1. /\ cmd[c].pc = "reset" /\ cmd'[c].pc = "kill" /\ UNCHANGED net
        /\ snaps' = [snaps EXCEPT ![Default] = Bootstrap]
    BY <1>1, <1>3, GotoKeeps DEF CleanReset, ResetDefault
  <2>2. ~Wiping /\ Wiping'
    BY <1>1, <2>1, WipingMeans
  <2>3. QED
    BY <1>2, <2>1, <2>2, WipeStep
<1>4. CASE CleanResetFails(c)
  BY <1>4 DEF CleanResetFails, NoCallLost
<1>5. CASE CleanPlugins(c) \/ (\E n \in Names : CleanSidecar(c, n)) \/ CleanDone(c)
  <2>1. /\ UNCHANGED snaps
        /\ cmd[c].pc \in {"unplug", "sidecars"}
        /\ \/ UNCHANGED net
           \/ cmd[c].pc = "unplug" /\ net' = Down
    <3>1. CASE CleanPlugins(c)
      <4>1. UNCHANGED snaps /\ cmd[c].pc = "unplug"
        BY <3>1 DEF CleanPlugins
      <4>2. CASE cmd[c].hard
        BY <3>1, <4>1, <4>2 DEF CleanPlugins, BackendGone
      <4>3. CASE ~cmd[c].hard
        BY <3>1, <4>1, <4>3 DEF CleanPlugins
      <4>4. QED
        BY <4>2, <4>3
    <3>2. ASSUME NEW n \in Names, CleanSidecar(c, n)
          PROVE  UNCHANGED <<snaps, net>> /\ cmd[c].pc = "sidecars"
      BY <3>2 DEF CleanSidecar
    <3>3. CASE CleanDone(c)
      BY <3>3 DEF CleanDone
    <3>4. QED
      BY <1>5, <3>1, <3>2, <3>3
  <2>2. UNCHANGED net
    BY <1>1, <2>1 DEF World, Cleaned, Cleans
  <2>3. UNCHANGED Wiping
    BY <1>1, <2>1, WipingMeans
  <2>4. QED
    BY <1>1, <2>1, <2>2, <2>3, PlainStep
<1>6. QED
  BY <1>3, <1>4, <1>5 DEF Clean

LEMMA NextPromise ==
    ASSUME NEW c, Slots = {c}, NoCallLost, TypeOK, Sound(c), Kept(c), Cleaned,
           SelectionStillNext, [Next]_vars
    PROVE  PromiseStep
<1>1. TypeOK'
  BY StepTyped
<1>2. CASE Begin(c) \/ Step(c)
  BY <1>1, <1>2, BeginPromise, PreparePromise, DeployPromise, StopPromise,
     KillPromise, CleanPromise
  DEF Step, Kept
<1>3. CASE Crash(c) \/ BackendDies \/ NewImage
  BY <1>3 DEF Crash, BackendDies, NewImage, NoCallLost
<1>4. CASE UNCHANGED vars
  BY <1>4, StutterStep DEF vars, SavedAs, Saving, Wiping
<1>5. QED
  BY <1>2, <1>3, <1>4 DEF Next

LEMMA InitPromise ==
    ASSUME Init
    PROVE  Readme!PInit
<1>1. (\A s \in Snapshots : ~Saving(s)) /\ ~Wiping
  BY DEF Init, Saving, Wiping, Idle
<1>2. net = Down /\ snaps = [s \in Snapshots |-> Missing]
  BY DEF Init
<1>3. SavedAs = [s \in Snapshots |-> Missing]
  BY <1>1, <1>2 DEF SavedAs
<1>4. QED
  BY <1>1, <1>2, <1>3
  DEF Readme!PInit, Readme!Off, Readme!None, Down, Missing, SavedAs, Wiping

(* The commands keep the promise of the README, whatever the number of     *)
(* names, snapshots, preloaded subnets and blockchains, when one terminal  *)
(* runs them and nothing fails but the version check of the nodes and the  *)
(* reading of the node config.                                             *)
THEOREM PromiseKept ==
    ASSUME NEW c, Slots = {c}, NoCallLost
    PROVE  Spec => KeepsReadmePromise
<1>1. OnlyCallsFail /\ OneTerminal /\ "kill" \notin Faults
  BY DEF NoCallLost, OnlyCallsFail, OneTerminal
<1>2. TypeOK /\ Sound(c) /\ Kept(c) /\ Cleaned /\ SelectionStillNext /\ [Next]_vars
        => [Readme!PNext]_(Readme!pvars)
  BY NextPromise DEF PromiseStep
<1>3. Init => Readme!PInit
  BY InitPromise
<1>4. Spec => []Sound(c)
  BY <1>1, SoundAlways
<1>5. Spec => []Cleaned
  BY <1>1, CleanedAlways
<1>6. Spec => []SelectionStillNext
  BY <1>1, ChoiceStaysNext
<1>7. Spec => []Kept(c)
  BY KeptAlways
<1>8. QED
  BY <1>2, <1>3, <1>4, <1>5, <1>6, <1>7, TypeCorrect, PTL
  DEF Spec, KeepsReadmePromise, Readme!Promise
=============================================================================
