-------------------------- MODULE LocalNetworkProofs --------------------------
(* Theorems about LocalNetwork, for every value of its constants. *)
EXTENDS LocalNetwork, TLAPS

(* A slot may take any well-formed command for its new value. *)
LEMMA SetTyped ==
    ASSUME CmdOK, NEW c \in Slots, NEW new \in Commands, WellFormed(new),
           cmd' = [cmd EXCEPT ![c] = new]
    PROVE  CmdOK'
BY DEF CmdOK

LEMMA GotoTyped ==
    ASSUME CmdOK, NEW c \in Slots, NEW p \in Pcs, Running(c), Goto(c, p),
           p \in {"server", "spawn", "runfile", "env", "status", "restart",
                  "replug", "boot"} => cmd[c].kind \in {"deploy", "start"},
           p \in {"remove", "save"} => cmd[c].kind = "stop",
           p \in {"version", "select", "install", "create", "wait", "record"}
            => cmd[c].kind = "deploy",
           p \in {"install", "create"} => cmd[c].sub \in 1..NumSubnets
    PROVE  CmdOK'
<1> DEFINE new == [cmd[c] EXCEPT !.pc = p]
<1>1. cmd[c] \in Commands /\ WellFormed(cmd[c])
  BY DEF CmdOK
<1>2. new \in Commands /\ WellFormed(new)
  BY <1>1 DEF Commands, WellFormed, Running
<1>3. cmd' = [cmd EXCEPT ![c] = new]
  BY DEF Goto
<1>4. QED
  BY <1>2, <1>3, SetTyped

LEMMA IdleTyped == Idle \in Commands /\ Idle.pc = "idle" /\ WellFormed(Idle)
BY ConstantsAssumption DEF Idle, Commands, Pcs, WellFormed

LEMMA FinishTyped ==
    ASSUME CmdOK, NEW c \in Slots, NEW r \in {"ok", "err"}, Finish(c, r)
    PROVE  CmdOK'
<1> DEFINE done == [Idle EXCEPT !.kind = cmd[c].kind, !.res = r]
<1>1. cmd[c].kind \in {"none", "deploy", "start", "stop", "clean"}
  BY DEF CmdOK, Commands
<1>2. done \in Commands /\ done.pc = "idle"
  BY <1>1, IdleTyped DEF Idle, Commands
<1>3. cmd' = [cmd EXCEPT ![c] = done]
  BY DEF Finish
<1>4. WellFormed(done)
  BY <1>2 DEF WellFormed
<1> HIDE DEF done
<1>5. QED
  BY <1>2, <1>3, <1>4, SetTyped

LEMMA FailTyped ==
    ASSUME CmdOK, NEW c \in Slots, Running(c), Fail(c)
    PROVE  CmdOK'
BY GotoTyped, FinishTyped DEF Fail, Pcs

-----------------------------------------------------------------------------
LEMMA ChainsTyped ==
    /\ Down \in [up : BOOLEAN, chains : Seq(Chain)]
    /\ Missing \in [there : BOOLEAN, chains : Seq(Chain)]
    /\ Bootstrap \in [there : BOOLEAN, chains : Seq(Chain)]
BY DEF Down, Missing, Bootstrap

LEMMA SelectTyped ==
    ASSUME NEW chains \in Seq(Chain)
    PROVE  SelectSubnet(chains) \in 1..NumSubnets
<1>1. Len(chains) \in Nat /\ NumSubnets \in Nat \ {0}
  BY ConstantsAssumption
<1>2. Len(chains) % NumSubnets \in 0..(NumSubnets - 1)
  BY <1>1
<1>3. QED
  BY <1>1, <1>2 DEF SelectSubnet

LEMMA NewChainTyped ==
    ASSUME TypeOK, NEW c \in Slots, cmd[c].pc = "create"
    PROVE  Append(net.chains, NewChain(c)) \in Seq(Chain)
<1>1. cmd[c].name \in Names /\ cmd[c].sub \in 1..NumSubnets
  BY DEF TypeOK, CmdOK, WellFormed, Running
<1>2. NewChain(c) \in Chain
  BY <1>1 DEF NewChain, Chain, TypeOK
<1>3. QED
  BY <1>2 DEF TypeOK

LEMMA ChainFields ==
    ASSUME NEW chains \in Seq(Chain), NEW k \in 1..Len(chains)
    PROVE  /\ chains[k].name \in Names
           /\ chains[k].sub \in 1..NumSubnets
           /\ chains[k].id \in Nat
<1>1. chains[k] \in Chain
  OBVIOUS
<1>2. QED
  BY <1>1 DEF Chain

(* The default snapshot is replaced or lost. *)
LEMMA DefaultTyped ==
    ASSUME TypeOK, NEW r \in {Bootstrap, Missing}
    PROVE  [snaps EXCEPT ![Default] = r]
             \in [Snapshots -> [there : BOOLEAN, chains : Seq(Chain)]]
<1>1. r \in [there : BOOLEAN, chains : Seq(Chain)]
  BY ChainsTyped
<1>2. snaps \in [Snapshots -> [there : BOOLEAN, chains : Seq(Chain)]]
  BY DEF TypeOK
<1>3. QED
  BY <1>1, <1>2

(* BackendGone, in the actions where the network goes down with it. *)
LEMMA BackendGoneTyped ==
    ASSUME TypeOK, BackendGone
    PROVE  /\ server' \in BOOLEAN
           /\ runFile' \in {"none", "live", "dead"}
           /\ net' \in [up : BOOLEAN, chains : Seq(Chain)]
BY ChainsTyped DEF TypeOK, BackendGone

LEMMA KillReturnsTyped ==
    ASSUME CmdOK, NEW c \in Slots, Running(c),
           NEW r \in {"ok", "err"}, KillReturns(c, r)
    PROVE  CmdOK'
BY FinishTyped, GotoTyped DEF KillReturns, Pcs

LEMMA BeginTyped ==
    ASSUME TypeOK, NEW c \in Slots, Begin(c)
    PROVE  TypeOK'
<1>1. ASSUME NEW n \in Names, BeginDeploy(c, n)
      PROVE  TypeOK'
  <2> DEFINE new == [Idle EXCEPT !.pc = "server", !.kind = "deploy",
                                 !.name = n, !.snap = Default]
  <2>1. /\ new \in Commands /\ new.pc = "server" /\ new.kind = "deploy"
        /\ new.name = n /\ new.snap = Default
    BY ConstantsAssumption, IdleTyped DEF Idle, Commands, Pcs
  <2>2. cmd' = [cmd EXCEPT ![c] = new]
    BY <1>1 DEF BeginDeploy
  <2>3. WellFormed(new)
    BY <2>1, ConstantsAssumption DEF WellFormed
  <2> HIDE DEF new
  <2>4. CmdOK'
    BY <2>1, <2>2, <2>3, SetTyped DEF TypeOK
  <2>5. QED
    BY <1>1, <2>4 DEF TypeOK, BeginDeploy
<1>2. ASSUME NEW s \in Snapshots, BeginStart(c, s)
      PROVE  TypeOK'
  <2> DEFINE new == [Idle EXCEPT !.pc = "server", !.kind = "start", !.snap = s]
  <2>1. /\ new \in Commands /\ new.pc = "server" /\ new.kind = "start"
        /\ new.snap = s
    BY IdleTyped DEF Idle, Commands, Pcs
  <2>2. cmd' = [cmd EXCEPT ![c] = new]
    BY <1>2 DEF BeginStart
  <2>3. WellFormed(new)
    BY <2>1 DEF WellFormed
  <2> HIDE DEF new
  <2>4. CmdOK'
    BY <2>1, <2>2, <2>3, SetTyped DEF TypeOK
  <2>5. QED
    BY <1>2, <2>4 DEF TypeOK, BeginStart
<1>3. ASSUME NEW s \in Snapshots, BeginStop(c, s)
      PROVE  TypeOK'
  <2> DEFINE new == [Idle EXCEPT !.pc = "remove", !.kind = "stop", !.snap = s]
  <2>1. /\ new \in Commands /\ new.pc = "remove" /\ new.kind = "stop"
        /\ new.snap = s
    BY IdleTyped DEF Idle, Commands, Pcs
  <2>2. cmd' = [cmd EXCEPT ![c] = new]
    BY <1>3 DEF BeginStop
  <2>3. WellFormed(new)
    BY <2>1 DEF WellFormed
  <2> HIDE DEF new
  <2>4. CmdOK'
    BY <2>1, <2>2, <2>3, SetTyped DEF TypeOK
  <2>5. QED
    BY <1>3, <2>4 DEF TypeOK, BeginStop
<1>4. ASSUME NEW h \in BOOLEAN, BeginClean(c, h)
      PROVE  TypeOK'
  <2> DEFINE new == [Idle EXCEPT !.pc = "reset", !.kind = "clean", !.hard = h]
  <2>1. new \in Commands /\ new.pc = "reset" /\ new.kind = "clean"
    BY IdleTyped DEF Idle, Commands, Pcs
  <2>2. cmd' = [cmd EXCEPT ![c] = new]
    BY <1>4 DEF BeginClean
  <2>3. WellFormed(new)
    BY <2>1 DEF WellFormed
  <2> HIDE DEF new
  <2>4. CmdOK'
    BY <2>1, <2>2, <2>3, SetTyped DEF TypeOK
  <2>5. QED
    BY <1>4, <2>4 DEF TypeOK, BeginClean
<1>5. QED
  BY <1>1, <1>2, <1>3, <1>4 DEF Begin

LEMMA PrepareTyped ==
    ASSUME TypeOK, NEW c \in Slots, Prepare(c)
    PROVE  TypeOK'
<1>1. CASE CheckServer(c)
  BY <1>1, GotoTyped DEF TypeOK, CmdOK, WellFormed, CheckServer, Running, Pcs
<1>2. CASE Spawn(c)
  <2> DEFINE child == IF server THEN "dead" ELSE "live"
             new == [cmd[c] EXCEPT !.pc = "runfile", !.child = child]
  <2>1. cmd[c] \in Commands /\ WellFormed(cmd[c]) /\ cmd[c].pc = "spawn"
    BY <1>2 DEF TypeOK, CmdOK, Spawn
  <2>2. child \in {"none", "live", "dead"} /\ "runfile" \in Pcs
    BY DEF Pcs
  <2> HIDE DEF child
  <2>3. new \in Commands
    BY <2>1, <2>2 DEF Commands
  <2>4. /\ new.pc = "runfile" /\ new.kind = cmd[c].kind
        /\ new.name = cmd[c].name /\ new.snap = cmd[c].snap
    BY <2>1 DEF Commands
  <2>5. cmd' = [cmd EXCEPT ![c] = new]
    BY <1>2 DEF Spawn, child
  <2> HIDE DEF new
  <2>6. WellFormed(new)
    BY <2>1, <2>4 DEF WellFormed
  <2>7. CmdOK'
    BY <2>3, <2>5, <2>6, SetTyped DEF TypeOK
  <2>8. QED
    BY <1>2, <2>7 DEF TypeOK, Spawn
<1>3. CASE WriteRunFile(c)
  <2> DEFINE new == [cmd[c] EXCEPT !.pc = "env", !.started = TRUE]
  <2>1. cmd[c] \in Commands /\ WellFormed(cmd[c]) /\ cmd[c].pc = "runfile"
    BY <1>3 DEF TypeOK, CmdOK, WriteRunFile
  <2>2. new \in Commands /\ WellFormed(new)
    BY <2>1 DEF TypeOK, Commands, WellFormed, Pcs
  <2>3. cmd' = [cmd EXCEPT ![c] = new]
    BY <1>3 DEF WriteRunFile
  <2>4. CmdOK'
    BY <2>2, <2>3, SetTyped DEF TypeOK
  <2>5. QED
    BY <1>3, <2>4 DEF TypeOK, WriteRunFile, CmdOK, Commands
<1>4. CASE SetupEnv(c)
  <2> DEFINE new == [cmd[c] EXCEPT !.pc = "status", !.restart = stale]
  <2>1. /\ cmd[c] \in Commands /\ WellFormed(cmd[c]) /\ cmd[c].pc = "env"
        /\ stale \in BOOLEAN
    BY <1>4 DEF TypeOK, CmdOK, SetupEnv
  <2>2. new \in Commands /\ WellFormed(new)
    <3>1. new \in Commands
      BY <2>1 DEF Commands, Pcs
    <3>2. WellFormed(new)
      BY <2>1 DEF WellFormed, Commands
    <3>3. QED
      BY <3>1, <3>2
  <2>3. cmd' = [cmd EXCEPT ![c] = new]
    BY <1>4 DEF SetupEnv
  <2>4. CmdOK'
    BY <2>2, <2>3, SetTyped DEF TypeOK
  <2>5. snaps' \in [Snapshots -> [there : BOOLEAN, chains : Seq(Chain)]]
    BY <1>4, DefaultTyped DEF TypeOK, SetupEnv, ResetDefault
  <2>6. QED
    BY <1>4, <2>4, <2>5 DEF TypeOK, SetupEnv
<1>5. CASE SetupEnvFails(c)
  <2>1. CmdOK'
    BY <1>5, FailTyped DEF TypeOK, SetupEnvFails, Running
  <2>2. snaps' \in [Snapshots -> [there : BOOLEAN, chains : Seq(Chain)]]
    BY <1>5, DefaultTyped DEF TypeOK, SetupEnvFails
  <2>3. QED
    BY <1>5, <2>1, <2>2 DEF TypeOK, SetupEnvFails
<1>6. CASE Status(c)
  <2>1. CmdOK /\ cmd[c].pc = "status" /\ cmd[c].kind \in {"deploy", "start"}
    BY <1>6 DEF TypeOK, CmdOK, WellFormed, Status
  <2>2. ASSUME Goto(c, "restart") \/ Goto(c, "boot") PROVE CmdOK'
    BY <2>1, <2>2, GotoTyped DEF Running, Pcs
  <2>3. ASSUME Finish(c, "ok") PROVE CmdOK'
    BY <2>1, <2>3, FinishTyped
  <2>4. ASSUME cmd[c].kind = "deploy",
               cmd' = [cmd EXCEPT ![c].pc = "version", ![c].booted = TRUE]
        PROVE  CmdOK'
    <3> DEFINE new == [cmd[c] EXCEPT !.pc = "version", !.booted = TRUE]
    <3>1. cmd[c] \in Commands /\ WellFormed(cmd[c])
      BY <2>1 DEF CmdOK
    <3>2. new \in Commands
      BY <3>1 DEF Commands, Pcs
    <3>3. /\ new.pc = "version" /\ new.kind = "deploy"
          /\ new.name = cmd[c].name /\ new.snap = cmd[c].snap
      BY <2>4, <3>1 DEF Commands
    <3>4. WellFormed(new)
      BY <2>1, <2>4, <3>1, <3>3 DEF WellFormed
    <3> HIDE DEF new
    <3>5. cmd' = [cmd EXCEPT ![c] = new]
      BY <2>4 DEF new
    <3>6. QED
      BY <2>1, <3>2, <3>4, <3>5, SetTyped
  <2>5. CmdOK'
    BY <1>6, <2>2, <2>3, <2>4 DEF Status
  <2>6. QED
    BY <1>6, <2>5 DEF TypeOK, Status
<1>7. CASE RestartStop(c)
  BY <1>7, GotoTyped, ChainsTyped DEF TypeOK, CmdOK, WellFormed, RestartStop, Running, Pcs
<1>8. CASE RestartResetPlugins(c)
  BY <1>8, GotoTyped DEF TypeOK, CmdOK, WellFormed, RestartResetPlugins, Running, Pcs
<1>9. CASE Boot(c)
  BY <1>9, GotoTyped, FinishTyped DEF TypeOK, CmdOK, WellFormed, Boot, Running, Pcs
<1>10. CASE BootWithoutConfig(c)
  BY <1>10, GotoTyped, FinishTyped DEF TypeOK, CmdOK, WellFormed, BootWithoutConfig, Running, Pcs
<1>11. CASE CallFails(c)
  BY <1>11, FailTyped DEF TypeOK, CallFails, Refused, Running
<1>12. QED
  BY <1>1, <1>2, <1>3, <1>4, <1>5, <1>6, <1>7, <1>8, <1>9, <1>10, <1>11 DEF Prepare

LEMMA DeployTyped ==
    ASSUME TypeOK, NEW c \in Slots, Deploy(c)
    PROVE  TypeOK'
<1>1. CASE CheckVersion(c)
  BY <1>1, GotoTyped DEF TypeOK, CmdOK, WellFormed, CheckVersion, Running, Pcs
<1>2. CASE VersionMismatch(c)
  BY <1>2, FailTyped, ChainsTyped DEF TypeOK, VersionMismatch, Running
<1>3. CASE Select(c)
  <2>1. /\ CmdOK /\ cmd[c].pc = "select" /\ cmd[c].kind = "deploy"
        /\ cmd[c] \in Commands /\ WellFormed(cmd[c])
    BY <1>3 DEF TypeOK, CmdOK, WellFormed, Select
  <2>2. ASSUME cmd' = [cmd EXCEPT ![c].pc = "record"] PROVE CmdOK'
    BY <2>1, <2>2, GotoTyped DEF Goto, Running, Pcs
  <2>3. ASSUME cmd' = [cmd EXCEPT ![c].pc = "install",
                                  ![c].sub = SelectSubnet(net.chains)]
        PROVE  CmdOK'
    <3> DEFINE new == [cmd[c] EXCEPT !.pc = "install",
                                     !.sub = SelectSubnet(net.chains)]
    <3>1. SelectSubnet(net.chains) \in 1..NumSubnets
      BY SelectTyped DEF TypeOK
    <3>2. SelectSubnet(net.chains) \in 0..NumSubnets
      BY <3>1, ConstantsAssumption
    <3>3. new \in Commands
      BY <2>1, <3>2 DEF Commands, Pcs
    <3>4. /\ new.pc = "install" /\ new.kind = "deploy"
          /\ new.name = cmd[c].name /\ new.snap = cmd[c].snap
          /\ new.sub = SelectSubnet(net.chains)
      BY <2>1 DEF Commands
    <3>5. WellFormed(new)
      BY <2>1, <3>1, <3>4 DEF WellFormed
    <3> HIDE DEF new
    <3>6. cmd' = [cmd EXCEPT ![c] = new]
      BY <2>3 DEF new
    <3>7. QED
      BY <2>1, <3>3, <3>5, <3>6, SetTyped
  <2>4. CmdOK'
    BY <1>3, <2>2, <2>3 DEF Select
  <2>5. QED
    BY <1>3, <2>4 DEF TypeOK, Select
<1>4. CASE InstallPlugin(c)
  BY <1>4, GotoTyped DEF TypeOK, CmdOK, WellFormed, InstallPlugin, Running, Pcs
<1>5. CASE InstallRefused(c)
  BY <1>5, FailTyped DEF TypeOK, InstallRefused, Running
<1>6. CASE CreateChain(c)
  <2>1. CmdOK /\ cmd[c].pc = "create" /\ cmd[c].kind = "deploy"
    BY <1>6 DEF TypeOK, CmdOK, WellFormed, CreateChain
  <2>2. CmdOK'
    BY <1>6, <2>1, GotoTyped DEF CreateChain, Running, Pcs
  <2>3. net' \in [up : BOOLEAN, chains : Seq(Chain)]
    BY <1>6, <2>1, NewChainTyped DEF TypeOK, CreateChain
  <2>4. QED
    BY <1>6, <2>2, <2>3 DEF TypeOK, CreateChain
<1>7. CASE CreateChainFails(c)
  <2>1. CmdOK /\ cmd[c].pc = "create"
    BY <1>7 DEF TypeOK, CreateChainFails
  <2>2. CmdOK'
    BY <1>7, <2>1, FailTyped DEF CreateChainFails, Running
  <2>3. /\ net' \in [up : BOOLEAN, chains : Seq(Chain)]
        /\ nextId' \in Nat \ {0}
    <3>1. CASE UNCHANGED <<net, nextId>>
      BY <3>1 DEF TypeOK
    <3>2. CASE /\ net' = [net EXCEPT !.chains = Append(net.chains, NewChain(c))]
               /\ nextId' = nextId + 1
      <4>1. Append(net.chains, NewChain(c)) \in Seq(Chain)
        BY <2>1, NewChainTyped
      <4>2. net \in [up : BOOLEAN, chains : Seq(Chain)] /\ nextId \in Nat
        BY DEF TypeOK
      <4>3. net' \in [up : BOOLEAN, chains : Seq(Chain)]
        BY <3>2, <4>1, <4>2
      <4>4. nextId' \in Nat \ {0}
        BY <3>2, <4>2
      <4>5. QED
        BY <4>3, <4>4
    <3>3. QED
      BY <1>7, <3>1, <3>2 DEF CreateChainFails
  <2>4. QED
    BY <1>7, <2>2, <2>3 DEF TypeOK, CreateChainFails
<1>8. CASE WaitChain(c)
  <2>1. /\ CmdOK /\ cmd[c].pc = "wait" /\ cmd[c].kind = "deploy"
        /\ cmd[c] \in Commands /\ WellFormed(cmd[c])
    BY <1>8 DEF TypeOK, CmdOK, WellFormed, WaitChain
  <2>2. IdsOf(net.chains, cmd[c].name) \subseteq Nat
    BY ChainFields DEF TypeOK, IdsOf
  <2>3. PICK i \in Nat : cmd' = [cmd EXCEPT ![c].pc = "record", ![c].id = i]
    BY <1>8, <2>2 DEF WaitChain
  <2> DEFINE new == [cmd[c] EXCEPT !.pc = "record", !.id = i]
  <2>4. new \in Commands /\ WellFormed(new)
    BY <2>1 DEF Commands, WellFormed, Pcs
  <2>5. CmdOK'
    BY <2>1, <2>3, <2>4, SetTyped
  <2>6. QED
    BY <1>8, <2>5 DEF TypeOK, WaitChain
<1>9. CASE WaitChainFails(c)
  BY <1>9, FailTyped DEF TypeOK, WaitChainFails, Running
<1>10. CASE RecordDeploy(c)
  BY <1>10, FinishTyped DEF TypeOK, CmdOK, Commands, WellFormed, RecordDeploy, Running
<1>11. QED
  BY <1>1, <1>2, <1>3, <1>4, <1>5, <1>6, <1>7, <1>8, <1>9, <1>10 DEF Deploy

LEMMA StopTyped ==
    ASSUME TypeOK, NEW c \in Slots, Stop(c)
    PROVE  TypeOK'
<1>1. CASE RemoveSnapshot(c)
  <2>1. CmdOK /\ cmd[c].pc = "remove" /\ cmd[c].kind = "stop"
    BY <1>1 DEF TypeOK, CmdOK, WellFormed, RemoveSnapshot
  <2>2. CmdOK'
    BY <1>1, <2>1, GotoTyped, FinishTyped DEF RemoveSnapshot, Running, Pcs
  <2>3. snaps' \in [Snapshots -> [there : BOOLEAN, chains : Seq(Chain)]]
    BY <1>1, ChainsTyped DEF TypeOK, RemoveSnapshot
  <2>4. QED
    BY <1>1, <2>2, <2>3 DEF TypeOK, RemoveSnapshot
<1>2. CASE RemoveSnapshotFails(c)
  BY <1>2, GotoTyped DEF TypeOK, RemoveSnapshotFails, Running, Pcs
<1>3. CASE SaveSnapshot(c)
  BY <1>3, GotoTyped, ChainsTyped DEF TypeOK, CmdOK, WellFormed, SaveSnapshot, Running, Pcs
<1>4. CASE SaveSnapshotFails(c)
  BY <1>4, GotoTyped DEF TypeOK, SaveSnapshotFails, Running, Pcs
<1>5. QED
  BY <1>1, <1>2, <1>3, <1>4 DEF Stop

LEMMA KillTyped ==
    ASSUME TypeOK, NEW c \in Slots, Kill(c)
    PROVE  TypeOK'
<1>1. CASE KillNetwork(c)
  BY <1>1, GotoTyped, ChainsTyped DEF TypeOK, KillNetwork, Running, Pcs
<1>2. CASE KillDialFails(c)
  BY <1>2, KillReturnsTyped DEF TypeOK, KillDialFails, Running
<1>3. CASE KillSignal(c)
  BY <1>3, KillReturnsTyped, GotoTyped, BackendGoneTyped DEF TypeOK, KillSignal, Running, Pcs
<1>4. CASE KillRemoveRunFile(c)
  BY <1>4, KillReturnsTyped DEF TypeOK, KillRemoveRunFile, Running
<1>5. QED
  BY <1>1, <1>2, <1>3, <1>4 DEF Kill

LEMMA CleanTyped ==
    ASSUME TypeOK, NEW c \in Slots, Clean(c)
    PROVE  TypeOK'
<1>1. CASE CleanReset(c)
  <2>1. CmdOK'
    BY <1>1, GotoTyped DEF TypeOK, CleanReset, Running, Pcs
  <2>2. snaps' \in [Snapshots -> [there : BOOLEAN, chains : Seq(Chain)]]
    BY <1>1, DefaultTyped DEF CleanReset, ResetDefault
  <2>3. QED
    BY <1>1, <2>1, <2>2 DEF TypeOK, CleanReset
<1>2. CASE CleanResetFails(c)
  <2>1. CmdOK'
    BY <1>2, GotoTyped DEF TypeOK, CleanResetFails, Running, Pcs
  <2>2. snaps' \in [Snapshots -> [there : BOOLEAN, chains : Seq(Chain)]]
    BY <1>2, DefaultTyped DEF TypeOK, CleanResetFails
  <2>3. QED
    BY <1>2, <2>1, <2>2 DEF TypeOK, CleanResetFails
<1>3. CASE CleanPlugins(c)
  BY <1>3, GotoTyped, BackendGoneTyped DEF TypeOK, CleanPlugins, Running, Pcs
<1>4. CASE \E n \in Names : CleanSidecar(c, n)
  BY <1>4, ConstantsAssumption DEF TypeOK, CmdOK, WellFormed, CleanSidecar, NoEntry, Running
<1>5. CASE CleanDone(c)
  BY <1>5, FinishTyped DEF TypeOK, CleanDone
<1>6. QED
  BY <1>1, <1>2, <1>3, <1>4, <1>5 DEF Clean

LEMMA StepTyped ==
    ASSUME TypeOK, [Next]_vars
    PROVE  TypeOK'
<1>1. ASSUME NEW c \in Slots, Begin(c) \/ Step(c)
      PROVE  TypeOK'
  BY <1>1, BeginTyped, PrepareTyped, DeployTyped, StopTyped, KillTyped, CleanTyped
  DEF Step
<1>2. ASSUME NEW c \in Slots, Crash(c)
      PROVE  TypeOK'
  <2>1. Idle.pc = "idle"
    BY DEF Idle
  <2>2. QED
    BY <1>2, <2>1, IdleTyped DEF TypeOK, CmdOK, WellFormed, Crash, Running
<1>3. CASE BackendDies
  BY <1>3, BackendGoneTyped DEF TypeOK, CmdOK, WellFormed, BackendDies, Running
<1>4. CASE NewImage
  BY <1>4 DEF TypeOK, CmdOK, WellFormed, NewImage, Running
<1>5. CASE UNCHANGED vars
  BY <1>5 DEF TypeOK, CmdOK, WellFormed, vars, Running
<1>6. QED
  BY <1>1, <1>2, <1>3, <1>4, <1>5 DEF Next

LEMMA InitTyped ==
    ASSUME Init
    PROVE  TypeOK
<1>1. CmdOK
  BY IdleTyped DEF Init, CmdOK
<1>2. NoEntry \in [sub : -1..NumSubnets, id : Nat \cup {-1}]
  BY ConstantsAssumption DEF NoEntry
<1>3. sidecar \in [Names -> [sub : -1..NumSubnets, id : Nat \cup {-1}]]
  BY <1>2 DEF Init
<1>4. snaps \in [Snapshots -> [there : BOOLEAN, chains : Seq(Chain)]]
  BY ChainsTyped DEF Init
<1>5. net \in [up : BOOLEAN, chains : Seq(Chain)]
  BY ChainsTyped DEF Init
<1>6. nextId \in Nat \ {0}
  BY DEF Init
<1>7. QED
  BY <1>1, <1>3, <1>4, <1>5, <1>6, Zenon DEF Init, TypeOK

(* Type correctness: whatever the failures, the interleavings and the      *)
(* number of terminals, no command leaves a variable ill-typed; a chain is *)
(* only ever created on one of the preloaded subnets.                      *)
THEOREM TypeCorrect == Spec => []TypeOK
BY InitTyped, StepTyped, PTL DEF Spec

-----------------------------------------------------------------------------
(* One command at a time: IncrementalSubnets is not inductive by itself,   *)
(* since the subnet of a new blockchain was chosen two calls earlier.      *)
OneTerminal == \A c, d \in Slots : c = d

InTurn == IncrementalSubnets /\ SelectionStillNext

LEMMA PlacedAppend ==
    ASSUME NEW chains \in Seq(Chain), Placed(chains), NEW ch \in Chain,
           ch.sub = SelectSubnet(chains)
    PROVE  Placed(Append(chains, ch))
<1> DEFINE longer == Append(chains, ch)
<1>1. Len(longer) = Len(chains) + 1 /\ Len(chains) \in Nat
  OBVIOUS
<1>2. ASSUME NEW i \in 1..Len(longer)
      PROVE  longer[i].sub = ((i - 1) % NumSubnets) + 1
  <2>1. CASE i = Len(chains) + 1
    <3>1. longer[i] = ch
      BY <2>1
    <3>2. i - 1 = Len(chains)
      BY <1>1, <2>1
    <3>3. QED
      BY <3>1, <3>2 DEF SelectSubnet
  <2>2. CASE i \in 1..Len(chains)
    <3>1. longer[i] = chains[i]
      BY <2>2
    <3>2. QED
      BY <2>2, <3>1 DEF Placed
  <2>3. QED
    BY <1>1, <2>1, <2>2
<1>3. QED
  BY <1>2 DEF Placed

LEMMA PlacedEmpty ==
    /\ Placed(Down.chains)
    /\ Placed(Missing.chains)
    /\ Placed(Bootstrap.chains)
BY DEF Placed, Down, Missing, Bootstrap

(* Where a command goes next, and that it keeps its choice. *)
LEMMA GotoAt ==
    ASSUME CmdOK, NEW c \in Slots, NEW p, Goto(c, p)
    PROVE  cmd'[c].pc = p /\ cmd'[c].sub = cmd[c].sub
BY DEF Goto, CmdOK, Commands

LEMMA FinishAt ==
    ASSUME CmdOK, NEW c \in Slots, NEW r, Finish(c, r)
    PROVE  cmd'[c].pc = "idle"
BY DEF Finish, CmdOK, Idle

LEMMA FailAt ==
    ASSUME CmdOK, NEW c \in Slots, Fail(c)
    PROVE  cmd'[c].pc \in {"kill", "idle"}
BY GotoAt, FinishAt DEF Fail

LEMMA KillReturnsAt ==
    ASSUME CmdOK, NEW c \in Slots, NEW r, KillReturns(c, r)
    PROVE  cmd'[c].pc \in {"unplug", "idle"}
BY GotoAt, FinishAt DEF KillReturns

(* A step that leaves the command away from an installation needs only to  *)
(* keep the placement.                                                     *)
LEMMA AwayInTurn ==
    ASSUME OneTerminal, NEW c \in Slots,
           cmd'[c].pc \notin {"install", "create"},
           Placed(net'.chains),
           \A s \in Snapshots : Placed(snaps'[s].chains)
    PROVE  InTurn'
BY DEF OneTerminal, InTurn, IncrementalSubnets, SelectionStillNext

LEMMA ResetInTurn ==
    ASSUME TypeOK, InTurn, ResetDefault
    PROVE  \A s \in Snapshots : Placed(snaps'[s].chains)
BY PlacedEmpty DEF TypeOK, InTurn, IncrementalSubnets, ResetDefault

LEMMA BeginInTurn ==
    ASSUME OneTerminal, TypeOK, InTurn, NEW c \in Slots, Begin(c)
    PROVE  InTurn'
<1>1. UNCHANGED <<net, snaps>>
  BY DEF Begin, BeginDeploy, BeginStart, BeginStop, BeginClean
<1>2. cmd'[c].pc \in {"server", "remove", "reset"}
  <2>0. cmd \in [Slots -> Commands] /\ Idle.pc = "idle"
    BY DEF TypeOK, CmdOK, Idle
  <2>1. ASSUME NEW n \in Names, BeginDeploy(c, n) PROVE cmd'[c].pc = "server"
    BY <2>0, <2>1 DEF BeginDeploy, Idle
  <2>2. ASSUME NEW s \in Snapshots, BeginStart(c, s) PROVE cmd'[c].pc = "server"
    BY <2>0, <2>2 DEF BeginStart, Idle
  <2>3. ASSUME NEW s \in Snapshots, BeginStop(c, s) PROVE cmd'[c].pc = "remove"
    BY <2>0, <2>3 DEF BeginStop, Idle
  <2>4. ASSUME NEW h \in BOOLEAN, BeginClean(c, h) PROVE cmd'[c].pc = "reset"
    BY <2>0, <2>4 DEF BeginClean, Idle
  <2>5. QED
    BY <2>1, <2>2, <2>3, <2>4 DEF Begin
<1>3. QED
  BY <1>1, <1>2, AwayInTurn DEF InTurn, IncrementalSubnets

LEMMA PrepareInTurn ==
    ASSUME OneTerminal, TypeOK, InTurn, NEW c \in Slots, Prepare(c)
    PROVE  InTurn'
<1> USE DEF TypeOK
<1>1. CASE CheckServer(c) \/ RestartResetPlugins(c)
  BY <1>1, GotoAt, AwayInTurn
  DEF CheckServer, RestartResetPlugins, InTurn, IncrementalSubnets
<1>2. CASE Spawn(c) \/ WriteRunFile(c)
  <2>1. cmd'[c].pc \in {"runfile", "env"}
    BY <1>2 DEF Spawn, WriteRunFile, CmdOK, Commands
  <2>2. QED
    BY <1>2, <2>1, AwayInTurn
    DEF Spawn, WriteRunFile, InTurn, IncrementalSubnets
<1>3. CASE SetupEnv(c)
  <2>1. cmd'[c].pc = "status"
    BY <1>3 DEF SetupEnv, CmdOK, Commands
  <2>2. \A s \in Snapshots : Placed(snaps'[s].chains)
    BY <1>3, ResetInTurn DEF SetupEnv, InTurn, IncrementalSubnets
  <2>3. QED
    BY <1>3, <2>1, <2>2, AwayInTurn DEF SetupEnv, InTurn, IncrementalSubnets
<1>4. CASE SetupEnvFails(c)
  <2>1. \A s \in Snapshots : Placed(snaps'[s].chains)
    BY <1>4, PlacedEmpty DEF SetupEnvFails, InTurn, IncrementalSubnets
  <2>2. QED
    BY <1>4, <2>1, FailAt, AwayInTurn
    DEF SetupEnvFails, InTurn, IncrementalSubnets
<1>5. CASE Status(c)
  <2>1. cmd'[c].pc \in {"restart", "version", "idle", "boot"}
    BY <1>5, GotoAt, FinishAt DEF Status, CmdOK, Commands
  <2>2. QED
    BY <1>5, <2>1, AwayInTurn DEF Status, InTurn, IncrementalSubnets
<1>6. CASE RestartStop(c)
  <2>1. cmd'[c].pc = "replug"
    BY <1>6, GotoAt DEF RestartStop
  <2>2. Placed(net'.chains) /\ UNCHANGED snaps
    BY <1>6, PlacedEmpty DEF RestartStop, Down
  <2>3. QED
    BY <2>1, <2>2, AwayInTurn DEF InTurn, IncrementalSubnets
<1>7. CASE Boot(c)
  <2>1. cmd'[c].pc \in {"version", "idle"}
    BY <1>7, GotoAt, FinishAt DEF Boot
  <2>2. cmd[c].snap \in Snapshots
    BY <1>7 DEF Boot, CmdOK, WellFormed
  <2>3. Placed(net'.chains)
    BY <1>7, <2>2 DEF Boot, InTurn, IncrementalSubnets
  <2>4. QED
    BY <1>7, <2>1, <2>3, AwayInTurn DEF Boot, InTurn, IncrementalSubnets
<1>8. CASE BootWithoutConfig(c)
  BY <1>8, GotoAt, FinishAt, AwayInTurn
  DEF BootWithoutConfig, InTurn, IncrementalSubnets
<1>9. CASE CallFails(c)
  BY <1>9, FailAt, AwayInTurn DEF CallFails, InTurn, IncrementalSubnets
<1>10. QED
  BY <1>1, <1>2, <1>3, <1>4, <1>5, <1>6, <1>7, <1>8, <1>9 DEF Prepare

LEMMA CreatedInTurn ==
    ASSUME TypeOK, InTurn, NEW c \in Slots, cmd[c].pc = "create", net.up,
           net' = [net EXCEPT !.chains = Append(net.chains, NewChain(c))]
    PROVE  Placed(net'.chains)
<1>1. cmd[c].name \in Names /\ cmd[c].sub \in 1..NumSubnets
  BY DEF TypeOK, CmdOK, WellFormed
<1>2. NewChain(c) \in Chain
  BY <1>1 DEF NewChain, Chain, TypeOK
<1>3. NewChain(c).sub = SelectSubnet(net.chains)
  BY DEF NewChain, InTurn, SelectionStillNext
<1>4. net.chains \in Seq(Chain) /\ Placed(net.chains)
  BY DEF TypeOK, InTurn, IncrementalSubnets
<1>5. Placed(Append(net.chains, NewChain(c)))
  BY <1>2, <1>3, <1>4, PlacedAppend
<1>6. net'.chains = Append(net.chains, NewChain(c))
  BY DEF TypeOK
<1>7. QED
  BY <1>5, <1>6

LEMMA DeployInTurn ==
    ASSUME OneTerminal, TypeOK, InTurn, NEW c \in Slots, Deploy(c)
    PROVE  InTurn'
<1>0. CmdOK /\ Placed(net.chains) /\ \A s \in Snapshots : Placed(snaps[s].chains)
  BY DEF TypeOK, InTurn, IncrementalSubnets
<1>1. CASE CheckVersion(c)
  BY <1>0, <1>1, GotoAt, AwayInTurn DEF CheckVersion
<1>2. CASE VersionMismatch(c)
  BY <1>0, <1>2, FailAt, PlacedEmpty, AwayInTurn DEF VersionMismatch
<1>3. CASE Select(c)
  <2>1. cmd'[c].pc \in {"install", "create"} => cmd'[c].sub = SelectSubnet(net.chains)
    BY <1>0, <1>3 DEF Select, CmdOK, Commands
  <2>2. UNCHANGED <<net, snaps>>
    BY <1>3 DEF Select
  <2>3. QED
    BY <1>0, <2>1, <2>2
    DEF OneTerminal, InTurn, IncrementalSubnets, SelectionStillNext
<1>4. CASE InstallPlugin(c)
  <2>1. cmd'[c].sub = cmd[c].sub /\ cmd[c].pc = "install"
    BY <1>0, <1>4, GotoAt DEF InstallPlugin
  <2>2. UNCHANGED <<net, snaps>>
    BY <1>4 DEF InstallPlugin
  <2>3. QED
    BY <1>0, <2>1, <2>2
    DEF OneTerminal, InTurn, IncrementalSubnets, SelectionStillNext
<1>5. CASE InstallRefused(c)
  BY <1>0, <1>5, FailAt, AwayInTurn DEF InstallRefused
<1>6. CASE CreateChain(c)
  <2>1. Placed(net'.chains)
    BY <1>6, CreatedInTurn DEF CreateChain
  <2>2. QED
    BY <1>0, <1>6, <2>1, GotoAt, AwayInTurn DEF CreateChain
<1>7. CASE CreateChainFails(c)
  <2>1. Placed(net'.chains)
    BY <1>0, <1>7, CreatedInTurn DEF CreateChainFails
  <2>2. QED
    BY <1>0, <1>7, <2>1, FailAt, AwayInTurn DEF CreateChainFails
<1>8. CASE WaitChain(c)
  <2>1. cmd'[c].pc = "record"
    BY <1>0, <1>8 DEF WaitChain, CmdOK, Commands
  <2>2. QED
    BY <1>0, <1>8, <2>1, AwayInTurn DEF WaitChain
<1>9. CASE WaitChainFails(c)
  BY <1>0, <1>9, FailAt, AwayInTurn DEF WaitChainFails
<1>10. CASE RecordDeploy(c)
  BY <1>0, <1>10, FinishAt, AwayInTurn DEF RecordDeploy
<1>11. QED
  BY <1>1, <1>2, <1>3, <1>4, <1>5, <1>6, <1>7, <1>8, <1>9, <1>10 DEF Deploy

LEMMA StopInTurn ==
    ASSUME OneTerminal, TypeOK, InTurn, NEW c \in Slots, Stop(c)
    PROVE  InTurn'
<1>0. /\ CmdOK /\ Placed(net.chains)
      /\ \A s \in Snapshots : Placed(snaps[s].chains)
  BY DEF TypeOK, InTurn, IncrementalSubnets
<1>1. CASE RemoveSnapshot(c)
  <2>1. cmd'[c].pc \in {"idle", "kill", "save"}
    BY <1>0, <1>1, GotoAt, FinishAt DEF RemoveSnapshot
  <2>2. \A s \in Snapshots : Placed(snaps'[s].chains)
    BY <1>0, <1>1, PlacedEmpty DEF RemoveSnapshot, TypeOK
  <2>3. QED
    BY <1>0, <1>1, <2>1, <2>2, AwayInTurn DEF RemoveSnapshot
<1>2. CASE RemoveSnapshotFails(c) \/ SaveSnapshotFails(c)
  BY <1>0, <1>2, GotoAt, AwayInTurn DEF RemoveSnapshotFails, SaveSnapshotFails
<1>3. CASE SaveSnapshot(c)
  <2>1. \A s \in Snapshots : Placed(snaps'[s].chains)
    BY <1>0, <1>3 DEF SaveSnapshot, TypeOK
  <2>2. QED
    BY <1>0, <1>3, <2>1, GotoAt, PlacedEmpty, AwayInTurn DEF SaveSnapshot
<1>4. QED
  BY <1>1, <1>2, <1>3 DEF Stop

LEMMA KillInTurn ==
    ASSUME OneTerminal, TypeOK, InTurn, NEW c \in Slots, Kill(c)
    PROVE  InTurn'
<1>0. /\ CmdOK /\ Placed(net.chains)
      /\ \A s \in Snapshots : Placed(snaps[s].chains)
  BY DEF TypeOK, InTurn, IncrementalSubnets
<1>1. cmd'[c].pc \in {"signal", "rmrun", "unplug", "idle"}
  BY <1>0, GotoAt, KillReturnsAt
  DEF Kill, KillNetwork, KillDialFails, KillSignal, KillRemoveRunFile
<1>2. net' \in {net, Down} /\ UNCHANGED snaps
  BY DEF Kill, KillNetwork, KillDialFails, KillSignal, KillRemoveRunFile, BackendGone
<1>3. QED
  BY <1>0, <1>1, <1>2, PlacedEmpty, AwayInTurn

LEMMA CleanInTurn ==
    ASSUME OneTerminal, TypeOK, InTurn, NEW c \in Slots, Clean(c)
    PROVE  InTurn'
<1>0. /\ CmdOK /\ Placed(net.chains)
      /\ \A s \in Snapshots : Placed(snaps[s].chains)
  BY DEF TypeOK, InTurn, IncrementalSubnets
<1>1. CASE CleanReset(c)
  BY <1>0, <1>1, GotoAt, ResetInTurn, AwayInTurn DEF CleanReset
<1>2. CASE CleanResetFails(c)
  <2>1. \A s \in Snapshots : Placed(snaps'[s].chains)
    BY <1>0, <1>2, PlacedEmpty DEF CleanResetFails, TypeOK
  <2>2. QED
    BY <1>0, <1>2, <2>1, GotoAt, AwayInTurn DEF CleanResetFails
<1>3. CASE CleanPlugins(c)
  <2>1. net' \in {net, Down}
    BY <1>3 DEF CleanPlugins, BackendGone
  <2>2. QED
    BY <1>0, <1>3, <2>1, GotoAt, PlacedEmpty, AwayInTurn DEF CleanPlugins
<1>4. CASE \E n \in Names : CleanSidecar(c, n)
  BY <1>0, <1>4, AwayInTurn DEF CleanSidecar
<1>5. CASE CleanDone(c)
  BY <1>0, <1>5, FinishAt, AwayInTurn DEF CleanDone
<1>6. QED
  BY <1>1, <1>2, <1>3, <1>4, <1>5 DEF Clean

LEMMA NextInTurn ==
    ASSUME OneTerminal, TypeOK, InTurn, [Next]_vars
    PROVE  InTurn'
<1>1. ASSUME NEW c \in Slots, Begin(c) \/ Step(c)
      PROVE  InTurn'
  BY <1>1, BeginInTurn, PrepareInTurn, DeployInTurn, StopInTurn, KillInTurn,
     CleanInTurn DEF Step
<1>2. ASSUME NEW c \in Slots, Crash(c)
      PROVE  InTurn'
  <2>1. cmd'[c].pc = "idle"
    BY <1>2 DEF Crash, TypeOK, CmdOK, Idle
  <2>2. QED
    BY <1>2, <2>1, AwayInTurn DEF Crash, InTurn, IncrementalSubnets
<1>3. CASE BackendDies
  BY <1>3, PlacedEmpty
  DEF BackendDies, BackendGone, InTurn, IncrementalSubnets, SelectionStillNext, Down
<1>4. CASE NewImage \/ UNCHANGED vars
  BY <1>4 DEF NewImage, vars, InTurn, IncrementalSubnets, SelectionStillNext
<1>5. QED
  BY <1>1, <1>2, <1>3, <1>4 DEF Next

LEMMA InitInTurn ==
    ASSUME Init
    PROVE  InTurn
BY PlacedEmpty DEF Init, InTurn, IncrementalSubnets, SelectionStillNext, Idle

(* Incremental selection: with one command at a time, any failures and any *)
(* number of names, snapshots and preloaded subnets, the i-th blockchain of *)
(* the network and of every snapshot is hosted by the i-th subnet in turn. *)
THEOREM IncrementalSelection ==
    ASSUME OneTerminal
    PROVE  Spec => []IncrementalSubnets
<1>1. TypeOK /\ InTurn /\ [Next]_vars => InTurn'
  BY NextInTurn
<1>2. Init => InTurn
  BY InitInTurn
<1>3. InTurn => IncrementalSubnets
  BY DEF InTurn
<1>4. QED
  BY <1>1, <1>2, <1>3, TypeCorrect, PTL DEF Spec

(* Placement in turn keeps the blockchains apart while there are subnets   *)
(* left.                                                                   *)
LEMMA PlacedApart ==
    ASSUME NEW chains \in Seq(Chain), Placed(chains), Len(chains) <= NumSubnets,
           NEW i \in 1..Len(chains), NEW j \in 1..Len(chains), i # j
    PROVE  chains[i].sub # chains[j].sub
<1>1. NumSubnets \in Nat \ {0} /\ Len(chains) \in Nat
  BY ConstantsAssumption
<1>2. ASSUME NEW k \in 0..(NumSubnets - 1) PROVE k % NumSubnets = k
  BY <1>1, SMT
<1>3. ASSUME NEW k \in 1..Len(chains) PROVE chains[k].sub = k
  <2>1. k \in Int /\ k - 1 \in 0..(NumSubnets - 1)
    BY <1>1
  <2>2. (k - 1) % NumSubnets = k - 1
    BY <1>2, <2>1
  <2>3. chains[k].sub = ((k - 1) % NumSubnets) + 1
    BY DEF Placed
  <2>4. QED
    BY <2>1, <2>2, <2>3
<1>4. QED
  BY <1>3

(* As long as there are preloaded subnets left, no two blockchains of the  *)
(* running network share one.                                              *)
THEOREM SubnetsNotShared ==
    ASSUME OneTerminal
    PROVE  Spec => []DistinctSubnets
<1>1. TypeOK /\ IncrementalSubnets => DistinctSubnets
  BY PlacedApart DEF TypeOK, IncrementalSubnets, DistinctSubnets
<1>2. QED
  BY <1>1, TypeCorrect, IncrementalSelection, PTL

-----------------------------------------------------------------------------
(* What a deploy has chosen stays the next subnet in turn until its        *)
(* blockchain exists, when no other command runs.                          *)
THEOREM ChoiceStaysNext ==
    ASSUME OneTerminal
    PROVE  Spec => []SelectionStillNext
<1>1. TypeOK /\ InTurn /\ [Next]_vars => InTurn'
  BY NextInTurn
<1>2. Init => InTurn
  BY InitInTurn
<1>3. InTurn => SelectionStillNext
  BY DEF InTurn
<1>4. QED
  BY <1>1, <1>2, <1>3, TypeCorrect, PTL DEF Spec

-----------------------------------------------------------------------------
(* One command at a time: what holds between its calls.                    *)

(* A network that is brought down to be replaced or killed is down.        *)
BroughtDown == \A c \in Slots :
    cmd[c].pc \in {"replug", "signal", "rmrun"} => ~net.up

(* Only clean resets the snapshot, the plugins and the sidecars.           *)
CleanOnly == \A c \in Slots :
    cmd[c].pc \in {"reset", "unplug", "sidecars"} => cmd[c].kind = "clean"

(* A stop that goes on to kill the backend has nothing left to save.       *)
Saves == \A c \in Slots :
    /\ cmd[c].pc = "save" => ~snaps[cmd[c].snap].there
    /\ cmd[c].kind = "stop" /\ cmd[c].pc = "kill" => ~net.up

(* A clean whose kill could reach the backend has brought the network      *)
(* down, and then takes the plugins and the entries of the sidecars away.  *)
Cleans == \A c \in Slots :
    /\ cmd[c].pc \in {"unplug", "sidecars"} => ~net.up
    /\ cmd[c].pc = "sidecars" => plugins = {}
    /\ cmd[c].pc = "idle" /\ cmd[c].kind = "clean" /\ cmd[c].res = "ok" =>
        ~net.up /\ plugins = {} /\ \A n \in Names : sidecar[n] = NoEntry

(* No backend, no network.                                                 *)
NetServed == net.up => server

(* What a command keeps when it goes to its next call.                     *)
LEMMA GotoKeeps ==
    ASSUME CmdOK, NEW c \in Slots, NEW p, Goto(c, p)
    PROVE  /\ cmd'[c].pc = p /\ cmd'[c].kind = cmd[c].kind
           /\ cmd'[c].res = cmd[c].res /\ cmd'[c].snap = cmd[c].snap
           /\ cmd'[c].name = cmd[c].name
           /\ cmd'[c].sub = cmd[c].sub /\ cmd'[c].id = cmd[c].id
           /\ cmd'[c].started = cmd[c].started
           /\ cmd'[c].booted = cmd[c].booted
           /\ cmd'[c].restart = cmd[c].restart
           /\ cmd'[c].child = cmd[c].child
BY DEF Goto, CmdOK, Commands

LEMMA FinishKeeps ==
    ASSUME CmdOK, NEW c \in Slots, NEW r, Finish(c, r)
    PROVE  /\ cmd'[c].pc = "idle" /\ cmd'[c].kind = cmd[c].kind
           /\ cmd'[c].res = r /\ cmd'[c].id = 0
           /\ cmd'[c].started = FALSE /\ cmd'[c].booted = FALSE
BY DEF Finish, CmdOK, Idle

LEMMA FailKeeps ==
    ASSUME CmdOK, NEW c \in Slots, Fail(c)
    PROVE  /\ cmd'[c].kind = cmd[c].kind /\ cmd'[c].id \in {0, cmd[c].id}
           /\ cmd'[c].pc = "idle" \/ (/\ cmd'[c].pc = "kill"
                                      /\ cmd[c].kind = "deploy"
                                      /\ cmd[c].started)
BY GotoKeeps, FinishKeeps DEF Fail

LEMMA KillReturnsKeeps ==
    ASSUME CmdOK, NEW c \in Slots, NEW r, KillReturns(c, r)
    PROVE  /\ cmd'[c].kind = cmd[c].kind
           /\ \/ cmd[c].kind \in {"stop", "deploy"} /\ cmd'[c].pc = "idle"
              \/ cmd[c].kind = "clean" /\ cmd'[c].pc = "unplug"
BY GotoKeeps, FinishKeeps DEF KillReturns

(* The first call of each command.                                         *)
LEMMA BeginLeads ==
    ASSUME TypeOK, NEW c \in Slots, Begin(c)
    PROVE  /\ ~Running(c)
           /\ \/ cmd'[c].pc = "server" /\ cmd'[c].kind \in {"deploy", "start"}
              \/ cmd'[c].pc = "remove" /\ cmd'[c].kind = "stop"
              \/ cmd'[c].pc = "reset" /\ cmd'[c].kind = "clean"
           /\ UNCHANGED <<server, runFile, net, snaps, stale, plugins, sidecar, nextId>>
<1>0. cmd \in [Slots -> Commands]
  BY DEF TypeOK, CmdOK
<1>1. ASSUME NEW n \in Names, BeginDeploy(c, n)
      PROVE  cmd'[c].pc = "server" /\ cmd'[c].kind = "deploy"
  BY <1>0, <1>1 DEF BeginDeploy, Idle
<1>2. ASSUME NEW s \in Snapshots, BeginStart(c, s)
      PROVE  cmd'[c].pc = "server" /\ cmd'[c].kind = "start"
  BY <1>0, <1>2 DEF BeginStart, Idle
<1>3. ASSUME NEW s \in Snapshots, BeginStop(c, s)
      PROVE  cmd'[c].pc = "remove" /\ cmd'[c].kind = "stop"
  BY <1>0, <1>3 DEF BeginStop, Idle
<1>4. ASSUME NEW h \in BOOLEAN, BeginClean(c, h)
      PROVE  cmd'[c].pc = "reset" /\ cmd'[c].kind = "clean"
  BY <1>0, <1>4 DEF BeginClean, Idle
<1>5. /\ ~Running(c)
      /\ UNCHANGED <<server, runFile, net, snaps, stale, plugins, sidecar, nextId>>
  BY DEF Begin, BeginDeploy, BeginStart, BeginStop, BeginClean
<1>6. QED
  BY <1>1, <1>2, <1>3, <1>4, <1>5 DEF Begin

(* What the calls of deploy and start that prepare the network may do.     *)
LEMMA PrepareLeads ==
    ASSUME TypeOK, NEW c \in Slots, Prepare(c)
    PROVE  /\ cmd[c].kind \in {"deploy", "start"} /\ cmd'[c].kind = cmd[c].kind
           /\ cmd'[c].pc \in {"idle", "spawn", "runfile", "env", "status",
                              "restart", "replug", "boot", "version", "kill"}
           /\ cmd'[c].pc = "replug" => ~net'.up
           /\ net'.up => net.up \/ server
           /\ server => server'
           /\ plugins' # plugins => cmd[c].pc = "replug"
           /\ UNCHANGED sidecar
           /\ cmd'[c].id \in {0, cmd[c].id}
           /\ cmd'[c].pc = "kill" => Fail(c)
<1>0. CmdOK /\ WellFormed(cmd[c]) /\ cmd[c] \in Commands
  BY DEF TypeOK, CmdOK
<1>1. CASE CheckServer(c)
  <2>1. cmd[c].pc = "server" /\ Goto(c, IF runFile = "live" THEN "env" ELSE "spawn")
    BY <1>1 DEF CheckServer
  <2>2. QED
    BY <1>0, <1>1, <2>1, GotoKeeps DEF CheckServer, WellFormed
<1>2. CASE Spawn(c)
  <2>1. cmd'[c].pc = "runfile" /\ cmd'[c].kind = cmd[c].kind /\ cmd'[c].id = cmd[c].id
    BY <1>2 DEF Spawn, TypeOK, CmdOK, Commands
  <2>2. QED
    BY <1>0, <1>2, <2>1 DEF Spawn, WellFormed
<1>3. CASE WriteRunFile(c)
  <2>1. cmd'[c].pc = "env" /\ cmd'[c].kind = cmd[c].kind /\ cmd'[c].id = cmd[c].id
    BY <1>3 DEF WriteRunFile, TypeOK, CmdOK, Commands
  <2>2. QED
    BY <1>0, <1>3, <2>1 DEF WriteRunFile, WellFormed
<1>4. CASE SetupEnv(c)
  <2>1. cmd'[c].pc = "status" /\ cmd'[c].kind = cmd[c].kind /\ cmd'[c].id = cmd[c].id
    BY <1>4 DEF SetupEnv, TypeOK, CmdOK, Commands
  <2>2. QED
    BY <1>0, <1>4, <2>1 DEF SetupEnv, WellFormed
<1>5. CASE SetupEnvFails(c)
  BY <1>0, <1>5, FailKeeps DEF SetupEnvFails, WellFormed
<1>6. CASE Status(c)
  <2>1. cmd[c].pc = "status"
    BY <1>6 DEF Status
  <2>2. /\ cmd'[c].kind = cmd[c].kind /\ cmd'[c].id \in {0, cmd[c].id}
        /\ cmd'[c].pc \in {"restart", "version", "idle", "boot"}
    <3>1. ASSUME cmd' = [cmd EXCEPT ![c].pc = "version", ![c].booted = TRUE]
          PROVE  cmd'[c].pc = "version" /\ cmd'[c].kind = cmd[c].kind /\ cmd'[c].id = cmd[c].id
      BY <3>1 DEF TypeOK, CmdOK, Commands
    <3>2. \/ cmd' = [cmd EXCEPT ![c].pc = "version", ![c].booted = TRUE]
          \/ Finish(c, "ok") \/ Goto(c, "restart") \/ Goto(c, "boot")
      BY <1>6 DEF Status
    <3>3. QED
      BY <1>0, <3>1, <3>2, GotoKeeps, FinishKeeps
  <2>3. UNCHANGED <<server, net, plugins, sidecar>>
    BY <1>6 DEF Status
  <2>4. QED
    BY <1>0, <2>1, <2>2, <2>3 DEF WellFormed
<1>7. CASE RestartStop(c)
  BY <1>0, <1>7, GotoKeeps DEF RestartStop, WellFormed, Down
<1>8. CASE RestartResetPlugins(c)
  BY <1>0, <1>8, GotoKeeps DEF RestartResetPlugins, WellFormed
<1>9. CASE Boot(c) \/ BootWithoutConfig(c)
  <2>1. cmd[c].pc = "boot" /\ (Goto(c, "version") \/ \E r \in {"ok", "err"} : Finish(c, r))
    BY <1>9 DEF Boot, BootWithoutConfig
  <2>2. /\ cmd'[c].pc \in {"version", "idle"} /\ cmd'[c].kind = cmd[c].kind
        /\ cmd'[c].id \in {0, cmd[c].id}
    BY <1>0, <2>1, GotoKeeps, FinishKeeps, ZenonT(60)
  <2>3. UNCHANGED <<server, plugins, sidecar>> /\ (net' = net \/ server)
    BY <1>9 DEF Boot, BootWithoutConfig
  <2>4. QED
    BY <1>0, <2>1, <2>2, <2>3 DEF WellFormed
<1>11. CASE CallFails(c)
  <2>1. cmd[c].pc \in {"status", "restart", "boot", "select"}
    BY <1>11 DEF CallFails, Refused
  <2>2. QED
    BY <1>0, <1>11, <2>1, FailKeeps DEF CallFails, WellFormed
<1>12. QED
  BY <1>1, <1>2, <1>3, <1>4, <1>5, <1>6, <1>7, <1>8, <1>9, <1>11 DEF Prepare

(* The calls of deploy.                                                    *)
LEMMA DeployLeads ==
    ASSUME TypeOK, NEW c \in Slots, Deploy(c)
    PROVE  /\ cmd[c].kind = "deploy" /\ cmd'[c].kind = "deploy"
           /\ cmd'[c].pc \in {"idle", "select", "install", "create", "wait",
                              "record", "kill"}
           /\ net'.up => net.up
           /\ UNCHANGED <<server, snaps>>
           /\ plugins \subseteq plugins' \/ ~net.up \/ "rpc" \in Faults
<1>0. /\ CmdOK /\ WellFormed(cmd[c]) /\ cmd[c] \in Commands
      /\ net \in [up : BOOLEAN, chains : Seq(Chain)]
  BY DEF TypeOK, CmdOK
<1>1. CASE CheckVersion(c)
  BY <1>0, <1>1, GotoKeeps DEF CheckVersion, WellFormed
<1>2. CASE VersionMismatch(c)
  BY <1>0, <1>2, FailKeeps DEF VersionMismatch, WellFormed, Down
<1>3. CASE Select(c)
  <2>1. cmd'[c].pc \in {"record", "install"} /\ cmd'[c].kind = cmd[c].kind
    BY <1>3 DEF Select, TypeOK, CmdOK, Commands
  <2>2. QED
    BY <1>0, <1>3, <2>1 DEF Select, WellFormed
<1>4. CASE InstallPlugin(c)
  BY <1>0, <1>4, GotoKeeps DEF InstallPlugin, WellFormed
<1>5. CASE InstallRefused(c)
  BY <1>0, <1>5, FailKeeps DEF InstallRefused, WellFormed
<1>6. CASE CreateChain(c)
  BY <1>0, <1>6, GotoKeeps DEF CreateChain, WellFormed
<1>7. CASE CreateChainFails(c)
  <2>1. net'.up = net.up
    BY <1>0, <1>7 DEF CreateChainFails
  <2>2. QED
    BY <1>0, <1>7, <2>1, FailKeeps DEF CreateChainFails, WellFormed
<1>8. CASE WaitChain(c)
  <2>1. cmd'[c].pc = "record" /\ cmd'[c].kind = cmd[c].kind
    <3>1. PICK i : cmd' = [cmd EXCEPT ![c].pc = "record", ![c].id = i]
      BY <1>8 DEF WaitChain
    <3>2. QED
      BY <3>1 DEF TypeOK, CmdOK, Commands
  <2>2. QED
    BY <1>0, <1>8, <2>1 DEF WaitChain, WellFormed
<1>9. CASE WaitChainFails(c)
  BY <1>0, <1>9, FailKeeps DEF WaitChainFails, WellFormed
<1>10. CASE RecordDeploy(c)
  BY <1>0, <1>10, FinishKeeps DEF RecordDeploy, WellFormed
<1>11. QED
  BY <1>1, <1>2, <1>3, <1>4, <1>5, <1>6, <1>7, <1>8, <1>9, <1>10 DEF Deploy

(* The calls of stop.                                                      *)
LEMMA StopLeads ==
    ASSUME TypeOK, NEW c \in Slots, Stop(c)
    PROVE  /\ cmd[c].kind = "stop" /\ cmd'[c].kind = "stop"
           /\ cmd'[c].pc \in {"idle", "save", "kill"}
           /\ cmd'[c].pc = "kill" /\ net'.up => "save" \in Faults \/
                (cmd[c].pc = "save" /\ snaps[cmd[c].snap].there)
           /\ cmd'[c].pc = "save" => ~snaps'[cmd'[c].snap].there
           /\ net.up /\ ~net'.up =>
                snaps'[cmd[c].snap] = [there |-> TRUE, chains |-> net.chains]
           /\ net'.up => net.up
           /\ UNCHANGED <<server, plugins, sidecar>>
<1>0. /\ CmdOK /\ WellFormed(cmd[c]) /\ cmd[c] \in Commands
      /\ snaps \in [Snapshots -> [there : BOOLEAN, chains : Seq(Chain)]]
  BY DEF TypeOK, CmdOK
<1>1. CASE RemoveSnapshot(c)
  <2>1. cmd[c].pc = "remove" /\ cmd[c].kind = "stop" /\ cmd[c].snap \in Snapshots
    BY <1>0, <1>1 DEF RemoveSnapshot, WellFormed
  <2>2. /\ cmd'[c].kind = cmd[c].kind
        /\ \/ cmd'[c].pc = "idle"
           \/ cmd'[c].pc = "kill" /\ ~net.up
           \/ /\ cmd'[c].pc = "save" /\ cmd'[c].snap = cmd[c].snap
              /\ snaps' = [snaps EXCEPT ![cmd[c].snap] = Missing]
    <3>1. CASE ~server /\ Finish(c, "ok")
      BY <1>0, <3>1, FinishKeeps
    <3>2. CASE ~net.up /\ Goto(c, "kill")
      BY <1>0, <3>2, GotoKeeps
    <3>3. CASE snaps' = [snaps EXCEPT ![cmd[c].snap] = Missing] /\ Goto(c, "save")
      BY <1>0, <3>3, GotoKeeps
    <3>4. QED
      BY <1>1, <3>1, <3>2, <3>3 DEF RemoveSnapshot
  <2>3. cmd'[c].pc = "save" => ~snaps'[cmd'[c].snap].there
    BY <1>0, <2>1, <2>2 DEF Missing
  <2>4. QED
    BY <1>1, <2>1, <2>2, <2>3 DEF RemoveSnapshot
<1>2. CASE RemoveSnapshotFails(c)
  BY <1>0, <1>2, GotoKeeps DEF RemoveSnapshotFails, WellFormed
<1>3. CASE SaveSnapshot(c)
  <2>1. cmd[c].pc = "save" /\ cmd[c].kind = "stop" /\ cmd[c].snap \in Snapshots
    BY <1>0, <1>3 DEF SaveSnapshot, WellFormed
  <2>2. QED
    BY <1>0, <1>3, <2>1, GotoKeeps DEF SaveSnapshot, Down
<1>4. CASE SaveSnapshotFails(c)
  BY <1>0, <1>4, GotoKeeps DEF SaveSnapshotFails, WellFormed
<1>5. QED
  BY <1>1, <1>2, <1>3, <1>4 DEF Stop

(* The calls of KillgRPCServerProcess, whoever makes them.                 *)
LEMMA KillLeads ==
    ASSUME TypeOK, NEW c \in Slots, Kill(c)
    PROVE  /\ cmd'[c].kind = cmd[c].kind
           /\ cmd[c].pc \in {"kill", "signal", "rmrun"}
           /\ \/ cmd'[c].pc \in {"signal", "rmrun"} /\ ~net'.up
              \/ cmd'[c].pc \in {"idle", "unplug"} /\ UNCHANGED <<net, server>>
           /\ cmd'[c].pc = "idle" => cmd[c].kind # "clean"
           /\ cmd'[c].pc = "unplug" => cmd[c].kind = "clean"
           /\ cmd[c].pc = "kill" => cmd'[c].pc = "signal" \/ ~server \/ "kill" \in Faults
           /\ net'.up => net.up /\ UNCHANGED server
           /\ UNCHANGED <<plugins, sidecar, snaps>>
<1>0. CmdOK
  BY DEF TypeOK
<1>1. CASE KillNetwork(c)
  BY <1>0, <1>1, GotoKeeps DEF KillNetwork, Down
<1>2. CASE KillDialFails(c)
  BY <1>0, <1>2, KillReturnsKeeps DEF KillDialFails
<1>3. CASE KillSignal(c)
  BY <1>0, <1>3, KillReturnsKeeps, GotoKeeps DEF KillSignal, BackendGone, Down
<1>4. CASE KillRemoveRunFile(c)
  BY <1>0, <1>4, KillReturnsKeeps DEF KillRemoveRunFile
<1>5. QED
  BY <1>1, <1>2, <1>3, <1>4 DEF Kill

(* The calls of clean.                                                     *)
LEMMA CleanLeads ==
    ASSUME TypeOK, NEW c \in Slots, Clean(c)
    PROVE  /\ cmd[c].pc \in {"reset", "unplug", "sidecars"}
           /\ cmd'[c].kind = cmd[c].kind
           /\ \/ /\ cmd[c].pc = "reset" /\ cmd'[c].pc = "kill"
                 /\ UNCHANGED <<server, net, plugins>>
              \/ /\ cmd[c].pc = "unplug" /\ cmd'[c].pc = "sidecars"
                 /\ plugins' = {} /\ (~net'.up \/ UNCHANGED <<server, net>>)
                 /\ net'.up => net.up
              \/ /\ cmd[c].pc = "sidecars" /\ cmd'[c].pc = "sidecars"
                 /\ UNCHANGED <<server, net, plugins>>
              \/ /\ cmd[c].pc = "sidecars" /\ cmd'[c].pc = "idle"
                 /\ UNCHANGED <<server, net, plugins, sidecar>>
                 /\ \A n \in Names : sidecar[n] = NoEntry
<1>0. CmdOK
  BY DEF TypeOK
<1>1. CASE CleanReset(c) \/ CleanResetFails(c)
  BY <1>0, <1>1, GotoKeeps DEF CleanReset, CleanResetFails
<1>2. CASE CleanPlugins(c)
  <2>1. (~net'.up \/ UNCHANGED <<server, net>>) /\ (net'.up => net.up)
    BY <1>2 DEF CleanPlugins, BackendGone, Down
  <2>2. QED
    BY <1>0, <1>2, <2>1, GotoKeeps DEF CleanPlugins
<1>3. CASE \E n \in Names : CleanSidecar(c, n)
  BY <1>3 DEF CleanSidecar
<1>4. CASE CleanDone(c)
  BY <1>0, <1>4, FinishKeeps DEF CleanDone
<1>5. QED
  BY <1>1, <1>2, <1>3, <1>4 DEF Clean

(* A command that is interrupted, or a backend that dies.                  *)
LEMMA CrashLeads ==
    ASSUME TypeOK, NEW c \in Slots, Crash(c)
    PROVE  /\ cmd'[c].pc = "idle" /\ cmd'[c].kind = "none"
           /\ UNCHANGED <<server, runFile, net, snaps, stale, plugins, sidecar, nextId>>
BY DEF Crash, TypeOK, CmdOK, Idle

LEMMA WorldLeads ==
    ASSUME BackendDies \/ NewImage
    PROVE  /\ UNCHANGED <<snaps, plugins, sidecar, nextId, cmd>>
           /\ UNCHANGED <<net, server>> \/ ~net'.up
BY DEF BackendDies, NewImage, BackendGone, Down

-----------------------------------------------------------------------------
Served == NetServed /\ BroughtDown

LEMMA InitServed ==
    ASSUME Init
    PROVE  Served
BY DEF Init, Served, NetServed, BroughtDown, Idle, Down

LEMMA NextServed ==
    ASSUME OneTerminal, TypeOK, Served, [Next]_vars
    PROVE  Served'
<1>1. ASSUME NEW c \in Slots, Begin(c) \/ Crash(c)
      PROVE  Served'
  BY <1>1, BeginLeads, CrashLeads DEF OneTerminal, Served, NetServed, BroughtDown
<1>2. ASSUME NEW c \in Slots, Prepare(c)
      PROVE  Served'
  BY <1>2, PrepareLeads DEF OneTerminal, Served, NetServed, BroughtDown
<1>3. ASSUME NEW c \in Slots, Deploy(c)
      PROVE  Served'
  BY <1>3, DeployLeads DEF OneTerminal, Served, NetServed, BroughtDown
<1>4. ASSUME NEW c \in Slots, Stop(c)
      PROVE  Served'
  BY <1>4, StopLeads DEF OneTerminal, Served, NetServed, BroughtDown
<1>5. ASSUME NEW c \in Slots, Kill(c)
      PROVE  Served'
  BY <1>5, KillLeads DEF OneTerminal, Served, NetServed, BroughtDown
<1>6. ASSUME NEW c \in Slots, Clean(c)
      PROVE  Served'
  BY <1>6, CleanLeads DEF OneTerminal, Served, NetServed, BroughtDown
<1>7. CASE BackendDies \/ NewImage
  BY <1>7, WorldLeads DEF Served, NetServed, BroughtDown
<1>8. CASE UNCHANGED vars
  BY <1>8 DEF vars, Served, NetServed, BroughtDown
<1>9. QED
  BY <1>1, <1>2, <1>3, <1>4, <1>5, <1>6, <1>7, <1>8 DEF Next, Step

LEMMA ServedAlways ==
    ASSUME OneTerminal
    PROVE  Spec => []Served
<1>1. TypeOK /\ Served /\ [Next]_vars => Served'
  BY NextServed
<1>2. QED
  BY <1>1, InitServed, TypeCorrect, PTL DEF Spec

-----------------------------------------------------------------------------
Cleaned == CleanOnly /\ Cleans

LEMMA InitCleaned ==
    ASSUME Init
    PROVE  Cleaned
BY DEF Init, Cleaned, CleanOnly, Cleans, Idle

LEMMA NextCleaned ==
    ASSUME OneTerminal, "kill" \notin Faults, TypeOK, Served, Cleaned, [Next]_vars
    PROVE  Cleaned'
<1>1. ASSUME NEW c \in Slots, Begin(c) \/ Crash(c)
      PROVE  Cleaned'
  BY <1>1, BeginLeads, CrashLeads DEF OneTerminal, Cleaned, CleanOnly, Cleans
<1>2. ASSUME NEW c \in Slots, Prepare(c)
      PROVE  Cleaned'
  BY <1>2, PrepareLeads DEF OneTerminal, Cleaned, CleanOnly, Cleans
<1>3. ASSUME NEW c \in Slots, Deploy(c)
      PROVE  Cleaned'
  BY <1>3, DeployLeads DEF OneTerminal, Cleaned, CleanOnly, Cleans
<1>4. ASSUME NEW c \in Slots, Stop(c)
      PROVE  Cleaned'
  BY <1>4, StopLeads DEF OneTerminal, Cleaned, CleanOnly, Cleans
<1>5. ASSUME NEW c \in Slots, Kill(c)
      PROVE  Cleaned'
  BY <1>5, KillLeads
  DEF OneTerminal, Served, NetServed, BroughtDown, Cleaned, CleanOnly, Cleans
<1>6. ASSUME NEW c \in Slots, Clean(c)
      PROVE  Cleaned'
  BY <1>6, CleanLeads DEF OneTerminal, Cleaned, CleanOnly, Cleans
<1>7. CASE BackendDies \/ NewImage
  BY <1>7, WorldLeads DEF Cleaned, CleanOnly, Cleans
<1>8. CASE UNCHANGED vars
  BY <1>8 DEF vars, Cleaned, CleanOnly, Cleans
<1>9. QED
  BY <1>1, <1>2, <1>3, <1>4, <1>5, <1>6, <1>7, <1>8 DEF Next, Step

LEMMA CleanedAlways ==
    ASSUME OneTerminal, "kill" \notin Faults
    PROVE  Spec => []Cleaned
<1>1. TypeOK /\ Served /\ Cleaned /\ [Next]_vars => Cleaned'
  BY NextCleaned
<1>2. QED
  BY <1>1, InitCleaned, ServedAlways, TypeCorrect, PTL DEF Spec

(* A clean that ends well leaves no network, no plugin and no Local entry, *)
(* whatever earlier commands left half done, crashes and deaths of the     *)
(* backend included, as long as the dial of a kill reaches a live backend. *)
THEOREM CleanIsComplete ==
    ASSUME OneTerminal, "kill" \notin Faults
    PROVE  Spec => []CleanLeavesNothing
<1>1. Cleaned => CleanLeavesNothing
  BY DEF Cleaned, Cleans, CleanLeavesNothing, Idle
<1>2. QED
  BY <1>1, CleanedAlways, PTL

(* Plugins are taken away only from a network that is down.                *)
PluginsKept ==
    net.up /\ net'.up => NamesOf(net.chains) \cap plugins \subseteq plugins'

LEMMA NextPluginsKept ==
    ASSUME OneTerminal, Faults \cap {"kill", "rpc"} = {}, TypeOK, Served, Cleaned,
           [Next]_vars
    PROVE  PluginsKept
<1>1. ASSUME NEW c \in Slots, Begin(c) \/ Crash(c)
      PROVE  PluginsKept
  BY <1>1, BeginLeads, CrashLeads DEF PluginsKept
<1>2. ASSUME NEW c \in Slots, Prepare(c)
      PROVE  PluginsKept
  BY <1>2, PrepareLeads DEF Served, BroughtDown, PluginsKept
<1>3. ASSUME NEW c \in Slots, Deploy(c) \/ Stop(c) \/ Kill(c)
      PROVE  PluginsKept
  BY <1>3, DeployLeads, StopLeads, KillLeads DEF PluginsKept
<1>4. ASSUME NEW c \in Slots, Clean(c)
      PROVE  PluginsKept
  BY <1>4, CleanLeads DEF Cleaned, Cleans, PluginsKept
<1>5. CASE BackendDies \/ NewImage \/ UNCHANGED vars
  BY <1>5, WorldLeads DEF vars, PluginsKept
<1>6. QED
  BY <1>1, <1>2, <1>3, <1>4, <1>5 DEF Next, Step

(* No command takes the VM of a running blockchain away: a restart and a   *)
(* clean bring the network down first, and a deploy only takes back the VM *)
(* of a blockchain it could not create.                                    *)
THEOREM PluginsStayWhileUp ==
    ASSUME OneTerminal, Faults \cap {"kill", "rpc"} = {}
    PROVE  Spec => PluginsOutliveNetwork
<1>1. TypeOK /\ Served /\ Cleaned /\ [Next]_vars => PluginsKept
  BY NextPluginsKept
<1>2. PluginsKept =>
        (net.up /\ net'.up => NamesOf(net.chains) \cap plugins \subseteq plugins')
  BY DEF PluginsKept
<1>3. Spec => []Cleaned
  BY CleanedAlways
<1>4. QED
  BY <1>1, <1>2, <1>3, ServedAlways, TypeCorrect, PTL DEF Spec, PluginsOutliveNetwork

-----------------------------------------------------------------------------
Saved == CleanOnly /\ Saves

LEMMA InitSaved ==
    ASSUME Init
    PROVE  Saved
BY DEF Init, Saved, CleanOnly, Saves, Idle

LEMMA NextSaved ==
    ASSUME OneTerminal, "save" \notin Faults, TypeOK, Saved, [Next]_vars
    PROVE  Saved'
<1>1. ASSUME NEW c \in Slots, Begin(c) \/ Crash(c)
      PROVE  Saved'
  BY <1>1, BeginLeads, CrashLeads DEF OneTerminal, Saved, CleanOnly, Saves
<1>2. ASSUME NEW c \in Slots, Prepare(c)
      PROVE  Saved'
  BY <1>2, PrepareLeads DEF OneTerminal, Saved, CleanOnly, Saves
<1>3. ASSUME NEW c \in Slots, Deploy(c)
      PROVE  Saved'
  BY <1>3, DeployLeads DEF OneTerminal, Saved, CleanOnly, Saves
<1>4. ASSUME NEW c \in Slots, Stop(c)
      PROVE  Saved'
  BY <1>4, StopLeads DEF OneTerminal, Saved, CleanOnly, Saves
<1>5. ASSUME NEW c \in Slots, Kill(c)
      PROVE  Saved'
  BY <1>5, KillLeads DEF OneTerminal, Saved, CleanOnly, Saves
<1>6. ASSUME NEW c \in Slots, Clean(c)
      PROVE  Saved'
  BY <1>6, CleanLeads DEF OneTerminal, Saved, CleanOnly, Saves
<1>7. CASE BackendDies \/ NewImage
  BY <1>7, WorldLeads DEF Saved, CleanOnly, Saves
<1>8. CASE UNCHANGED vars
  BY <1>8 DEF vars, Saved, CleanOnly, Saves
<1>9. QED
  BY <1>1, <1>2, <1>3, <1>4, <1>5, <1>6, <1>7, <1>8 DEF Next, Step

StateSaved == \A c \in Slots :
    /\ cmd[c].kind = "stop" /\ Running(c)
    /\ net.up /\ ~net'.up /\ cmd'[c] # cmd[c]
    => snaps'[cmd[c].snap] = [there |-> TRUE, chains |-> net.chains]

LEMMA NextStateSaved ==
    ASSUME OneTerminal, TypeOK, Served, Saved, [Next]_vars
    PROVE  StateSaved
<1>1. ASSUME NEW c \in Slots, Begin(c) \/ Crash(c)
      PROVE  StateSaved
  BY <1>1, BeginLeads, CrashLeads DEF StateSaved
<1>2. ASSUME NEW c \in Slots, Prepare(c) \/ Deploy(c)
      PROVE  StateSaved
  BY <1>2, PrepareLeads, DeployLeads DEF OneTerminal, StateSaved
<1>3. ASSUME NEW c \in Slots, Stop(c)
      PROVE  StateSaved
  BY <1>3, StopLeads DEF OneTerminal, StateSaved
<1>4. ASSUME NEW c \in Slots, Kill(c)
      PROVE  StateSaved
  BY <1>4, KillLeads DEF OneTerminal, Served, BroughtDown, Saved, Saves, StateSaved
<1>5. ASSUME NEW c \in Slots, Clean(c)
      PROVE  StateSaved
  BY <1>5, CleanLeads DEF OneTerminal, Saved, CleanOnly, StateSaved
<1>6. CASE BackendDies \/ NewImage \/ UNCHANGED vars
  BY <1>6, WorldLeads DEF vars, StateSaved
<1>7. QED
  BY <1>1, <1>2, <1>3, <1>4, <1>5, <1>6 DEF Next, Step

(* A stop brings a network down only by writing its blockchains into the   *)
(* snapshot it was given, whatever else fails, as long as the backend can  *)
(* remove and write snapshots.                                             *)
THEOREM StopKeepsState ==
    ASSUME OneTerminal, "save" \notin Faults
    PROVE  Spec => StopSavesState
<1>1. TypeOK /\ Served /\ Saved /\ [Next]_vars => StateSaved
  BY NextStateSaved
<1>2. TypeOK /\ Saved /\ [Next]_vars => Saved'
  BY NextSaved
<1>3. StateSaved =>
        \A c \in Slots :
            /\ cmd[c].kind = "stop" /\ Running(c)
            /\ net.up /\ ~net'.up /\ cmd'[c] # cmd[c]
            => snaps'[cmd[c].snap] = [there |-> TRUE, chains |-> net.chains]
  BY DEF StateSaved
<1>4. QED
  BY <1>1, <1>2, <1>3, InitSaved, ServedAlways, TypeCorrect, PTL
  DEF Spec, StopSavesState
=============================================================================
