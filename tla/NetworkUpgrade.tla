---------------------------- MODULE NetworkUpgrade ----------------------------
(***************************************************************************)
(* The two kinds of upgrade of a subnet that is deployed: the upgrade      *)
(* bytes (`subnet upgrade generate`, `import` and `apply`), which activate *)
(* precompiles at a time to come, and the VM itself (`subnet upgrade vm`); *)
(* and `subnet join`, which installs both on a validator.                  *)
(*                                                                         *)
(* One subnet, deployed on the local network, on Testnet or on both; one   *)
(* terminal; one validator on Testnet.  LocalNetwork has the details of    *)
(* deploying, starting, stopping and cleaning: they are one step here.     *)
(* The nodes themselves are external: one that runs refuses a              *)
(* configuration that leaves out an upgrade it has already activated, and  *)
(* does not start a VM that speaks another version of the RPC protocol.    *)
(***************************************************************************)
EXTENDS Integers, FiniteSets

CONSTANTS
    Precompiles,  \* what an upgrade may activate
    WithAdmins,   \* those that name admin addresses
    MaxTime,      \* bound: activation times are 1..MaxTime
    Imports,      \* upgrade files a user may import
    Versions,     \* versions of the VM, of subnet-evm and of custom binaries
    Created,      \* the version that the subnet was created with
    Latest,       \* the latest of them
    Rpc,          \* the RPC protocol version that each of them speaks
    Faults,       \* the kinds of failure a run admits
    MaxChains,    \* bound: local deployments in one behaviour
    MaxVmOps      \* bound: upgrades of the VM in one behaviour

FaultKinds == {
    "crash",     \* a command is interrupted between two of its calls
    "fail",      \* a call to the network fails
    "timeout" }  \* the network does not become healthy in time

Upgrade == [pre : Precompiles, ts : 1..MaxTime]

ASSUME UpgradeAssumption ==
    /\ WithAdmins \subseteq Precompiles
    /\ MaxTime \in Nat /\ MaxChains \in Nat /\ MaxVmOps \in Nat
    /\ Imports \subseteq SUBSET Upgrade
    /\ Versions \subseteq Nat \ {0} /\ {Created, Latest} \subseteq Versions
    /\ Rpc \in [Versions -> Nat \ {0}]
    /\ Faults \subseteq FaultKinds

VARIABLES
    sc,      \* the sidecar: VM, its version, RPC version, deployments
    bin,     \* the custom binary kept for the subnet (0: none)
    file,    \* upgrade.json
    lock,    \* upgrade.json.lock
    plugin,  \* the VM in the plugins directory of the local network (0: none)
    net,     \* the local network
    snap,    \* its snapshots: the default and the last temporary one
    node,    \* the validator on Testnet: its upgrade.json, its plugin, and
             \* whether its configuration tracks the subnet
    now,     \* the clock
    cmd,     \* the command that runs
    cut,     \* what an interrupted command left behind (history)
    nextChain, vmOps

vars == <<sc, bin, file, lock, plugin, net, snap, node, now, cmd, cut, nextChain, vmOps>>
chainVars == <<net, snap, nextChain>>
vmVars == <<bin, plugin, vmOps>>

-----------------------------------------------------------------------------
Rpcs == {Rpc[v] : v \in Versions} \cup {0}
Active(S) == {u \in S : u.ts <= now}

NoEntry == [chain |-> 0, rpc |-> 0]
Nothing == [chain |-> 0, applied |-> {}]
Down == [up |-> FALSE, chain |-> 0, applied |-> {}, rpc |-> 0]
NoSidecar == [vm |-> "evm", ver |-> 0, rpc |-> 0, loc |-> NoEntry, pub |-> FALSE]
Idle == [pc |-> "idle", left |-> {}, last |-> "none", got |-> {}, to |-> 0,
         sc |-> NoSidecar, force |-> FALSE]

Running == cmd.pc # "idle"
Goto(p) == cmd' = [cmd EXCEPT !.pc = p]
Finish == cmd' = Idle

Init ==
    /\ sc = [vm |-> "evm", ver |-> Created, rpc |-> Rpc[Created], loc |-> NoEntry, pub |-> FALSE]
    /\ bin = 0 /\ plugin = 0
    /\ file = {} /\ lock = {}
    /\ net = Down
    /\ snap = [def |-> Nothing, tmp |-> Nothing]
    /\ node = [file |-> {}, plugin |-> 0, tracks |-> FALSE]
    /\ now = 0
    /\ cmd = Idle
    /\ cut = {}
    /\ nextChain = 1 /\ vmOps = 0

-----------------------------------------------------------------------------
(* subnet deploy --local.  The binary is that of the configured version or *)
(* the custom one; the network is one that speaks the RPC version of the   *)
(* sidecar, whether it runs already or is started; and the chain comes up  *)
(* if the binary speaks it too.  InstallVM does not overwrite a plugin.    *)
Binary == IF sc.vm = "custom" THEN bin ELSE sc.ver

DeployLocal ==
    /\ ~Running
    /\ nextChain <= MaxChains
    /\ net.up => net.rpc = sc.rpc /\ net.chain = 0
    /\ ~net.up => snap.def.chain = 0
    /\ plugin = 0 /\ Binary # 0 /\ Rpc[Binary] = sc.rpc
    /\ plugin' = Binary
    /\ net' = [up |-> TRUE, chain |-> nextChain, applied |-> {}, rpc |-> sc.rpc]
    /\ sc' = [sc EXCEPT !.loc = [chain |-> nextChain, rpc |-> sc.rpc]]
    /\ nextChain' = nextChain + 1
    /\ UNCHANGED <<bin, file, lock, snap, node, now, cmd, cut, vmOps>>

(* subnet deploy --testnet.                                                *)
DeployPublic ==
    /\ ~Running
    /\ ~sc.pub
    /\ sc' = [sc EXCEPT !.pub = TRUE]
    /\ UNCHANGED <<vmVars, file, lock, chainVars, node, now, cmd, cut>>

(* network start: the RPC version of the local deployment says which       *)
(* odysseygo to take; a custom VM, or none, takes the latest.  A temporary *)
(* snapshot is started from by hand, to get the deployed chain back.       *)
NeededRpc ==
    IF sc.loc.chain = 0 \/ sc.vm = "custom" \/ sc.loc.rpc = 0
    THEN Rpc[Latest] ELSE sc.loc.rpc

NetworkStart(s) ==
    /\ ~Running
    /\ ~net.up
    /\ s = "tmp" => snap.tmp.chain = sc.loc.chain /\ sc.loc.chain # 0
    /\ snap[s].chain # 0 => plugin # 0 /\ Rpc[plugin] = NeededRpc
    /\ net' = [up |-> TRUE, chain |-> snap[s].chain, applied |-> snap[s].applied,
               rpc |-> NeededRpc]
    /\ UNCHANGED <<sc, vmVars, file, lock, snap, node, now, cmd, cut, nextChain>>

Current == [chain |-> net.chain, applied |-> net.applied]

NetworkStop ==
    /\ ~Running
    /\ net.up
    /\ snap' = [snap EXCEPT !.def = Current]
    /\ net' = Down
    /\ UNCHANGED <<sc, vmVars, file, lock, node, now, cmd, cut, nextChain>>

(* network clean: a temporary snapshot and the lock file stay.             *)
NetworkClean ==
    /\ ~Running
    /\ net' = Down
    /\ snap' = [snap EXCEPT !.def = Nothing]
    /\ plugin' = 0
    /\ sc' = [sc EXCEPT !.loc = NoEntry]
    /\ UNCHANGED <<bin, file, lock, node, now, cmd, cut, nextChain, vmOps>>

Tick ==
    /\ now < MaxTime
    /\ now' = now + 1
    /\ UNCHANGED <<sc, vmVars, file, lock, chainVars, node, cmd, cut>>

-----------------------------------------------------------------------------
(* ensureAdminsHaveBalance asks the local chain, if the subnet is deployed *)
(* locally and its VM is subnet-evm, whatever network the upgrade is for.  *)
AdminsOK(p) ==
    p \in WithAdmins /\ sc.vm = "evm" /\ sc.loc.chain # 0
        => net.up /\ net.chain = sc.loc.chain

(* subnet upgrade generate: one precompile after the other, while more     *)
(* than one is left to choose from ...                                     *)
BeginGenerate ==
    /\ ~Running
    /\ cmd' = [Idle EXCEPT !.pc = "pick", !.left = Precompiles]
    /\ UNCHANGED <<sc, vmVars, file, lock, chainVars, node, now, cut>>

(* ... and when the last one has been configured there is neither a        *)
(* question nor a way out: it is configured again.                         *)
Pick(p, t) ==
    /\ cmd.pc = "pick" /\ p \in cmd.left
    /\ t > now
    /\ AdminsOK(p)
    /\ cmd' = [cmd EXCEPT !.got = @ \cup {[pre |-> p, ts |-> t]}, !.last = p,
                          !.pc = IF Cardinality(cmd.left) > 1 THEN "more" ELSE "pick"]
    /\ UNCHANGED <<sc, vmVars, file, lock, chainVars, node, now, cut>>

More ==
    /\ cmd.pc = "more"
    /\ cmd' = [cmd EXCEPT !.pc = "pick", !.left = @ \ {cmd.last}]
    /\ UNCHANGED <<sc, vmVars, file, lock, chainVars, node, now, cut>>

WriteUpgradeFile ==
    /\ cmd.pc = "more"
    /\ file' = cmd.got
    /\ Finish
    /\ UNCHANGED <<sc, vmVars, lock, chainVars, node, now, cut>>

(* subnet upgrade import.                                                  *)
ImportUpgrade(S) ==
    /\ ~Running
    /\ file' = S
    /\ UNCHANGED <<sc, vmVars, lock, chainVars, node, now, cmd, cut>>

-----------------------------------------------------------------------------
(* Mutant of ContainsLock: one upgrade in common is enough.                *)
MeetsLock(S) == lock = {} \/ S \cap lock # {}

(* validateUpgradeBytes: each upgrade of the lock file is one of the file. *)
(* Times in the past are questioned, not refused.                          *)
ContainsLock(S) == lock \subseteq S

(* validateUpgrade.                                                        *)
MayApply ==
    /\ file # {}
    /\ ContainsLock(file)
    /\ \A u \in file : u.pre = "txAllowList" => AdminsOK(u.pre)

(* applyLocalNetworkUpgrade up to the status of the network: the file is   *)
(* read here.                                                              *)
BeginApply ==
    /\ ~Running
    /\ sc.loc.chain # 0
    /\ MayApply
    /\ net.up /\ net.chain = sc.loc.chain
    /\ cmd' = [Idle EXCEPT !.pc = "save", !.got = file]
    /\ UNCHANGED <<sc, vmVars, file, lock, chainVars, node, now, cut>>

(* Mutant of SaveSnapshot: it is the default snapshot that is loaded.      *)
StopOnly ==
    /\ cmd.pc = "save"
    /\ net' = [Down EXCEPT !.rpc = net.rpc]
    /\ Goto("load")
    /\ UNCHANGED <<sc, vmVars, file, lock, snap, node, now, cut, nextChain>>

(* SaveSnapshot stops the network.                                         *)
SaveSnapshot ==
    /\ cmd.pc = "save"
    /\ snap' = [snap EXCEPT !.tmp = Current]
    /\ net' = [Down EXCEPT !.rpc = net.rpc]
    /\ Goto("load")
    /\ UNCHANGED <<sc, vmVars, file, lock, node, now, cut, nextChain>>

(* LoadSnapshot with the upgrade bytes.                                    *)
LoadSnapshot ==
    /\ cmd.pc = "load"
    /\ net' = [up |-> TRUE, chain |-> snap.tmp.chain, applied |-> cmd.got, rpc |-> net.rpc]
    /\ Goto("healthy")
    /\ UNCHANGED <<sc, vmVars, file, lock, snap, node, now, cut, nextChain>>

(* A node does not start without an upgrade that it has activated.         *)
Forgets == ~(Active(snap.tmp.applied) \subseteq net.applied)

WaitForHealthy ==
    /\ cmd.pc = "healthy"
    /\ ~Forgets
    /\ Goto("lock")
    /\ UNCHANGED <<sc, vmVars, file, lock, chainVars, node, now, cut>>

(* One of the calls fails.  The network stays as it is, with the upgrades  *)
(* but without the lock file if it was loaded already.                     *)
ApplyFails ==
    /\ \/ cmd.pc \in {"save", "load"} /\ "fail" \in Faults
       \/ cmd.pc = "healthy" /\ ("timeout" \in Faults \/ Forgets)
    /\ cut' = IF cmd.pc = "healthy" THEN cut \cup {"lock"} ELSE cut
    /\ net' = IF cmd.pc = "load" THEN Down ELSE net
    /\ Finish
    /\ UNCHANGED <<sc, vmVars, file, lock, snap, node, now, nextChain>>

(* writeLockFile says nothing of its errors.                               *)
WriteLockFile ==
    /\ cmd.pc = "lock"
    /\ lock' = cmd.got
    /\ Finish
    /\ UNCHANGED <<sc, vmVars, file, chainVars, node, now, cut>>

(* applyPublicNetworkUpgrade: "we are ignoring the lock file here", but it *)
(* is validateUpgrade that reads it.  The file is copied to the validator. *)
ApplyPublic ==
    /\ ~Running
    /\ sc.pub
    /\ MayApply
    /\ node' = [node EXCEPT !.file = file]
    /\ UNCHANGED <<sc, vmVars, file, lock, chainVars, now, cmd, cut>>

-----------------------------------------------------------------------------
(* subnet join, on the validator: CreatePlugin, with --force-write the     *)
(* files of the chain, and the node's configuration last.                  *)
BeginJoin(force) ==
    /\ ~Running
    /\ sc.pub
    /\ cmd' = [Idle EXCEPT !.pc = "plugin", !.force = force]
    /\ UNCHANGED <<sc, vmVars, file, lock, chainVars, node, now, cut>>

AfterPlugin == IF cmd.force THEN "files" ELSE "config"

(* Mutant of CreatePlugin: its error is not looked at.                     *)
CreateUnchecked ==
    /\ cmd.pc = "plugin"
    /\ Goto(AfterPlugin)
    /\ node' \in {node, [node EXCEPT !.plugin = Binary]}
    /\ UNCHANGED <<sc, vmVars, file, lock, chainVars, now, cut>>

CreatePlugin ==
    /\ cmd.pc = "plugin"
    /\ Goto(AfterPlugin)
    /\ node' = [node EXCEPT !.plugin = Binary]
    /\ UNCHANGED <<sc, vmVars, file, lock, chainVars, now, cut>>

(* writeOdygoChainConfigFiles installs upgrade.json as it is, without the  *)
(* checks of apply.  One that is installed goes when there is none here,   *)
(* but only if a chain configuration was made for the subnet.              *)
WriteChainFiles ==
    /\ cmd.pc = "files"
    /\ \E chainConfig \in BOOLEAN :
          node' = IF file # {} \/ chainConfig THEN [node EXCEPT !.file = file] ELSE node
    /\ Goto("config")
    /\ UNCHANGED <<sc, vmVars, file, lock, chainVars, now, cut>>

(* EditConfigFile asks first, unless --force-write was given.              *)
EditConfigFile ==
    /\ cmd.pc = "config"
    /\ \/ node' = [node EXCEPT !.tracks = TRUE]
       \/ ~cmd.force /\ UNCHANGED node
    /\ Finish
    /\ UNCHANGED <<sc, vmVars, file, lock, chainVars, now, cut>>

JoinFails ==
    /\ "fail" \in Faults
    /\ cmd.pc \in {"plugin", "files", "config"}
    /\ Finish
    /\ UNCHANGED <<sc, vmVars, file, lock, chainVars, node, now, cut>>

-----------------------------------------------------------------------------
(* subnet upgrade vm: the local network must be down, whichever deployment *)
(* it is about.  The command works on the sidecar it loaded, cmd.sc.       *)
Targets == {"future", "local", "testnet"}
MayUpgradeVM == ~Running /\ ~net.up /\ vmOps < MaxVmOps

(* To a version of subnet-evm.  What is compared with it is the version of *)
(* the sidecar, also when another one runs.                                *)
UpToDate(v) == sc.ver = v

BeginUpgradeVM(v, to) ==
    /\ MayUpgradeVM
    /\ sc.vm = "evm" /\ ~UpToDate(v)
    /\ vmOps' = vmOps + 1
    /\ cmd' = [Idle EXCEPT !.pc = to, !.to = v, !.sc = sc]
    /\ UNCHANGED <<sc, bin, plugin, file, lock, chainVars, node, now, cut>>

(* Mutant of BeginCustomVM: the binary is not copied.                      *)
BeginUncopied(b, to) ==
    /\ MayUpgradeVM
    /\ vmOps' = vmOps + 1
    /\ cmd' = [Idle EXCEPT !.pc = to, !.to = b,
                  !.sc = [sc EXCEPT !.vm = "custom", !.rpc = Rpc[b]]]
    /\ UNCHANGED <<sc, bin, plugin, file, lock, chainVars, node, now, cut>>

(* To a custom binary: CopyVMBinary, then the VM and the RPC version of    *)
(* the sidecar in memory.                                                  *)
BeginCustomVM(b, to) ==
    /\ MayUpgradeVM
    /\ vmOps' = vmOps + 1
    /\ bin' = b
    /\ cmd' = [Idle EXCEPT !.pc = to, !.to = b,
                  !.sc = [sc EXCEPT !.vm = "custom", !.rpc = Rpc[b]]]
    /\ UNCHANGED <<sc, plugin, file, lock, chainVars, node, now, cut>>

(* updateFutureVM: the version, but not the RPC version that goes with it. *)
UpdateFuture ==
    /\ cmd.pc = "future"
    /\ sc' = [cmd.sc EXCEPT !.ver = IF cmd.sc.vm = "custom" THEN 0 ELSE cmd.to]
    /\ Finish
    /\ UNCHANGED <<vmVars, file, lock, chainVars, node, now, cut>>

(* updateExistingLocalVM: UpgradeVM overwrites the plugin, ...             *)
UpgradePlugin ==
    /\ cmd.pc = "local"
    /\ plugin # 0
    /\ plugin' = cmd.to
    /\ Goto("rpc")
    /\ UNCHANGED <<sc, bin, file, lock, chainVars, node, now, cut, vmOps>>

UpgradePluginFails ==
    /\ cmd.pc = "local"
    /\ plugin = 0
    /\ Finish
    /\ UNCHANGED <<sc, vmVars, file, lock, chainVars, node, now, cut>>

(* Mutant of UpdateLocalSidecarRPC: the RPC version of the sidecar.        *)
UpdateSidecarRPC ==
    /\ cmd.pc = "rpc"
    /\ sc' = [cmd.sc EXCEPT !.rpc = Rpc[plugin]]
    /\ Finish
    /\ UNCHANGED <<vmVars, file, lock, chainVars, node, now, cut>>

(* ... UpdateLocalSidecarRPC notes what it speaks; the version stays.      *)
UpdateLocalSidecarRPC ==
    /\ cmd.pc = "rpc"
    /\ IF sc.loc.chain = 0 THEN UNCHANGED sc
       ELSE sc' = [cmd.sc EXCEPT !.loc.rpc = Rpc[plugin]]
    /\ Finish
    /\ UNCHANGED <<vmVars, file, lock, chainVars, node, now, cut>>

(* AutomatedUpgrade writes the plugin of the validator and nothing else;   *)
(* ManualUpgrade only says what to do.                                     *)
UpgradeNode ==
    /\ cmd.pc = "testnet"
    /\ \/ node' = [node EXCEPT !.plugin = cmd.to]
       \/ UNCHANGED node
    /\ Finish
    /\ UNCHANGED <<sc, vmVars, file, lock, chainVars, now, cut>>

-----------------------------------------------------------------------------
Crash ==
    /\ "crash" \in Faults
    /\ Running
    /\ cut' = cut \cup (IF cmd.pc \in {"healthy", "lock"} THEN {"lock"}
                        ELSE IF cmd.pc = "rpc" THEN {"rpc"} ELSE {})
    /\ net' = IF cmd.pc = "load" THEN Down ELSE net
    /\ Finish
    /\ UNCHANGED <<sc, vmVars, file, lock, snap, node, now, nextChain>>

Generate ==
    \/ BeginGenerate \/ More \/ WriteUpgradeFile
    \/ \E p \in Precompiles, t \in 1..MaxTime : Pick(p, t)
    \/ \E S \in Imports : ImportUpgrade(S)

Apply ==
    \/ BeginApply \/ SaveSnapshot \/ LoadSnapshot \/ WaitForHealthy
    \/ ApplyFails \/ WriteLockFile \/ ApplyPublic

Join ==
    \/ \E force \in BOOLEAN : BeginJoin(force)
    \/ CreatePlugin \/ WriteChainFiles \/ EditConfigFile \/ JoinFails

UpgradeTheVM ==
    \/ \E v \in Versions, to \in Targets : BeginUpgradeVM(v, to) \/ BeginCustomVM(v, to)
    \/ UpdateFuture \/ UpgradePlugin \/ UpgradePluginFails
    \/ UpdateLocalSidecarRPC \/ UpgradeNode

Next ==
    \/ DeployLocal \/ DeployPublic
    \/ \E s \in {"def", "tmp"} : NetworkStart(s)
    \/ NetworkStop \/ NetworkClean
    \/ Tick
    \/ Generate \/ Apply \/ Join \/ UpgradeTheVM
    \/ Crash

Spec == Init /\ [][Next]_vars

-----------------------------------------------------------------------------
Pcs == {"idle", "pick", "more", "save", "load", "healthy", "lock", "plugin",
        "files", "config", "rpc"} \cup Targets
Sidecar == [vm : {"evm", "custom"}, ver : Versions \cup {0}, rpc : Rpcs,
            loc : [chain : 0..MaxChains, rpc : Rpcs], pub : BOOLEAN]
Saved == [chain : 0..MaxChains, applied : SUBSET Upgrade]

Commands == [pc : Pcs, left : SUBSET Precompiles, last : {"none"} \cup Precompiles,
             got : SUBSET Upgrade, to : Versions \cup {0}, sc : Sidecar, force : BOOLEAN]
HasBinary(s) == IF s.vm = "evm" THEN s.ver # 0 ELSE bin # 0

(* Every variable keeps its type; a sidecar of subnet-evm has a version,   *)
(* and one of a custom VM has its binary.                                  *)
TypeOK ==
    /\ sc \in Sidecar /\ HasBinary(sc)
    /\ {bin, plugin} \subseteq Versions \cup {0}
    /\ {file, lock} \subseteq SUBSET Upgrade
    /\ net \in [up : BOOLEAN, chain : 0..MaxChains, applied : SUBSET Upgrade, rpc : Rpcs]
    /\ snap \in [def : Saved, tmp : Saved]
    /\ node \in [file : SUBSET Upgrade, plugin : Versions \cup {0}, tracks : BOOLEAN]
    /\ now \in 0..MaxTime
    /\ cmd \in Commands
    /\ cmd.pc \in Targets \cup {"rpc"} => HasBinary(cmd.sc) /\ cmd.to # 0
    /\ cut \subseteq {"lock", "rpc"}
    /\ nextChain \in 1..(MaxChains + 1) /\ vmOps \in 0..MaxVmOps

(* "if upgraded before, but this upgrade is not cumulative (append-only):  *)
(* fail the apply": unless a lock file was not written, the nodes are      *)
(* never restarted without an upgrade that they have activated, so apply   *)
(* does not halt the network, however often the file is generated,         *)
(* imported or edited in between.                                          *)
ActivatedStay == cmd.pc = "healthy" /\ "lock" \notin cut => ~Forgets

(* The chain that the sidecar records as deployed locally can be had back: *)
(* it runs, or a snapshot has it, also when apply fails after it has       *)
(* stopped the network.                                                    *)
ChainSurvives ==
    sc.loc.chain \in {0, net.chain, snap.def.chain, snap.tmp.chain}

(* network start takes the odysseygo for the RPC version in the sidecar:   *)
(* it is that of the plugin, however the VM was upgraded, so that the      *)
(* deployed chain starts again.                                            *)
RecordedRpc ==
    sc.loc.chain # 0 /\ cmd.pc # "rpc" /\ "rpc" \notin cut
        => plugin # 0 /\ sc.loc.rpc = Rpc[plugin]

(* "VM binary written to ...", then the node's configuration: a node that  *)
(* tracks the subnet has its VM, wherever join is interrupted or fails,    *)
(* since it does not start without.                                        *)
TrackedHasVM == node.tracks => node.plugin # 0
=============================================================================
