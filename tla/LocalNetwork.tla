----------------------------- MODULE LocalNetwork -----------------------------
(***************************************************************************)
(* The local network of odyssey-cli: the commands `subnet deploy --local`, *)
(* `network start`, `network stop` and `network clean`, each a process of  *)
(* its own that walks through its calls one by one, over what they share:  *)
(* the gRPC backend and its run file, the network the backend runs, the    *)
(* snapshots, the plugins directory and the Local entry of every sidecar.  *)
(*                                                                         *)
(* A slot is a terminal: it runs one command at a time.  One slot gives the *)
(* sequential use of the tool, two slots give concurrent commands.         *)
(***************************************************************************)
EXTENDS Integers, Sequences

CONSTANTS
    Slots,       \* terminals that run commands
    Names,       \* subnet configurations the user has created
    Snapshots,   \* snapshot names
    Default,     \* the default snapshot, a member of Snapshots
    NumSubnets,  \* validated subnets preloaded in the bootstrap snapshot
    Faults,      \* the kinds of failure a run admits, a subset of FaultKinds
    MaxChains    \* bound: blockchains created in one behaviour

FaultKinds == {
    "crash",     \* a command is interrupted between two of its calls
    "die",       \* the backend process, and the network with it, dies
    "image",     \* a new bootstrap snapshot is published
    "rpc",       \* a call of deploy or start to the backend fails
    "save",      \* RemoveSnapshot or SaveSnapshot fails
    "kill",      \* the 100ms dial of a kill times out on a live backend
    "config",    \* the global node config file cannot be parsed
    "version",   \* the nodes' RPC version is not the subnet's
    "archive" }  \* the bootstrap snapshot cannot be downloaded or unpacked

ASSUME ConstantsAssumption ==
    /\ Default \in Snapshots
    /\ NumSubnets \in Nat \ {0}
    /\ Faults \subseteq FaultKinds
    /\ MaxChains \in Nat

VARIABLES
    server,    \* a backend process listens on the gRPC port
    runFile,   \* the run file: absent, naming the live backend, or a dead one
    net,       \* the network run by the backend
    snaps,     \* the snapshots directory
    stale,     \* the default snapshot is absent or older than the bootstrap image
    plugins,   \* VM binaries in the plugins directory
    sidecar,   \* the Local entry of each sidecar's Networks
    nextId,    \* the next blockchain ID
    cmd        \* what each slot executes

vars == <<server, runFile, net, snaps, stale, plugins, sidecar, nextId, cmd>>

-----------------------------------------------------------------------------
(* A blockchain of the network: its VM name, the subnet that hosts it, its ID. *)
Chain == [name : Names, sub : 1..NumSubnets, id : Nat \ {0}]

Down == [up |-> FALSE, chains |-> <<>>]
Missing == [there |-> FALSE, chains |-> <<>>]
Bootstrap == [there |-> TRUE, chains |-> <<>>]

(* ids.Empty is 0; a sidecar without a Local entry is NoEntry. *)
NoEntry == [sub |-> -1, id |-> -1]
EmptyEntry == [sub |-> 0, id |-> 0]

Idle == [pc |-> "idle", kind |-> "none", res |-> "none", name |-> "none",
         snap |-> "none", restart |-> FALSE, booted |-> FALSE,
         started |-> FALSE, child |-> "none", hard |-> FALSE,
         sub |-> 0, id |-> 0]

NamesOf(chains) == {chains[i].name : i \in 1..Len(chains)}

(* Mutant of IdsOf: the filter on the VM is forgotten. *)
IdsOfAll(chains, n) == {chains[i].id : i \in 1..Len(chains)}

(* The IDs that the cluster info gives for a VM. *)
IdsOf(chains, n) ==
    {chains[i].id : i \in {j \in 1..Len(chains) : chains[j].name = n}}

(* Mutants of SelectSubnet: an index that counts from zero, and one that   *)
(* does not advance.                                                       *)
SelectFromZero(chains) == Len(chains) % NumSubnets
SelectAlwaysFirst(chains) == 1

(* "we select one to be used for creating the next blockchain, for that we *)
(* use the number of currently created blockchains as the index"           *)
SelectSubnet(chains) == (Len(chains) % NumSubnets) + 1

(* SetDefaultSnapshot when it has a reason to reset. *)
ResetDefault == snaps' = [snaps EXCEPT ![Default] = Bootstrap]

Running(c) == cmd[c].pc # "idle"
At(c, k, p) == cmd[c].kind = k /\ cmd[c].pc = p

Goto(c, p) == cmd' = [cmd EXCEPT ![c].pc = p]

Finish(c, r) ==
    cmd' = [cmd EXCEPT ![c] = [Idle EXCEPT !.kind = cmd[c].kind, !.res = r]]

(* Mutant of Fail: the backend is killed whoever started it. *)
FailAndKill(c) ==
    IF cmd[c].kind = "deploy" THEN Goto(c, "kill") ELSE Finish(c, "err")

(* A deploy that fails kills the backend it started; any other command     *)
(* returns its error.                                                      *)
Fail(c) ==
    IF cmd[c].kind = "deploy" /\ cmd[c].started
    THEN Goto(c, "kill")
    ELSE Finish(c, "err")

(* The network disappears with its backend; the run file then names a dead *)
(* process until somebody rewrites it.                                     *)
BackendGone ==
    /\ server' = FALSE
    /\ net' = Down
    /\ runFile' = IF runFile = "live" THEN "dead" ELSE runFile

-----------------------------------------------------------------------------
Init ==
    /\ server = FALSE
    /\ runFile = "none"
    /\ net = Down
    /\ snaps = [s \in Snapshots |-> Missing]
    /\ stale = TRUE
    /\ plugins = {}
    /\ sidecar = [n \in Names |-> NoEntry]
    /\ nextId = 1
    /\ cmd = [c \in Slots |-> Idle]

(* The user types a command.  At most MaxChains blockchains are created. *)
BeginDeploy(c, n) ==
    /\ ~Running(c)
    /\ \A d \in Slots : cmd[d].kind = "deploy" => ~Running(d) \/ nextId < MaxChains
    /\ nextId <= MaxChains
    /\ cmd' = [cmd EXCEPT ![c] =
                [Idle EXCEPT !.pc = "server", !.kind = "deploy",
                             !.name = n, !.snap = Default]]
    /\ UNCHANGED <<server, runFile, net, snaps, stale, plugins, sidecar, nextId>>

BeginStart(c, s) ==
    /\ ~Running(c)
    /\ cmd' = [cmd EXCEPT ![c] =
                [Idle EXCEPT !.pc = "server", !.kind = "start", !.snap = s]]
    /\ UNCHANGED <<server, runFile, net, snaps, stale, plugins, sidecar, nextId>>

BeginStop(c, s) ==
    /\ ~Running(c)
    /\ cmd' = [cmd EXCEPT ![c] =
                [Idle EXCEPT !.pc = "remove", !.kind = "stop", !.snap = s]]
    /\ UNCHANGED <<server, runFile, net, snaps, stale, plugins, sidecar, nextId>>

BeginClean(c, h) ==
    /\ ~Running(c)
    /\ cmd' = [cmd EXCEPT ![c] =
                [Idle EXCEPT !.pc = "reset", !.kind = "clean", !.hard = h]]
    /\ UNCHANGED <<server, runFile, net, snaps, stale, plugins, sidecar, nextId>>

-----------------------------------------------------------------------------
(* StartServer: the run file is believed when it names a live process. *)
CheckServer(c) ==
    /\ cmd[c].pc = "server"
    /\ Goto(c, IF runFile = "live" THEN "env" ELSE "spawn")
    /\ UNCHANGED <<server, runFile, net, snaps, stale, plugins, sidecar, nextId>>

(* The child listens unless an earlier backend holds the port; it then     *)
(* exits, and the pid that will be recorded is that of a dead process.     *)
Spawn(c) ==
    /\ cmd[c].pc = "spawn"
    /\ cmd' = [cmd EXCEPT ![c].pc = "runfile",
                          ![c].child = IF server THEN "dead" ELSE "live"]
    /\ server' = TRUE
    /\ UNCHANGED <<runFile, net, snaps, stale, plugins, sidecar, nextId>>

(* os.WriteFile of the run file, after the child has been started. *)
WriteRunFile(c) ==
    /\ cmd[c].pc = "runfile"
    /\ runFile' = IF server THEN cmd[c].child ELSE "dead"
    /\ cmd' = [cmd EXCEPT ![c].pc = "env", ![c].started = TRUE]
    /\ UNCHANGED <<server, net, snaps, stale, plugins, sidecar, nextId>>

(* Mutants of SetupEnv: the reset is forgotten, or done on every call. *)
SetupEnvForgetsReset(c) ==
    /\ cmd[c].pc = "env"
    /\ stale' = FALSE
    /\ cmd' = [cmd EXCEPT ![c].pc = "status", ![c].restart = stale]
    /\ UNCHANGED <<server, runFile, net, snaps, plugins, sidecar, nextId>>

SetupEnvAlwaysResets(c) ==
    /\ cmd[c].pc = "env"
    /\ ResetDefault
    /\ stale' = FALSE
    /\ cmd' = [cmd EXCEPT ![c].pc = "status", ![c].restart = stale]
    /\ UNCHANGED <<server, runFile, net, plugins, sidecar, nextId>>

(* SetupLocalEnv: a missing or superseded default snapshot is replaced. *)
SetupEnv(c) ==
    /\ cmd[c].pc = "env"
    /\ IF stale THEN ResetDefault ELSE UNCHANGED snaps
    /\ stale' = FALSE
    /\ cmd' = [cmd EXCEPT ![c].pc = "status", ![c].restart = stale]
    /\ UNCHANGED <<server, runFile, net, plugins, sidecar, nextId>>

(* The download or the unpacking fails, before or after RemoveAll. *)
SetupEnvFails(c) ==
    /\ "archive" \in Faults
    /\ cmd[c].pc = "env"
    /\ stale
    /\ snaps' \in {snaps, [snaps EXCEPT ![Default] = Missing]}
    /\ stale' \in BOOLEAN
    /\ Fail(c)
    /\ UNCHANGED <<server, runFile, net, plugins, sidecar, nextId>>

(* WaitForHealthy in a deploy, Status in a start. *)
Status(c) ==
    /\ cmd[c].pc = "status"
    /\ server
    /\ \/ /\ net.up /\ cmd[c].restart
          /\ Goto(c, "restart")
       \/ /\ net.up /\ ~cmd[c].restart
          /\ IF cmd[c].kind = "deploy"
             THEN cmd' = [cmd EXCEPT ![c].pc = "version", ![c].booted = TRUE]
             ELSE Finish(c, "ok")
       \/ /\ ~net.up
          /\ Goto(c, "boot")
    /\ UNCHANGED <<server, runFile, net, snaps, stale, plugins, sidecar, nextId>>

(* Mutant of RestartStop: the plugins are reset before the network stops. *)
RestartWithoutStop(c) ==
    /\ cmd[c].pc = "restart"
    /\ net.up
    /\ Goto(c, "replug")
    /\ UNCHANGED <<server, runFile, net, snaps, stale, plugins, sidecar, nextId>>

(* A new default snapshot was installed under a running network: it is     *)
(* stopped without being saved and its plugins are removed.                *)
RestartStop(c) ==
    /\ cmd[c].pc = "restart"
    /\ net.up
    /\ net' = Down
    /\ Goto(c, "replug")
    /\ UNCHANGED <<server, runFile, snaps, stale, plugins, sidecar, nextId>>

RestartResetPlugins(c) ==
    /\ cmd[c].pc = "replug"
    /\ plugins' = {}
    /\ Goto(c, "boot")
    /\ UNCHANGED <<server, runFile, net, snaps, stale, sidecar, nextId>>

(* LoadSnapshot. *)
Boot(c) ==
    /\ cmd[c].pc = "boot"
    /\ server /\ ~net.up
    /\ snaps[cmd[c].snap].there
    /\ net' = [up |-> TRUE, chains |-> snaps[cmd[c].snap].chains]
    /\ IF cmd[c].kind = "deploy" THEN Goto(c, "version") ELSE Finish(c, "ok")
    /\ UNCHANGED <<server, runFile, snaps, stale, plugins, sidecar, nextId>>

(* startNetwork returns nil, without booting anything, when the global     *)
(* node config cannot be loaded; StartNetwork returns the error.           *)
BootWithoutConfig(c) ==
    /\ "config" \in Faults
    /\ cmd[c].pc = "boot"
    /\ IF cmd[c].kind = "deploy" THEN Goto(c, "version") ELSE Finish(c, "err")
    /\ UNCHANGED <<server, runFile, net, snaps, stale, plugins, sidecar, nextId>>

(* The running nodes report their RPC version; no node reports version 0. *)
CheckVersion(c) ==
    /\ cmd[c].pc = "version"
    /\ net.up
    /\ Goto(c, "select")
    /\ UNCHANGED <<server, runFile, net, snaps, stale, plugins, sidecar, nextId>>

VersionMismatch(c) ==
    /\ cmd[c].pc = "version"
    /\ "version" \in Faults \/ ~net.up
    /\ net' = IF cmd[c].booted THEN net ELSE Down
    /\ Fail(c)
    /\ UNCHANGED <<server, runFile, snaps, stale, plugins, sidecar, nextId>>

(* Mutant of Select: the alreadyDeployed test is dropped. *)
SelectWithoutCheck(c) ==
    /\ cmd[c].pc = "select"
    /\ server /\ net.up
    /\ cmd' = [cmd EXCEPT ![c].pc = "install", ![c].sub = SelectSubnet(net.chains)]
    /\ UNCHANGED <<server, runFile, net, snaps, stale, plugins, sidecar, nextId>>

(* Mutant of Select: the blockchains are counted in the snapshot. *)
SelectFromSnapshot(c) ==
    /\ cmd[c].pc = "select"
    /\ server /\ net.up
    /\ cmd' = IF cmd[c].name \in NamesOf(net.chains)
              THEN [cmd EXCEPT ![c].pc = "record"]
              ELSE [cmd EXCEPT ![c].pc = "install",
                               ![c].sub = SelectSubnet(snaps[Default].chains)]
    /\ UNCHANGED <<server, runFile, net, snaps, stale, plugins, sidecar, nextId>>

(* WaitForHealthy, then the early return of an already deployed VM, whose  *)
(* IDs are both ids.Empty, or the choice of a preloaded subnet.            *)
Select(c) ==
    /\ cmd[c].pc = "select"
    /\ server /\ net.up
    /\ cmd' = IF cmd[c].name \in NamesOf(net.chains)
              THEN [cmd EXCEPT ![c].pc = "record"]
              ELSE [cmd EXCEPT ![c].pc = "install",
                               ![c].sub = SelectSubnet(net.chains)]
    /\ UNCHANGED <<server, runFile, net, snaps, stale, plugins, sidecar, nextId>>

(* InstallVM refuses to overwrite: "this should never happen". *)
InstallPlugin(c) ==
    /\ cmd[c].pc = "install"
    /\ cmd[c].name \notin plugins
    /\ plugins' = plugins \cup {cmd[c].name}
    /\ Goto(c, "create")
    /\ UNCHANGED <<server, runFile, net, snaps, stale, sidecar, nextId>>

InstallRefused(c) ==
    /\ cmd[c].pc = "install"
    /\ cmd[c].name \in plugins
    /\ Fail(c)
    /\ UNCHANGED <<server, runFile, net, snaps, stale, plugins, sidecar, nextId>>

NewChain(c) == [name |-> cmd[c].name, sub |-> cmd[c].sub, id |-> nextId]

CreateChain(c) ==
    /\ cmd[c].pc = "create"
    /\ server /\ net.up
    /\ net' = [net EXCEPT !.chains = Append(net.chains, NewChain(c))]
    /\ nextId' = nextId + 1
    /\ Goto(c, "wait")
    /\ UNCHANGED <<server, runFile, snaps, stale, plugins, sidecar>>

(* CreateBlockchains fails, or times out after the chain was created: the  *)
(* plugin is removed either way.                                           *)
CreateChainFails(c) ==
    /\ cmd[c].pc = "create"
    /\ \/ /\ ~net.up \/ "rpc" \in Faults
          /\ UNCHANGED <<net, nextId>>
       \/ /\ net.up /\ "rpc" \in Faults
          /\ net' = [net EXCEPT !.chains = Append(net.chains, NewChain(c))]
          /\ nextId' = nextId + 1
    /\ plugins' = plugins \ {cmd[c].name}
    /\ Fail(c)
    /\ UNCHANGED <<server, runFile, snaps, stale, sidecar>>

(* The last WaitForHealthy; the blockchain ID is read from its answer, a   *)
(* Go map in no particular order, and stays ids.Empty without a match.     *)
WaitChain(c) ==
    /\ cmd[c].pc = "wait"
    /\ server /\ net.up
    /\ LET found == IdsOf(net.chains, cmd[c].name)
       IN  \E i \in (IF found = {} THEN {0} ELSE found) :
            cmd' = [cmd EXCEPT ![c].pc = "record", ![c].id = i]
    /\ UNCHANGED <<server, runFile, net, snaps, stale, plugins, sidecar, nextId>>

WaitChainFails(c) ==
    /\ cmd[c].pc = "wait"
    /\ ~net.up \/ "rpc" \in Faults
    /\ plugins' = plugins \ {cmd[c].name}
    /\ Fail(c)
    /\ UNCHANGED <<server, runFile, net, snaps, stale, sidecar, nextId>>

(* UpdateSidecarNetworks overwrites the Local entry with what came back. *)
RecordDeploy(c) ==
    /\ cmd[c].pc = "record"
    /\ sidecar' = [sidecar EXCEPT ![cmd[c].name] =
                    [sub |-> cmd[c].sub, id |-> cmd[c].id]]
    /\ Finish(c, "ok")
    /\ UNCHANGED <<server, runFile, net, snaps, stale, plugins, nextId>>

(* A call the backend cannot honour: nobody listens, the network is in the *)
(* wrong state, or the snapshot is absent.                                 *)
Refused(c) ==
    \/ cmd[c].pc = "status" /\ ~server
    \/ cmd[c].pc = "restart" /\ ~net.up
    \/ cmd[c].pc = "boot" /\ (~server \/ net.up \/ ~snaps[cmd[c].snap].there)
    \/ cmd[c].pc = "select" /\ ~net.up

CallFails(c) ==
    /\ \/ Refused(c)
       \/ "rpc" \in Faults /\ cmd[c].pc \in {"status", "restart", "boot", "select"}
    /\ Fail(c)
    /\ UNCHANGED <<server, runFile, net, snaps, stale, plugins, sidecar, nextId>>

-----------------------------------------------------------------------------
(* saveNetwork, first call: without a backend there is nothing to stop;    *)
(* without a network there is nothing to save; ErrSnapshotNotFound is the  *)
(* expected answer for a new snapshot name.                                *)
RemoveSnapshot(c) ==
    /\ cmd[c].pc = "remove"
    /\ \/ /\ ~server
          /\ Finish(c, "ok")
          /\ UNCHANGED snaps
       \/ /\ server /\ ~net.up
          /\ Goto(c, "kill")
          /\ UNCHANGED snaps
       \/ /\ server /\ net.up
          /\ snaps' = [snaps EXCEPT ![cmd[c].snap] = Missing]
          /\ Goto(c, "save")
    /\ UNCHANGED <<server, runFile, net, stale, plugins, sidecar, nextId>>

RemoveSnapshotFails(c) ==
    /\ "save" \in Faults
    /\ cmd[c].pc = "remove"
    /\ server /\ net.up
    /\ Goto(c, "kill")
    /\ UNCHANGED <<server, runFile, net, snaps, stale, plugins, sidecar, nextId>>

(* Mutant of SaveSnapshot: the snapshot name given by the user is ignored. *)
SaveToDefault(c) ==
    /\ cmd[c].pc = "save"
    /\ server /\ net.up
    /\ snaps' = [snaps EXCEPT ![Default] = [there |-> TRUE, chains |-> net.chains]]
    /\ net' = Down
    /\ Goto(c, "kill")
    /\ UNCHANGED <<server, runFile, stale, plugins, sidecar, nextId>>

(* The backend stops the network and writes the snapshot. *)
SaveSnapshot(c) ==
    /\ cmd[c].pc = "save"
    /\ server /\ net.up
    /\ ~snaps[cmd[c].snap].there
    /\ snaps' = [snaps EXCEPT ![cmd[c].snap] =
                  [there |-> TRUE, chains |-> net.chains]]
    /\ net' = Down
    /\ Goto(c, "kill")
    /\ UNCHANGED <<server, runFile, stale, plugins, sidecar, nextId>>

(* The error of saveNetwork is dropped: StopNetwork kills the server. *)
SaveSnapshotFails(c) ==
    /\ cmd[c].pc = "save"
    /\ ~net.up \/ snaps[cmd[c].snap].there \/ "save" \in Faults
    /\ Goto(c, "kill")
    /\ UNCHANGED <<server, runFile, net, snaps, stale, plugins, sidecar, nextId>>

-----------------------------------------------------------------------------
(* What the three callers of KillgRPCServerProcess do with its result:     *)
(* stop returns it, clean goes on, deploy still returns its own error.     *)
KillReturns(c, r) ==
    \/ cmd[c].kind = "stop" /\ Finish(c, r)
    \/ cmd[c].kind = "clean" /\ Goto(c, "unplug")
    \/ cmd[c].kind = "deploy" /\ Finish(c, "err")

(* KillgRPCServerProcess: dial, stop the network, signal the process the   *)
(* run file names, remove the run file.                                    *)
KillNetwork(c) ==
    /\ cmd[c].pc = "kill"
    /\ server
    /\ net' = Down
    /\ Goto(c, "signal")
    /\ UNCHANGED <<server, runFile, snaps, stale, plugins, sidecar, nextId>>

KillDialFails(c) ==
    /\ cmd[c].pc = "kill"
    /\ ~server \/ "kill" \in Faults
    /\ KillReturns(c, "err")
    /\ UNCHANGED <<server, runFile, net, snaps, stale, plugins, sidecar, nextId>>

KillSignal(c) ==
    /\ cmd[c].pc = "signal"
    /\ IF runFile = "live"
       THEN BackendGone /\ Goto(c, "rmrun")
       ELSE KillReturns(c, "err") /\ UNCHANGED <<server, runFile, net>>
    /\ UNCHANGED <<snaps, stale, plugins, sidecar, nextId>>

KillRemoveRunFile(c) ==
    /\ cmd[c].pc = "rmrun"
    /\ runFile' = "none"
    /\ KillReturns(c, "ok")
    /\ UNCHANGED <<server, net, snaps, stale, plugins, sidecar, nextId>>

-----------------------------------------------------------------------------
(* clean: a failure to reset the default snapshot is only logged. *)
CleanReset(c) ==
    /\ cmd[c].pc = "reset"
    /\ ResetDefault
    /\ stale' = FALSE
    /\ Goto(c, "kill")
    /\ UNCHANGED <<server, runFile, net, plugins, sidecar, nextId>>

CleanResetFails(c) ==
    /\ "archive" \in Faults
    /\ cmd[c].pc = "reset"
    /\ snaps' \in {snaps, [snaps EXCEPT ![Default] = Missing]}
    /\ stale' \in {stale, FALSE}
    /\ Goto(c, "kill")
    /\ UNCHANGED <<server, runFile, net, plugins, sidecar, nextId>>

(* --hard also terminates every backend it finds by its command line. *)
CleanPlugins(c) ==
    /\ cmd[c].pc = "unplug"
    /\ IF cmd[c].hard THEN BackendGone ELSE UNCHANGED <<server, runFile, net>>
    /\ plugins' = {}
    /\ Goto(c, "sidecars")
    /\ UNCHANGED <<snaps, stale, sidecar, nextId>>

(* removeLocalDeployInfoFromSidecars, one sidecar file at a time. *)
CleanSidecar(c, n) ==
    /\ cmd[c].pc = "sidecars"
    /\ sidecar[n] # NoEntry
    /\ sidecar' = [sidecar EXCEPT ![n] = NoEntry]
    /\ UNCHANGED <<server, runFile, net, snaps, stale, plugins, nextId, cmd>>

(* Mutant of CleanDone: the loop over the sidecars ends after any of them. *)
CleanDoneEarly(c) ==
    /\ cmd[c].pc = "sidecars"
    /\ Finish(c, "ok")
    /\ UNCHANGED <<server, runFile, net, snaps, stale, plugins, sidecar, nextId>>

CleanDone(c) ==
    /\ cmd[c].pc = "sidecars"
    /\ \A n \in Names : sidecar[n] = NoEntry
    /\ Finish(c, "ok")
    /\ UNCHANGED <<server, runFile, net, snaps, stale, plugins, sidecar, nextId>>

-----------------------------------------------------------------------------
(* The environment. *)
Crash(c) ==
    /\ "crash" \in Faults
    /\ Running(c)
    /\ cmd' = [cmd EXCEPT ![c] = Idle]
    /\ UNCHANGED <<server, runFile, net, snaps, stale, plugins, sidecar, nextId>>

BackendDies ==
    /\ "die" \in Faults
    /\ server
    /\ BackendGone
    /\ UNCHANGED <<snaps, stale, plugins, sidecar, nextId, cmd>>

NewImage ==
    /\ "image" \in Faults
    /\ ~stale
    /\ stale' = TRUE
    /\ UNCHANGED <<server, runFile, net, snaps, plugins, sidecar, nextId, cmd>>

-----------------------------------------------------------------------------
Begin(c) ==
    \/ \E n \in Names : BeginDeploy(c, n)
    \/ \E s \in Snapshots : BeginStart(c, s)
    \/ \E s \in Snapshots : BeginStop(c, s)
    \/ \E h \in BOOLEAN : BeginClean(c, h)

Prepare(c) ==
    \/ CheckServer(c) \/ Spawn(c) \/ WriteRunFile(c)
    \/ SetupEnv(c) \/ SetupEnvFails(c)
    \/ Status(c) \/ RestartStop(c) \/ RestartResetPlugins(c)
    \/ Boot(c) \/ BootWithoutConfig(c) \/ CallFails(c)

Deploy(c) ==
    \/ CheckVersion(c) \/ VersionMismatch(c) \/ Select(c)
    \/ InstallPlugin(c) \/ InstallRefused(c)
    \/ CreateChain(c) \/ CreateChainFails(c)
    \/ WaitChain(c) \/ WaitChainFails(c) \/ RecordDeploy(c)

Stop(c) ==
    \/ RemoveSnapshot(c) \/ RemoveSnapshotFails(c)
    \/ SaveSnapshot(c) \/ SaveSnapshotFails(c)

Kill(c) ==
    \/ KillNetwork(c) \/ KillDialFails(c)
    \/ KillSignal(c) \/ KillRemoveRunFile(c)

Clean(c) ==
    \/ CleanReset(c) \/ CleanResetFails(c) \/ CleanPlugins(c)
    \/ (\E n \in Names : CleanSidecar(c, n)) \/ CleanDone(c)

Step(c) == Prepare(c) \/ Deploy(c) \/ Stop(c) \/ Kill(c) \/ Clean(c)

Next ==
    \/ \E c \in Slots : Begin(c) \/ Step(c) \/ Crash(c)
    \/ BackendDies
    \/ NewImage

Spec == Init /\ [][Next]_vars

(* The scheduler runs a command that was begun, and a user who wants the   *)
(* network keeps typing `network start`.                                   *)
FairSpec ==
    /\ Spec
    /\ \A c \in Slots : WF_vars(Step(c)) /\ WF_vars(BeginStart(c, Default))

-----------------------------------------------------------------------------
(* Every variable keeps its type. *)
Pcs == {"idle", "server", "spawn", "runfile", "env", "status", "restart",
        "replug", "boot", "version", "select", "install", "create", "wait",
        "record", "remove", "save", "kill", "signal", "rmrun", "reset",
        "unplug", "sidecars"}

Commands == [pc : Pcs,
             kind : {"none", "deploy", "start", "stop", "clean"},
             res : {"none", "ok", "err"},
             name : Names \cup {"none"},
             snap : Snapshots \cup {"none"},
             restart : BOOLEAN, booted : BOOLEAN, started : BOOLEAN,
             child : {"none", "live", "dead"}, hard : BOOLEAN,
             sub : 0..NumSubnets, id : Nat]

(* Which command makes which call, and what it has to know by then. *)
WellFormed(r) ==
    /\ r.kind = "deploy" /\ r.pc # "idle" => r.name \in Names
    /\ r.kind \in {"deploy", "start", "stop"} /\ r.pc # "idle"
        => r.snap \in Snapshots
    /\ r.pc \in {"server", "spawn", "runfile", "env", "status", "restart",
                 "replug", "boot"} => r.kind \in {"deploy", "start"}
    /\ r.pc \in {"remove", "save"} => r.kind = "stop"
    /\ r.pc \in {"version", "select", "install", "create", "wait", "record"}
        => r.kind = "deploy"
    /\ r.pc \in {"install", "create"} => r.sub \in 1..NumSubnets

CmdOK ==
    /\ cmd \in [Slots -> Commands]
    /\ \A c \in Slots : WellFormed(cmd[c])

TypeOK ==
    /\ server \in BOOLEAN
    /\ runFile \in {"none", "live", "dead"}
    /\ net \in [up : BOOLEAN, chains : Seq(Chain)]
    /\ snaps \in [Snapshots -> [there : BOOLEAN, chains : Seq(Chain)]]
    /\ stale \in BOOLEAN
    /\ plugins \subseteq Names
    /\ sidecar \in [Names -> [sub : -1..NumSubnets, id : Nat \cup {-1}]]
    /\ nextId \in Nat \ {0}
    /\ CmdOK

(* The i-th blockchain of a network is hosted by the i-th preloaded subnet, *)
(* cyclically.                                                             *)
Placed(chains) ==
    \A i \in 1..Len(chains) : chains[i].sub = ((i - 1) % NumSubnets) + 1

(* doDeploy: "so we get incremental selection".  The subnets are assigned  *)
(* in turn in the running network and in every snapshot of it, through any *)
(* series of deploys, failed deploys, stops and restarts.                  *)
IncrementalSubnets ==
    /\ Placed(net.chains)
    /\ \A s \in Snapshots : Placed(snaps[s].chains)

(* The selection is read before the VM is installed and used after it: a   *)
(* deploy that is alone still finds its subnet to be the next in turn.     *)
SelectionStillNext ==
    \A c \in Slots : cmd[c].pc \in {"install", "create"} /\ net.up
        => cmd[c].sub = SelectSubnet(net.chains)

(* What incremental selection is for: as long as there are enough          *)
(* preloaded subnets, no two blockchains of a network share one.           *)
DistinctSubnets ==
    Len(net.chains) <= NumSubnets =>
        \A i, j \in 1..Len(net.chains) :
            i # j => net.chains[i].sub # net.chains[j].sub

(* The blockchains the user has: those of the running network or, when it  *)
(* is down, those of the default snapshot.                                 *)
Held == IF net.up THEN net.chains ELSE snaps[Default].chains
HeldEntries == {[sub |-> Held[i].sub, id |-> Held[i].id] : i \in 1..Len(Held)}
Quiet == \A c \in Slots : ~Running(c)

(* With the default snapshot only, a sidecar never speaks of a blockchain   *)
(* that is gone: whenever no command runs, every Local entry belongs to a  *)
(* blockchain that exists, and IDs other than ids.Empty are those of that  *)
(* very blockchain (a second deploy of the same subnet records ids.Empty). *)
SidecarsAgree ==
    Quiet => \A n \in Names :
        /\ sidecar[n] # NoEntry => n \in NamesOf(Held)
        /\ sidecar[n].id > 0 =>
            /\ sidecar[n] \in HeldEntries
            /\ sidecar[n].id \in IdsOf(Held, n)

(* InstallVM (binaries.go): "check if binary is already present, this      *)
(* should never happen".  A deploy that reaches the installation of its VM *)
(* finds the plugins directory without it.                                 *)
InstallFindsNoPlugin ==
    \A c \in Slots : cmd[c].pc = "install" => cmd[c].name \notin plugins

(* The VM of a blockchain of the running network is taken away neither by  *)
(* a restart nor by a clean: both bring the network down first.            *)
PluginsOutliveNetwork ==
    [][net.up /\ net'.up => NamesOf(net.chains) \cap plugins \subseteq plugins']_vars

(* A deploy that fails takes back no more than it did: a recorded          *)
(* blockchain is lost only to a clean.                                     *)
RecordedIn(n, chains) ==
    \E i \in 1..Len(chains) :
        chains[i] = [name |-> n, sub |-> sidecar[n].sub, id |-> sidecar[n].id]

RecordedChainsSurvive ==
    [][\A n \in Names :
        (RecordedIn(n, net.chains) \/ RecordedIn(n, snaps[Default].chains))
        /\ sidecar'[n] = sidecar[n]
        /\ (\A c \in Slots : cmd[c].kind # "clean")
        => \E i \in 1..(Len(net'.chains) + Len(snaps'[Default].chains)) :
            (net'.chains \o snaps'[Default].chains)[i]
                = [name |-> n, sub |-> sidecar[n].sub, id |-> sidecar[n].id]]_vars

(* network clean: "All deployed Subnets shutdown and delete their state",  *)
(* whatever an interrupted or failed command left behind.  (Whether the    *)
(* default snapshot is reset too is part of KeepsReadmePromise.)           *)
CleanLeavesNothing ==
    \A c \in Slots :
        cmd[c] = [Idle EXCEPT !.kind = "clean", !.res = "ok"] =>
            /\ ~net.up
            /\ plugins = {}
            /\ \A n \in Names : sidecar[n] = NoEntry

(* network stop: "All deployed Subnets shutdown gracefully and save their  *)
(* state".  A stop never brings down a network whose blockchains are in no *)
(* snapshot.                                                               *)
StopSavesState ==
    [][\A c \in Slots :
        /\ cmd[c].kind = "stop" /\ Running(c)
        /\ net.up /\ ~net'.up /\ cmd'[c] # cmd[c]
        => snaps'[cmd[c].snap] = [there |-> TRUE, chains |-> net.chains]]_vars

(* Used one command at a time, with no failure, the commands keep what the *)
(* README promises: a snapshot that a stop has removed counts as holding   *)
(* the network that is about to be saved into it.                          *)
Saving(s) == \E c \in Slots : cmd[c].pc = "save" /\ cmd[c].snap = s
Wiping == \E c \in Slots :
            cmd[c].kind = "clean" /\ cmd[c].pc \in {"kill", "signal", "rmrun"}

Readme == INSTANCE NetworkPromise WITH
    running <- net,
    saved <- [s \in Snapshots |->
                IF Saving(s) THEN [there |-> TRUE, chains |-> net.chains]
                ELSE snaps[s]],
    wiping <- Wiping

KeepsReadmePromise == Readme!Promise

(* Every step is one of a `network start` whose calls fail only when they  *)
(* must, and neither the backend nor the bootstrap snapshot changes.       *)
StartingOnly ==
    /\ stale' => stale
    /\ server => server'
    /\ \A c \in Slots :
        /\ ~Running(c) /\ cmd'[c].pc # "idle" => cmd'[c].kind = "start"
        /\ Running(c) => cmd[c].kind = "start"
        /\ Running(c) /\ cmd'[c].pc = "idle"
            => cmd'[c].kind = "start" /\ (cmd'[c].res = "err" => Refused(c))

(* README: "If the network is not running, both network start and subnet   *)
(* deploy will start it".  Whatever failed before, once the user only      *)
(* types `network start` and the calls stop failing, the network runs.     *)
StartBringsNetworkUp == <>[][StartingOnly]_vars => <>[]net.up

=============================================================================
