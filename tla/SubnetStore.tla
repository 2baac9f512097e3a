----------------------------- MODULE SubnetStore -----------------------------
(***************************************************************************)
(* What the tool keeps of one subnet (its genesis, its sidecar, the binary *)
(* of a custom VM), and the commands that create it, change it and take it *)
(* elsewhere: `subnet create` with the wizard, `delete`, `export`, `import *)
(* file` (and from a repository), `import public`, `publish`, and of       *)
(* `deploy` what it loads and writes.                                      *)
(*                                                                         *)
(* Several terminals work on the subnet.  Each command works on the        *)
(* sidecar that it loaded, and writes all of it at its end.  The genesis   *)
(* and the sidecar carry the number of the creation they are from: what    *)
(* they contain is data, but for the allow list of transactions and the    *)
(* airdrop, which the wizard must keep in agreement.                       *)
(***************************************************************************)
EXTENDS Integers, FiniteSets

CONSTANTS
    Terminals,    \* terminals that use one base directory
    Makers,       \* those in which subnets are created and imported
    Networks,     \* where the subnet may be deployed
    Published,    \* the network whose IDs are published
    Public,       \* the networks a subnet can be published from
    Precompiles,  \* what the wizard offers, "txAllowList" among them
    Addresses,    \* addresses of the genesis
    Airdrops,     \* airdrops a user may choose: the balance of each address
    Word,         \* balances are compared modulo this
    Rpcs,         \* versions of the RPC protocol a custom binary may speak
    Faults,       \* the kinds of failure a run admits
    MaxIds        \* bound: genesis files made in one behaviour

FaultKinds == {
    "crash",  \* a command is interrupted between two of its calls
    "torn",   \* ... or while it writes the sidecar, truncated before
    "fail" }  \* a build, a query or an answer fails

ASSUME StoreAssumption ==
    /\ Makers \subseteq Terminals
    /\ Public \subseteq Networks /\ Published \in Public
    /\ "txAllowList" \in Precompiles
    /\ Airdrops \subseteq [Addresses -> Nat]
    /\ Word \in Nat \ {0} /\ MaxIds \in Nat
    /\ Rpcs \subseteq Nat \ {0}
    /\ Faults \subseteq FaultKinds

VARIABLES
    genesis,   \* genesis.json
    sc,        \* sidecar.json
    bin,       \* the binary of the custom VM: what it speaks (0: none)
    bundle,    \* the file of the last export
    cmd,       \* what runs in each terminal
    nextId,
    cut        \* what an interruption or a stale command mixed up (history)

vars == <<genesis, sc, bin, bundle, cmd, nextId, cut>>
disk == <<genesis, sc, bin>>
outside == <<bundle, nextId>>

-----------------------------------------------------------------------------
NoSidecar == [id |-> 0, vm |-> "none", repo |-> FALSE, rpc |-> 0, nets |-> {}]
Torn == [NoSidecar EXCEPT !.vm = "torn"]
NotAdded == {"not added"}
NoPrecompile == [p \in Precompiles |-> NotAdded]
Nobody == [a \in Addresses |-> 0]

(* A genesis: whether an allow list says who may send transactions, and    *)
(* whether one of its admins has something to pay with.                    *)
Genesis(id) == [id |-> id, listed |-> FALSE, funded |-> FALSE]
NoGenesis == Genesis(0)

Idle == [pc |-> "idle", what |-> "none", sc |-> NoSidecar, gen |-> NoGenesis,
         pre |-> NoPrecompile, left |-> {}, alloc |-> Nobody, stale |-> FALSE]

At(t, p) == cmd[t].pc = p
Goto(t, p) == cmd' = [cmd EXCEPT ![t].pc = p]
Finish(t) == cmd' = [cmd EXCEPT ![t] = Idle]
Start(t, c) == At(t, "idle") /\ cmd' = [cmd EXCEPT ![t] = c]

(* GenesisExists and LoadSidecar.                                          *)
GenesisExists == genesis.id # 0
SidecarExists == sc.vm # "none"
Loadable == sc.vm \notin {"none", "torn"}
DirExists == GenesisExists \/ SidecarExists

Init ==
    /\ genesis = NoGenesis /\ sc = NoSidecar /\ bin = 0
    /\ bundle = [sc |-> NoSidecar, gen |-> NoGenesis]
    /\ cmd = [t \in Terminals |-> Idle]
    /\ nextId = 1
    /\ cut = {}

-----------------------------------------------------------------------------
(* Writes.  A terminal that writes makes what the others loaded stale; a   *)
(* command that wrote before it knew is noted in the history.              *)
Others(t, c) ==
    [u \in Terminals |->
        IF u = t THEN c
        ELSE IF cmd[u].pc = "idle" THEN Idle
        ELSE [cmd[u] EXCEPT !.stale = TRUE]]

NoteStale(t) == IF cmd[t].stale THEN {"pair", "bin"} ELSE {}

(* An export that another command overtook mixes two creations.            *)
NoteMixed(t, s) == IF cmd[t].what = "import" /\ s.id # cmd[t].gen.id THEN {"pair"} ELSE {}

(* WriteGenesisFile.                                                       *)
WriteGenesis(t, g, next) ==
    /\ genesis' = g
    /\ cmd' = Others(t, [cmd[t] EXCEPT !.pc = next])
    /\ cut' = cut \cup NoteStale(t)

(* CreateSidecar: another subnet from now on.                              *)
CreateSidecar(t, s, tags) ==
    /\ sc' = s
    /\ cut' = (cut \ tags) \cup NoteStale(t) \cup NoteMixed(t, s)

(* UpdateSidecar: all of what was loaded, whatever was written since; but  *)
(* it does not make the directory that a delete has removed.               *)
UpdateSidecar(t, s) ==
    IF DirExists
    THEN /\ sc' = s
         /\ cut' = cut \cup NoteStale(t)
         /\ cmd' = Others(t, Idle)
    ELSE Finish(t) /\ UNCHANGED <<sc, cut>>

-----------------------------------------------------------------------------
(* subnet create: a configuration that exists is refused without --force.  *)
MayCreate(force) == GenesisExists => force

BeginCreate(t, force) ==
    /\ MayCreate(force)
    /\ nextId <= MaxIds
    /\ nextId' = nextId + 1
    /\ Start(t, [Idle EXCEPT !.pc = "choose", !.what = "create",
                             !.gen = Genesis(nextId)])
    /\ UNCHANGED <<disk, bundle, cut>>

Keep == UNCHANGED <<disk, outside, cut>>

(* CreateEvmSubnetConfig with --genesis, or with --evm-defaults.           *)
GivenGenesis(t) ==
    /\ At(t, "choose")
    /\ cmd' = [cmd EXCEPT ![t].pc = "write", ![t].sc = [NoSidecar EXCEPT !.vm = "evm"]]
    /\ Keep

(* The wizard: chain ID, token and version; there is no way back yet.      *)
StartWizard(t) == At(t, "choose") /\ Goto(t, "descriptors") /\ Keep
Descriptors(t) == At(t, "descriptors") /\ Goto(t, "fee") /\ Keep

(* GetFeeConfig.                                                           *)
FeeConfig(t) ==
    /\ At(t, "fee")
    /\ Goto(t, "airdrop") \/ Goto(t, "descriptors")
    /\ Keep

(* getAllocation starts anew each time it is reached.                      *)
Airdrop(t, alloc) ==
    /\ At(t, "airdrop")
    /\ cmd' = [cmd EXCEPT ![t].pc = "precompiles", ![t].alloc = alloc,
                          ![t].left = Precompiles]
    /\ Keep

AirdropBack(t) == At(t, "airdrop") /\ Goto(t, "fee") /\ Keep

(* getPrecompiles.  GenesisPrecompiles is a map that the copies of the     *)
(* configuration share: what is added stays when the user goes back, and   *)
(* may be added again.  A list of admins that is cancelled is an empty one.*)
AddPrecompile(t, p, admins) ==
    /\ At(t, "precompiles")
    /\ p \in cmd[t].left
    /\ cmd' = [cmd EXCEPT ![t].pre[p] = admins, ![t].left = @ \ {p},
                          ![t].pc = IF cmd[t].left = {p} THEN "verify" ELSE "precompiles"]
    /\ Keep

PrecompilesDone(t) ==
    /\ At(t, "precompiles")
    /\ Goto(t, "verify") \/ Goto(t, "airdrop")
    /\ Keep

(* ensureAdminsHaveBalance looks at the low word of a balance.             *)
Listed(pre) == pre["txAllowList"] \notin {{}, NotAdded}
Funded(admins, alloc) == \E a \in admins : alloc[a] % Word > 0

(* Mutant of AdminsOK: that somebody has tokens is enough.                 *)
SomebodyFunded(pre, alloc) == Listed(pre) => Funded(Addresses, alloc)

AdminsOK(pre, alloc) ==
    Listed(pre) => Funded(pre["txAllowList"], alloc)

(* What the genesis then really says.                                      *)
HasTokens(admins, alloc) == \E a \in admins \cap Addresses : alloc[a] > 0

(* The end of createEvmGenesis.                                            *)
Verified(t) ==
    /\ At(t, "verify")
    /\ AdminsOK(cmd[t].pre, cmd[t].alloc)
    /\ cmd' = [cmd EXCEPT ![t].pc = "write", ![t].sc = [NoSidecar EXCEPT !.vm = "evm"],
                          ![t].gen.listed = Listed(cmd[t].pre),
                          ![t].gen.funded = HasTokens(cmd[t].pre["txAllowList"], cmd[t].alloc),
                          ![t].pre = NoPrecompile, ![t].left = {}, ![t].alloc = Nobody]
    /\ Keep

NotVerified(t) ==
    /\ At(t, "verify")
    /\ ~AdminsOK(cmd[t].pre, cmd[t].alloc)
    /\ Finish(t)
    /\ Keep

(* CreateCustomSubnetConfig: from a repository, or a binary that is copied.*)
ChooseRepo(t) ==
    /\ At(t, "choose")
    /\ cmd' = [cmd EXCEPT ![t].pc = "build",
                          ![t].sc = [NoSidecar EXCEPT !.vm = "custom", !.repo = TRUE]]
    /\ Keep

CopyVMBinary(t, v) ==
    /\ At(t, "choose")
    /\ bin' = v
    /\ cmd' = Others(t, [cmd[t] EXCEPT !.pc = "rpc",
                             !.sc = [NoSidecar EXCEPT !.vm = "custom"]])
    /\ cut' = cut \cup {"bin"}
    /\ UNCHANGED <<genesis, sc, outside>>

(* BuildCustomVM removes the binary there is before it builds.             *)
RemoveOldBinary(t) ==
    /\ At(t, "build")
    /\ bin' = 0
    /\ cmd' = Others(t, [cmd[t] EXCEPT !.pc = "make"])
    /\ cut' = cut \cup {"bin"}
    /\ UNCHANGED <<genesis, sc, outside>>

BuildCustomVM(t, v) ==
    /\ At(t, "make")
    /\ bin' = v
    /\ cmd' = Others(t, [cmd[t] EXCEPT !.pc = "rpc"])
    /\ cut' = cut \cup {"bin"}
    /\ UNCHANGED <<genesis, sc, outside>>

(* Mutant of AskRpc: the sidecar does not say it.                          *)
AskNothing(t) ==
    /\ At(t, "rpc") /\ cmd[t].what = "create"
    /\ bin # 0
    /\ Goto(t, "write")
    /\ Keep

(* Create asks the binary what it speaks.                                  *)
AskRpc(t) ==
    /\ At(t, "rpc") /\ cmd[t].what = "create"
    /\ bin # 0
    /\ cmd' = [cmd EXCEPT ![t].pc = "write", ![t].sc.rpc = bin]
    /\ Keep

(* Any of these calls may fail, and the command ends.                      *)
Working == {"choose", "descriptors", "fee", "airdrop", "precompiles", "verify", "build",
            "make", "rpc", "running", "opm", "deploy", "fields"}

Fails(t) ==
    /\ "fail" \in Faults
    /\ cmd[t].pc \in Working
    /\ Finish(t)
    /\ cut' = cut \cup (IF At(t, "running") THEN {"pair"} ELSE {})
    /\ UNCHANGED <<disk, outside>>

(* The end of createSubnetConfig: the genesis, then the sidecar.  The      *)
(* configuration and upgrade files of a subnet that is overwritten stay.   *)
WriteNewGenesis(t) ==
    /\ At(t, "write") /\ cmd[t].what = "create"
    /\ WriteGenesis(t, cmd[t].gen, "sidecar")
    /\ UNCHANGED <<sc, bin, outside>>

Made(t) == [cmd[t].sc EXCEPT !.id = cmd[t].gen.id]

WriteNewSidecar(t) ==
    /\ At(t, "sidecar")
    /\ CreateSidecar(t, Made(t), {"pair", "bin"})
    /\ cmd' = Others(t, Idle)
    /\ UNCHANGED <<genesis, bin, outside>>

-----------------------------------------------------------------------------
(* subnet delete.  A custom VM without its binary, and so one imported     *)
(* from a repository, is left as it is, and nothing is said.               *)
Delete(t) ==
    /\ Loadable
    /\ At(t, "idle")
    /\ cmd' = Others(t, [Idle EXCEPT !.pc = "rmdir"])
    /\ \/ sc.vm = "evm" /\ UNCHANGED <<bin, cut>>
       \/ sc.vm # "evm" /\ bin # 0 /\ bin' = 0 /\ cut' = cut \cup {"bin"}
    /\ UNCHANGED <<genesis, sc, outside>>

RemoveDir(t) ==
    /\ At(t, "rmdir")
    /\ genesis' = NoGenesis
    /\ CreateSidecar(t, NoSidecar, {"pair"})
    /\ cmd' = Others(t, Idle)
    /\ UNCHANGED <<bin, outside>>

-----------------------------------------------------------------------------
(* subnet export: the source of a custom VM is asked for once, and kept.   *)
BeginExport(t) ==
    /\ Loadable
    /\ Start(t, [Idle EXCEPT !.pc = IF sc.vm # "evm" /\ ~sc.repo THEN "fields" ELSE "bundle",
                             !.what = "export", !.sc = sc])
    /\ Keep

(* Mutant of SetSourceFields: a sidecar made of the fields that are known. *)
SetFieldsAnew(t) ==
    /\ At(t, "fields")
    /\ UpdateSidecar(t, [cmd[t].sc EXCEPT !.repo = TRUE, !.nets = {}])
    /\ UNCHANGED <<genesis, bin, outside>>

SetSourceFields(t) ==
    /\ At(t, "fields")
    /\ UpdateSidecar(t, [cmd[t].sc EXCEPT !.repo = TRUE])
    /\ UNCHANGED <<genesis, bin, outside>>

WriteBundle(t) ==
    /\ At(t, "bundle")
    /\ GenesisExists
    /\ bundle' = [sc |-> cmd[t].sc, gen |-> genesis]
    /\ Finish(t)
    /\ UNCHANGED <<disk, nextId, cut>>

NoGenesisToExport(t) ==
    /\ At(t, "bundle")
    /\ ~GenesisExists
    /\ Finish(t)
    /\ Keep

(* subnet import file: here, where the subnet may exist, or elsewhere.     *)
MayImport(force) == bundle.sc.id # 0 /\ (GenesisExists => force)

BeginImport(t, force) ==
    /\ MayImport(force)
    /\ bundle.sc.vm # "evm" => bundle.sc.repo
    /\ Start(t, [Idle EXCEPT !.pc = IF bundle.sc.vm # "evm" THEN "build" ELSE "write",
                    !.what = "import", !.sc = bundle.sc, !.gen = bundle.gen])
    /\ Keep

(* Mutant of CheckRpc: the version of the binary is not compared.          *)
CheckNothing(t) ==
    /\ At(t, "rpc") /\ cmd[t].what = "import"
    /\ Goto(t, "write")
    /\ Keep

(* The binary must speak what the sidecar says, or nothing more is done:   *)
(* but it is the binary of that other subnet that is there now.            *)
CheckRpc(t) ==
    /\ At(t, "rpc") /\ cmd[t].what = "import"
    /\ IF bin = cmd[t].sc.rpc THEN Goto(t, "write") ELSE Finish(t)
    /\ Keep

(* The genesis, the files that came along or none, then the sidecar.       *)
WriteImportedFiles(t) ==
    /\ At(t, "write") /\ cmd[t].what = "import"
    /\ WriteGenesis(t, cmd[t].gen, "imported")
    /\ UNCHANGED <<sc, bin, outside>>

WriteImportedSidecar(t) ==
    /\ At(t, "imported")
    /\ CreateSidecar(t, cmd[t].sc, {"pair", "bin"})
    /\ cmd' = Others(t, Idle)
    /\ UNCHANGED <<genesis, bin, outside>>

(* subnet import from a repository asks nothing about a subnet that exists *)
(* and writes the sidecar before an empty genesis.                         *)
ImportOPM(t) ==
    /\ nextId <= MaxIds
    /\ nextId' = nextId + 1
    /\ Start(t, [Idle EXCEPT !.pc = "opm", !.what = "opm", !.gen = Genesis(nextId)])
    /\ UNCHANGED <<disk, bundle, cut>>

WriteOPMSidecar(t) ==
    /\ At(t, "opm")
    /\ CreateSidecar(t, [NoSidecar EXCEPT !.id = cmd[t].gen.id, !.vm = "opm"], {"bin"})
    /\ cmd' = Others(t, [cmd[t] EXCEPT !.pc = "empty"])
    /\ UNCHANGED <<genesis, bin, outside>>

WriteEmptyGenesis(t) ==
    /\ At(t, "empty")
    /\ genesis' = cmd[t].gen
    /\ cmd' = Others(t, Idle)
    /\ cut' = (cut \ {"pair"}) \cup NoteStale(t)
    /\ UNCHANGED <<sc, bin, outside>>

(* subnet import public: neither does this one ask; it writes the genesis  *)
(* before it knows the type and the version of the VM.                     *)
ImportRunning(t, n) ==
    /\ At(t, "idle")
    /\ n \in Public
    /\ nextId <= MaxIds
    /\ nextId' = nextId + 1
    /\ genesis' = Genesis(nextId)
    /\ cmd' = Others(t, [Idle EXCEPT !.pc = "running", !.what = n, !.gen = genesis'])
    /\ UNCHANGED <<sc, bin, bundle, cut>>

WriteRunningSidecar(t) ==
    /\ At(t, "running")
    /\ CreateSidecar(t, [NoSidecar EXCEPT !.id = cmd[t].gen.id, !.vm = "evm",
                            !.nets = {cmd[t].what}], {"pair", "bin"})
    /\ cmd' = Others(t, Idle)
    /\ UNCHANGED <<genesis, bin, outside>>

-----------------------------------------------------------------------------
(* subnet deploy loads the sidecar, takes its time, ...                    *)
BeginDeploy(t, n) ==
    /\ Loadable
    /\ Start(t, [Idle EXCEPT !.pc = "deploy", !.what = n, !.sc = sc])
    /\ Keep

(* ... and adds its network to what it loaded.                             *)
UpdateSidecarNetworks(t) ==
    /\ At(t, "deploy")
    /\ UpdateSidecar(t, [cmd[t].sc EXCEPT !.nets = @ \cup {cmd[t].what}])
    /\ UNCHANGED <<genesis, bin, outside>>

(* subnet publish: from Testnet or Mainnet, but it is the ID on Testnet    *)
(* that is published.  That it has been published before is never noticed. *)
ReadyToPublish == Loadable /\ sc.nets \cap Public # {}

BeginPublish(t) ==
    /\ ReadyToPublish
    /\ Start(t, [Idle EXCEPT !.pc = "publish", !.sc = sc,
                    !.what = IF Published \in sc.nets THEN "subnet" ELSE "empty"])
    /\ Keep

(* The specifications go into the repository, or the push fails.           *)
Push(t) == At(t, "publish") /\ Finish(t) /\ Keep

-----------------------------------------------------------------------------
(* What an interrupted command leaves behind.                              *)
Writing == {"sidecar", "imported", "running", "empty"}
Mixed(t) == IF cmd[t].pc \in Writing THEN {"pair"} ELSE {}

Crash(t) ==
    /\ "crash" \in Faults
    /\ ~At(t, "idle")
    /\ cut' = cut \cup Mixed(t)
    /\ Finish(t)
    /\ UNCHANGED <<disk, outside>>

(* os.WriteFile truncates the sidecar first.                               *)
TornWrite(t) ==
    /\ "torn" \in Faults
    /\ cmd[t].pc \in {"sidecar", "imported", "opm", "running", "fields", "deploy"}
    /\ cmd[t].pc = "opm" \/ DirExists
    /\ sc' = Torn
    /\ cmd' = Others(t, Idle)
    /\ cut' = cut \cup {"pair"}
    /\ UNCHANGED <<genesis, bin, outside>>

Lists(p) == IF p = "txAllowList" THEN SUBSET Addresses ELSE {{}}

Wizard(t) ==
    \/ StartWizard(t) \/ Descriptors(t) \/ FeeConfig(t) \/ AirdropBack(t) \/ PrecompilesDone(t)
    \/ \E alloc \in Airdrops : Airdrop(t, alloc)
    \/ \E p \in Precompiles : \E admins \in Lists(p) : AddPrecompile(t, p, admins)
    \/ Verified(t) \/ NotVerified(t)

Create(t) ==
    \/ \E force \in BOOLEAN : BeginCreate(t, force)
    \/ GivenGenesis(t) \/ Wizard(t)
    \/ ChooseRepo(t) \/ RemoveOldBinary(t) \/ AskRpc(t)
    \/ \E v \in Rpcs : CopyVMBinary(t, v) \/ BuildCustomVM(t, v)
    \/ WriteNewGenesis(t) \/ WriteNewSidecar(t)

Export(t) ==
    \/ BeginExport(t) \/ SetSourceFields(t) \/ WriteBundle(t) \/ NoGenesisToExport(t)
    \/ BeginPublish(t) \/ Push(t)

Import(t) ==
    \/ \E force \in BOOLEAN : BeginImport(t, force)
    \/ CheckRpc(t) \/ WriteImportedFiles(t) \/ WriteImportedSidecar(t)
    \/ ImportOPM(t) \/ WriteOPMSidecar(t) \/ WriteEmptyGenesis(t)
    \/ \E n \in Networks : ImportRunning(t, n)
    \/ WriteRunningSidecar(t)

Next == \E t \in Terminals :
    \/ t \in Makers /\ (Create(t) \/ Import(t))
    \/ Export(t)
    \/ Delete(t) \/ RemoveDir(t)
    \/ \E n \in Networks : BeginDeploy(t, n)
    \/ UpdateSidecarNetworks(t)
    \/ Fails(t) \/ Crash(t) \/ TornWrite(t)

Spec == Init /\ [][Next]_vars

-----------------------------------------------------------------------------
GenesisFile == [id : 0..MaxIds, listed : BOOLEAN, funded : BOOLEAN]
Sidecar == [id : 0..MaxIds, vm : {"none", "torn", "evm", "custom", "opm"}, repo : BOOLEAN,
            rpc : Rpcs \cup {0}, nets : SUBSET Networks]
Pcs == Working \cup Writing \cup {"idle", "write", "rmdir", "bundle", "publish"}

(* Every variable keeps its type, and a custom VM that was not imported    *)
(* from a repository has the RPC version of its binary.                    *)
TypeOK ==
    /\ genesis \in GenesisFile
    /\ sc \in Sidecar
    /\ sc.vm = "custom" => sc.rpc # 0
    /\ bin \in Rpcs \cup {0}
    /\ bundle \in [sc : Sidecar, gen : GenesisFile]
    /\ \A t \in Terminals :
           /\ cmd[t].pc \in Pcs
           /\ cmd[t].sc \in Sidecar /\ cmd[t].gen \in GenesisFile
           /\ cmd[t].left \subseteq Precompiles
    /\ nextId \in 1..(MaxIds + 1)
    /\ cut \subseteq {"pair", "bin"}

(* "none of the addresses in the transaction allow list precompile have    *)
(* any tokens allocated to them": whichever way the user goes back and     *)
(* forth, a genesis whose allow list has admins gives one of them tokens.  *)
AdminsFunded == genesis.listed => genesis.funded

(* Genesis and sidecar are of the same creation or import, and a custom VM *)
(* has a binary that speaks the RPC version of its sidecar, unless a       *)
(* command was interrupted, failed after it had begun to build, or wrote   *)
(* what another one had changed.                                           *)
ConfigIsWhole ==
    (\A t \in Terminals : cmd[t].pc \notin Writing) =>
        /\ "pair" \notin cut => genesis.id = sc.id
        /\ "bin" \notin cut /\ sc.vm = "custom" => bin = sc.rpc

(* deploy and export write all of a sidecar that they loaded minutes ago:  *)
(* no deployment is forgotten and nothing else changes, unless another     *)
(* command has written to the store in between.                            *)
Updates(t) == cmd[t].pc \in {"deploy", "fields"} /\ cmd'[t].pc = "idle" /\ sc' # Torn

UpdateKeeps ==
    [][\A t \in Terminals : Updates(t) /\ ~cmd[t].stale =>
          /\ sc.nets \subseteq sc'.nets
          /\ <<sc.id, sc.vm, sc.rpc>> = <<sc'.id, sc'.vm, sc'.rpc>>]_vars
=============================================================================
