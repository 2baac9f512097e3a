---------------------------- MODULE ElasticSubnet ----------------------------
(***************************************************************************)
(* The transformation of a permissioned subnet into an elastic one, and    *)
(* what is done with its validators afterwards: `subnet elastic`, `subnet  *)
(* join --elastic`, `subnet addPermissionlessDelegator`, `subnet           *)
(* removeValidator` and the part of `network clean` that forgets an        *)
(* elastic subnet.                                                         *)
(*                                                                         *)
(* The model is about one subnet configuration on one network, the local   *)
(* one or Testnet, and one terminal; on Testnet a second person may commit *)
(* a transformation that was saved for more signatures.  The asset of the  *)
(* subnet is created on the A-Chain and moved to the O-Chain, which only   *)
(* then takes the transformation: four transactions, of which a command    *)
(* may lose any answer.                                                    *)
(***************************************************************************)
EXTENDS Integers, FiniteSets

CONSTANTS
    Networks,     \* where the subnet may be deployed: "local", "testnet"
    Nodes,        \* the nodes of the network
    Configs,      \* elastic configurations a user may give
    GivenStakes,  \* values of --stake-amount, taken as they are
    Periods,      \* staking periods a user may choose
    FixedPeriod,  \* the period of the validators that `elastic` replaces
    Faults,       \* the kinds of failure a run admits
    MaxSubs,      \* bound: deployments in one behaviour
    MaxAssets     \* bound: assets created in one behaviour

FaultKinds == {
    "crash",     \* a command is interrupted between two of its calls
    "reject",    \* a transaction cannot be built or is rejected
    "timeout" }  \* a transaction is accepted after the client gave up

(* What the prompts compare with what: the supplies, ...                   *)
SuppliesOK(c) == c.initial <= c.most

(* ... the stakes of validators, ...                                       *)
ValidatorStakeOK(c) ==
    /\ 0 < c.min /\ c.min <= c.initial
    /\ c.min < c.max /\ c.max <= c.most

(* ... and that of delegators, which is compared with nothing else.        *)
DelegatorStakeOK(c) == c.del > 0

(* A period is at most so long, and neither limit is compared with the     *)
(* period that `elastic` itself will ask for.                              *)
DurationsOK(c) ==
    /\ 0 < c.short /\ c.short <= c.long
    /\ 0 < c.dshort /\ c.dshort <= c.dlong

Config == [initial : Nat, most : Nat, min : Nat, max : Nat, del : Nat,
           short : Nat, long : Nat, dshort : Nat, dlong : Nat]

ASSUME ElasticAssumption ==
    /\ Networks \subseteq {"local", "testnet"} /\ Networks # {}
    /\ IsFiniteSet(Nodes)
    /\ Configs \subseteq Config
    /\ \A c \in Configs : /\ SuppliesOK(c) /\ ValidatorStakeOK(c)
                          /\ DelegatorStakeOK(c) /\ DurationsOK(c)
    /\ Periods \subseteq Nat /\ FixedPeriod \in Periods
    /\ GivenStakes \subseteq Nat \ {0}
    /\ Faults \subseteq FaultKinds
    /\ MaxSubs \in Nat /\ MaxAssets \in Nat

VARIABLES
    net,      \* the network of this behaviour
    chain,    \* O-Chain: the subnet, its staking asset, limits and validators
    where,    \* where the supply of each asset is
    sidecar,  \* the Networks and ElasticSubnet entries of the network
    file,     \* elastic_subnet_config.json
    saved,    \* a transformation saved for more signatures
    cmd,      \* the command that runs
    nextSub,  \* the next subnet ID
    lost      \* some answer never reached a command (history)

vars == <<net, chain, where, sidecar, file, saved, cmd, nextSub, lost>>

-----------------------------------------------------------------------------
Assets == 1..MaxAssets
Places == {"none", "achain", "flight", "ochain", "gone"}

(* "perm": added by the owner of the subnet; "pending" and "elastic":      *)
(* added without permission, before and after its start time.              *)
Status == {"out", "perm", "pending", "elastic"}

NoConfig == [initial |-> 0, most |-> 0, min |-> 0, max |-> 0, del |-> 0,
             short |-> 0, long |-> 0, dshort |-> 0, dlong |-> 0]
NoFile == [sub |-> 0, asset |-> 0, cfg |-> NoConfig]
NoTxs == [create |-> 0, exp |-> FALSE, imp |-> FALSE]

(* An ElasticSubnet entry: there or not, what the transformation recorded, *)
(* the partial transactions and the validators that joined.                *)
NoEntry == [there |-> FALSE, sub |-> 0, asset |-> 0, txs |-> NoTxs, vals |-> {}]

NoChain == [sub |-> 0, asset |-> 0, cfg |-> NoConfig, free |-> 0,
            val |-> [n \in Nodes |-> "out"]]

Idle == [pc |-> "idle", kind |-> "none", asset |-> 0, cfg |-> NoConfig,
         list |-> {}, many |-> FALSE, stake |-> 0, period |-> 0, node |-> "none"]

Is(S) == {n \in Nodes : chain.val[n] \in S}
Current == Is({"perm", "elastic"})

Running == cmd.pc # "idle"
Goto(p) == cmd' = [cmd EXCEPT !.pc = p]
Finish == cmd' = Idle

Init ==
    /\ net \in Networks
    /\ chain = NoChain
    /\ where = [a \in Assets |-> "none"]
    /\ sidecar = [sub |-> 0, elastic |-> NoEntry]
    /\ file = NoFile
    /\ saved = NoFile
    /\ cmd = Idle
    /\ nextSub = 1
    /\ lost = FALSE

(* A transaction that does not go through ends the command.  A client that *)
(* gives up does not know that it was accepted all the same.               *)
Rejected == "reject" \in Faults /\ Finish /\ UNCHANGED lost
GaveUp == "timeout" \in Faults /\ Finish /\ lost' = TRUE

(* subnet deploy, which `elastic` offers to run first: the nodes of a      *)
(* local network validate the subnet.  UpdateSidecarNetworks leaves the    *)
(* ElasticSubnet entries alone.                                            *)
Deploy ==
    /\ ~Running
    /\ chain.sub = 0
    /\ nextSub <= MaxSubs
    /\ chain' = [NoChain EXCEPT !.sub = nextSub,
                    !.val = [n \in Nodes |-> IF net = "local" THEN "perm" ELSE "out"]]
    /\ sidecar' = [sidecar EXCEPT !.sub = nextSub]
    /\ nextSub' = nextSub + 1
    /\ UNCHANGED <<net, where, file, saved, cmd, lost>>

-----------------------------------------------------------------------------
(* transformElasticSubnet up to the first transaction.  A local subnet is  *)
(* elastic if its sidecar says so, another one if the O-Chain says so.     *)
(* Mutant of AlreadyElastic: the answer of the O-Chain the wrong way round.*)
NotElasticYet ==
    IF net = "local" THEN sidecar.elastic.there ELSE chain.asset = 0

AlreadyElastic ==
    IF net = "local" THEN sidecar.elastic.there ELSE chain.asset # 0

BeginElastic(c) ==
    /\ ~Running
    /\ sidecar.sub # 0
    /\ chain.sub # 0
    /\ ~AlreadyElastic
    /\ cmd' = [Idle EXCEPT !.pc = "create", !.kind = "elastic", !.cfg = c]
    /\ UNCHANGED <<net, chain, where, sidecar, file, saved, nextSub, lost>>

(* checkIfTxHasOccurred: what an earlier command recorded is not done      *)
(* again.  Nothing is recorded of a transformation on the local network.   *)
HasOccurred(done) == net = "testnet" /\ done

(* Mutant of SkipCreate: the recorded asset is not taken over.             *)
SkipCreateOnly ==
    /\ cmd.pc = "create"
    /\ HasOccurred(sidecar.elastic.txs.create # 0)
    /\ Goto("export")
    /\ UNCHANGED <<net, chain, where, sidecar, file, saved, nextSub, lost>>

SkipCreate ==
    /\ cmd.pc = "create"
    /\ HasOccurred(sidecar.elastic.txs.create # 0)
    /\ cmd' = [cmd EXCEPT !.pc = "export", !.asset = sidecar.elastic.txs.create]
    /\ UNCHANGED <<net, chain, where, sidecar, file, saved, nextSub, lost>>

Fresh(a) == where[a] = "none" /\ \A b \in Assets : where[b] = "none" => a <= b

(* createAssetID, getAssetID: the whole maximum supply on the A-Chain.     *)
CreateAsset(a) ==
    /\ cmd.pc = "create"
    /\ ~HasOccurred(sidecar.elastic.txs.create # 0)
    /\ Fresh(a)
    /\ where' = [where EXCEPT ![a] = "achain"]
    /\ cmd' = [cmd EXCEPT !.asset = a,
                          !.pc = IF net = "local" THEN "export" ELSE "noteCreate"]
    /\ UNCHANGED <<net, chain, sidecar, file, saved, nextSub, lost>>

CreateAssetFails(a) ==
    /\ cmd.pc = "create"
    /\ ~HasOccurred(sidecar.elastic.txs.create # 0)
    /\ Fresh(a)
    /\ \/ Rejected /\ UNCHANGED where
       \/ GaveUp /\ where' = [where EXCEPT ![a] = "achain"]
    /\ UNCHANGED <<net, chain, sidecar, file, saved, nextSub>>

(* UpdateSidecarElasticSubnetPartialTx makes the entry anew, with the      *)
(* partial transactions only.                                              *)
Partial(txs) == sidecar' = [sidecar EXCEPT !.elastic = [NoEntry EXCEPT !.there = TRUE, !.txs = txs]]

NoteCreate ==
    /\ cmd.pc = "noteCreate"
    /\ Partial([sidecar.elastic.txs EXCEPT !.create = cmd.asset])
    /\ Goto("export")
    /\ UNCHANGED <<net, chain, where, file, saved, nextSub, lost>>

SkipExport ==
    /\ cmd.pc = "export"
    /\ HasOccurred(sidecar.elastic.txs.exp)
    /\ Goto("import")
    /\ UNCHANGED <<net, chain, where, sidecar, file, saved, nextSub, lost>>

AfterExport == IF net = "local" THEN "import" ELSE "noteExport"

(* exportToOChain needs the supply on the A-Chain.                         *)
ExportAsset ==
    /\ cmd.pc = "export"
    /\ ~HasOccurred(sidecar.elastic.txs.exp)
    /\ where[cmd.asset] = "achain"
    /\ where' = [where EXCEPT ![cmd.asset] = "flight"]
    /\ Goto(AfterExport)
    /\ UNCHANGED <<net, chain, sidecar, file, saved, nextSub, lost>>

(* Mutant of ExportAssetFails: its error is not looked at.                 *)
ExportUnchecked ==
    /\ cmd.pc = "export"
    /\ ~HasOccurred(sidecar.elastic.txs.exp)
    /\ "reject" \in Faults
    /\ Goto(AfterExport)
    /\ UNCHANGED <<net, chain, where, sidecar, file, saved, nextSub, lost>>

ExportAssetFails ==
    /\ cmd.pc = "export"
    /\ ~HasOccurred(sidecar.elastic.txs.exp)
    /\ \/ Rejected /\ UNCHANGED where
       \/ /\ where[cmd.asset] = "achain"
          /\ GaveUp
          /\ where' = [where EXCEPT ![cmd.asset] = "flight"]
       \/ /\ where[cmd.asset] # "achain"
          /\ Finish
          /\ UNCHANGED <<where, lost>>
    /\ UNCHANGED <<net, chain, sidecar, file, saved, nextSub>>

NoteExport ==
    /\ cmd.pc = "noteExport"
    /\ Partial([sidecar.elastic.txs EXCEPT !.exp = TRUE])
    /\ Goto("import")
    /\ UNCHANGED <<net, chain, where, file, saved, nextSub, lost>>

SkipImport ==
    /\ cmd.pc = "import"
    /\ HasOccurred(sidecar.elastic.txs.imp)
    /\ Goto("transform")
    /\ UNCHANGED <<net, chain, where, sidecar, file, saved, nextSub, lost>>

InFlight == {a \in Assets : where[a] = "flight"}
Arrived == [a \in Assets |-> IF where[a] = "flight" THEN "ochain" ELSE where[a]]

(* importFromAChain takes whatever was exported to the address; there must *)
(* be something.                                                           *)
ImportAsset ==
    /\ cmd.pc = "import"
    /\ ~HasOccurred(sidecar.elastic.txs.imp)
    /\ InFlight # {}
    /\ where' = Arrived
    /\ Goto(IF net = "local" THEN "transform" ELSE "noteImport")
    /\ UNCHANGED <<net, chain, sidecar, file, saved, nextSub, lost>>

ImportAssetFails ==
    /\ cmd.pc = "import"
    /\ ~HasOccurred(sidecar.elastic.txs.imp)
    /\ \/ Rejected /\ UNCHANGED where
       \/ InFlight # {} /\ GaveUp /\ where' = Arrived
       \/ InFlight = {} /\ Finish /\ UNCHANGED <<where, lost>>
    /\ UNCHANGED <<net, chain, sidecar, file, saved, nextSub>>

NoteImport ==
    /\ cmd.pc = "noteImport"
    /\ Partial([sidecar.elastic.txs EXCEPT !.imp = TRUE])
    /\ Goto("transform")
    /\ UNCHANGED <<net, chain, where, file, saved, nextSub, lost>>

(* The transaction itself: what is not in circulation yet is locked, the   *)
(* rest stays in the wallet.                                               *)
CanTransform(a) == chain.sub # 0 /\ chain.asset = 0 /\ where[a] = "ochain"
Transformed(a, c) ==
    chain' = [chain EXCEPT !.asset = a, !.cfg = c, !.free = c.initial]

TransformSubnet ==
    /\ cmd.pc = "transform"
    /\ CanTransform(cmd.asset)
    /\ Transformed(cmd.asset, cmd.cfg)
    /\ Goto("file")
    /\ UNCHANGED <<net, where, sidecar, file, saved, nextSub, lost>>

(* Mutant of TransformSubnetFails: its error is not looked at.             *)
TransformUnchecked ==
    /\ cmd.pc = "transform"
    /\ "reject" \in Faults
    /\ Goto("file")
    /\ UNCHANGED <<net, chain, where, sidecar, file, saved, nextSub, lost>>

TransformSubnetFails ==
    /\ cmd.pc = "transform"
    /\ \/ Rejected /\ UNCHANGED chain
       \/ CanTransform(cmd.asset) /\ GaveUp /\ Transformed(cmd.asset, cmd.cfg)
       \/ ~CanTransform(cmd.asset) /\ Finish /\ UNCHANGED <<chain, lost>>
    /\ UNCHANGED <<net, where, sidecar, file, saved, nextSub>>

(* Not fully signed: SaveNotFullySignedTx, and nothing is recorded, then   *)
(* or when transaction commit issues it.                                   *)
SaveTransform ==
    /\ cmd.pc = "transform" /\ net = "testnet"
    /\ where[cmd.asset] = "ochain"
    /\ saved' = [sub |-> chain.sub, asset |-> cmd.asset, cfg |-> cmd.cfg]
    /\ Finish
    /\ UNCHANGED <<net, chain, where, sidecar, file, nextSub, lost>>

CommitTransform ==
    /\ saved # NoFile
    /\ CanTransform(saved.asset)
    /\ Transformed(saved.asset, saved.cfg)
    /\ UNCHANGED <<net, where, sidecar, file, saved, cmd, nextSub, lost>>

(* CreateElasticSubnetConfig.                                              *)
WriteConfig ==
    /\ cmd.pc = "file"
    /\ file' = [sub |-> chain.sub, asset |-> cmd.asset, cfg |-> cmd.cfg]
    /\ Goto("record")
    /\ UNCHANGED <<net, chain, where, sidecar, saved, nextSub, lost>>

(* UpdateSidecarElasticSubnet keeps the partial transactions.              *)
RecordElastic ==
    /\ cmd.pc = "record"
    /\ sidecar' = [sidecar EXCEPT !.elastic =
            [NoEntry EXCEPT !.there = TRUE, !.sub = sidecar.sub,
                            !.asset = cmd.asset, !.txs = sidecar.elastic.txs]]
    /\ IF net = "local" THEN Goto("validators") ELSE Finish
    /\ UNCHANGED <<net, chain, where, file, saved, nextSub, lost>>

(* The subnet is transformed from another machine.                         *)
OthersTransform(a, c) ==
    /\ net = "testnet" /\ chain.sub # 0 /\ chain.asset = 0
    /\ Fresh(a)
    /\ where' = [where EXCEPT ![a] = "ochain"]
    /\ Transformed(a, c)
    /\ UNCHANGED <<net, sidecar, file, saved, cmd, nextSub, lost>>

-----------------------------------------------------------------------------
(* promptStakeAmount: --stake-amount as it is; on the local network what   *)
(* the configuration file says is the most, even if the wallet has less,   *)
(* or an amount between its limits; elsewhere any amount.                  *)
Balance(a) == IF a = chain.asset THEN chain.free ELSE 0

StakeChoices(least) ==
    GivenStakes \cup
    IF net # "local" THEN 0..chain.cfg.most
    ELSE IF file = NoFile THEN {}
    ELSE {file.cfg.max} \cup {s \in least..file.cfg.max : s <= Balance(file.asset)}

DeclineValidators ==
    /\ cmd.pc = "validators"
    /\ Finish
    /\ UNCHANGED <<net, chain, where, sidecar, file, saved, nextSub, lost>>

(* transformValidatorsToPermissionlessLocal: one stake and one period for  *)
(* all of those that GetSubnetValidators returns.                          *)
ChooseStake(s) ==
    /\ cmd.pc = "validators"
    /\ cmd' = [cmd EXCEPT !.stake = s, !.period = FixedPeriod, !.list = Current,
                          !.many = Cardinality(Current) > 1,
                          !.pc = IF Current = {} THEN "settle" ELSE "drop"]
    /\ UNCHANGED <<net, chain, where, sidecar, file, saved, nextSub, lost>>

(* time.Sleep(StakingMinimumLeadTime): what was added before has started.  *)
Slept == Is({"pending"}) = {}

Dropped(n) == chain' = [chain EXCEPT !.val[n] = "out"]

(* Mutant of DropValidator: the last one is not waited for.                *)
DropAtOnce(n) ==
    /\ cmd.pc = "drop" /\ n \in cmd.list
    /\ chain.val[n] = "perm"
    /\ Dropped(n)
    /\ cmd' = [cmd EXCEPT !.pc = "add", !.node = n, !.list = @ \ {n}]
    /\ UNCHANGED <<net, where, sidecar, file, saved, nextSub, lost>>

(* "Remove first 4 nodes locally, wait for minimum lead time (25 seconds)  *)
(* and then remove the last node": IssueRemoveSubnetValidatorTx.           *)
DropValidator(n) ==
    /\ cmd.pc = "drop" /\ n \in cmd.list
    /\ cmd.list = {n} => Slept
    /\ chain.val[n] = "perm"
    /\ Dropped(n)
    /\ cmd' = [cmd EXCEPT !.pc = "add", !.node = n, !.list = @ \ {n}]
    /\ UNCHANGED <<net, where, sidecar, file, saved, nextSub, lost>>

DropValidatorFails(n) ==
    /\ cmd.pc = "drop" /\ n \in cmd.list
    /\ cmd.list = {n} => Slept
    /\ \/ Rejected /\ UNCHANGED chain
       \/ chain.val[n] = "perm" /\ GaveUp /\ Dropped(n)
    /\ UNCHANGED <<net, where, sidecar, file, saved, nextSub>>

(* AddPermissionlessValidatorTx: the staking asset, a stake and a period   *)
(* within the limits of the subnet, a wallet that has the stake, and a     *)
(* node that does not validate and will not.                               *)
Stakes(a, least, s) ==
    /\ chain.asset # 0 /\ a = chain.asset
    /\ least <= s /\ s <= chain.cfg.max /\ s <= chain.free

CanAdd(n) ==
    /\ Stakes(cmd.asset, chain.cfg.min, cmd.stake)
    /\ cmd.period \in chain.cfg.short..chain.cfg.long
    /\ chain.val[n] = "out"
Added(n) == chain' = [chain EXCEPT !.val[n] = "pending", !.free = @ - cmd.stake]

AddValidator(n) ==
    /\ cmd.pc = "add" /\ cmd.node = n
    /\ CanAdd(n)
    /\ Added(n)
    /\ Goto("noteValidator")
    /\ UNCHANGED <<net, where, sidecar, file, saved, nextSub, lost>>

AddValidatorFails(n) ==
    /\ cmd.pc = "add" /\ cmd.node = n
    /\ \/ Rejected /\ UNCHANGED chain
       \/ CanAdd(n) /\ GaveUp /\ Added(n)
       \/ ~CanAdd(n) /\ Finish /\ UNCHANGED <<chain, lost>>
    /\ UNCHANGED <<net, where, sidecar, file, saved, nextSub>>

AfterNote ==
    IF cmd.kind = "join" THEN Finish
    ELSE Goto(IF cmd.list = {} THEN "settle" ELSE "drop")

(* UpdateSidecarPermissionlessValidator.                                   *)
NoteValidator ==
    /\ cmd.pc = "noteValidator"
    /\ sidecar' = [sidecar EXCEPT !.elastic.there = TRUE,
                                  !.elastic.vals = @ \cup {cmd.node}]
    /\ AfterNote
    /\ UNCHANGED <<net, chain, where, file, saved, nextSub, lost>>

(* It adds to a map that is nil in a sidecar without ElasticSubnet.        *)
NoteValidatorPanics ==
    /\ cmd.pc = "noteValidator"
    /\ ~sidecar.elastic.there
    /\ Finish
    /\ UNCHANGED <<net, chain, where, sidecar, file, saved, nextSub, lost>>

(* The last sleep; checkAllLocalNodesAreCurrentValidators only reports.    *)
Settle ==
    /\ cmd.pc = "settle"
    /\ Slept
    /\ Finish
    /\ UNCHANGED <<net, chain, where, sidecar, file, saved, nextSub, lost>>

-----------------------------------------------------------------------------
(* The asset that join and addPermissionlessDelegator stake: of the local  *)
(* sidecar, which has to be of an elastic subnet, or of the O-Chain.       *)
StakingAsset == IF net = "local" THEN sidecar.elastic.asset ELSE chain.asset
MayStake ==
    /\ sidecar.sub # 0 /\ chain.sub # 0
    /\ IF net = "local" THEN sidecar.elastic.there ELSE chain.asset # 0

(* promptNodeIDToAdd offers the local nodes that do not validate yet.      *)
BeginJoin(n, s, p) ==
    /\ ~Running
    /\ MayStake
    /\ net = "local" => n \notin Current
    /\ cmd' = [Idle EXCEPT !.pc = "add", !.kind = "join", !.node = n,
                           !.stake = s, !.period = p, !.asset = StakingAsset]
    /\ UNCHANGED <<net, chain, where, sidecar, file, saved, nextSub, lost>>

(* addPermissionlessDelegator records nothing.                             *)
Delegate(n, s, p) ==
    /\ ~Running
    /\ MayStake
    /\ net = "local" => n \in Current
    /\ Stakes(StakingAsset, chain.cfg.del, s)
    /\ p \in chain.cfg.dshort..chain.cfg.dlong
    /\ chain.val[n] \in {"pending", "elastic"}
    /\ chain' = [chain EXCEPT !.free = @ - s]
    /\ UNCHANGED <<net, where, sidecar, file, saved, cmd, nextSub, lost>>

(* removeValidator takes a current validator; the O-Chain removes one that *)
(* the owner added.                                                        *)
RemoveValidator(n) ==
    /\ ~Running
    /\ sidecar.sub # 0
    /\ n \in Current
    /\ chain.val[n] = "perm"
    /\ Dropped(n)
    /\ UNCHANGED <<net, where, sidecar, file, saved, cmd, nextSub, lost>>

(* A validator added without permission starts at its start time.          *)
Activate(n) ==
    /\ chain.val[n] = "pending"
    /\ chain' = [chain EXCEPT !.val[n] = "elastic"]
    /\ UNCHANGED <<net, where, sidecar, file, saved, cmd, nextSub, lost>>

-----------------------------------------------------------------------------
(* network clean: the local network and all that was on it is gone, then   *)
(* removeLocalDeployInfoFromSidecars, ...                                  *)
BeginClean ==
    /\ ~Running
    /\ net = "local"
    /\ chain' = NoChain
    /\ where' = [a \in Assets |-> IF where[a] = "none" THEN "none" ELSE "gone"]
    /\ cmd' = [Idle EXCEPT !.pc = "cleanNetworks", !.kind = "clean"]
    /\ UNCHANGED <<net, sidecar, file, saved, nextSub, lost>>

CleanNetworks ==
    /\ cmd.pc = "cleanNetworks"
    /\ sidecar' = [sidecar EXCEPT !.sub = 0]
    /\ Goto("cleanElastic")
    /\ UNCHANGED <<net, chain, where, file, saved, nextSub, lost>>

(* ... removeLocalElasticSubnetInfoFromSidecars, the entry first and then  *)
(* the file.                                                               *)
CleanElastic ==
    /\ cmd.pc = "cleanElastic"
    /\ sidecar' = [sidecar EXCEPT !.elastic = NoEntry]
    /\ IF sidecar.elastic.there THEN Goto("cleanFile") ELSE Finish
    /\ UNCHANGED <<net, chain, where, file, saved, nextSub, lost>>

CleanFile ==
    /\ cmd.pc = "cleanFile"
    /\ file' = NoFile
    /\ Finish
    /\ UNCHANGED <<net, chain, where, sidecar, saved, nextSub, lost>>

Answered == {"noteCreate", "noteExport", "noteImport", "file", "record", "noteValidator"}

Crash ==
    /\ "crash" \in Faults
    /\ Running
    /\ Finish
    /\ lost' = (lost \/ cmd.pc \in Answered)
    /\ UNCHANGED <<net, chain, where, sidecar, file, saved, nextSub>>

-----------------------------------------------------------------------------
MoveAsset ==
    \/ \E a \in Assets : CreateAsset(a) \/ CreateAssetFails(a)
    \/ SkipCreate \/ NoteCreate
    \/ SkipExport \/ ExportAsset \/ ExportAssetFails \/ NoteExport
    \/ SkipImport \/ ImportAsset \/ ImportAssetFails \/ NoteImport

Transform ==
    \/ TransformSubnet \/ TransformSubnetFails \/ SaveTransform
    \/ WriteConfig \/ RecordElastic

TransformValidators ==
    \/ DeclineValidators
    \/ \E s \in StakeChoices(file.cfg.min) : ChooseStake(s)
    \/ \E n \in Nodes : DropValidator(n) \/ DropValidatorFails(n)
                        \/ AddValidator(n) \/ AddValidatorFails(n)
    \/ NoteValidator \/ NoteValidatorPanics \/ Settle

Clean == CleanNetworks \/ CleanElastic \/ CleanFile

Step == MoveAsset \/ Transform \/ TransformValidators \/ Clean

Next ==
    \/ Deploy \/ BeginClean
    \/ \E c \in Configs : BeginElastic(c)
    \/ \E n \in Nodes, s \in StakeChoices(file.cfg.min), p \in Periods : BeginJoin(n, s, p)
    \/ \E n \in Nodes, s \in StakeChoices(file.cfg.del), p \in Periods : Delegate(n, s, p)
    \/ \E n \in Nodes : RemoveValidator(n) \/ Activate(n)
    \/ \E a \in Assets, c \in Configs : OthersTransform(a, c)
    \/ CommitTransform
    \/ Step
    \/ Crash

Spec == Init /\ [][Next]_vars

(* A command that runs goes on; the one who wants the subnet elastic types *)
(* the command again until it is, and neither the network nor the one at   *)
(* the terminal stops it at the same place for ever.                       *)
FairSpec ==
    /\ Spec
    /\ WF_vars(Step)
    /\ \A n \in Nodes : WF_vars(Activate(n))
    /\ WF_vars(CommitTransform)
    /\ SF_vars(\E c \in Configs : BeginElastic(c))
    /\ SF_vars(SkipCreate \/ \E a \in Assets : CreateAsset(a))
    /\ SF_vars(SkipExport \/ ExportAsset)
    /\ SF_vars(SkipImport \/ ImportAsset)
    /\ SF_vars(TransformSubnet \/ SaveTransform)

-----------------------------------------------------------------------------
Pcs == {"idle", "create", "noteCreate", "export", "noteExport", "import", "noteImport",
        "transform", "file", "record", "validators", "drop", "add", "noteValidator",
        "settle", "cleanNetworks", "cleanElastic", "cleanFile"}

(* Every variable keeps its type, and an asset that is referred to exists. *)
TypeOK ==
    /\ net \in Networks
    /\ chain \in [sub : 0..MaxSubs, asset : 0..MaxAssets, cfg : Configs \cup {NoConfig},
                  free : Nat, val : [Nodes -> Status]]
    /\ where \in [Assets -> Places]
    /\ sidecar \in [sub : 0..MaxSubs,
          elastic : [there : BOOLEAN, sub : 0..MaxSubs, asset : 0..MaxAssets,
                     txs : [create : 0..MaxAssets, exp : BOOLEAN, imp : BOOLEAN],
                     vals : SUBSET Nodes]]
    /\ {file, saved} \subseteq
          [sub : 0..MaxSubs, asset : 0..MaxAssets, cfg : Configs \cup {NoConfig}]
    /\ cmd \in [pc : Pcs, kind : {"none", "elastic", "join", "clean"}, asset : 0..MaxAssets,
                cfg : Configs \cup {NoConfig}, list : SUBSET Nodes, many : BOOLEAN,
                stake : Nat, period : Periods \cup {0}, node : Nodes \cup {"none"}]
    /\ nextSub \in 1..(MaxSubs + 1)
    /\ lost \in BOOLEAN
    /\ cmd.pc \in {"export", "import", "transform"} => cmd.asset \in Assets

(* What a retry skips is done: `elastic` passes over the transactions that *)
(* an earlier command recorded, so the asset it goes on with exists, and   *)
(* its supply has left the A-Chain, or reached the O-Chain, whenever the   *)
(* sidecar says so.  And a retry does not create a second asset unless it  *)
(* never heard of the first.                                               *)
SkippedIsDone ==
    LET txs == sidecar.elastic.txs IN
    /\ txs.create # 0 => where[txs.create] # "none"
    /\ txs.exp => txs.create # 0 /\ where[txs.create] \in {"flight", "ochain"}
    /\ txs.imp => txs.exp /\ where[txs.create] = "ochain"
    /\ (net = "testnet" /\ ~lost /\ chain.asset = 0) =>
          Cardinality({a \in Assets : where[a] # "none"}) <= 1

(* An ElasticSubnet entry of the subnet that is there names the asset that *)
(* the O-Chain stakes, through retries, deployments and cleans: join and   *)
(* addPermissionlessDelegator stake what it names.                         *)
RecordedAsset ==
    LET e == sidecar.elastic IN
    e.asset # 0 /\ chain.sub # 0 /\ e.sub = chain.sub => chain.asset = e.asset

(* "so that we don't end up with a subnet without any current validators": *)
(* replacing two validators or more, `elastic` never removes the last one  *)
(* that validates, whatever fails on the way.                              *)
ElasticKeepsOne ==
    [][cmd.kind = "elastic" /\ cmd.many /\ chain'.sub = chain.sub /\ Current # {}
        => {n \in Nodes : chain'.val[n] \in {"perm", "elastic"}} # {}]_vars

(* While no answer is lost, failures and interruptions do not keep a       *)
(* subnet on Testnet from becoming elastic: typing the command again gets  *)
(* there in the end.                                                       *)
RetryCompletes ==
    []~lost => (net = "testnet" /\ chain.sub # 0 ~> chain.asset # 0)
=============================================================================
