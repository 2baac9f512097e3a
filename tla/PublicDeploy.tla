----------------------------- MODULE PublicDeploy -----------------------------
(***************************************************************************)
(* Deploying a subnet to a public network (testnet or mainnet), and the    *)
(* transactions that several people have to sign: `subnet deploy`, `subnet *)
(* addValidator` and `subnet removeValidator`, `transaction sign` and      *)
(* `transaction commit`.  Every user has a machine with a sidecar of the   *)
(* subnet and a wallet; the users pass transaction files around; the       *)
(* O-Chain accepts each transaction at most once.                          *)
(*                                                                         *)
(* The model is about one subnet configuration on one network.             *)
(***************************************************************************)
EXTENDS Integers, Sequences, FiniteSets

CONSTANTS
    Users,        \* people, each with a machine and a wallet
    Keys,         \* addresses
    Ordered,      \* a set of addresses in the order in which the O-Chain keeps it
    WalletOf,     \* the addresses each user can sign with
    Deployers,    \* the users who type `subnet deploy`
    Managers,     \* the users who type `subnet addValidator` or `removeValidator`
    OwnerChoices, \* control keys and threshold a deployer may ask for
    Paths,        \* transaction files, local or shared
    Flags,        \* values of --subnet-auth-keys, sequences of addresses
    Redeploy,     \* a deploy may be typed again once it is recorded
    IntoGiven,    \* a deploy may be given a --subnet-id
    Faults,       \* the kinds of failure a run admits, a subset of FaultKinds
    MaxIds        \* bound: transactions built in one behaviour

FaultKinds == {
    "crash",     \* a command is interrupted between two of its calls
    "query",     \* the O-Chain does not answer GetTx
    "reject",    \* a transaction cannot be built or is rejected
    "timeout",   \* a transaction is accepted after the client gave up
    "disk" }     \* a transaction file cannot be written

RangeOf(s) == {s[i] : i \in 1..Len(s)}

ASSUME PublicAssumption ==
    /\ Ordered \in [SUBSET Keys -> Seq(Keys)]
    /\ \A S \in SUBSET Keys : RangeOf(Ordered[S]) = S /\ Len(Ordered[S]) = Cardinality(S)
    /\ WalletOf \in [Users -> SUBSET Keys]
    /\ Deployers \subseteq Users /\ Managers \subseteq Users
    /\ OwnerChoices \subseteq [keys : Seq(Keys), thr : Nat \ {0}]
    /\ Flags \subseteq Seq(Keys)
    /\ Redeploy \in BOOLEAN /\ IntoGiven \in BOOLEAN
    /\ Faults \subseteq FaultKinds
    /\ MaxIds \in Nat

VARIABLES
    owners,    \* O-Chain: the owners of each subnet, by subnet ID
    accepted,  \* O-Chain: the accepted transactions
    sidecar,   \* each user's Networks entry: subnet and blockchain ID
    file,      \* the transaction files
    nextId,    \* the next transaction ID
    cmd        \* the command each user runs

vars == <<owners, accepted, sidecar, file, nextId, cmd>>

-----------------------------------------------------------------------------
(* ids.Empty is 0.  A transaction names the subnet's owners that have to   *)
(* sign it (SigIndices) and carries the signatures it has so far.          *)
Tx == [id : Nat, kind : {"chain", "validator"}, sub : Nat,
       idx : SUBSET Nat, signed : SUBSET Nat]

NoTx == [id |-> 0, kind |-> "none", sub |-> 0, idx |-> {}, signed |-> {}]
Corrupt == [NoTx EXCEPT !.kind = "corrupt"]

IsTx(t) == t.kind \in {"chain", "validator"}

NoSubnet == [keys |-> <<>>, thr |-> 0]
NoEntry == [sub |-> 0, chain |-> 0]

Idle == [pc |-> "idle", kind |-> "none", res |-> "none", path |-> "none",
         sub |-> 0, ctl |-> <<>>, thr |-> 0, auth |-> {}, tx |-> NoTx]

SubnetIds == {s \in 1..MaxIds : owners[s] # NoSubnet}

(* "check subnet authorization criteria" *)
CheckSubnetAuthKeys(wallet, auth, control, thr) ==
    /\ wallet \cap RangeOf(control) \subseteq RangeOf(auth)
    /\ Len(auth) = thr
    /\ RangeOf(auth) \subseteq RangeOf(control)

(* The keys a user can be led to choose; none when the wallet holds more   *)
(* control keys than the threshold, as the loop runs past it until the     *)
(* list is empty.                                                          *)
GetSubnetAuthKeys(wallet, control, thr) ==
    IF Len(control) = thr
    THEN {RangeOf(control)}
    ELSE {A \in SUBSET RangeOf(control) :
            wallet \cap RangeOf(control) \subseteq A /\ Cardinality(A) = thr}

(* --subnet-auth-keys when it is given, the prompts otherwise. *)
AuthChoices(u, control, thr) ==
    {RangeOf(a) : a \in {f \in Flags : CheckSubnetAuthKeys(WalletOf[u], f, control, thr)}}
    \cup GetSubnetAuthKeys(WalletOf[u], control, thr)

(* The wallet builder: the first owners, up to the threshold, among the    *)
(* addresses it is given.                                                  *)
SigIndices(control, addrs, thr) ==
    {i \in 1..Len(control) :
        control[i] \in addrs /\ Cardinality({j \in 1..i : control[j] \in addrs}) <= thr}

(* The wallet signs for every owner it has the key of. *)
SignedBy(u, control, idx) == {i \in idx : control[i] \in WalletOf[u]}

(* GetAuthSigners fails on an index out of the control keys; of the others *)
(* GetRemainingSigners returns those without a signature.                  *)
AuthSignersKnown(t, control) == t.idx \subseteq 1..Len(control)
AuthSigners(t, control) == {control[i] : i \in t.idx}
RemainingSigners(t, control) == {control[i] : i \in t.idx \ t.signed}

-----------------------------------------------------------------------------
Running(u) == cmd[u].pc # "idle"
Goto(u, p) == cmd' = [cmd EXCEPT ![u].pc = p]
Finish(u, r) ==
    cmd' = [cmd EXCEPT ![u] = [Idle EXCEPT !.kind = cmd[u].kind, !.res = r]]

Init ==
    /\ owners = [s \in 1..MaxIds |-> NoSubnet]
    /\ accepted = {}
    /\ sidecar = [u \in Users |-> NoEntry]
    /\ file = [p \in Paths |-> NoTx]
    /\ nextId = 1
    /\ cmd = [u \in Users |-> Idle]

(* The bound: a command that builds transactions needs two IDs at most. *)
Room ==
    LET building == {u \in Users : Running(u) /\ cmd[u].kind \in {"deploy", "validator"}}
    IN  nextId + 2 * Cardinality(building) < MaxIds

(* deploySubnet: a subnet that has no blockchain yet is reused. *)
BeginDeploy(u, p) ==
    /\ ~Running(u) /\ u \in Deployers
    /\ Room
    /\ Redeploy \/ sidecar[u].chain = 0
    /\ file[p] = NoTx
    /\ LET reuse == sidecar[u].sub # 0 /\ sidecar[u].chain = 0
       IN  cmd' = [cmd EXCEPT ![u] =
            [Idle EXCEPT !.kind = "deploy", !.path = p,
                         !.pc = IF reuse THEN "owners" ELSE "keys",
                         !.sub = IF reuse THEN sidecar[u].sub ELSE 0]]
    /\ UNCHANGED <<owners, accepted, sidecar, file, nextId>>

BeginDeployInto(u, p, s) ==
    /\ IntoGiven
    /\ ~Running(u) /\ u \in Deployers
    /\ Room
    /\ Redeploy \/ sidecar[u].chain = 0
    /\ file[p] = NoTx
    /\ cmd' = [cmd EXCEPT ![u] =
        [Idle EXCEPT !.kind = "deploy", !.path = p, !.pc = "owners", !.sub = s]]
    /\ UNCHANGED <<owners, accepted, sidecar, file, nextId>>

(* addValidator and removeValidator. *)
BeginValidator(u, p) ==
    /\ ~Running(u) /\ u \in Managers
    /\ Room
    /\ sidecar[u].sub # 0
    /\ file[p] = NoTx
    /\ cmd' = [cmd EXCEPT ![u] =
        [Idle EXCEPT !.kind = "validator", !.path = p, !.pc = "owners",
                     !.sub = sidecar[u].sub]]
    /\ UNCHANGED <<owners, accepted, sidecar, file, nextId>>

(* transaction sign and transaction commit load the file and the sidecar:  *)
(* the one goes on with the subnet of the transaction, the other with that *)
(* of the sidecar.                                                         *)
BeginSign(u, p) ==
    /\ ~Running(u)
    /\ IsTx(file[p])
    /\ sidecar[u].sub # 0
    /\ cmd' = [cmd EXCEPT ![u] =
        [Idle EXCEPT !.kind = "sign", !.path = p, !.pc = "owners",
                     !.sub = file[p].sub, !.tx = file[p]]]
    /\ UNCHANGED <<owners, accepted, sidecar, file, nextId>>

BeginCommit(u, p) ==
    /\ ~Running(u)
    /\ IsTx(file[p])
    /\ sidecar[u].sub # 0
    /\ cmd' = [cmd EXCEPT ![u] =
        [Idle EXCEPT !.kind = "commit", !.path = p, !.pc = "owners",
                     !.sub = sidecar[u].sub, !.tx = file[p]]]
    /\ UNCHANGED <<owners, accepted, sidecar, file, nextId>>

-----------------------------------------------------------------------------
(* The control keys, the threshold and the keys that will sign are settled *)
(* before a subnet is created.                                             *)
ChooseKeys(u, o) ==
    /\ cmd[u].pc = "keys"
    /\ \E A \in AuthChoices(u, o.keys, o.thr) :
        cmd' = [cmd EXCEPT ![u].pc = "subnet", ![u].ctl = o.keys,
                           ![u].thr = o.thr, ![u].auth = A]
    /\ UNCHANGED <<owners, accepted, sidecar, file, nextId>>

ChooseKeysFails(u, o) ==
    /\ cmd[u].pc = "keys"
    /\ AuthChoices(u, o.keys, o.thr) = {}
    /\ Finish(u, "err")
    /\ UNCHANGED <<owners, accepted, sidecar, file, nextId>>

Own(u) == owners' = [owners EXCEPT ![nextId] =
                        [keys |-> Ordered[RangeOf(cmd[u].ctl)], thr |-> cmd[u].thr]]

(* Mutant of CreateSubnet: its error is not looked at. *)
CreateSubnetUnchecked(u) ==
    /\ cmd[u].pc = "subnet"
    /\ nextId <= MaxIds
    /\ Own(u) \/ UNCHANGED owners
    /\ nextId' = nextId + 1
    /\ cmd' = [cmd EXCEPT ![u].pc = "order", ![u].sub = nextId]
    /\ UNCHANGED <<accepted, sidecar, file>>

CreateSubnet(u) ==
    /\ cmd[u].pc = "subnet"
    /\ nextId <= MaxIds
    /\ Own(u)
    /\ nextId' = nextId + 1
    /\ cmd' = [cmd EXCEPT ![u].pc = "order", ![u].sub = nextId]
    /\ UNCHANGED <<accepted, sidecar, file>>

CreateSubnetFails(u) ==
    /\ cmd[u].pc = "subnet"
    /\ nextId <= MaxIds
    /\ \/ "reject" \in Faults /\ UNCHANGED <<owners, nextId>>
       \/ "timeout" \in Faults /\ Own(u) /\ nextId' = nextId + 1
    /\ Finish(u, "err")
    /\ UNCHANGED <<accepted, sidecar, file>>

(* Mutant of OrderKeys: the keys stay in the order the user gave. *)
KeepUserOrder(u) ==
    /\ cmd[u].pc = "order"
    /\ cmd' = [cmd EXCEPT ![u].pc = "build"]
    /\ UNCHANGED <<owners, accepted, sidecar, file, nextId>>

(* "get the control keys in the same order as the tx" *)
OrderKeys(u) ==
    /\ cmd[u].pc = "order"
    /\ cmd' = [cmd EXCEPT ![u].pc = "build", ![u].ctl = owners[cmd[u].sub].keys,
                          ![u].thr = owners[cmd[u].sub].thr]
    /\ UNCHANGED <<owners, accepted, sidecar, file, nextId>>

(* GetOwners, for a subnet that is there already. *)
GetOwners(u) ==
    /\ cmd[u].pc = "owners"
    /\ LET o == owners[cmd[u].sub]
           next == IF cmd[u].kind \in {"deploy", "validator"} THEN "auth" ELSE "remaining"
       IN  cmd' = [cmd EXCEPT ![u].pc = next, ![u].ctl = o.keys, ![u].thr = o.thr]
    /\ UNCHANGED <<owners, accepted, sidecar, file, nextId>>

GetOwnersFails(u) ==
    /\ "query" \in Faults
    /\ cmd[u].pc \in {"order", "owners"}
    /\ Finish(u, "err")
    /\ UNCHANGED <<owners, accepted, sidecar, file, nextId>>

ChooseAuth(u) ==
    /\ cmd[u].pc = "auth"
    /\ LET choices == AuthChoices(u, cmd[u].ctl, cmd[u].thr)
       IN  IF choices = {}
           THEN Finish(u, "err")
           ELSE \E A \in choices : cmd' = [cmd EXCEPT ![u].pc = "build", ![u].auth = A]
    /\ UNCHANGED <<owners, accepted, sidecar, file, nextId>>

(* What a deploy and the other commands do with an error of the deployer:  *)
(* "fix the issue and try again with a new deploy cmd", after recording    *)
(* the subnet; the others return it.                                       *)
DeployerFails(u) ==
    IF cmd[u].kind = "deploy"
    THEN cmd' = [cmd EXCEPT ![u].pc = "record", ![u].tx = NoTx]
    ELSE Finish(u, "err")

(* Build the transaction and sign it with the wallet. *)
Build(u) ==
    /\ cmd[u].pc = "build"
    /\ nextId <= MaxIds
    /\ LET o == owners[cmd[u].sub]
           idx == SigIndices(o.keys, WalletOf[u] \cup cmd[u].auth, o.thr)
           tx == [id |-> nextId, sub |-> cmd[u].sub, idx |-> idx,
                  kind |-> IF cmd[u].kind = "deploy" THEN "chain" ELSE "validator",
                  signed |-> SignedBy(u, o.keys, idx)]
           next == IF RemainingSigners(tx, cmd[u].ctl) = {} THEN "issue" ELSE "save"
       IN  IF Cardinality(idx) < o.thr
           THEN DeployerFails(u) /\ UNCHANGED nextId
           ELSE /\ cmd' = [cmd EXCEPT ![u].pc = next, ![u].tx = tx]
                /\ nextId' = nextId + 1
    /\ UNCHANGED <<owners, accepted, sidecar, file>>

BuildFails(u) ==
    /\ "reject" \in Faults
    /\ cmd[u].pc = "build"
    /\ DeployerFails(u)
    /\ UNCHANGED <<owners, accepted, sidecar, file, nextId>>

(* IssueTx, of a deployer or of a commit. *)
AfterIssue(u) ==
    IF cmd[u].tx.kind = "chain" THEN Goto(u, "record") ELSE Finish(u, "ok")

Issue(u) ==
    /\ cmd[u].pc = "issue"
    /\ cmd[u].tx \notin accepted
    /\ accepted' = accepted \cup {cmd[u].tx}
    /\ AfterIssue(u)
    /\ UNCHANGED <<owners, sidecar, file, nextId>>

IssueFails(u) ==
    /\ cmd[u].pc = "issue"
    /\ \/ /\ cmd[u].tx \in accepted \/ "reject" \in Faults
          /\ UNCHANGED accepted
       \/ /\ "timeout" \in Faults
          /\ accepted' = accepted \cup {cmd[u].tx}
    /\ DeployerFails(u)
    /\ UNCHANGED <<owners, sidecar, file, nextId>>

(* SaveNotFullySignedTx of a new transaction does not overwrite a file. *)
AfterSave(u) ==
    IF cmd[u].kind = "deploy" THEN Goto(u, "record") ELSE Finish(u, "ok")

Save(u) ==
    /\ cmd[u].pc = "save"
    /\ file[cmd[u].path] = NoTx
    /\ file' = [file EXCEPT ![cmd[u].path] = cmd[u].tx]
    /\ AfterSave(u)
    /\ UNCHANGED <<owners, accepted, sidecar, nextId>>

SaveFails(u) ==
    /\ cmd[u].pc = "save"
    /\ file[cmd[u].path] # NoTx \/ "disk" \in Faults
    /\ Finish(u, "err")
    /\ UNCHANGED <<owners, accepted, sidecar, file, nextId>>

(* Mutant of Record: a subnet without a blockchain is not recorded. *)
RecordOnlyChains(u) ==
    /\ cmd[u].pc = "record"
    /\ sidecar' = IF cmd[u].tx.id = 0 \/ cmd[u].tx.signed # cmd[u].tx.idx THEN sidecar
                  ELSE [sidecar EXCEPT ![u] = [sub |-> cmd[u].sub, chain |-> cmd[u].tx.id]]
    /\ Finish(u, "ok")
    /\ UNCHANGED <<owners, accepted, file, nextId>>

(* Mutant of Record: the ID of a transaction that is not issued yet. *)
RecordPartial(u) ==
    /\ cmd[u].pc = "record"
    /\ sidecar' = [sidecar EXCEPT ![u] = [sub |-> cmd[u].sub, chain |-> cmd[u].tx.id]]
    /\ Finish(u, "ok")
    /\ UNCHANGED <<owners, accepted, file, nextId>>

(* UpdateSidecarNetworks: the blockchain is ids.Empty unless issued. *)
Record(u) ==
    /\ cmd[u].pc = "record"
    /\ LET id == IF cmd[u].tx.signed = cmd[u].tx.idx THEN cmd[u].tx.id ELSE 0
       IN  sidecar' = [sidecar EXCEPT ![u] = [sub |-> cmd[u].sub, chain |-> id]]
    /\ Finish(u, "ok")
    /\ UNCHANGED <<owners, accepted, file, nextId>>

-----------------------------------------------------------------------------
(* Mutant of SignTx: the earlier signatures are dropped. *)
SignAfresh(u) ==
    /\ cmd[u].pc = "remaining" /\ cmd[u].kind = "sign"
    /\ AuthSignersKnown(cmd[u].tx, cmd[u].ctl)
    /\ RemainingSigners(cmd[u].tx, cmd[u].ctl) \cap WalletOf[u] # {}
    /\ cmd' = [cmd EXCEPT ![u].pc = "truncate",
                          ![u].tx.signed = SignedBy(u, cmd[u].ctl, cmd[u].tx.idx)]
    /\ UNCHANGED <<owners, accepted, sidecar, file, nextId>>

(* The wallet adds the signatures it can; it must hold a remaining key. *)
SignTx(u) ==
    /\ cmd[u].pc = "remaining" /\ cmd[u].kind = "sign"
    /\ AuthSignersKnown(cmd[u].tx, cmd[u].ctl)
    /\ RemainingSigners(cmd[u].tx, cmd[u].ctl) \cap WalletOf[u] # {}
    /\ cmd' = [cmd EXCEPT ![u].pc = "truncate",
                          ![u].tx.signed = @ \cup SignedBy(u, cmd[u].ctl, cmd[u].tx.idx)]
    /\ UNCHANGED <<owners, accepted, sidecar, file, nextId>>

SignRefused(u) ==
    /\ cmd[u].pc = "remaining" /\ cmd[u].kind = "sign"
    /\ ~AuthSignersKnown(cmd[u].tx, cmd[u].ctl)
       \/ RemainingSigners(cmd[u].tx, cmd[u].ctl) \cap WalletOf[u] = {}
    /\ Finish(u, "err")
    /\ UNCHANGED <<owners, accepted, sidecar, file, nextId>>

(* SaveToDisk with forceOverwrite: os.Create empties the file, WriteString *)
(* fills it.                                                               *)
TruncateFile(u) ==
    /\ cmd[u].pc = "truncate"
    /\ file' = [file EXCEPT ![cmd[u].path] = Corrupt]
    /\ Goto(u, "write")
    /\ UNCHANGED <<owners, accepted, sidecar, nextId>>

WriteFile(u) ==
    /\ cmd[u].pc = "write"
    /\ file' = [file EXCEPT ![cmd[u].path] = cmd[u].tx]
    /\ Finish(u, "ok")
    /\ UNCHANGED <<owners, accepted, sidecar, nextId>>

OverwriteFails(u) ==
    /\ "disk" \in Faults
    /\ cmd[u].pc \in {"truncate", "write"}
    /\ Finish(u, "err")
    /\ UNCHANGED <<owners, accepted, sidecar, file, nextId>>

(* Mutant of CheckSigned: a commit does not wait for the last signature. *)
CheckOneSigned(u) ==
    /\ cmd[u].pc = "remaining" /\ cmd[u].kind = "commit"
    /\ IF /\ AuthSignersKnown(cmd[u].tx, cmd[u].ctl)
          /\ cmd[u].tx.signed # {}
       THEN Goto(u, "issue")
       ELSE Finish(u, "err")
    /\ UNCHANGED <<owners, accepted, sidecar, file, nextId>>

(* commitTx: "tx is not fully signed" *)
CheckSigned(u) ==
    /\ cmd[u].pc = "remaining" /\ cmd[u].kind = "commit"
    /\ IF /\ AuthSignersKnown(cmd[u].tx, cmd[u].ctl)
          /\ RemainingSigners(cmd[u].tx, cmd[u].ctl) = {}
       THEN Goto(u, "issue")
       ELSE Finish(u, "err")
    /\ UNCHANGED <<owners, accepted, sidecar, file, nextId>>

-----------------------------------------------------------------------------
(* The environment: files are sent and deleted, a subnet configuration is  *)
(* exported by one user and imported by another who does not have it.      *)
SendFile(p, q) ==
    /\ IsTx(file[p]) /\ file[q] = NoTx
    /\ file' = [file EXCEPT ![q] = file[p]]
    /\ UNCHANGED <<owners, accepted, sidecar, nextId, cmd>>

DeleteFile(p) ==
    /\ file[p] # NoTx
    /\ file' = [file EXCEPT ![p] = NoTx]
    /\ UNCHANGED <<owners, accepted, sidecar, nextId, cmd>>

ShareSubnet(u, v) ==
    /\ ~Running(v)
    /\ sidecar[u] # NoEntry /\ sidecar[v] = NoEntry
    /\ sidecar' = [sidecar EXCEPT ![v] = sidecar[u]]
    /\ UNCHANGED <<owners, accepted, file, nextId, cmd>>

Crash(u) ==
    /\ "crash" \in Faults
    /\ Running(u)
    /\ cmd' = [cmd EXCEPT ![u] = Idle]
    /\ UNCHANGED <<owners, accepted, sidecar, file, nextId>>

-----------------------------------------------------------------------------
Begin(u) ==
    \E p \in Paths :
        \/ BeginDeploy(u, p)
        \/ \E s \in SubnetIds : BeginDeployInto(u, p, s)
        \/ BeginValidator(u, p)
        \/ BeginSign(u, p)
        \/ BeginCommit(u, p)

Prepare(u) ==
    \/ \E o \in OwnerChoices : ChooseKeys(u, o) \/ ChooseKeysFails(u, o)
    \/ CreateSubnet(u) \/ CreateSubnetFails(u)
    \/ OrderKeys(u) \/ GetOwners(u) \/ GetOwnersFails(u) \/ ChooseAuth(u)

Submit(u) ==
    \/ Build(u) \/ BuildFails(u) \/ Issue(u) \/ IssueFails(u)
    \/ Save(u) \/ SaveFails(u) \/ Record(u)

SignAndCommit(u) ==
    \/ SignTx(u) \/ SignRefused(u) \/ TruncateFile(u) \/ WriteFile(u)
    \/ OverwriteFails(u) \/ CheckSigned(u)

Step(u) == Prepare(u) \/ Submit(u) \/ SignAndCommit(u)

Next ==
    \/ \E u \in Users : Begin(u) \/ Step(u) \/ Crash(u)
    \/ \E p \in Paths : DeleteFile(p) \/ \E q \in Paths : SendFile(p, q)
    \/ \E u, v \in Users : ShareSubnet(u, v)

Spec == Init /\ [][Next]_vars

(* The users want the transaction through: what they started goes on, and  *)
(* each of them imports the subnet, signs and commits again and again.     *)
FairSpec ==
    /\ Spec
    /\ \A u \in Users :
        /\ WF_vars(Step(u))
        /\ WF_vars(\E v \in Users : ShareSubnet(v, u))
        /\ \A p \in Paths : SF_vars(BeginSign(u, p))
    /\ \A p \in Paths : SF_vars(\E u \in Users : BeginCommit(u, p))

-----------------------------------------------------------------------------
(* Every variable keeps its type, and every subnet that anything refers to *)
(* is on the O-Chain.                                                      *)
Pcs == {"idle", "keys", "subnet", "order", "owners", "auth", "build", "issue",
        "save", "record", "remaining", "truncate", "write"}

Owner == [keys : Seq(Keys), thr : Nat]

TxOK(t) ==
    /\ t \in Tx
    /\ t.id \in 1..MaxIds /\ t.sub \in SubnetIds
    /\ t.idx \subseteq 1..Len(owners[t.sub].keys)
    /\ t.signed \subseteq t.idx

Commands ==
    [pc : Pcs, kind : {"none", "deploy", "validator", "sign", "commit"},
     res : {"none", "ok", "err"}, path : Paths \cup {"none"}, sub : 0..MaxIds,
     ctl : Seq(Keys), thr : Nat, auth : SUBSET Keys, tx : Tx \cup {NoTx}]

CmdOK(r) ==
    /\ r \in Commands
    /\ r.pc \in Pcs \ {"idle", "keys", "subnet"} => r.sub \in SubnetIds
    /\ r.pc \in {"issue", "save", "truncate", "write"} => TxOK(r.tx)

TypeOK ==
    /\ owners \in [1..MaxIds -> Owner]
    /\ \A t \in accepted : TxOK(t)
    /\ sidecar \in [Users -> [sub : 0..MaxIds, chain : 0..MaxIds]]
    /\ \A u \in Users : sidecar[u].sub # 0 => sidecar[u].sub \in SubnetIds
    /\ DOMAIN file = Paths
    /\ \A p \in Paths : file[p] \in {NoTx, Corrupt} \/ TxOK(file[p])
    /\ nextId \in 1..(MaxIds + 1)
    /\ DOMAIN cmd = Users
    /\ \A u \in Users : CmdOK(cmd[u])

(* CheckSubnetAuthKeys and GetSubnetAuthKeys exist because the wallet      *)
(* builder picks the signers by itself, among the wallet's keys and those  *)
(* chosen: the transaction it builds must ask for the signatures of the    *)
(* keys the user chose, and the tool must name those very keys.            *)
SignersAreChosen ==
    \A u \in Users :
        cmd[u].pc \in {"save", "issue"} /\ cmd[u].kind \in {"deploy", "validator"}
            => AuthSigners(cmd[u].tx, cmd[u].ctl) = cmd[u].auth

(* commitTx: "tx is not fully signed".  Whoever issues a transaction, and  *)
(* whichever copy of its file went through which hands, the O-Chain gets   *)
(* it with the signatures of a threshold of the owners of its subnet.      *)
AcceptedAreSigned ==
    \A t \in accepted :
        t.signed = t.idx /\ Cardinality(t.signed) = owners[t.sub].thr

(* A recorded blockchain is on the O-Chain, in the recorded subnet.        *)
RecordedChainIsHosted ==
    \A u \in Users : sidecar[u].chain # 0 =>
        \E t \in accepted :
            t.kind = "chain" /\ t.id = sidecar[u].chain /\ t.sub = sidecar[u].sub

(* deploySubnet, of an error of the deployer: "fix the issue and try again *)
(* with a new deploy cmd".  Rejected transactions and retries never leave  *)
(* a second subnet behind.                                                 *)
RetryReusesSubnet == Cardinality(SubnetIds) <= 1

(* A file that everybody who has to sign can reach is signed and committed *)
(* in the end, once nobody starts anything else and the O-Chain no longer  *)
(* rejects it, even though two signatures written at the same time         *)
(* overwrite each other.                                                   *)
Cooperating ==
    /\ \A u \in Users :
        /\ ~Running(u) /\ Running(u)' => cmd'[u].kind \in {"sign", "commit"}
        /\ cmd[u].pc = "issue" /\ cmd[u].tx \notin accepted
            => cmd'[u] = cmd[u] \/ cmd[u].tx \in accepted'
    /\ \A p \in Paths : file'[p] # NoTx \/ file[p] = NoTx

Committed(p) == \E t \in accepted : t.id = file[p].id

FilesGetCommitted ==
    <>[][Cooperating]_vars => \A p \in Paths : <>[](IsTx(file[p]) => Committed(p))

-----------------------------------------------------------------------------
(* A statement of the repository that the code does not keep.             *)

(* GetSubnetAuthKeys: "get subnet authorization keys from the user, as a   *)
(* subset of the subnet's [controlKeys] with a len equal to the subnet's   *)
(* [threshold]".                                                           *)
AuthCanBeChosen ==
    \A u \in Users : cmd[u].pc = "auth" =>
        GetSubnetAuthKeys(WalletOf[u], cmd[u].ctl, cmd[u].thr) # {}

=============================================================================
