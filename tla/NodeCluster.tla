----------------------------- MODULE NodeCluster -----------------------------
(***************************************************************************)
(* Clusters of cloud nodes: `node create`, `node stop` and `node           *)
(* refresh-ips`.  The cloud provider keeps the instances and the static    *)
(* addresses, which cost money until they are stopped and released; the    *)
(* machine keeps a directory for every node (its cloud config and staking  *)
(* key), the clusters config and the inventories.  Commands may run in     *)
(* several terminals, and each call to the provider, to a host or to the   *)
(* disk may fail.                                                          *)
(*                                                                         *)
(* A command reads and writes the clusters config in one step here; the    *)
(* code reads it again just before it writes it.                           *)
(***************************************************************************)
EXTENDS Integers, Sequences, FiniteSets

CONSTANTS
    Terminals,  \* where commands are typed
    Typed,      \* the commands typed in each terminal
    Clusters,   \* names of clusters
    Instances,  \* instance IDs the provider may hand out
    None,       \* no instance
    Plans,      \* nodes to create in each region, sequences of numbers
    Options,    \* what a create may ask for: a service, with or without static
                \* addresses, for a devnet or not
    Faults      \* the kinds of failure a run admits, a subset of FaultKinds

FaultKinds == {
    "crash",       \* a command is interrupted between two of its calls
    "rent",        \* the provider creates only part of what was asked for
    "api",         \* the provider does not answer
    "credentials", \* the AWS session token expires
    "release",     \* a static address is not released
    "console",     \* an instance stops by itself or from the console
    "disk",        \* a file cannot be written or removed
    "ssh" }        \* a host cannot be set up

Services == {"aws", "gcp"}

RangeOf(s) == {s[i] : i \in 1..Len(s)}

ASSUME NodeAssumption ==
    /\ Typed \in [Terminals -> SUBSET {"create", "stop", "refresh"}]
    /\ None \notin Instances
    /\ Plans \subseteq Seq(Nat \ {0}) /\ <<>> \notin Plans
    /\ Options \subseteq [service : Services, static : BOOLEAN, devnet : BOOLEAN]
    /\ Faults \subseteq FaultKinds

VARIABLES
    service,   \* provider: the cloud service of each instance
    power,     \* provider: instances
    address,   \* provider: instances whose static address is still held
    nodeDir,   \* the cloud config in the directory of each node
    entry,     \* the clusters config
    inventory, \* the hosts of each cluster and its monitoring host
    cmd        \* the command of each terminal

provider == <<service, power, address>>
vars == <<service, power, address, nodeDir, entry, inventory, cmd>>

-----------------------------------------------------------------------------
(* What is read back from a cloud config: the service, whether the node    *)
(* was recorded with a static address, and whether an address was recorded.*)
Config == [there : {TRUE}, service : Services, static : BOOLEAN, ip : BOOLEAN]
NoDir == [there |-> FALSE, service |-> "none", static |-> FALSE, ip |-> FALSE]

NoEntry == [there |-> FALSE, nodes |-> <<>>, monitor |-> None]
Entry(nodes, m) == [there |-> TRUE, nodes |-> nodes, monitor |-> m]

Listed(e) == RangeOf(e.nodes) \cup ({e.monitor} \ {None})

(* Without static addresses a node's address is read from the provider.    *)
(* The monitoring node's config never says that its address is static, and *)
(* names the service of the command even when it was found on another one. *)
NodeConfigOf(t) == [there |-> TRUE, service |-> cmd[t].service,
                    static |-> cmd[t].static,
                    ip |-> cmd[t].static \/ cmd[t].service = "aws"]
MonitorConfigOf(t) == [there |-> TRUE, service |-> cmd[t].service,
                       static |-> FALSE, ip |-> cmd[t].static]

Idle == [pc |-> "idle", cluster |-> None, service |-> "none",
         static |-> FALSE, devnet |-> FALSE, separate |-> FALSE,
         plan |-> <<>>, made |-> {}, existing |-> None,
         monitor |-> None, todo |-> <<>>, listed |-> {}, failed |-> FALSE,
         alone |-> FALSE]

Running(t) == cmd[t].pc # "idle"
At(t, p) == cmd[t].pc = p
C(t) == cmd[t].cluster
Known(c) == entry[c].there
HasDir(i) == nodeDir[i].there

(* checkCluster, getClusterNodes: there is an entry and it has nodes. *)
CheckCluster(c) == Known(c) /\ entry[c].nodes # <<>>

Finish(t) == cmd' = [cmd EXCEPT ![t] = Idle]

(* cmd[t].alone: no other command has run at the same time. *)
Begin(t, c, r) ==
    LET others == {u \in Terminals \ {t} : Running(u)}
    IN  cmd' = [u \in Terminals |->
            IF u = t THEN [r EXCEPT !.cluster = c, !.alone = others = {}]
            ELSE IF u \in others THEN [cmd[u] EXCEPT !.alone = FALSE]
            ELSE cmd[u]]

Init ==
    /\ service = [i \in Instances |-> "none"]
    /\ power = [i \in Instances |-> "none"]
    /\ address = {}
    /\ nodeDir = [i \in Instances |-> NoDir]
    /\ entry = [c \in Clusters |-> NoEntry]
    /\ inventory = [c \in Clusters |-> [hosts |-> {}, monitors |-> {}]]
    /\ cmd = [t \in Terminals |-> Idle]

-----------------------------------------------------------------------------
(* node create: the instances.                                             *)

Fresh == {i \in Instances : power[i] = "none" /\ i \notin address}

Ids(made) == UNION {RangeOf(r) : r \in made}

(* The instances a plan may be given, a sequence for each region. *)
Batches(plan) ==
    LET regions == {r \in [DOMAIN plan -> UNION {[1..n -> Fresh] : n \in RangeOf(plan)}] :
                        \A k \in DOMAIN plan : DOMAIN r[k] = 1..plan[k]}
        Apart(r) == \A k, l \in DOMAIN plan : \A i \in DOMAIN r[k], j \in DOMAIN r[l] :
                        r[k][i] = r[l][j] => k = l /\ i = j
    IN  {{r[k] : k \in DOMAIN plan} : r \in {s \in regions : Apart(s)}}

BeginCreate(t, c) ==
    /\ ~Running(t) /\ "create" \in Typed[t]
    /\ \E p \in Plans, o \in Options, sep \in BOOLEAN :
        Begin(t, c, [Idle EXCEPT
            !.pc = "rent", !.plan = p, !.service = o.service,
            !.static = o.static, !.devnet = o.devnet,
            !.existing = entry[c].monitor,
            !.separate = sep \/ entry[c].monitor # None])
    /\ UNCHANGED <<provider, nodeDir, entry, inventory>>

Switch(t, on) ==
    /\ power' = [i \in Instances |-> IF i \in on THEN "running" ELSE power[i]]
    /\ service' = [i \in Instances |->
                       IF i \in on THEN cmd[t].service ELSE service[i]]

Rent(t, is) ==
    /\ Switch(t, is)
    /\ address' = IF cmd[t].static THEN address \cup is ELSE address

(* createAWSInstances, createGCPInstance. *)
RentNodes(t) ==
    /\ At(t, "rent")
    /\ \E made \in Batches(cmd[t].plan) :
        /\ Rent(t, Ids(made))
        /\ cmd' = [cmd EXCEPT ![t].made = made, ![t].listed = Ids(made),
                              ![t].plan = <<>>, ![t].pc = "monitor"]
    /\ UNCHANGED <<nodeDir, entry, inventory>>

(* An error after some instances exist.  AWS gives addresses to instances  *)
(* it has, GCP reserves the addresses first.  The loop that stops created  *)
(* instances runs over those returned, and with an error none is.          *)
PartlyRented(t, is) ==
    \E on \in SUBSET is, held \in SUBSET (IF cmd[t].static THEN is ELSE {}) :
        /\ IF cmd[t].service = "aws" THEN held \subseteq on
           ELSE cmd[t].static /\ on # {} => held = is
        /\ Switch(t, on)
        /\ address' = address \cup held

RentNodesFails(t) ==
    /\ At(t, "rent") /\ "rent" \in Faults
    /\ \E made \in Batches(cmd[t].plan) : PartlyRented(t, Ids(made))
    /\ Finish(t)
    /\ UNCHANGED <<nodeDir, entry, inventory>>

NewMonitor(t) == cmd[t].separate /\ cmd[t].existing = None

RentMonitor(t) ==
    /\ At(t, "monitor") /\ NewMonitor(t)
    /\ \E m \in Fresh :
        /\ Rent(t, {m})
        /\ cmd' = [cmd EXCEPT ![t].monitor = m, ![t].pc = "query"]
    /\ UNCHANGED <<nodeDir, entry, inventory>>

RentMonitorFails(t) ==
    /\ At(t, "monitor") /\ NewMonitor(t) /\ "rent" \in Faults
    /\ \E m \in Fresh : PartlyRented(t, {m})
    /\ Finish(t)
    /\ UNCHANGED <<nodeDir, entry, inventory>>

(* getNodeCloudConfig.  With static addresses the recorded address is      *)
(* taken, and the command panics if none was recorded.                     *)
UseExistingMonitor(t) ==
    /\ At(t, "monitor") /\ cmd[t].existing # None
    /\ IF HasDir(cmd[t].existing) /\ (cmd[t].static => nodeDir[cmd[t].existing].ip)
       THEN cmd' = [cmd EXCEPT ![t].monitor = cmd[t].existing, ![t].pc = "query"]
       ELSE Finish(t)
    /\ UNCHANGED <<provider, nodeDir, entry, inventory>>

NoMonitor(t) ==
    /\ At(t, "monitor") /\ ~cmd[t].separate
    /\ cmd' = [cmd EXCEPT ![t].pc = "query"]
    /\ UNCHANGED <<provider, nodeDir, entry, inventory>>

(* Public addresses and firewall rules.  A monitoring instance without a   *)
(* static address is looked for on the service of the command.             *)
QueryAddresses(t) ==
    /\ At(t, "query")
    /\ LET found == cmd[t].separate /\ ~cmd[t].static
                        => service[cmd[t].monitor] = cmd[t].service
       IN  \/ found /\ cmd' = [cmd EXCEPT ![t].pc = "region"]
           \/ (~found \/ "api" \in Faults) /\ Finish(t)
    /\ UNCHANGED <<provider, nodeDir, entry, inventory>>

-----------------------------------------------------------------------------
(* createClusterNodeConfig: the regions in any order; in each of them the  *)
(* nodes, then the monitoring instance again.                              *)

TakeRegion(t) ==
    /\ At(t, "region")
    /\ \/ \E r \in cmd[t].made :
            cmd' = [cmd EXCEPT ![t].todo = r, ![t].made = @ \ {r}, ![t].pc = "node"]
       \/ /\ cmd[t].made = {}
          /\ cmd' = [cmd EXCEPT ![t].pc = "inventory"]
    /\ UNCHANGED <<provider, nodeDir, entry, inventory>>

(* Mutant of AddMonitor: the former monitoring instance becomes a node. *)
AddMonitorBesideOld(e, i) == Entry(Append(e.nodes, e.monitor), i)

(* addNodeToClustersConfig: a node clears the monitoring instance. *)
AddNode(e, i) == Entry(Append(e.nodes, i), None)
AddMonitor(e, i) == Entry(e.nodes, i)

RecordNode(t) ==
    /\ At(t, "node")
    /\ LET i == Head(cmd[t].todo)
       IN  /\ nodeDir' = [nodeDir EXCEPT ![i] = NodeConfigOf(t)]
           /\ entry' = [entry EXCEPT ![C(t)] = AddNode(@, i)]
    /\ cmd' = [cmd EXCEPT ![t].todo = Tail(@),
                          ![t].pc = IF Len(cmd[t].todo) > 1 THEN "node"
                                    ELSE IF cmd[t].separate THEN "monitorconfig"
                                    ELSE "region"]
    /\ UNCHANGED <<provider, inventory>>

(* Mutant of RecordMonitor: it is written only when it is new. *)
RecordNewMonitor(t) ==
    /\ At(t, "monitorconfig")
    /\ IF NewMonitor(t)
       THEN /\ nodeDir' = [nodeDir EXCEPT ![cmd[t].monitor] = MonitorConfigOf(t)]
            /\ entry' = [entry EXCEPT ![C(t)] = AddMonitor(@, cmd[t].monitor)]
       ELSE UNCHANGED <<nodeDir, entry>>
    /\ cmd' = [cmd EXCEPT ![t].pc = "region"]
    /\ UNCHANGED <<provider, inventory>>

RecordMonitor(t) ==
    /\ At(t, "monitorconfig")
    /\ nodeDir' = [nodeDir EXCEPT ![cmd[t].monitor] = MonitorConfigOf(t)]
    /\ entry' = [entry EXCEPT ![C(t)] = AddMonitor(@, cmd[t].monitor)]
    /\ cmd' = [cmd EXCEPT ![t].pc = "region"]
    /\ UNCHANGED <<provider, inventory>>

(* Mutant of RecordFails: the entry is written first. *)
RecordFailsAfterEntry(t) ==
    /\ At(t, "node")
    /\ {"disk", "crash"} \cap Faults # {}
    /\ entry' = [entry EXCEPT ![C(t)] = AddNode(@, Head(cmd[t].todo))]
    /\ Finish(t)
    /\ UNCHANGED <<provider, nodeDir, inventory>>

(* The config is written before the entry, which may then fail. *)
RecordFails(t) ==
    /\ At(t, "node") \/ At(t, "monitorconfig")
    /\ {"disk", "crash"} \cap Faults # {}
    /\ \/ /\ At(t, "node")
          /\ nodeDir' = [nodeDir EXCEPT ![Head(cmd[t].todo)] = NodeConfigOf(t)]
       \/ /\ At(t, "monitorconfig")
          /\ nodeDir' = [nodeDir EXCEPT ![cmd[t].monitor] = MonitorConfigOf(t)]
       \/ nodeDir' = nodeDir
    /\ Finish(t)
    /\ UNCHANGED <<provider, entry, inventory>>

-----------------------------------------------------------------------------
(* node create: the inventory, the hosts, and the devnet.                  *)

(* CreateAnsibleHostInventory appends. *)
WriteInventory(t) ==
    /\ At(t, "inventory")
    /\ inventory' = [inventory EXCEPT
            ![C(t)].hosts = @ \cup cmd[t].listed,
            ![C(t)].monitors = IF NewMonitor(t) THEN @ \cup {cmd[t].monitor} ELSE @]
    /\ cmd' = [cmd EXCEPT ![t].pc = "hosts"]
    /\ UNCHANGED <<provider, nodeDir, entry>>

(* A host that cannot be set up only makes the command fail at its end,    *)
(* after the devnet; one that cannot be reached, or whose monitoring       *)
(* cannot be set up, makes it fail at once.                                *)
SetupHosts(t) ==
    /\ At(t, "hosts")
    /\ LET one == cmd[t].separate => Cardinality(inventory[C(t)].monitors) = 1
       IN  \/ /\ one
              /\ cmd' = [cmd EXCEPT ![t].pc =
                            IF cmd[t].devnet THEN "devnet" ELSE "created"]
           \/ (~one \/ "ssh" \in Faults) /\ Finish(t)
    /\ UNCHANGED <<provider, nodeDir, entry, inventory>>

(* setupDevnet needs the cluster, and the staking certificate in the       *)
(* directory of every host of the inventory.                               *)
ConfigureDevnet(t) ==
    /\ At(t, "devnet")
    /\ \/ /\ CheckCluster(C(t))
          /\ \A i \in inventory[C(t)].hosts : HasDir(i)
          /\ cmd' = [cmd EXCEPT ![t].pc = "devnetconfig"]
       \/ /\ \/ ~CheckCluster(C(t))
             \/ \E i \in inventory[C(t)].hosts : ~HasDir(i)
             \/ "ssh" \in Faults
          /\ Finish(t)
    /\ UNCHANGED <<provider, nodeDir, entry, inventory>>

(* "update cluster config with network information" *)
DevnetEntry(e) == Entry(e.nodes, None)

SaveDevnet(t) ==
    /\ At(t, "devnetconfig")
    /\ entry' = [entry EXCEPT ![C(t)] = DevnetEntry(@)]
    /\ cmd' = [cmd EXCEPT ![t].pc = "created"]
    /\ UNCHANGED <<provider, nodeDir, inventory>>

EndCreate(t) ==
    /\ At(t, "created")
    /\ Finish(t)
    /\ UNCHANGED <<provider, nodeDir, entry, inventory>>

-----------------------------------------------------------------------------
(* node stop: the nodes read at the start, the monitoring instance last.   *)

NodesToStop(c) ==
    entry[c].nodes \o (IF entry[c].monitor = None THEN <<>> ELSE <<entry[c].monitor>>)

BeginStop(t, c) ==
    /\ ~Running(t) /\ "stop" \in Typed[t] /\ CheckCluster(c)
    /\ Begin(t, c, [Idle EXCEPT !.pc = "stop", !.todo = NodesToStop(c),
                                !.listed = Listed(entry[c])])
    /\ UNCHANGED <<provider, nodeDir, entry, inventory>>

Stopping(t) == At(t, "stop") /\ cmd[t].todo # <<>>
Node(t) == Head(cmd[t].todo)
Reaches(i) == nodeDir[i].there /\ nodeDir[i].service = service[i]
NextNode(t) == cmd' = [cmd EXCEPT ![t].todo = Tail(@)]
NodeError(t) == cmd' = [cmd EXCEPT ![t].todo = Tail(@), ![t].failed = TRUE]

(* LoadClusterNodeConfig fails. *)
StopUnknown(t) ==
    /\ Stopping(t) /\ ~HasDir(Node(t))
    /\ NodeError(t)
    /\ UNCHANGED <<provider, nodeDir, entry, inventory>>

(* StopAWSNode, StopGCPNode, removeDeletedNodeDirectory. *)
ReleaseOf(i) == IF nodeDir[i].static THEN address \ {i} ELSE address

StopNode(t) ==
    /\ Stopping(t) /\ Reaches(Node(t)) /\ power[Node(t)] = "running"
    /\ power' = [power EXCEPT ![Node(t)] = "stopped"]
    /\ address' = ReleaseOf(Node(t))
    /\ \/ nodeDir' = [nodeDir EXCEPT ![Node(t)] = NoDir] /\ NextNode(t)
       \/ "disk" \in Faults /\ nodeDir' = nodeDir /\ Finish(t)
    /\ UNCHANGED <<service, entry, inventory>>

(* Mutant of ReleaseFails: the node counts as stopped. *)
ReleaseFailureIgnored(t) ==
    /\ Stopping(t) /\ Reaches(Node(t)) /\ power[Node(t)] = "running"
    /\ "release" \in Faults /\ nodeDir[Node(t)].static
    /\ power' = [power EXCEPT ![Node(t)] = "stopped"]
    /\ nodeDir' = [nodeDir EXCEPT ![Node(t)] = NoDir]
    /\ NextNode(t)
    /\ UNCHANGED <<service, address, entry, inventory>>

(* The instance is stopped when releasing its address fails. *)
ReleaseFails(t) ==
    /\ Stopping(t) /\ Reaches(Node(t)) /\ power[Node(t)] = "running"
    /\ "release" \in Faults /\ nodeDir[Node(t)].static
    /\ power' = [power EXCEPT ![Node(t)] = "stopped"]
    /\ NodeError(t)
    /\ UNCHANGED <<service, address, nodeDir, entry, inventory>>

(* Mutant of StopCallFails: the error is not kept for the end. *)
StopErrorForgotten(t) ==
    /\ Stopping(t) /\ HasDir(Node(t))
    /\ ~Reaches(Node(t)) \/ "api" \in Faults
    /\ NextNode(t)
    /\ UNCHANGED <<provider, nodeDir, entry, inventory>>

(* No answer, or a service that does not know the instance. *)
StopCallFails(t) ==
    /\ Stopping(t) /\ HasDir(Node(t))
    /\ ~Reaches(Node(t)) \/ "api" \in Faults
    /\ NodeError(t)
    /\ UNCHANGED <<provider, nodeDir, entry, inventory>>

(* For AWS ErrNodeNotFoundToBeRunning counts as stopped; for GCP the check *)
(* of the instance returns an error of its own.                            *)
AlreadyStopped(t) ==
    /\ Stopping(t) /\ Reaches(Node(t)) /\ power[Node(t)] # "running"
    /\ IF service[Node(t)] = "aws"
       THEN nodeDir' = [nodeDir EXCEPT ![Node(t)] = NoDir] /\ NextNode(t)
       ELSE nodeDir' = nodeDir /\ NodeError(t)
    /\ UNCHANGED <<provider, entry, inventory>>

CredentialsExpire(t) ==
    /\ Stopping(t) /\ HasDir(Node(t))
    /\ "credentials" \in Faults /\ nodeDir[Node(t)].service = "aws"
    /\ Finish(t)
    /\ UNCHANGED <<provider, nodeDir, entry, inventory>>

(* removeClustersConfigFiles, when no node has failed. *)
EndStop(t) ==
    /\ At(t, "stop") /\ cmd[t].todo = <<>>
    /\ IF cmd[t].failed
       THEN UNCHANGED <<inventory, entry>>
       ELSE /\ inventory' = [inventory EXCEPT ![C(t)] = [hosts |-> {}, monitors |-> {}]]
            /\ \/ entry' = [entry EXCEPT ![C(t)] = NoEntry]
               \/ "disk" \in Faults /\ entry' = entry
    /\ Finish(t)
    /\ UNCHANGED <<provider, nodeDir>>

-----------------------------------------------------------------------------
(* node refresh-ips: the nodes without a static address, and the configs   *)
(* read at the start.                                                      *)
BeginRefresh(t, c) ==
    /\ ~Running(t) /\ "refresh" \in Typed[t] /\ CheckCluster(c)
    /\ \A i \in RangeOf(entry[c].nodes) : HasDir(i)
    /\ LET dynamic == {i \in RangeOf(entry[c].nodes) : ~nodeDir[i].static}
       IN  /\ dynamic # {}
           /\ Begin(t, c, [Idle EXCEPT !.pc = "refresh", !.listed = dynamic])
    /\ UNCHANGED <<provider, nodeDir, entry, inventory>>

(* One after the other; the order makes no difference. *)
WriteRefreshed(t) ==
    /\ At(t, "refresh")
    /\ \E i \in cmd[t].listed :
        /\ nodeDir' = [nodeDir EXCEPT ![i] =
                [there |-> TRUE, service |-> service[i], static |-> FALSE, ip |-> TRUE]]
        /\ IF cmd[t].listed = {i} THEN Finish(t)
           ELSE cmd' = [cmd EXCEPT ![t].listed = @ \ {i}]
    /\ UNCHANGED <<provider, entry, inventory>>

RefreshFails(t) ==
    /\ At(t, "refresh") /\ {"api", "disk"} \cap Faults # {}
    /\ Finish(t)
    /\ UNCHANGED <<provider, nodeDir, entry, inventory>>

-----------------------------------------------------------------------------
(* An interruption, or an error of a call that has changed nothing yet.     *)
Crash(t) ==
    /\ Running(t) /\ "crash" \in Faults
    /\ Finish(t)
    /\ UNCHANGED <<provider, nodeDir, entry, inventory>>

(* That an unrecorded instance stops makes no difference to any command. *)
InstanceStops(i) ==
    /\ "console" \in Faults /\ power[i] = "running" /\ HasDir(i)
    /\ power' = [power EXCEPT ![i] = "stopped"]
    /\ UNCHANGED <<service, address, nodeDir, entry, inventory, cmd>>

Create(t) ==
    \/ RentNodes(t) \/ RentNodesFails(t)
    \/ RentMonitor(t) \/ RentMonitorFails(t) \/ UseExistingMonitor(t) \/ NoMonitor(t)
    \/ QueryAddresses(t)
    \/ TakeRegion(t) \/ RecordNode(t) \/ RecordMonitor(t) \/ RecordFails(t)
    \/ WriteInventory(t)
    \/ SetupHosts(t) \/ ConfigureDevnet(t) \/ SaveDevnet(t) \/ EndCreate(t)

Stop(t) ==
    \/ StopUnknown(t) \/ StopNode(t) \/ ReleaseFails(t) \/ StopCallFails(t)
    \/ AlreadyStopped(t) \/ CredentialsExpire(t) \/ EndStop(t)

Next ==
    \/ \E t \in Terminals, c \in Clusters :
        BeginCreate(t, c) \/ BeginStop(t, c) \/ BeginRefresh(t, c)
    \/ \E t \in Terminals :
        Create(t) \/ Stop(t) \/ WriteRefreshed(t) \/ RefreshFails(t) \/ Crash(t)
    \/ \E i \in Instances : InstanceStops(i)

Spec == Init /\ [][Next]_vars

-----------------------------------------------------------------------------
Pcs == {"idle", "rent", "monitor", "query", "region", "node", "monitorconfig",
        "inventory", "hosts", "devnet", "devnetconfig", "created", "stop", "refresh"}

Commands == [pc : Pcs, cluster : Clusters \cup {None},
             service : Services \cup {"none"}, static : BOOLEAN,
             devnet : BOOLEAN, separate : BOOLEAN, plan : Seq(Nat \ {0}),
             made : SUBSET Seq(Instances), existing : Instances \cup {None},
             monitor : Instances \cup {None}, todo : Seq(Instances),
             listed : SUBSET Instances, failed : BOOLEAN, alone : BOOLEAN]

(* A command knows its cluster, a region has nodes, and a monitoring       *)
(* instance that is to be recorded exists.                                 *)
WellFormed(r) ==
    /\ r.pc # "idle" => r.cluster \in Clusters
    /\ r.pc \notin {"idle", "stop", "refresh"} => r.service \in Services
    /\ r.pc = "node" => r.todo # <<>>
    /\ \A region \in r.made : region # <<>>
    /\ r.existing # None => r.separate
    /\ r.separate /\ r.pc \notin {"rent", "monitor"} => r.monitor # None
    /\ r.pc = "monitorconfig" => r.separate

(* Every variable holds values of its type, and every command is one that  *)
(* the code can be executing.                                              *)
TypeOK ==
    /\ service \in [Instances -> Services \cup {"none"}]
    /\ power \in [Instances -> {"none", "running", "stopped"}]
    /\ address \subseteq Instances
    /\ nodeDir \in [Instances -> Config \cup {NoDir}]
    /\ entry \in [Clusters -> [there : BOOLEAN, nodes : Seq(Instances),
                              monitor : Instances \cup {None}]]
    /\ inventory \in [Clusters -> [hosts : SUBSET Instances,
                                   monitors : SUBSET Instances]]
    /\ cmd \in [Terminals -> Commands]
    /\ \A t \in Terminals : WellFormed(cmd[t])

(* `node stop` can reach what it has to stop: an instance that runs and    *)
(* that the clusters config lists has its cloud config on disk, and the    *)
(* config of a node names its service, whatever command failed or was      *)
(* interrupted before, and in whatever order the commands of several       *)
(* terminals wrote their files.                                            *)
ListedCanBeStopped ==
    \A c \in Clusters : \A i \in Listed(entry[c]) :
        power[i] = "running" =>
            HasDir(i) /\ (i \in RangeOf(entry[c].nodes) => Reaches(i))

(* A directory, which holds the only copy of the node's staking key and    *)
(* what `node stop` needs to know, goes away only when the instance does   *)
(* not run any more; on GCP, which does not take a stopped node for done,  *)
(* only when its static address is released too.                           *)
DirGoneOnlyWhenReleased ==
    [][\A i \in Instances : HasDir(i) /\ ~HasDir(i)' =>
            /\ power'[i] # "running"
            /\ nodeDir[i].service = "gcp" /\ nodeDir[i].static
                => i \notin address']_vars

(* A `node stop` that removes a cluster, "All nodes in cluster are         *)
(* successfully stopped", leaves no instance running that the clusters     *)
(* config listed when it started, even across failures and retries; and    *)
(* if no other command ran meanwhile, none that it lists at the end.       *)
RemovedOnlyWhenStopped ==
    [][\A t \in Terminals :
        At(t, "stop") /\ ~Running(t)' /\ Known(C(t)) /\ ~entry'[C(t)].there =>
            /\ \A i \in cmd[t].listed : power[i] # "running"
            /\ cmd[t].alone => \A i \in Listed(entry[C(t)]) : power[i] # "running"]_vars

(* A `node create` that gets to its end, with no other command meanwhile,  *)
(* has recorded all it rented: each node has its config, is in the clusters*)
(* config and in the inventory; and so has the monitoring instance, new or *)
(* found, which every node of every region has cleared in between (a       *)
(* devnet apart).                                                          *)
CreateRecordsEverything ==
    \A t \in Terminals :
        At(t, "created") /\ cmd[t].alone =>
            /\ \A i \in cmd[t].listed :
                /\ HasDir(i) /\ nodeDir[i].static = cmd[t].static
                /\ i \in RangeOf(entry[C(t)].nodes)
                /\ i \in inventory[C(t)].hosts
            /\ cmd[t].separate =>
                /\ HasDir(cmd[t].monitor)
                /\ ~cmd[t].devnet => entry[C(t)].monitor = cmd[t].monitor

(* `node stop` is there to "Stop all nodes in a cluster": with one cluster *)
(* and no failures no instance runs once its entry has been removed.       *)
StopLeavesNothingRunning ==
    [][\A c \in Clusters : Known(c) /\ ~Known(c)' =>
            \A i \in Instances : power[i] # "running"]_vars

=============================================================================
