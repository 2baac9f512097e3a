------------------------ MODULE ElasticSubnetProofs -------------------------
(* Theorems about ElasticSubnet, for every value of its constants.      *)
EXTENDS ElasticSubnet, FiniteSetTheorems, TLAPS

-----------------------------------------------------------------------------
(* The types of the variables.                                             *)
Cfgs == Configs \cup {NoConfig}
(* Subnets and assets by number, 0 for none; the records.               *)
Subs == 0..MaxSubs
Ids == 0..MaxAssets

Chains == [sub : Subs, asset : Ids, cfg : Cfgs, free : Nat, val : [Nodes -> Status]]
Txs == [create : Ids, exp : BOOLEAN, imp : BOOLEAN]
Entries == [there : BOOLEAN, sub : Subs, asset : Ids, txs : Txs, vals : SUBSET Nodes]
Sidecars == [sub : Subs, elastic : Entries]
Files == [sub : Subs, asset : Ids, cfg : Cfgs]
Commands ==
    [pc : Pcs, kind : {"none", "elastic", "join", "clean"}, asset : Ids, cfg : Cfgs,
     list : SUBSET Nodes, many : BOOLEAN, stake : Nat, period : Periods \cup {0},
     node : Nodes \cup {"none"}]

(* One conjunct per variable.                                           *)
NetOK == net \in Networks
ChainOK == chain \in Chains
WhereOK == where \in [Assets -> Places]
SidecarOK == sidecar \in Sidecars
FileOK == file \in Files
SavedOK == saved \in Files /\ (saved # NoFile => saved.asset \in Assets)
CmdOK == cmd \in Commands
CountOK == nextSub \in 1..(MaxSubs + 1)
LostOK == lost \in BOOLEAN

(* Deployments are numbered, and what has no subnet has no asset.          *)
Numbered ==
    /\ chain.sub < nextSub /\ sidecar.sub < nextSub /\ sidecar.elastic.sub < nextSub
    /\ chain.sub = 0 => chain.asset = 0

(* The asset of a command that transforms the subnet exists.               *)
Moving == {"export", "noteExport", "import", "noteImport", "transform", "file", "record"}

HasAsset ==
    cmd.pc \in Moving \cup {"noteCreate"} => cmd.asset \in Assets /\ where[cmd.asset] # "none"

(* Transactions are recorded of a transformation on Testnet only, and only *)
(* a local subnet is cleaned.                                              *)
OnTestnet == {"noteCreate", "noteExport", "noteImport"}
OnLocal == {"cleanNetworks", "cleanElastic", "cleanFile"}

Apart ==
    /\ net = "local" => sidecar.elastic.txs = NoTxs /\ cmd.pc \notin OnTestnet
    /\ net = "testnet" => cmd.pc \notin OnLocal

(* What is recorded is done.                                               *)
TxsDone ==
    LET txs == sidecar.elastic.txs IN
    /\ txs.create # 0 => where[txs.create] # "none"
    /\ txs.exp => txs.create # 0 /\ where[txs.create] \in {"flight", "ochain"}
    /\ txs.imp => txs.exp /\ where[txs.create] = "ochain"

(* On Testnet a command goes on with the asset that is recorded, and what  *)
(* it is about to record is done.                                          *)
Resumed ==
    LET txs == sidecar.elastic.txs IN
    net = "testnet" =>
        /\ cmd.pc \in Moving => cmd.asset = txs.create
        /\ cmd.pc = "noteCreate" => txs.create = 0
        /\ cmd.pc = "noteExport" => where[cmd.asset] \in {"flight", "ochain"}
        /\ cmd.pc \in {"import", "noteImport"} => txs.exp
        /\ cmd.pc = "noteImport" => where[cmd.asset] = "ochain"

(* While every answer arrives there is at most the asset that is recorded, *)
(* or is about to be.                                                      *)
OneAsset ==
    net = "testnet" /\ ~lost /\ chain.asset = 0 =>
        \A a \in Assets : where[a] # "none" =>
            a = sidecar.elastic.txs.create \/ (cmd.pc = "noteCreate" /\ a = cmd.asset)

(* A command that records the transformation records the one that was.     *)
Transforming == cmd.pc \in {"file", "record"} => chain.asset = cmd.asset

(* A command line at rest has no validators to see to.                  *)
Rests == cmd.pc = "idle" => cmd.kind = "none" /\ cmd.list = {}

(* Validators that wait for their replacement validate, and the first of   *)
(* several to be replaced is added again before the last one is removed.   *)
Waiting == \A n \in cmd.list : chain.val[n] \in {"perm", "elastic"}
Replacing ==
    /\ cmd.pc = "add" => cmd.node \notin cmd.list
    /\ cmd.pc = "noteValidator" =>
          /\ cmd.node \in Nodes /\ cmd.node \notin cmd.list
          /\ chain.val[cmd.node] \in {"pending", "elastic"}
(* One of several validators stays while another is removed.            *)
SomeoneStays ==
    cmd.pc = "drop" /\ cmd.many =>
        \/ \E m, n \in cmd.list : m # n
        \/ \E n \in Nodes : n \notin cmd.list /\ chain.val[n] \in {"pending", "elastic"}

(* The types of all of them.                                            *)
TypeInv ==
    /\ NetOK /\ ChainOK /\ WhereOK /\ SidecarOK /\ FileOK /\ SavedOK
    /\ CmdOK /\ CountOK /\ LostOK

(* The inductive invariant.                                             *)
IndInv ==
    /\ TypeInv
    /\ Numbered /\ HasAsset /\ Apart /\ TxsDone /\ Resumed /\ OneAsset
    /\ Transforming /\ RecordedAsset
    /\ Rests /\ Waiting /\ Replacing /\ SomeoneStays

-----------------------------------------------------------------------------
(* The limits in a configuration are amounts.                           *)
LEMMA CfgFacts ==
    ASSUME NEW c \in Cfgs
    PROVE  c.initial \in Nat /\ c.most \in Nat /\ c.min \in Nat /\ c.max \in Nat
BY ElasticAssumption DEF Cfgs, NoConfig, Config

(* What the initial values are.                                         *)
LEMMA ConstFacts ==
    /\ 0 \in Subs /\ 0 \in Ids /\ Assets \subseteq Ids /\ 0 \notin Assets
    /\ NoConfig \in Cfgs /\ Configs \subseteq Cfgs
    /\ NoTxs \in Txs /\ NoEntry \in Entries /\ NoFile \in Files
    /\ NoChain \in Chains /\ NoChain.sub = 0 /\ NoChain.asset = 0
    /\ Idle \in Commands
<1>1. 0 \in Subs /\ 0 \in Ids /\ Assets \subseteq Ids /\ 0 \notin Assets
    BY ElasticAssumption DEF Subs, Ids, Assets
<1>2. NoConfig \in Cfgs /\ Configs \subseteq Cfgs
    BY DEF Cfgs
<1>3. NoTxs \in Txs
    BY <1>1 DEF NoTxs, Txs
<1>4. NoEntry \in Entries
    BY <1>1, <1>3 DEF NoEntry, Entries
<1>5. NoFile \in Files
    BY <1>1, <1>2 DEF NoFile, Files
<1>6. [n \in Nodes |-> "out"] \in [Nodes -> Status]
    BY DEF Status
<1>7. NoChain \in Chains /\ NoChain.sub = 0 /\ NoChain.asset = 0
    BY <1>1, <1>2, <1>6 DEF NoChain, Chains
<1>8. Idle \in Commands
    BY <1>1, <1>2 DEF Idle, Commands, Pcs
<1> QED
    BY <1>1, <1>2, <1>3, <1>4, <1>5, <1>7, <1>8

(* What the invariant says of each variable.                            *)
LEMMA TypeFacts ==
    ASSUME IndInv
    PROVE  /\ net \in Networks /\ (net = "local" \/ net = "testnet")
           /\ chain \in Chains /\ sidecar \in Sidecars /\ sidecar.elastic \in Entries
           /\ sidecar.elastic.txs \in Txs /\ cmd \in Commands
           /\ where \in [Assets -> Places] /\ file \in Files /\ saved \in Files
           /\ nextSub \in Nat
<1>1. net = "local" \/ net = "testnet"
    BY ElasticAssumption DEF IndInv, TypeInv, NetOK
<1>2. sidecar.elastic \in Entries
    BY DEF IndInv, TypeInv, SidecarOK, Sidecars
<1>3. sidecar.elastic.txs \in Txs
    BY <1>2 DEF Entries
<1>4. nextSub \in Nat
    BY ElasticAssumption DEF IndInv, TypeInv, CountOK
<1> QED
    BY <1>1, <1>2, <1>3, <1>4
    DEF IndInv, TypeInv, NetOK, ChainOK, SidecarOK, CmdOK, WhereOK, FileOK, SavedOK

(* A command that goes on to p, and one that ends.                         *)
Moves(p) ==
    /\ cmd' \in Commands /\ cmd'.pc = p
    /\ cmd'.kind = cmd.kind /\ cmd'.asset = cmd.asset /\ cmd'.cfg = cmd.cfg
    /\ cmd'.list = cmd.list /\ cmd'.many = cmd.many /\ cmd'.node = cmd.node

Ends ==
    /\ cmd' \in Commands /\ cmd'.pc = "idle" /\ cmd'.kind = "none"
    /\ cmd'.list = {} /\ cmd'.asset = 0

(* Goto goes on, ...                                                    *)
LEMMA GotoMoves ==
    ASSUME cmd \in Commands, NEW p \in Pcs, Goto(p)
    PROVE  Moves(p)
BY DEF Goto, Moves, Commands

(* ... Finish ends.                                                     *)
LEMMA FinishEnds ==
    ASSUME Finish
    PROVE  Ends
<1>1. cmd' \in Commands
    BY ConstFacts DEF Finish
<1> QED
    BY <1>1 DEF Finish, Ends, Idle

(* The subnet is elastic now; its validators are as before.                *)
Elastic(a) ==
    /\ chain' \in Chains /\ chain'.asset = a
    /\ chain'.sub = chain.sub /\ chain'.val = chain.val

(* A transformation changes the asset and the limits.                   *)
LEMMA TransformedFacts ==
    ASSUME chain \in Chains, NEW a \in Assets, NEW c \in Cfgs, Transformed(a, c)
    PROVE  Elastic(a)
<1>1. c.initial \in Nat /\ a \in Ids
    BY CfgFacts, ConstFacts
<1> QED
    BY <1>1 DEF Transformed, Elastic, Chains

(* The status of one validator changes.                                    *)
Becomes(n, s) ==
    /\ chain' \in Chains /\ chain'.asset = chain.asset /\ chain'.sub = chain.sub
    /\ chain'.val = [chain.val EXCEPT ![n] = s]
    /\ chain'.val[n] = s /\ \A m \in Nodes : m # n => chain'.val[m] = chain.val[m]

(* Writing the status of n, and what may still be staked, ...           *)
LEMMA BecomesFacts ==
    ASSUME chain \in Chains, NEW n \in Nodes, NEW s \in Status, NEW f \in Nat,
           chain' = [chain EXCEPT !.val[n] = s, !.free = f]
    PROVE  Becomes(n, s)
<1>1. chain.val \in [Nodes -> Status]
    BY DEF Chains
<1>2. chain'.val = [chain.val EXCEPT ![n] = s]
    BY DEF Chains
<1>3. chain'.val \in [Nodes -> Status]
    BY <1>1, <1>2
<1>4. chain' \in Chains /\ chain'.asset = chain.asset /\ chain'.sub = chain.sub
    BY <1>3 DEF Chains
<1> QED
    BY <1>1, <1>2, <1>4 DEF Becomes

(* ... and its status only.                                             *)
LEMMA BecomesOnly ==
    ASSUME chain \in Chains, NEW n \in Nodes, NEW s \in Status,
           chain' = [chain EXCEPT !.val[n] = s]
    PROVE  Becomes(n, s)
<1>1. chain' = [chain EXCEPT !.val[n] = s, !.free = chain.free] /\ chain.free \in Nat
    BY DEF Chains
<1> QED
    BY <1>1, BecomesFacts

(* Only the transactions of the entry are recorded.                        *)
Notes(txs) ==
    /\ sidecar' \in Sidecars /\ sidecar'.sub = sidecar.sub
    /\ sidecar'.elastic.txs = txs
    /\ sidecar'.elastic.sub = 0 /\ sidecar'.elastic.asset = 0

(* A partial entry notes its transactions.                              *)
LEMMA PartialNotes ==
    ASSUME sidecar \in Sidecars, NEW txs \in Txs, Partial(txs)
    PROVE  Notes(txs)
<1> DEFINE e == [NoEntry EXCEPT !.there = TRUE, !.txs = txs]
<1>1. e \in Entries /\ e.txs = txs /\ e.sub = 0 /\ e.asset = 0
    BY ConstFacts DEF NoEntry, Entries
<1>2. sidecar' = [sidecar EXCEPT !.elastic = e]
    BY DEF Partial
<1> HIDE DEF e
<1> QED
    BY <1>1, <1>2 DEF Notes, Sidecars

(* No supply comes back: what exists stays, and what left the A-Chain, or  *)
(* reached the O-Chain, has done so for good.                              *)
Forward ==
    /\ where' \in [Assets -> Places]
    /\ \A a \in Assets :
          /\ where[a] # "none" => where'[a] # "none"
          /\ where[a] \in {"flight", "ochain"} => where'[a] \in {"flight", "ochain"}
          /\ where[a] = "ochain" => where'[a] = "ochain"

(* What is recorded stays done while supplies move forward, ...         *)
LEMMA ForwardDone ==
    ASSUME TypeInv, TxsDone, Forward, sidecar' = sidecar
    PROVE  TxsDone'
<1>1. sidecar.elastic.txs.create \in Ids
    BY DEF TypeInv, SidecarOK, Sidecars, Entries, Txs
<1>2. sidecar.elastic.txs.create # 0 => sidecar.elastic.txs.create \in Assets
    BY <1>1 DEF Ids, Assets
<1> QED
    BY <1>2 DEF TxsDone, Forward

(* ... and an import from the A-Chain moves one forward.                *)
LEMMA ArrivedForward ==
    ASSUME where \in [Assets -> Places], where' = Arrived
    PROVE  Forward
<1>1. where' \in [Assets -> Places]
    BY DEF Arrived, Places
<1> QED
    BY <1>1 DEF Forward, Arrived

(* A command ends: no answer on an asset is lost unless that is noted.     *)
LEMMA EndStep ==
    ASSUME IndInv, Ends, UNCHANGED <<net, chain, where, sidecar, file, saved, nextSub>>,
           lost' \in BOOLEAN, lost => lost', cmd.pc = "noteCreate" => lost'
    PROVE  IndInv'
<1>1. /\ NetOK' /\ ChainOK' /\ WhereOK' /\ SidecarOK' /\ FileOK' /\ SavedOK' /\ CountOK'
      /\ Numbered' /\ TxsDone' /\ RecordedAsset'
    BY DEF IndInv, TypeInv, NetOK, ChainOK, WhereOK, SidecarOK, FileOK, SavedOK, CountOK,
      Numbered, TxsDone, RecordedAsset
<1>2. CmdOK'
    BY DEF Ends, IndInv, CmdOK
<1>3. LostOK'
    BY DEF LostOK
<1>4. HasAsset'
    BY DEF Ends, IndInv, HasAsset, Moving
<1>5. Apart'
    BY DEF Ends, IndInv, Apart, OnTestnet, OnLocal
<1>6. Resumed'
    BY DEF Ends, IndInv, Resumed, Moving
<1>7. OneAsset'
    BY DEF Ends, IndInv, OneAsset
<1>8. Transforming'
    BY DEF Ends, IndInv, Transforming
<1>9. Rests'
    BY DEF Ends, IndInv, Rests
<1>10. Waiting'
    BY DEF Ends, IndInv, Waiting
<1>11. Replacing'
    BY DEF Ends, IndInv, Replacing
<1>12. SomeoneStays'
    BY DEF Ends, IndInv, SomeoneStays
<1> QED
    BY <1>1, <1>2, <1>3, <1>4, <1>5, <1>6, <1>7, <1>8, <1>9, <1>10, <1>11, <1>12 DEF
      IndInv, TypeInv

(* It ends although the supply of an asset has moved.                      *)
LEMMA EndForward ==
    ASSUME IndInv, Ends, Forward, lost' = TRUE,
           UNCHANGED <<net, chain, sidecar, file, saved, nextSub>>
    PROVE  IndInv'
<1>1. /\ NetOK' /\ ChainOK' /\ SidecarOK' /\ FileOK' /\ SavedOK' /\ CountOK' /\ Numbered'
      /\ RecordedAsset'
    BY DEF IndInv, TypeInv, NetOK, ChainOK, SidecarOK, FileOK, SavedOK, CountOK,
      Numbered, RecordedAsset
<1>2. WhereOK'
    BY DEF Forward, WhereOK
<1>3. CmdOK'
    BY DEF Ends, IndInv, CmdOK
<1>4. LostOK'
    BY DEF LostOK
<1>5. HasAsset'
    BY DEF Ends, IndInv, HasAsset, Moving
<1>6. Apart'
    BY DEF Ends, IndInv, Apart, OnTestnet, OnLocal
<1>7. TxsDone'
    BY ForwardDone DEF IndInv
<1>8. Resumed'
    BY DEF Ends, IndInv, Resumed, Moving
<1>9. OneAsset'
    BY DEF OneAsset
<1>10. Transforming'
    BY DEF Ends, IndInv, Transforming
<1>11. Rests'
    BY DEF Ends, IndInv, Rests
<1>12. Waiting'
    BY DEF Ends, IndInv, Waiting
<1>13. Replacing'
    BY DEF Ends, IndInv, Replacing
<1>14. SomeoneStays'
    BY DEF Ends, IndInv, SomeoneStays
<1> QED
    BY <1>1, <1>2, <1>3, <1>4, <1>5, <1>6, <1>7, <1>8, <1>9, <1>10, <1>11, <1>12, <1>13,
      <1>14 DEF IndInv, TypeInv

(* ... although the subnet has been transformed.                           *)
LEMMA EndElastic ==
    ASSUME IndInv, Ends, NEW a \in Assets, Elastic(a), chain.asset = 0, lost' = TRUE,
           UNCHANGED <<net, where, sidecar, file, saved, nextSub>>, chain.sub # 0
    PROVE  IndInv'
<1>1. Elastic(a) /\ chain.asset = 0 /\ a # 0 /\ chain.sub # 0
    BY ConstFacts
<1>2. NetOK' /\ WhereOK' /\ SidecarOK' /\ FileOK' /\ SavedOK' /\ CountOK' /\ TxsDone'
    BY DEF IndInv, TypeInv, NetOK, WhereOK, SidecarOK, FileOK, SavedOK, CountOK, TxsDone
<1>3. ChainOK'
    BY <1>1 DEF Elastic, ChainOK
<1>4. CmdOK'
    BY DEF Ends, IndInv, CmdOK
<1>5. LostOK'
    BY DEF LostOK
<1>6. Numbered'
    BY <1>1 DEF Elastic, IndInv, Numbered
<1>7. HasAsset'
    BY DEF Ends, IndInv, HasAsset, Moving
<1>8. Apart'
    BY DEF Ends, IndInv, Apart, OnTestnet, OnLocal
<1>9. Resumed'
    BY DEF Ends, IndInv, Resumed, Moving
<1>10. OneAsset'
    BY DEF OneAsset
<1>11. Transforming'
    BY DEF Ends, IndInv, Transforming
<1>12. RecordedAsset'
    BY <1>1 DEF Elastic, IndInv, RecordedAsset
<1>13. Rests'
    BY DEF Ends, IndInv, Rests
<1>14. Waiting'
    BY DEF Ends, IndInv, Waiting
<1>15. Replacing'
    BY DEF Ends, IndInv, Replacing
<1>16. SomeoneStays'
    BY DEF Ends, IndInv, SomeoneStays
<1> QED
    BY <1>2, <1>3, <1>4, <1>5, <1>6, <1>7, <1>8, <1>9, <1>10, <1>11, <1>12, <1>13, <1>14,
      <1>15, <1>16 DEF IndInv, TypeInv

(* ... although the status of a validator has changed.                     *)
LEMMA EndBecomes ==
    ASSUME IndInv, Ends, NEW n \in Nodes, NEW s \in Status, Becomes(n, s), lost' = TRUE,
           UNCHANGED <<net, where, sidecar, file, saved, nextSub>>
    PROVE  IndInv'
<1>1. NetOK' /\ WhereOK' /\ SidecarOK' /\ FileOK' /\ SavedOK' /\ CountOK' /\ TxsDone'
    BY DEF IndInv, TypeInv, NetOK, WhereOK, SidecarOK, FileOK, SavedOK, CountOK, TxsDone
<1>2. ChainOK'
    BY DEF Becomes, ChainOK
<1>3. CmdOK'
    BY DEF Ends, IndInv, CmdOK
<1>4. LostOK'
    BY DEF LostOK
<1>5. Numbered'
    BY DEF Becomes, IndInv, Numbered
<1>6. HasAsset'
    BY DEF Ends, IndInv, HasAsset, Moving
<1>7. Apart'
    BY DEF Ends, IndInv, Apart, OnTestnet, OnLocal
<1>8. Resumed'
    BY DEF Ends, IndInv, Resumed, Moving
<1>9. OneAsset'
    BY DEF OneAsset
<1>10. Transforming'
    BY DEF Ends, IndInv, Transforming
<1>11. RecordedAsset'
    BY DEF Becomes, IndInv, RecordedAsset
<1>12. Rests'
    BY DEF Ends, IndInv, Rests
<1>13. Waiting'
    BY DEF Ends, IndInv, Waiting
<1>14. Replacing'
    BY DEF Ends, IndInv, Replacing
<1>15. SomeoneStays'
    BY DEF Ends, IndInv, SomeoneStays
<1> QED
    BY <1>1, <1>2, <1>3, <1>4, <1>5, <1>6, <1>7, <1>8, <1>9, <1>10, <1>11, <1>12, <1>13,
      <1>14, <1>15 DEF IndInv, TypeInv

LEMMA DeployStep ==
    ASSUME IndInv, Deploy
    PROVE  IndInv'
<1>1. /\ chain \in Chains /\ sidecar \in Sidecars /\ nextSub \in Subs /\ nextSub # 0
      /\ chain.sub = 0 /\ cmd.pc = "idle" /\ nextSub' = nextSub + 1
    BY TypeFacts, ElasticAssumption DEF Deploy, IndInv, TypeInv, CountOK, Subs, Running
<1>2. chain' \in Chains /\ chain'.sub = nextSub /\ chain'.asset = 0
  <2> DEFINE v == [n \in Nodes |-> IF net = "local" THEN "perm" ELSE "out"]
  <2>1. v \in [Nodes -> Status]
      BY DEF Status
  <2>2. chain' = [NoChain EXCEPT !.sub = nextSub, !.val = v]
      BY DEF Deploy
  <2> HIDE DEF v
  <2> QED
      BY <1>1, <2>1, <2>2, ConstFacts DEF Chains
<1>3. sidecar' \in Sidecars /\ sidecar'.sub = nextSub /\ sidecar'.elastic = sidecar.elastic
    BY <1>1 DEF Deploy, Sidecars
<1>4. nextSub \in Nat /\ sidecar.elastic.sub \in Int
    BY TypeFacts, ElasticAssumption DEF Entries, Subs
<1>5. UNCHANGED <<net, where, file, saved, cmd, lost>>
    BY DEF Deploy
<1>6. /\ NetOK' /\ WhereOK' /\ FileOK' /\ SavedOK' /\ CmdOK' /\ LostOK' /\ HasAsset'
      /\ Rests'
    BY <1>5 DEF IndInv, TypeInv, NetOK, WhereOK, FileOK, SavedOK, CmdOK, LostOK, HasAsset,
      Rests
<1>7. ChainOK'
    BY <1>2 DEF ChainOK
<1>8. SidecarOK'
    BY <1>3 DEF SidecarOK
<1>9. CountOK'
    BY <1>1, ElasticAssumption DEF CountOK, Subs
<1>10. Numbered'
    BY <1>1, <1>2, <1>3, <1>4 DEF IndInv, Numbered
<1>11. Apart'
    BY <1>1, <1>2, <1>3, <1>4, <1>5 DEF IndInv, Apart, OnTestnet, OnLocal
<1>12. TxsDone'
    BY <1>1, <1>2, <1>3, <1>4, <1>5 DEF IndInv, TxsDone
<1>13. Resumed'
    BY <1>1, <1>2, <1>3, <1>4, <1>5 DEF IndInv, Resumed, Moving
<1>14. OneAsset'
    BY <1>1, <1>2, <1>3, <1>5 DEF IndInv, OneAsset, Numbered
<1>15. Transforming'
    BY <1>1, <1>2, <1>3, <1>4, <1>5 DEF IndInv, Transforming
<1>16. RecordedAsset'
    BY <1>2, <1>3, TypeFacts DEF IndInv, RecordedAsset, Numbered, Entries
<1>17. Waiting'
    BY <1>1, <1>5 DEF IndInv, Rests, Waiting
<1>18. Replacing'
    BY <1>1, <1>2, <1>3, <1>4, <1>5 DEF IndInv, Replacing
<1>19. SomeoneStays'
    BY <1>1, <1>2, <1>3, <1>4, <1>5 DEF IndInv, SomeoneStays
<1> QED
    BY <1>6, <1>7, <1>8, <1>9, <1>10, <1>11, <1>12, <1>13, <1>14, <1>15, <1>16, <1>17, <1>18,
      <1>19 DEF IndInv, TypeInv

LEMMA BeginElasticStep ==
    ASSUME IndInv, NEW c \in Configs, BeginElastic(c)
    PROVE  IndInv'
<1>1. /\ cmd' \in Commands /\ cmd'.pc = "create" /\ cmd'.list = {}
      /\ cmd'.kind = "elastic" /\ cmd'.asset = 0
    BY ConstFacts DEF BeginElastic, Commands, Pcs, Idle
<1>2. cmd.pc = "idle"
    BY DEF BeginElastic, Running
<1>3. UNCHANGED <<net, chain, where, sidecar, file, saved, nextSub, lost>>
    BY DEF BeginElastic
<1>4. /\ NetOK' /\ ChainOK' /\ WhereOK' /\ SidecarOK' /\ FileOK' /\ SavedOK' /\ CountOK'
      /\ LostOK' /\ Numbered' /\ TxsDone' /\ RecordedAsset'
    BY <1>3 DEF IndInv, TypeInv, NetOK, ChainOK, WhereOK, SidecarOK, FileOK, SavedOK, CountOK,
      LostOK, Numbered, TxsDone, RecordedAsset
<1>5. CmdOK'
    BY <1>1 DEF CmdOK
<1>6. HasAsset'
    BY <1>1, <1>2, <1>3 DEF IndInv, HasAsset, Moving
<1>7. Apart'
    BY <1>1, <1>2, <1>3 DEF IndInv, Apart, OnTestnet, OnLocal
<1>8. Resumed'
    BY <1>1, <1>2, <1>3 DEF IndInv, Resumed, Moving
<1>9. OneAsset'
    BY <1>1, <1>2, <1>3 DEF IndInv, OneAsset
<1>10. Transforming'
    BY <1>1, <1>2, <1>3 DEF IndInv, Transforming
<1>11. Rests'
    BY <1>1, <1>2, <1>3 DEF IndInv, Rests
<1>12. Waiting'
    BY <1>1, <1>2, <1>3 DEF IndInv, Waiting
<1>13. Replacing'
    BY <1>1, <1>2, <1>3 DEF IndInv, Replacing
<1>14. SomeoneStays'
    BY <1>1, <1>2, <1>3 DEF IndInv, SomeoneStays
<1> QED
    BY <1>4, <1>5, <1>6, <1>7, <1>8, <1>9, <1>10, <1>11, <1>12, <1>13, <1>14 DEF IndInv,
      TypeInv

LEMMA SkipCreateStep ==
    ASSUME IndInv, SkipCreate
    PROVE  IndInv'
<1>1. /\ cmd \in Commands /\ sidecar.elastic.txs.create \in Ids
      /\ net = "testnet" /\ cmd.pc = "create" /\ sidecar.elastic.txs.create # 0
    BY TypeFacts DEF SkipCreate, HasOccurred, Txs
<1>2. /\ cmd' \in Commands /\ cmd'.pc = "export" /\ cmd'.list = cmd.list
      /\ cmd'.asset = sidecar.elastic.txs.create
    BY <1>1 DEF SkipCreate, Commands, Pcs
<1>3. cmd'.asset \in Assets
    BY <1>1, <1>2 DEF Ids, Assets
<1>4. UNCHANGED <<net, chain, where, sidecar, file, saved, nextSub, lost>>
    BY DEF SkipCreate
<1>5. /\ NetOK' /\ ChainOK' /\ WhereOK' /\ SidecarOK' /\ FileOK' /\ SavedOK' /\ CountOK'
      /\ LostOK' /\ Numbered' /\ TxsDone' /\ RecordedAsset'
    BY <1>4 DEF IndInv, TypeInv, NetOK, ChainOK, WhereOK, SidecarOK, FileOK, SavedOK, CountOK,
      LostOK, Numbered, TxsDone, RecordedAsset
<1>6. CmdOK'
    BY <1>2 DEF CmdOK
<1>7. HasAsset'
    BY <1>1, <1>2, <1>3, <1>4 DEF IndInv, TxsDone, HasAsset
<1>8. Apart'
    BY <1>1, <1>2, <1>3, <1>4 DEF IndInv, Apart, OnTestnet, OnLocal
<1>9. Resumed'
    BY <1>1, <1>2, <1>3, <1>4 DEF IndInv, Resumed, Moving
<1>10. OneAsset'
    BY <1>1, <1>2, <1>3, <1>4 DEF IndInv, OneAsset
<1>11. Transforming'
    BY <1>1, <1>2, <1>3, <1>4 DEF IndInv, Transforming
<1>12. Rests'
    BY <1>1, <1>2, <1>3, <1>4 DEF IndInv, Rests
<1>13. Waiting'
    BY <1>1, <1>2, <1>3, <1>4 DEF IndInv, Waiting
<1>14. Replacing'
    BY <1>1, <1>2, <1>3, <1>4 DEF IndInv, Replacing
<1>15. SomeoneStays'
    BY <1>1, <1>2, <1>3, <1>4 DEF IndInv, SomeoneStays
<1> QED
    BY <1>5, <1>6, <1>7, <1>8, <1>9, <1>10, <1>11, <1>12, <1>13, <1>14, <1>15 DEF IndInv,
      TypeInv

LEMMA CreateAssetStep ==
    ASSUME IndInv, NEW a \in Assets, CreateAsset(a)
    PROVE  IndInv'
<1>1. /\ cmd \in Commands /\ where \in [Assets -> Places] /\ a \in Ids /\ where[a] = "none"
      /\ cmd.pc = "create" /\ (net = "testnet" => sidecar.elastic.txs.create = 0)
    BY TypeFacts, ConstFacts DEF CreateAsset, HasOccurred, Fresh
<1>2. /\ cmd' \in Commands /\ cmd'.pc = (IF net = "local" THEN "export" ELSE "noteCreate")
      /\ cmd'.list = cmd.list /\ cmd'.asset = a
    BY <1>1 DEF CreateAsset, Commands, Pcs
<1>3. where' \in [Assets -> Places] /\ where'[a] = "achain" /\ \A b \in Assets : b # a =>
  where'[b] = where[b]
    BY <1>1 DEF CreateAsset, Places
<1>4. net = "local" \/ net = "testnet"
    BY TypeFacts
<1>5. Forward
    BY <1>1, <1>3 DEF Forward, Places
<1>6. UNCHANGED <<net, chain, sidecar, file, saved, nextSub, lost>>
    BY DEF CreateAsset
<1>7. /\ NetOK' /\ ChainOK' /\ SidecarOK' /\ FileOK' /\ SavedOK' /\ CountOK' /\ LostOK'
      /\ Numbered' /\ RecordedAsset'
    BY <1>6 DEF IndInv, TypeInv, NetOK, ChainOK, SidecarOK, FileOK, SavedOK, CountOK, LostOK,
      Numbered, RecordedAsset
<1>8. WhereOK'
    BY <1>3 DEF WhereOK
<1>9. CmdOK'
    BY <1>2 DEF CmdOK
<1>10. HasAsset'
    BY <1>2, <1>3 DEF HasAsset
<1>11. Apart'
    BY <1>2, <1>4, <1>6 DEF IndInv, Apart, OnTestnet, OnLocal
<1>12. TxsDone'
    BY <1>5, <1>6, ForwardDone DEF IndInv
<1>13. Resumed'
    BY <1>1, <1>2, <1>4, <1>6 DEF Resumed, Moving
<1>14. OneAsset'
    BY <1>1, <1>2, <1>3, <1>4, <1>6 DEF IndInv, OneAsset
<1>15. Transforming'
    BY <1>1, <1>2, <1>3, <1>4, <1>5, <1>6 DEF IndInv, Transforming
<1>16. Rests'
    BY <1>1, <1>2, <1>3, <1>4, <1>5, <1>6 DEF IndInv, Rests
<1>17. Waiting'
    BY <1>1, <1>2, <1>3, <1>4, <1>5, <1>6 DEF IndInv, Waiting
<1>18. Replacing'
    BY <1>1, <1>2, <1>3, <1>4, <1>5, <1>6 DEF IndInv, Replacing
<1>19. SomeoneStays'
    BY <1>1, <1>2, <1>3, <1>4, <1>5, <1>6 DEF IndInv, SomeoneStays
<1> QED
    BY <1>7, <1>8, <1>9, <1>10, <1>11, <1>12, <1>13, <1>14, <1>15, <1>16, <1>17, <1>18, <1>19
      DEF IndInv, TypeInv

LEMMA NoteCreateStep ==
    ASSUME IndInv, NoteCreate
    PROVE  IndInv'
<1>1. /\ cmd \in Commands /\ sidecar \in Sidecars /\ sidecar.elastic.txs \in Txs
      /\ cmd.pc = "noteCreate" /\ cmd.asset \in Assets /\ where[cmd.asset] # "none"
    BY TypeFacts DEF NoteCreate, IndInv, HasAsset
<1>2. net = "testnet" /\ sidecar.elastic.txs.create = 0
    BY <1>1, TypeFacts DEF IndInv, Apart, OnTestnet, Resumed
<1>3. Moves("export")
    BY <1>1, GotoMoves DEF NoteCreate, Pcs
<1>4. Notes([sidecar.elastic.txs EXCEPT !.create = cmd.asset])
  <2>1. [sidecar.elastic.txs EXCEPT !.create = cmd.asset] \in Txs
      BY <1>1, ConstFacts DEF Txs
  <2> QED
      BY <1>1, <2>1, PartialNotes DEF NoteCreate
<1>5. /\ sidecar'.elastic.txs.create = cmd.asset
      /\ sidecar'.elastic.txs.exp = sidecar.elastic.txs.exp
      /\ sidecar'.elastic.txs.imp = sidecar.elastic.txs.imp
    BY <1>1, <1>4 DEF Notes, Txs
<1>6. nextSub > 0
    BY TypeFacts DEF IndInv, TypeInv, CountOK
<1>7. cmd.asset # 0
    BY <1>1, ConstFacts
<1>8. UNCHANGED <<net, chain, where, file, saved, nextSub, lost>>
    BY DEF NoteCreate
<1>9. NetOK' /\ ChainOK' /\ WhereOK' /\ FileOK' /\ SavedOK' /\ CountOK' /\ LostOK'
    BY <1>8 DEF IndInv, TypeInv, NetOK, ChainOK, WhereOK, FileOK, SavedOK, CountOK, LostOK
<1>10. SidecarOK'
    BY <1>4 DEF Notes, SidecarOK
<1>11. CmdOK'
    BY <1>3 DEF Moves, CmdOK
<1>12. Numbered'
    BY <1>4, <1>6, <1>8 DEF Notes, IndInv, Numbered
<1>13. HasAsset'
    BY <1>1, <1>3, <1>8 DEF Moves, HasAsset
<1>14. Apart'
    BY <1>2, <1>3, <1>8 DEF Moves, Apart, OnLocal
<1>15. TxsDone'
    BY <1>1, <1>2, <1>5, <1>7, <1>8 DEF IndInv, TxsDone
<1>16. Resumed'
    BY <1>3, <1>5, <1>8 DEF Moves, Resumed
<1>17. OneAsset'
    BY <1>1, <1>2, <1>3, <1>5, <1>7, <1>8, ConstFacts DEF Moves, IndInv, OneAsset
<1>18. Transforming'
    BY <1>3 DEF Moves, Transforming
<1>19. RecordedAsset'
    BY <1>4 DEF Notes, RecordedAsset
<1>20. Rests'
    BY <1>3 DEF Moves, Rests
<1>21. Waiting'
    BY <1>3, <1>8 DEF Moves, IndInv, Waiting
<1>22. Replacing'
    BY <1>3 DEF Moves, Replacing
<1>23. SomeoneStays'
    BY <1>3 DEF Moves, SomeoneStays
<1> QED
    BY <1>9, <1>10, <1>11, <1>12, <1>13, <1>14, <1>15, <1>16, <1>17, <1>18, <1>19, <1>20,
      <1>21, <1>22, <1>23 DEF IndInv, TypeInv

LEMMA SkipExportStep ==
    ASSUME IndInv, SkipExport
    PROVE  IndInv'
<1>1. /\ cmd \in Commands /\ cmd.pc = "export" /\ net = "testnet"
      /\ sidecar.elastic.txs.exp
    BY TypeFacts DEF SkipExport, HasOccurred
<1>2. Moves("import")
    BY <1>1, GotoMoves DEF SkipExport, Pcs
<1>3. UNCHANGED <<net, chain, where, sidecar, file, saved, nextSub, lost>>
    BY DEF SkipExport
<1>4. /\ NetOK' /\ ChainOK' /\ WhereOK' /\ SidecarOK' /\ FileOK' /\ SavedOK' /\ CountOK'
      /\ LostOK' /\ Numbered' /\ TxsDone' /\ RecordedAsset'
    BY <1>3 DEF IndInv, TypeInv, NetOK, ChainOK, WhereOK, SidecarOK, FileOK, SavedOK, CountOK,
      LostOK, Numbered, TxsDone, RecordedAsset
<1>5. CmdOK'
    BY <1>2 DEF Moves, CmdOK
<1>6. HasAsset'
    BY <1>1, <1>2, <1>3 DEF Moves, IndInv, HasAsset, Moving
<1>7. Apart'
    BY <1>1, <1>2, <1>3 DEF Moves, IndInv, Apart, OnTestnet, OnLocal
<1>8. Resumed'
    BY <1>1, <1>2, <1>3 DEF Moves, IndInv, Resumed, Moving
<1>9. OneAsset'
    BY <1>1, <1>2, <1>3 DEF Moves, IndInv, OneAsset
<1>10. Transforming'
    BY <1>2, <1>3 DEF Moves, IndInv, Transforming
<1>11. Rests'
    BY <1>2 DEF Moves, Rests
<1>12. Waiting'
    BY <1>2, <1>3 DEF Moves, IndInv, Waiting
<1>13. Replacing'
    BY <1>2 DEF Moves, Replacing
<1>14. SomeoneStays'
    BY <1>2 DEF Moves, SomeoneStays
<1> QED
    BY <1>4, <1>5, <1>6, <1>7, <1>8, <1>9, <1>10, <1>11, <1>12, <1>13, <1>14 DEF IndInv,
      TypeInv

LEMMA SkipImportStep ==
    ASSUME IndInv, SkipImport
    PROVE  IndInv'
<1>1. /\ cmd \in Commands /\ cmd.pc = "import" /\ net = "testnet"
      /\ sidecar.elastic.txs.imp
    BY TypeFacts DEF SkipImport, HasOccurred
<1>2. Moves("transform")
    BY <1>1, GotoMoves DEF SkipImport, Pcs
<1>3. UNCHANGED <<net, chain, where, sidecar, file, saved, nextSub, lost>>
    BY DEF SkipImport
<1>4. /\ NetOK' /\ ChainOK' /\ WhereOK' /\ SidecarOK' /\ FileOK' /\ SavedOK' /\ CountOK'
      /\ LostOK' /\ Numbered' /\ TxsDone' /\ RecordedAsset'
    BY <1>3 DEF IndInv, TypeInv, NetOK, ChainOK, WhereOK, SidecarOK, FileOK, SavedOK, CountOK,
      LostOK, Numbered, TxsDone, RecordedAsset
<1>5. CmdOK'
    BY <1>2 DEF Moves, CmdOK
<1>6. HasAsset'
    BY <1>1, <1>2, <1>3 DEF Moves, IndInv, HasAsset, Moving
<1>7. Apart'
    BY <1>1, <1>2, <1>3 DEF Moves, IndInv, Apart, OnTestnet, OnLocal
<1>8. Resumed'
    BY <1>1, <1>2, <1>3 DEF Moves, IndInv, Resumed, Moving
<1>9. OneAsset'
    BY <1>1, <1>2, <1>3 DEF Moves, IndInv, OneAsset
<1>10. Transforming'
    BY <1>2, <1>3 DEF Moves, IndInv, Transforming
<1>11. Rests'
    BY <1>2 DEF Moves, Rests
<1>12. Waiting'
    BY <1>2, <1>3 DEF Moves, IndInv, Waiting
<1>13. Replacing'
    BY <1>2 DEF Moves, Replacing
<1>14. SomeoneStays'
    BY <1>2 DEF Moves, SomeoneStays
<1> QED
    BY <1>4, <1>5, <1>6, <1>7, <1>8, <1>9, <1>10, <1>11, <1>12, <1>13, <1>14 DEF IndInv,
      TypeInv

LEMMA ExportAssetStep ==
    ASSUME IndInv, ExportAsset
    PROVE  IndInv'
<1>1. /\ cmd \in Commands /\ where \in [Assets -> Places] /\ cmd.pc = "export"
      /\ cmd.asset \in Assets /\ where[cmd.asset] = "achain"
    BY TypeFacts DEF ExportAsset, IndInv, HasAsset, Moving
<1>2. Moves(AfterExport)
  <2>1. AfterExport \in Pcs
      BY DEF AfterExport, Pcs
  <2> QED
      BY <1>1, <2>1, GotoMoves DEF ExportAsset
<1>3. /\ where' \in [Assets -> Places] /\ where'[cmd.asset] = "flight"
      /\ \A b \in Assets : b # cmd.asset => where'[b] = where[b]
    BY <1>1 DEF ExportAsset, Places
<1>4. \/ net = "local" /\ cmd'.pc = "import"
      \/ net = "testnet" /\ cmd'.pc = "noteExport"
    BY <1>2, TypeFacts DEF Moves, AfterExport
<1>5. Forward
    BY <1>1, <1>3 DEF Forward, Places
<1>6. UNCHANGED <<net, chain, sidecar, file, saved, nextSub, lost>>
    BY DEF ExportAsset
<1>7. /\ NetOK' /\ ChainOK' /\ SidecarOK' /\ FileOK' /\ SavedOK' /\ CountOK' /\ LostOK'
      /\ Numbered' /\ RecordedAsset'
    BY <1>6 DEF IndInv, TypeInv, NetOK, ChainOK, SidecarOK, FileOK, SavedOK, CountOK, LostOK,
      Numbered, RecordedAsset
<1>8. WhereOK'
    BY <1>3 DEF WhereOK
<1>9. CmdOK'
    BY <1>2 DEF Moves, CmdOK
<1>10. HasAsset'
    BY <1>1, <1>2, <1>3 DEF Moves, HasAsset
<1>11. Apart'
    BY <1>4, <1>6 DEF IndInv, Apart, OnTestnet, OnLocal
<1>12. TxsDone'
    BY <1>5, <1>6, ForwardDone DEF IndInv
<1>13. Resumed'
    BY <1>1, <1>2, <1>3, <1>4, <1>6 DEF Moves, IndInv, Resumed, Moving
<1>14. OneAsset'
    BY <1>1, <1>2, <1>3, <1>4, <1>6 DEF Moves, IndInv, OneAsset
<1>15. Transforming'
    BY <1>4 DEF Transforming
<1>16. Rests'
    BY <1>4 DEF Rests
<1>17. Waiting'
    BY <1>2, <1>6 DEF Moves, IndInv, Waiting
<1>18. Replacing'
    BY <1>4 DEF Replacing
<1>19. SomeoneStays'
    BY <1>4 DEF SomeoneStays
<1> QED
    BY <1>7, <1>8, <1>9, <1>10, <1>11, <1>12, <1>13, <1>14, <1>15, <1>16, <1>17, <1>18, <1>19
      DEF IndInv, TypeInv

LEMMA NoteExportStep ==
    ASSUME IndInv, NoteExport
    PROVE  IndInv'
<1>1. /\ cmd \in Commands /\ sidecar \in Sidecars /\ sidecar.elastic.txs \in Txs
      /\ cmd.pc = "noteExport" /\ cmd.asset \in Assets /\ where[cmd.asset] # "none"
    BY TypeFacts DEF NoteExport, IndInv, HasAsset, Moving
<1>2. net = "testnet" /\ sidecar.elastic.txs.create = cmd.asset
    BY <1>1, TypeFacts DEF IndInv, Apart, OnTestnet, Resumed, Moving
<1>3. Moves("import")
    BY <1>1, GotoMoves DEF NoteExport, Pcs
<1>4. Notes([sidecar.elastic.txs EXCEPT !.exp = TRUE])
  <2>1. [sidecar.elastic.txs EXCEPT !.exp = TRUE] \in Txs
      BY <1>1 DEF Txs
  <2> QED
      BY <1>1, <2>1, PartialNotes DEF NoteExport
<1>5. /\ sidecar'.elastic.txs.create = cmd.asset /\ sidecar'.elastic.txs.exp
      /\ sidecar'.elastic.txs.imp = sidecar.elastic.txs.imp
    BY <1>1, <1>2, <1>4 DEF Notes, Txs
<1>6. nextSub > 0
    BY TypeFacts DEF IndInv, TypeInv, CountOK
<1>7. cmd.asset # 0
    BY <1>1, ConstFacts
<1>8. where[cmd.asset] \in {"flight", "ochain"}
    BY <1>1, <1>2 DEF IndInv, Resumed
<1>9. UNCHANGED <<net, chain, where, file, saved, nextSub, lost>>
    BY DEF NoteExport
<1>10. NetOK' /\ ChainOK' /\ WhereOK' /\ FileOK' /\ SavedOK' /\ CountOK' /\ LostOK'
    BY <1>9 DEF IndInv, TypeInv, NetOK, ChainOK, WhereOK, FileOK, SavedOK, CountOK, LostOK
<1>11. SidecarOK'
    BY <1>4 DEF Notes, SidecarOK
<1>12. CmdOK'
    BY <1>3 DEF Moves, CmdOK
<1>13. Numbered'
    BY <1>4, <1>6, <1>9 DEF Notes, IndInv, Numbered
<1>14. HasAsset'
    BY <1>1, <1>3, <1>9 DEF Moves, HasAsset
<1>15. Apart'
    BY <1>2, <1>3, <1>9 DEF Moves, Apart, OnLocal
<1>16. TxsDone'
    BY <1>1, <1>2, <1>5, <1>7, <1>8, <1>9 DEF IndInv, TxsDone
<1>17. Resumed'
    BY <1>3, <1>5, <1>8, <1>9 DEF Moves, Resumed
<1>18. OneAsset'
    BY <1>1, <1>2, <1>3, <1>5, <1>9 DEF Moves, IndInv, OneAsset
<1>19. Transforming'
    BY <1>3 DEF Moves, Transforming
<1>20. RecordedAsset'
    BY <1>4 DEF Notes, RecordedAsset
<1>21. Rests'
    BY <1>3 DEF Moves, Rests
<1>22. Waiting'
    BY <1>3, <1>9 DEF Moves, IndInv, Waiting
<1>23. Replacing'
    BY <1>3 DEF Moves, Replacing
<1>24. SomeoneStays'
    BY <1>3 DEF Moves, SomeoneStays
<1> QED
    BY <1>10, <1>11, <1>12, <1>13, <1>14, <1>15, <1>16, <1>17, <1>18, <1>19, <1>20, <1>21,
      <1>22, <1>23, <1>24 DEF IndInv, TypeInv

LEMMA NoteImportStep ==
    ASSUME IndInv, NoteImport
    PROVE  IndInv'
<1>1. /\ cmd \in Commands /\ sidecar \in Sidecars /\ sidecar.elastic.txs \in Txs
      /\ cmd.pc = "noteImport" /\ cmd.asset \in Assets /\ where[cmd.asset] # "none"
    BY TypeFacts DEF NoteImport, IndInv, HasAsset, Moving
<1>2. net = "testnet" /\ sidecar.elastic.txs.create = cmd.asset
    BY <1>1, TypeFacts DEF IndInv, Apart, OnTestnet, Resumed, Moving
<1>3. Moves("transform")
    BY <1>1, GotoMoves DEF NoteImport, Pcs
<1>4. Notes([sidecar.elastic.txs EXCEPT !.imp = TRUE])
  <2>1. [sidecar.elastic.txs EXCEPT !.imp = TRUE] \in Txs
      BY <1>1 DEF Txs
  <2> QED
      BY <1>1, <2>1, PartialNotes DEF NoteImport
<1>5. /\ sidecar'.elastic.txs.create = cmd.asset /\ sidecar'.elastic.txs.imp
      /\ sidecar'.elastic.txs.exp = sidecar.elastic.txs.exp
    BY <1>1, <1>2, <1>4 DEF Notes, Txs
<1>6. nextSub > 0
    BY TypeFacts DEF IndInv, TypeInv, CountOK
<1>7. cmd.asset # 0
    BY <1>1, ConstFacts
<1>8. where[cmd.asset] = "ochain" /\ sidecar.elastic.txs.exp
    BY <1>1, <1>2 DEF IndInv, Resumed
<1>9. UNCHANGED <<net, chain, where, file, saved, nextSub, lost>>
    BY DEF NoteImport
<1>10. NetOK' /\ ChainOK' /\ WhereOK' /\ FileOK' /\ SavedOK' /\ CountOK' /\ LostOK'
    BY <1>9 DEF IndInv, TypeInv, NetOK, ChainOK, WhereOK, FileOK, SavedOK, CountOK, LostOK
<1>11. SidecarOK'
    BY <1>4 DEF Notes, SidecarOK
<1>12. CmdOK'
    BY <1>3 DEF Moves, CmdOK
<1>13. Numbered'
    BY <1>4, <1>6, <1>9 DEF Notes, IndInv, Numbered
<1>14. HasAsset'
    BY <1>1, <1>3, <1>9 DEF Moves, HasAsset
<1>15. Apart'
    BY <1>2, <1>3, <1>9 DEF Moves, Apart, OnLocal
<1>16. TxsDone'
    BY <1>1, <1>2, <1>5, <1>7, <1>8, <1>9 DEF IndInv, TxsDone
<1>17. Resumed'
    BY <1>3, <1>5, <1>8, <1>9 DEF Moves, Resumed
<1>18. OneAsset'
    BY <1>1, <1>2, <1>3, <1>5, <1>9 DEF Moves, IndInv, OneAsset
<1>19. Transforming'
    BY <1>3 DEF Moves, Transforming
<1>20. RecordedAsset'
    BY <1>4 DEF Notes, RecordedAsset
<1>21. Rests'
    BY <1>3 DEF Moves, Rests
<1>22. Waiting'
    BY <1>3, <1>9 DEF Moves, IndInv, Waiting
<1>23. Replacing'
    BY <1>3 DEF Moves, Replacing
<1>24. SomeoneStays'
    BY <1>3 DEF Moves, SomeoneStays
<1> QED
    BY <1>10, <1>11, <1>12, <1>13, <1>14, <1>15, <1>16, <1>17, <1>18, <1>19, <1>20, <1>21,
      <1>22, <1>23, <1>24 DEF IndInv, TypeInv

LEMMA ImportAssetStep ==
    ASSUME IndInv, ImportAsset
    PROVE  IndInv'
<1>1. /\ cmd \in Commands /\ where \in [Assets -> Places] /\ cmd.pc = "import"
      /\ cmd.asset \in Assets
      /\ (net = "local" \/ net = "testnet")
    BY TypeFacts DEF ImportAsset, IndInv, HasAsset, Moving
<1>2. Moves(IF net = "local" THEN "transform" ELSE "noteImport")
  <2> DEFINE p == IF net = "local" THEN "transform" ELSE "noteImport"
  <2>1. p \in Pcs
      BY DEF Pcs
  <2>2. Goto(p)
      BY DEF ImportAsset
  <2> HIDE DEF p
  <2>3. Moves(p)
      BY <1>1, <2>1, <2>2, GotoMoves
  <2> QED
      BY <2>3 DEF p
<1>3. where' = Arrived
    BY DEF ImportAsset
<1>4. Forward
    BY <1>1, <1>3, ArrivedForward
<1>5. \/ net = "local" /\ cmd'.pc = "transform"
      \/ net = "testnet" /\ cmd'.pc = "noteImport"
    BY <1>1, <1>2 DEF Moves
<1>6. net = "testnet" => /\ cmd.asset = sidecar.elastic.txs.create /\ sidecar.elastic.txs.exp
                          /\ where'[cmd.asset] = "ochain"
  <2> SUFFICES ASSUME net = "testnet"
               PROVE  /\ cmd.asset = sidecar.elastic.txs.create /\ sidecar.elastic.txs.exp
                      /\ where'[cmd.asset] = "ochain"
      OBVIOUS
  <2>1. cmd.asset = sidecar.elastic.txs.create /\ sidecar.elastic.txs.exp
      BY <1>1 DEF IndInv, Resumed, Moving
  <2>2. where[cmd.asset] \in {"flight", "ochain"}
      BY <2>1 DEF IndInv, TxsDone
  <2> QED
      BY <1>1, <1>3, <2>1, <2>2 DEF Arrived
<1>7. where'[cmd.asset] # "none"
    BY <1>1, <1>4 DEF Forward, IndInv, HasAsset, Moving
<1>8. UNCHANGED <<net, chain, sidecar, file, saved, nextSub, lost>>
    BY DEF ImportAsset
<1>9. /\ NetOK' /\ ChainOK' /\ SidecarOK' /\ FileOK' /\ SavedOK' /\ CountOK' /\ LostOK'
      /\ Numbered' /\ RecordedAsset'
    BY <1>8 DEF IndInv, TypeInv, NetOK, ChainOK, SidecarOK, FileOK, SavedOK, CountOK, LostOK,
      Numbered, RecordedAsset
<1>10. WhereOK'
    BY <1>4 DEF Forward, WhereOK
<1>11. CmdOK'
    BY <1>2 DEF Moves, CmdOK
<1>12. HasAsset'
    BY <1>1, <1>2, <1>7 DEF Moves, HasAsset
<1>13. Apart'
    BY <1>5, <1>8 DEF IndInv, Apart, OnTestnet, OnLocal
<1>14. TxsDone'
    BY <1>4, <1>8, ForwardDone DEF IndInv
<1>15. Resumed'
    BY <1>2, <1>5, <1>6, <1>8 DEF Moves, Resumed, Moving
<1>16. OneAsset'
    BY <1>1, <1>3, <1>5, <1>8 DEF Arrived, IndInv, OneAsset
<1>17. Transforming'
    BY <1>5 DEF Transforming
<1>18. Rests'
    BY <1>5 DEF Rests
<1>19. Waiting'
    BY <1>2, <1>8 DEF Moves, IndInv, Waiting
<1>20. Replacing'
    BY <1>5 DEF Replacing
<1>21. SomeoneStays'
    BY <1>5 DEF SomeoneStays
<1> QED
    BY <1>9, <1>10, <1>11, <1>12, <1>13, <1>14, <1>15, <1>16, <1>17, <1>18, <1>19, <1>20,
      <1>21 DEF IndInv, TypeInv

(* More than one is at least two.                                       *)
LEMMA TwoCurrent ==
    ASSUME Cardinality(Current) > 1
    PROVE  \E m, n \in Current : m # n
<1> SUFFICES ASSUME \A m, n \in Current : m = n PROVE FALSE
    OBVIOUS
<1>1. PICK x : Current \subseteq {x}
    OBVIOUS
<1>2. IsFiniteSet({x}) /\ Cardinality({x}) = 1
    BY FS_Singleton
<1>3. Cardinality(Current) \in Nat /\ Cardinality(Current) <= 1
    BY <1>1, <1>2, FS_Subset, FS_CardinalityType
<1> QED
    BY <1>3

(* A validator that is added waits to start.                            *)
LEMMA AddedBecomes ==
    ASSUME NEW n \in Nodes, chain \in Chains, cmd \in Commands, Added(n),
           Stakes(cmd.asset, chain.cfg.min, cmd.stake)
    PROVE  Becomes(n, "pending")
<1>1. chain.free - cmd.stake \in Nat
    BY DEF Stakes, Chains, Commands
<1>2. chain' = [chain EXCEPT !.val[n] = "pending", !.free = chain.free - cmd.stake]
    BY DEF Added, Chains
<1>3. "pending" \in Status
    BY DEF Status
<1> QED
    BY <1>1, <1>2, <1>3, BecomesFacts

LEMMA TransformSubnetStep ==
    ASSUME IndInv, TransformSubnet
    PROVE  IndInv'
<1>1. /\ cmd \in Commands /\ chain \in Chains /\ cmd.pc = "transform" /\ cmd.asset \in Assets
      /\ cmd.cfg \in Cfgs /\ chain.sub # 0 /\ chain.asset = 0
    BY TypeFacts DEF TransformSubnet, CanTransform, IndInv, HasAsset, Moving, Commands
<1>2. Moves("file")
    BY <1>1, GotoMoves DEF TransformSubnet, Pcs
<1>3. Elastic(cmd.asset) /\ cmd.asset # 0
    BY <1>1, TransformedFacts, ConstFacts DEF TransformSubnet
<1>4. UNCHANGED <<net, where, sidecar, file, saved, nextSub, lost>>
    BY DEF TransformSubnet
<1>5. /\ NetOK' /\ WhereOK' /\ SidecarOK' /\ FileOK' /\ SavedOK' /\ CountOK' /\ LostOK'
      /\ TxsDone'
    BY <1>4 DEF IndInv, TypeInv, NetOK, WhereOK, SidecarOK, FileOK, SavedOK, CountOK, LostOK,
      TxsDone
<1>6. ChainOK'
    BY <1>3 DEF Elastic, ChainOK
<1>7. CmdOK'
    BY <1>2 DEF Moves, CmdOK
<1>8. Numbered'
    BY <1>1, <1>3, <1>4 DEF Elastic, IndInv, Numbered
<1>9. HasAsset'
    BY <1>1, <1>2, <1>4 DEF Moves, IndInv, HasAsset, Moving
<1>10. Apart'
    BY <1>1, <1>2, <1>4 DEF Moves, IndInv, Apart, OnTestnet, OnLocal
<1>11. Resumed'
    BY <1>1, <1>2, <1>4 DEF Moves, IndInv, Resumed, Moving
<1>12. OneAsset'
    BY <1>3 DEF Elastic, OneAsset
<1>13. Transforming'
    BY <1>2, <1>3 DEF Moves, Elastic, Transforming
<1>14. RecordedAsset'
    BY <1>1, <1>3, <1>4 DEF Elastic, IndInv, RecordedAsset
<1>15. Rests'
    BY <1>2 DEF Moves, Rests
<1>16. Waiting'
    BY <1>2, <1>3, <1>4 DEF Moves, Elastic, IndInv, Waiting
<1>17. Replacing'
    BY <1>2 DEF Moves, Replacing
<1>18. SomeoneStays'
    BY <1>2 DEF Moves, SomeoneStays
<1> QED
    BY <1>5, <1>6, <1>7, <1>8, <1>9, <1>10, <1>11, <1>12, <1>13, <1>14, <1>15, <1>16, <1>17,
      <1>18 DEF IndInv, TypeInv

LEMMA SaveTransformStep ==
    ASSUME IndInv, SaveTransform
    PROVE  IndInv'
<1>1. /\ cmd \in Commands /\ chain \in Chains /\ cmd.pc = "transform" /\ cmd.asset \in Assets
      /\ cmd.cfg \in Cfgs /\ chain.sub \in Subs
    BY TypeFacts DEF SaveTransform, IndInv, HasAsset, Moving, Commands, Chains
<1>2. Ends
    BY FinishEnds DEF SaveTransform
<1>3. saved' \in Files /\ saved'.asset \in Assets
    BY <1>1, ConstFacts DEF SaveTransform, Files
<1>4. UNCHANGED <<net, chain, where, sidecar, file, nextSub, lost>>
    BY DEF SaveTransform
<1>5. /\ NetOK' /\ ChainOK' /\ WhereOK' /\ SidecarOK' /\ FileOK' /\ CountOK' /\ LostOK'
      /\ Numbered' /\ TxsDone' /\ RecordedAsset'
    BY <1>4 DEF IndInv, TypeInv, NetOK, ChainOK, WhereOK, SidecarOK, FileOK, CountOK, LostOK,
      Numbered, TxsDone, RecordedAsset
<1>6. SavedOK'
    BY <1>3 DEF SavedOK
<1>7. CmdOK'
    BY <1>1, <1>2, <1>4 DEF Ends, IndInv, CmdOK
<1>8. HasAsset'
    BY <1>1, <1>2, <1>4 DEF Ends, IndInv, HasAsset, Moving
<1>9. Apart'
    BY <1>1, <1>2, <1>4 DEF Ends, IndInv, Apart, OnTestnet, OnLocal
<1>10. Resumed'
    BY <1>1, <1>2, <1>4 DEF Ends, IndInv, Resumed, Moving
<1>11. OneAsset'
    BY <1>1, <1>2, <1>4 DEF Ends, IndInv, OneAsset
<1>12. Transforming'
    BY <1>1, <1>2, <1>4 DEF Ends, IndInv, Transforming
<1>13. Rests'
    BY <1>1, <1>2, <1>4 DEF Ends, IndInv, Rests
<1>14. Waiting'
    BY <1>1, <1>2, <1>4 DEF Ends, IndInv, Waiting
<1>15. Replacing'
    BY <1>1, <1>2, <1>4 DEF Ends, IndInv, Replacing
<1>16. SomeoneStays'
    BY <1>1, <1>2, <1>4 DEF Ends, IndInv, SomeoneStays
<1> QED
    BY <1>5, <1>6, <1>7, <1>8, <1>9, <1>10, <1>11, <1>12, <1>13, <1>14, <1>15, <1>16 DEF
      IndInv, TypeInv

LEMMA CommitTransformStep ==
    ASSUME IndInv, CommitTransform
    PROVE  IndInv'
<1>1. /\ chain \in Chains /\ saved.asset \in Assets /\ saved.cfg \in Cfgs /\ saved.asset # 0
      /\ chain.sub # 0 /\ chain.asset = 0
    BY TypeFacts, ConstFacts DEF CommitTransform, CanTransform, IndInv, TypeInv, SavedOK,
      Files
<1>2. Elastic(saved.asset)
    BY <1>1, TransformedFacts DEF CommitTransform
<1>3. cmd.pc \notin {"file", "record"}
    BY <1>1, ConstFacts DEF IndInv, Transforming, HasAsset, Moving
<1>4. UNCHANGED <<net, where, sidecar, file, saved, cmd, nextSub, lost>>
    BY DEF CommitTransform
<1>5. /\ NetOK' /\ WhereOK' /\ SidecarOK' /\ FileOK' /\ SavedOK' /\ CmdOK' /\ CountOK'
      /\ LostOK' /\ HasAsset' /\ Apart' /\ TxsDone' /\ Resumed' /\ Rests'
    BY <1>4 DEF IndInv, TypeInv, NetOK, WhereOK, SidecarOK, FileOK, SavedOK, CmdOK, CountOK,
      LostOK, HasAsset, Apart, TxsDone, Resumed, Rests
<1>6. ChainOK'
    BY <1>2 DEF Elastic, ChainOK
<1>7. Numbered'
    BY <1>1, <1>2, <1>4 DEF Elastic, IndInv, Numbered
<1>8. OneAsset'
    BY <1>1, <1>2 DEF Elastic, OneAsset
<1>9. Transforming'
    BY <1>3, <1>4 DEF Transforming
<1>10. RecordedAsset'
    BY <1>1, <1>2, <1>4 DEF Elastic, IndInv, RecordedAsset
<1>11. Waiting'
    BY <1>2, <1>4 DEF Elastic, IndInv, Waiting
<1>12. Replacing'
    BY <1>2, <1>4 DEF Elastic, IndInv, Replacing
<1>13. SomeoneStays'
    BY <1>2, <1>4 DEF Elastic, IndInv, SomeoneStays
<1> QED
    BY <1>5, <1>6, <1>7, <1>8, <1>9, <1>10, <1>11, <1>12, <1>13 DEF IndInv, TypeInv

LEMMA OthersTransformStep ==
    ASSUME IndInv, NEW a \in Assets, NEW c \in Configs, OthersTransform(a, c)
    PROVE  IndInv'
<1>1. /\ chain \in Chains /\ where \in [Assets -> Places] /\ c \in Cfgs /\ a # 0
      /\ where[a] = "none"
      /\ chain.sub # 0 /\ chain.asset = 0 /\ net = "testnet"
    BY TypeFacts, ConstFacts DEF OthersTransform, Fresh
<1>2. Elastic(a)
    BY <1>1, TransformedFacts DEF OthersTransform
<1>3. cmd.pc \notin {"file", "record"}
    BY <1>1, ConstFacts DEF IndInv, Transforming, HasAsset, Moving
<1>4. Forward
    BY <1>1 DEF OthersTransform, Forward, Places
<1>5. UNCHANGED <<net, sidecar, file, saved, cmd, nextSub, lost>>
    BY DEF OthersTransform
<1>6. /\ NetOK' /\ SidecarOK' /\ FileOK' /\ SavedOK' /\ CmdOK' /\ CountOK' /\ LostOK'
      /\ Apart' /\ Rests'
    BY <1>5 DEF IndInv, TypeInv, NetOK, SidecarOK, FileOK, SavedOK, CmdOK, CountOK, LostOK,
      Apart, Rests
<1>7. ChainOK'
    BY <1>2 DEF Elastic, ChainOK
<1>8. WhereOK'
    BY <1>4 DEF Forward, WhereOK
<1>9. Numbered'
    BY <1>1, <1>2, <1>5 DEF Elastic, IndInv, Numbered
<1>10. HasAsset'
    BY <1>4, <1>5 DEF Forward, IndInv, HasAsset
<1>11. TxsDone'
    BY <1>4, <1>5, ForwardDone DEF IndInv
<1>12. Resumed'
  <2>1. cmd.pc \in Moving => cmd.asset \in Assets
      BY DEF IndInv, HasAsset
  <2> QED
      BY <1>4, <1>5, <2>1 DEF Forward, IndInv, Resumed, Moving
<1>13. OneAsset'
    BY <1>1, <1>2 DEF Elastic, OneAsset
<1>14. Transforming'
    BY <1>3, <1>5 DEF Transforming
<1>15. RecordedAsset'
    BY <1>1, <1>2, <1>5 DEF Elastic, IndInv, RecordedAsset
<1>16. Waiting'
    BY <1>2, <1>5 DEF Elastic, IndInv, Waiting
<1>17. Replacing'
    BY <1>2, <1>5 DEF Elastic, IndInv, Replacing
<1>18. SomeoneStays'
    BY <1>2, <1>5 DEF Elastic, IndInv, SomeoneStays
<1> QED
    BY <1>6, <1>7, <1>8, <1>9, <1>10, <1>11, <1>12, <1>13, <1>14, <1>15, <1>16, <1>17, <1>18
      DEF IndInv, TypeInv

LEMMA WriteConfigStep ==
    ASSUME IndInv, WriteConfig
    PROVE  IndInv'
<1>1. /\ cmd \in Commands /\ chain \in Chains /\ cmd.pc = "file"
    BY TypeFacts DEF WriteConfig
<1>2. Moves("record")
    BY <1>1, GotoMoves DEF WriteConfig, Pcs
<1>3. UNCHANGED <<net, chain, where, sidecar, saved, nextSub, lost>>
    BY DEF WriteConfig
<1>4. /\ NetOK' /\ ChainOK' /\ WhereOK' /\ SidecarOK' /\ SavedOK' /\ CountOK' /\ LostOK'
      /\ Numbered' /\ TxsDone' /\ RecordedAsset'
    BY <1>3 DEF IndInv, TypeInv, NetOK, ChainOK, WhereOK, SidecarOK, SavedOK, CountOK, LostOK,
      Numbered, TxsDone, RecordedAsset
<1>5. FileOK'
    BY <1>1 DEF WriteConfig, FileOK, Files, Commands, Chains
<1>6. CmdOK'
    BY <1>2 DEF Moves, CmdOK
<1>7. HasAsset'
    BY <1>1, <1>2, <1>3 DEF Moves, IndInv, HasAsset, Moving
<1>8. Apart'
    BY <1>1, <1>2, <1>3 DEF Moves, IndInv, Apart, OnTestnet, OnLocal
<1>9. Resumed'
    BY <1>1, <1>2, <1>3 DEF Moves, IndInv, Resumed, Moving
<1>10. OneAsset'
    BY <1>1, <1>2, <1>3 DEF Moves, IndInv, OneAsset
<1>11. Transforming'
    BY <1>1, <1>2, <1>3 DEF Moves, IndInv, Transforming
<1>12. Rests'
    BY <1>2 DEF Moves, Rests
<1>13. Waiting'
    BY <1>2, <1>3 DEF Moves, IndInv, Waiting
<1>14. Replacing'
    BY <1>2 DEF Moves, Replacing
<1>15. SomeoneStays'
    BY <1>2 DEF Moves, SomeoneStays
<1> QED
    BY <1>4, <1>5, <1>6, <1>7, <1>8, <1>9, <1>10, <1>11, <1>12, <1>13, <1>14, <1>15 DEF
      IndInv, TypeInv

LEMMA RecordElasticStep ==
    ASSUME IndInv, RecordElastic
    PROVE  IndInv'
<1>1. /\ cmd \in Commands /\ sidecar \in Sidecars /\ cmd.pc = "record"
      /\ sidecar.elastic.txs \in Txs
      /\ chain.asset = cmd.asset /\ cmd.asset \in Ids /\ sidecar.sub \in Subs
    BY TypeFacts DEF RecordElastic, IndInv, Transforming, Commands, Sidecars
<1>2. Ends \/ Moves("validators")
    BY <1>1, GotoMoves, FinishEnds DEF RecordElastic, Pcs
<1>3. /\ sidecar' \in Sidecars /\ sidecar'.sub = sidecar.sub
      /\ sidecar'.elastic.sub = sidecar.sub /\ sidecar'.elastic.asset = cmd.asset
      /\ sidecar'.elastic.txs = sidecar.elastic.txs
  <2> DEFINE e == [NoEntry EXCEPT !.there = TRUE, !.sub = sidecar.sub,
                                  !.asset = cmd.asset, !.txs = sidecar.elastic.txs]
  <2>1. /\ e \in Entries /\ e.sub = sidecar.sub /\ e.asset = cmd.asset
        /\ e.txs = sidecar.elastic.txs
      BY <1>1, ConstFacts DEF NoEntry, Entries
  <2>2. sidecar' = [sidecar EXCEPT !.elastic = e]
      BY DEF RecordElastic
  <2> HIDE DEF e
  <2> QED
      BY <1>1, <2>1, <2>2 DEF Sidecars
<1>4. UNCHANGED <<net, chain, where, file, saved, nextSub, lost>>
    BY DEF RecordElastic
<1>5. NetOK' /\ ChainOK' /\ WhereOK' /\ FileOK' /\ SavedOK' /\ CountOK' /\ LostOK'
    BY <1>4 DEF IndInv, TypeInv, NetOK, ChainOK, WhereOK, FileOK, SavedOK, CountOK, LostOK
<1>6. SidecarOK'
    BY <1>3 DEF SidecarOK
<1>7. CmdOK'
    BY <1>2 DEF Moves, Ends, CmdOK
<1>8. Numbered'
    BY <1>3, <1>4 DEF IndInv, Numbered
<1>9. HasAsset'
    BY <1>2 DEF Moves, Ends, HasAsset, Moving
<1>10. Apart'
    BY <1>2, <1>3, <1>4 DEF Moves, Ends, IndInv, Apart, OnTestnet, OnLocal
<1>11. TxsDone'
    BY <1>3, <1>4 DEF IndInv, TxsDone
<1>12. Resumed'
    BY <1>2 DEF Moves, Ends, Resumed, Moving
<1>13. OneAsset'
    BY <1>1, <1>3, <1>4 DEF IndInv, OneAsset
<1>14. Transforming'
    BY <1>2 DEF Moves, Ends, Transforming
<1>15. RecordedAsset'
    BY <1>1, <1>3, <1>4 DEF RecordedAsset
<1>16. Rests'
    BY <1>2 DEF Moves, Ends, Rests
<1>17. Waiting'
    BY <1>2, <1>4 DEF Moves, Ends, IndInv, Waiting
<1>18. Replacing'
    BY <1>2 DEF Moves, Ends, Replacing
<1>19. SomeoneStays'
    BY <1>2 DEF Moves, Ends, SomeoneStays
<1> QED
    BY <1>5, <1>6, <1>7, <1>8, <1>9, <1>10, <1>11, <1>12, <1>13, <1>14, <1>15, <1>16, <1>17,
      <1>18, <1>19 DEF IndInv, TypeInv

LEMMA ChooseStakeStep ==
    ASSUME IndInv, NEW s \in Nat, ChooseStake(s)
    PROVE  IndInv'
<1>1. cmd \in Commands /\ cmd.pc = "validators"
    BY TypeFacts DEF ChooseStake
<1>2. /\ cmd' \in Commands /\ cmd'.pc \in {"settle", "drop"}
      /\ cmd'.list = Current /\ cmd'.many = (Cardinality(Current) > 1)
  <2> DEFINE p == IF Current = {} THEN "settle" ELSE "drop"
             many == Cardinality(Current) > 1
             list == Current
  <2>1. p \in {"settle", "drop"}
      OBVIOUS
  <2>2. p \in Pcs
      BY <2>1 DEF Pcs
  <2>3. many \in BOOLEAN
      OBVIOUS
  <2>4. list \in SUBSET Nodes
      BY DEF Current, Is
  <2>5. FixedPeriod \in Periods
      BY ElasticAssumption
  <2>6. cmd' = [cmd EXCEPT !.stake = s, !.period = FixedPeriod, !.list = list,
                           !.many = many, !.pc = p]
      BY DEF ChooseStake
  <2> HIDE DEF p, many, list
  <2>7. cmd' \in Commands /\ cmd'.pc = p /\ cmd'.list = list /\ cmd'.many = many
      BY <1>1, <2>2, <2>3, <2>4, <2>5, <2>6 DEF Commands
  <2> QED
      BY <2>1, <2>7 DEF list, many
<1>3. UNCHANGED <<net, chain, where, sidecar, file, saved, nextSub, lost>>
    BY DEF ChooseStake
<1>4. /\ NetOK' /\ ChainOK' /\ WhereOK' /\ SidecarOK' /\ FileOK' /\ SavedOK' /\ CountOK'
      /\ LostOK' /\ Numbered' /\ TxsDone' /\ RecordedAsset'
    BY <1>3 DEF IndInv, TypeInv, NetOK, ChainOK, WhereOK, SidecarOK, FileOK, SavedOK, CountOK,
      LostOK, Numbered, TxsDone, RecordedAsset
<1>5. CmdOK'
    BY <1>2 DEF CmdOK
<1>6. HasAsset'
    BY <1>2 DEF HasAsset, Moving
<1>7. Apart'
    BY <1>2, <1>3 DEF IndInv, Apart, OnTestnet, OnLocal
<1>8. Resumed'
    BY <1>2 DEF Resumed, Moving
<1>9. OneAsset'
    BY <1>1, <1>3 DEF IndInv, OneAsset
<1>10. Transforming'
    BY <1>2 DEF Transforming
<1>11. Rests'
    BY <1>2 DEF Rests
<1>12. Waiting'
    BY <1>2, <1>3 DEF Waiting, Current, Is
<1>13. Replacing'
    BY <1>2 DEF Replacing
<1>14. SomeoneStays'
    BY <1>2, TwoCurrent DEF SomeoneStays
<1> QED
    BY <1>4, <1>5, <1>6, <1>7, <1>8, <1>9, <1>10, <1>11, <1>12, <1>13, <1>14 DEF IndInv,
      TypeInv

LEMMA DropValidatorStep ==
    ASSUME IndInv, NEW n \in Nodes, DropValidator(n)
    PROVE  IndInv'
<1>1. cmd \in Commands /\ chain \in Chains /\ cmd.pc = "drop"
    BY TypeFacts DEF DropValidator
<1>2. /\ cmd' \in Commands /\ cmd'.pc = "add" /\ cmd'.node = n
      /\ cmd'.list = cmd.list \ {n}
    BY <1>1 DEF DropValidator, Commands, Pcs
<1>3. Becomes(n, "out")
    BY <1>1, BecomesOnly DEF DropValidator, Dropped, Status
<1>4. UNCHANGED <<net, where, sidecar, file, saved, nextSub, lost>>
    BY DEF DropValidator
<1>5. /\ NetOK' /\ WhereOK' /\ SidecarOK' /\ FileOK' /\ SavedOK' /\ CountOK' /\ LostOK'
      /\ TxsDone'
    BY <1>4 DEF IndInv, TypeInv, NetOK, WhereOK, SidecarOK, FileOK, SavedOK, CountOK, LostOK,
      TxsDone
<1>6. ChainOK'
    BY <1>3 DEF Becomes, ChainOK
<1>7. CmdOK'
    BY <1>2 DEF CmdOK
<1>8. Numbered'
    BY <1>3, <1>4 DEF Becomes, IndInv, Numbered
<1>9. HasAsset'
    BY <1>1, <1>2 DEF HasAsset, Moving
<1>10. Apart'
    BY <1>1, <1>2, <1>4 DEF IndInv, Apart, OnTestnet, OnLocal
<1>11. Resumed'
    BY <1>2 DEF Resumed, Moving
<1>12. OneAsset'
    BY <1>1, <1>3, <1>4 DEF Becomes, IndInv, OneAsset
<1>13. Transforming'
    BY <1>2 DEF Transforming
<1>14. RecordedAsset'
    BY <1>3, <1>4 DEF Becomes, IndInv, RecordedAsset
<1>15. Rests'
    BY <1>2 DEF Rests
<1>16. Waiting'
  <2> SUFFICES ASSUME NEW m \in cmd'.list
               PROVE  chain'.val[m] \in {"perm", "elastic"}
      BY DEF Waiting
  <2>1. m \in cmd.list /\ m # n /\ m \in Nodes
      BY <1>1, <1>2 DEF Commands
  <2> QED
      BY <1>3, <2>1 DEF Becomes, IndInv, Waiting
<1>17. Replacing'
    BY <1>2 DEF Replacing
<1>18. SomeoneStays'
    BY <1>2 DEF SomeoneStays
<1> QED
    BY <1>5, <1>6, <1>7, <1>8, <1>9, <1>10, <1>11, <1>12, <1>13, <1>14, <1>15, <1>16, <1>17,
      <1>18 DEF IndInv, TypeInv

LEMMA AddValidatorStep ==
    ASSUME IndInv, NEW n \in Nodes, AddValidator(n)
    PROVE  IndInv'
<1>1. /\ cmd \in Commands /\ chain \in Chains /\ cmd.pc = "add" /\ cmd.node = n
      /\ chain.val[n] = "out"
    BY TypeFacts DEF AddValidator, CanAdd
<1>2. Moves("noteValidator")
    BY <1>1, GotoMoves DEF AddValidator, Pcs
<1>3. Becomes(n, "pending")
    BY <1>1, AddedBecomes DEF AddValidator, CanAdd
<1>4. n \notin cmd.list
    BY <1>1 DEF IndInv, Replacing
<1>5. UNCHANGED <<net, where, sidecar, file, saved, nextSub, lost>>
    BY DEF AddValidator
<1>6. /\ NetOK' /\ WhereOK' /\ SidecarOK' /\ FileOK' /\ SavedOK' /\ CountOK' /\ LostOK'
      /\ TxsDone'
    BY <1>5 DEF IndInv, TypeInv, NetOK, WhereOK, SidecarOK, FileOK, SavedOK, CountOK, LostOK,
      TxsDone
<1>7. ChainOK'
    BY <1>3 DEF Becomes, ChainOK
<1>8. CmdOK'
    BY <1>2 DEF Moves, CmdOK
<1>9. Numbered'
    BY <1>3, <1>5 DEF Becomes, IndInv, Numbered
<1>10. HasAsset'
    BY <1>1, <1>2 DEF Moves, HasAsset, Moving
<1>11. Apart'
    BY <1>1, <1>2, <1>5 DEF Moves, IndInv, Apart, OnTestnet, OnLocal
<1>12. Resumed'
    BY <1>2 DEF Moves, Resumed, Moving
<1>13. OneAsset'
    BY <1>1, <1>3, <1>5 DEF Becomes, IndInv, OneAsset
<1>14. Transforming'
    BY <1>2 DEF Moves, Transforming
<1>15. RecordedAsset'
    BY <1>3, <1>5 DEF Becomes, IndInv, RecordedAsset
<1>16. Rests'
    BY <1>2 DEF Moves, Rests
<1>17. Waiting'
  <2> SUFFICES ASSUME NEW m \in cmd'.list
               PROVE  chain'.val[m] \in {"perm", "elastic"}
      BY DEF Waiting
  <2>1. m \in cmd.list /\ m # n /\ m \in Nodes
      BY <1>1, <1>2, <1>4 DEF Commands, Moves
  <2> QED
      BY <1>3, <2>1 DEF Becomes, IndInv, Waiting
<1>18. Replacing'
    BY <1>1, <1>2, <1>3, <1>4 DEF Moves, Becomes, Replacing
<1>19. SomeoneStays'
    BY <1>2 DEF Moves, SomeoneStays
<1> QED
    BY <1>6, <1>7, <1>8, <1>9, <1>10, <1>11, <1>12, <1>13, <1>14, <1>15, <1>16, <1>17, <1>18,
      <1>19 DEF IndInv, TypeInv

LEMMA NoteValidatorStep ==
    ASSUME IndInv, NoteValidator
    PROVE  IndInv'
<1>1. /\ cmd \in Commands /\ sidecar \in Sidecars /\ cmd.pc = "noteValidator"
      /\ cmd.node \in Nodes
      /\ cmd.node \notin cmd.list /\ chain.val[cmd.node] \in {"pending", "elastic"}
    BY TypeFacts DEF NoteValidator, IndInv, Replacing
<1>2. Ends \/ Moves("settle") \/ Moves("drop")
  <2>1. Finish \/ Goto("settle") \/ Goto("drop")
      BY DEF NoteValidator, AfterNote
  <2> QED
      BY <1>1, <2>1, GotoMoves, FinishEnds DEF Pcs
<1>3. /\ sidecar' \in Sidecars /\ sidecar'.sub = sidecar.sub
      /\ sidecar'.elastic.sub = sidecar.elastic.sub
      /\ sidecar'.elastic.asset = sidecar.elastic.asset
      /\ sidecar'.elastic.txs = sidecar.elastic.txs
    BY <1>1 DEF NoteValidator, Sidecars, Entries
<1>4. UNCHANGED <<net, chain, where, file, saved, nextSub, lost>>
    BY DEF NoteValidator
<1>5. NetOK' /\ ChainOK' /\ WhereOK' /\ FileOK' /\ SavedOK' /\ CountOK' /\ LostOK'
    BY <1>4 DEF IndInv, TypeInv, NetOK, ChainOK, WhereOK, FileOK, SavedOK, CountOK, LostOK
<1>6. SidecarOK'
    BY <1>3 DEF SidecarOK
<1>7. CmdOK'
    BY <1>2 DEF Moves, Ends, CmdOK
<1>8. Numbered'
    BY <1>3, <1>4 DEF IndInv, Numbered
<1>9. HasAsset'
    BY <1>2 DEF Moves, Ends, HasAsset, Moving
<1>10. Apart'
    BY <1>2, <1>3, <1>4 DEF Moves, Ends, IndInv, Apart, OnTestnet, OnLocal
<1>11. TxsDone'
    BY <1>3, <1>4 DEF IndInv, TxsDone
<1>12. Resumed'
    BY <1>2 DEF Moves, Ends, Resumed, Moving
<1>13. OneAsset'
    BY <1>1, <1>3, <1>4 DEF IndInv, OneAsset
<1>14. Transforming'
    BY <1>2 DEF Moves, Ends, Transforming
<1>15. RecordedAsset'
    BY <1>3, <1>4 DEF IndInv, RecordedAsset
<1>16. Rests'
    BY <1>2 DEF Moves, Ends, Rests
<1>17. Waiting'
    BY <1>2, <1>4 DEF Moves, Ends, IndInv, Waiting
<1>18. Replacing'
    BY <1>2 DEF Moves, Ends, Replacing
<1>19. SomeoneStays'
    BY <1>1, <1>2, <1>4 DEF Moves, Ends, SomeoneStays
<1> QED
    BY <1>5, <1>6, <1>7, <1>8, <1>9, <1>10, <1>11, <1>12, <1>13, <1>14, <1>15, <1>16, <1>17,
      <1>18, <1>19 DEF IndInv, TypeInv

LEMMA BeginJoinStep ==
    ASSUME IndInv, NEW n \in Nodes, NEW s \in Nat, NEW p \in Periods, BeginJoin(n, s, p)
    PROVE  IndInv'
<1>1. cmd \in Commands /\ cmd.pc = "idle"
    BY TypeFacts DEF BeginJoin, Running
<1>2. cmd' \in Commands /\ cmd'.pc = "add" /\ cmd'.list = {}
  <2>1. StakingAsset \in Ids
      BY TypeFacts DEF StakingAsset, Entries, Chains
  <2>2. cmd' = [Idle EXCEPT !.pc = "add", !.kind = "join", !.node = n,
                            !.stake = s, !.period = p, !.asset = StakingAsset]
      BY DEF BeginJoin
  <2> QED
      BY <2>1, <2>2, ConstFacts DEF Commands, Pcs, Idle
<1>3. UNCHANGED <<net, chain, where, sidecar, file, saved, nextSub, lost>>
    BY DEF BeginJoin
<1>4. /\ NetOK' /\ ChainOK' /\ WhereOK' /\ SidecarOK' /\ FileOK' /\ SavedOK' /\ CountOK'
      /\ LostOK' /\ Numbered' /\ TxsDone' /\ RecordedAsset'
    BY <1>3 DEF IndInv, TypeInv, NetOK, ChainOK, WhereOK, SidecarOK, FileOK, SavedOK, CountOK,
      LostOK, Numbered, TxsDone, RecordedAsset
<1>5. CmdOK'
    BY <1>2 DEF CmdOK
<1>6. HasAsset'
    BY <1>1, <1>2 DEF HasAsset, Moving
<1>7. Apart'
    BY <1>1, <1>2, <1>3 DEF IndInv, Apart, OnTestnet, OnLocal
<1>8. Resumed'
    BY <1>2 DEF Resumed, Moving
<1>9. OneAsset'
    BY <1>1, <1>3 DEF IndInv, OneAsset
<1>10. Transforming'
    BY <1>2 DEF Transforming
<1>11. Rests'
    BY <1>2 DEF Rests
<1>12. Waiting'
    BY <1>2 DEF Waiting
<1>13. Replacing'
    BY <1>2 DEF Replacing
<1>14. SomeoneStays'
    BY <1>2 DEF SomeoneStays
<1> QED
    BY <1>4, <1>5, <1>6, <1>7, <1>8, <1>9, <1>10, <1>11, <1>12, <1>13, <1>14 DEF IndInv,
      TypeInv

LEMMA DelegateStep ==
    ASSUME IndInv, NEW n \in Nodes, NEW s \in Nat, NEW p \in Periods, Delegate(n, s, p)
    PROVE  IndInv'
<1>1. chain \in Chains /\ cmd.pc = "idle" /\ s <= chain.free
    BY TypeFacts DEF Delegate, Running, Stakes
<1>2. /\ chain' \in Chains /\ chain'.sub = chain.sub /\ chain'.asset = chain.asset
      /\ chain'.val = chain.val
    BY <1>1 DEF Delegate, Chains
<1>3. UNCHANGED <<net, where, sidecar, file, saved, cmd, nextSub, lost>>
    BY DEF Delegate
<1>4. /\ NetOK' /\ WhereOK' /\ SidecarOK' /\ FileOK' /\ SavedOK' /\ CmdOK' /\ CountOK'
      /\ LostOK' /\ HasAsset' /\ Apart' /\ TxsDone' /\ Resumed' /\ Rests'
    BY <1>3 DEF IndInv, TypeInv, NetOK, WhereOK, SidecarOK, FileOK, SavedOK, CmdOK, CountOK,
      LostOK, HasAsset, Apart, TxsDone, Resumed, Rests
<1>5. ChainOK'
    BY <1>2 DEF ChainOK
<1>6. Numbered'
    BY <1>2, <1>3 DEF IndInv, Numbered
<1>7. OneAsset'
    BY <1>1, <1>2, <1>3 DEF IndInv, OneAsset
<1>8. Transforming'
    BY <1>1, <1>2, <1>3 DEF IndInv, Transforming
<1>9. RecordedAsset'
    BY <1>1, <1>2, <1>3 DEF IndInv, RecordedAsset
<1>10. Waiting'
    BY <1>1, <1>2, <1>3 DEF IndInv, Waiting
<1>11. Replacing'
    BY <1>1, <1>2, <1>3 DEF IndInv, Replacing
<1>12. SomeoneStays'
    BY <1>1, <1>2, <1>3 DEF IndInv, SomeoneStays
<1> QED
    BY <1>4, <1>5, <1>6, <1>7, <1>8, <1>9, <1>10, <1>11, <1>12 DEF IndInv, TypeInv

LEMMA RemoveValidatorStep ==
    ASSUME IndInv, NEW n \in Nodes, RemoveValidator(n)
    PROVE  IndInv'
<1>1. cmd.pc = "idle"
    BY DEF RemoveValidator, Running
<1>2. cmd.list = {}
    BY <1>1 DEF IndInv, Rests
<1>3. Becomes(n, "out")
    BY TypeFacts, BecomesOnly DEF RemoveValidator, Dropped, Status
<1>4. UNCHANGED <<net, where, sidecar, file, saved, cmd, nextSub, lost>>
    BY DEF RemoveValidator
<1>5. /\ NetOK' /\ WhereOK' /\ SidecarOK' /\ FileOK' /\ SavedOK' /\ CmdOK' /\ CountOK'
      /\ LostOK' /\ HasAsset' /\ Apart' /\ TxsDone' /\ Resumed' /\ Rests'
    BY <1>4 DEF IndInv, TypeInv, NetOK, WhereOK, SidecarOK, FileOK, SavedOK, CmdOK, CountOK,
      LostOK, HasAsset, Apart, TxsDone, Resumed, Rests
<1>6. ChainOK'
    BY <1>3 DEF Becomes, ChainOK
<1>7. Numbered'
    BY <1>3, <1>4 DEF Becomes, IndInv, Numbered
<1>8. OneAsset'
    BY <1>1, <1>3, <1>4 DEF Becomes, IndInv, OneAsset
<1>9. Transforming'
    BY <1>1, <1>4 DEF Transforming
<1>10. RecordedAsset'
    BY <1>3, <1>4 DEF Becomes, IndInv, RecordedAsset
<1>11. Waiting'
    BY <1>2, <1>4 DEF Waiting
<1>12. Replacing'
    BY <1>1, <1>4 DEF Replacing
<1>13. SomeoneStays'
    BY <1>1, <1>4 DEF SomeoneStays
<1> QED
    BY <1>5, <1>6, <1>7, <1>8, <1>9, <1>10, <1>11, <1>12, <1>13 DEF IndInv, TypeInv

LEMMA ActivateStep ==
    ASSUME IndInv, NEW n \in Nodes, Activate(n)
    PROVE  IndInv'
<1>1. chain.val[n] = "pending"
    BY DEF Activate
<1>2. cmd \in Commands
    BY TypeFacts
<1>3. Becomes(n, "elastic")
    BY TypeFacts, BecomesOnly DEF Activate, Status
<1>4. UNCHANGED <<net, where, sidecar, file, saved, cmd, nextSub, lost>>
    BY DEF Activate
<1>5. /\ NetOK' /\ WhereOK' /\ SidecarOK' /\ FileOK' /\ SavedOK' /\ CmdOK' /\ CountOK'
      /\ LostOK' /\ HasAsset' /\ Apart' /\ TxsDone' /\ Resumed' /\ Rests'
    BY <1>4 DEF IndInv, TypeInv, NetOK, WhereOK, SidecarOK, FileOK, SavedOK, CmdOK, CountOK,
      LostOK, HasAsset, Apart, TxsDone, Resumed, Rests
<1>6. ChainOK'
    BY <1>3 DEF Becomes, ChainOK
<1>7. Numbered'
    BY <1>3, <1>4 DEF Becomes, IndInv, Numbered
<1>8. OneAsset'
    BY <1>1, <1>3, <1>4 DEF Becomes, IndInv, OneAsset
<1>9. Transforming'
    BY <1>3, <1>4 DEF Becomes, IndInv, Transforming
<1>10. RecordedAsset'
    BY <1>3, <1>4 DEF Becomes, IndInv, RecordedAsset
<1>11. Waiting'
  <2> SUFFICES ASSUME NEW m \in cmd'.list
               PROVE  chain'.val[m] \in {"perm", "elastic"}
      BY DEF Waiting
  <2>1. m \in cmd.list /\ m \in Nodes
      BY <1>2, <1>4 DEF Commands
  <2> QED
      BY <1>3, <2>1 DEF Becomes, IndInv, Waiting
<1>12. Replacing'
    BY <1>3, <1>4 DEF Becomes, IndInv, Replacing
<1>13. SomeoneStays'
    BY <1>3, <1>4 DEF Becomes, IndInv, SomeoneStays
<1> QED
    BY <1>5, <1>6, <1>7, <1>8, <1>9, <1>10, <1>11, <1>12, <1>13 DEF IndInv, TypeInv

LEMMA BeginCleanStep ==
    ASSUME IndInv, BeginClean
    PROVE  IndInv'
<1>1. cmd.pc = "idle" /\ net = "local" /\ where \in [Assets -> Places]
    BY TypeFacts DEF BeginClean, Running
<1>2. cmd' \in Commands /\ cmd'.pc = "cleanNetworks" /\ cmd'.list = {}
    BY ConstFacts DEF BeginClean, Commands, Pcs, Idle
<1>3. chain' \in Chains /\ chain'.sub = 0 /\ chain'.asset = 0
    BY ConstFacts DEF BeginClean
<1>4. where' \in [Assets -> Places]
    BY <1>1 DEF BeginClean, Places
<1>5. sidecar.elastic.txs = NoTxs
    BY <1>1 DEF IndInv, Apart
<1>6. nextSub > 0
    BY TypeFacts DEF IndInv, TypeInv, CountOK
<1>7. UNCHANGED <<net, sidecar, file, saved, nextSub, lost>>
    BY DEF BeginClean
<1>8. NetOK' /\ SidecarOK' /\ FileOK' /\ SavedOK' /\ CountOK' /\ LostOK'
    BY <1>7 DEF IndInv, TypeInv, NetOK, SidecarOK, FileOK, SavedOK, CountOK, LostOK
<1>9. ChainOK'
    BY <1>3 DEF ChainOK
<1>10. WhereOK'
    BY <1>4 DEF WhereOK
<1>11. CmdOK'
    BY <1>2 DEF CmdOK
<1>12. Numbered'
    BY <1>3, <1>6, <1>7 DEF IndInv, Numbered
<1>13. HasAsset'
    BY <1>2 DEF HasAsset, Moving
<1>14. Apart'
    BY <1>1, <1>2, <1>5, <1>7 DEF Apart, OnTestnet
<1>15. TxsDone'
    BY <1>5, <1>7 DEF TxsDone, NoTxs
<1>16. Resumed'
    BY <1>2 DEF Resumed, Moving
<1>17. OneAsset'
    BY <1>1, <1>7 DEF OneAsset
<1>18. Transforming'
    BY <1>2 DEF Transforming
<1>19. RecordedAsset'
    BY <1>3 DEF RecordedAsset
<1>20. Rests'
    BY <1>2 DEF Rests
<1>21. Waiting'
    BY <1>2 DEF Waiting
<1>22. Replacing'
    BY <1>2 DEF Replacing
<1>23. SomeoneStays'
    BY <1>2 DEF SomeoneStays
<1> QED
    BY <1>8, <1>9, <1>10, <1>11, <1>12, <1>13, <1>14, <1>15, <1>16, <1>17, <1>18, <1>19,
      <1>20, <1>21, <1>22, <1>23 DEF IndInv, TypeInv

LEMMA CleanNetworksStep ==
    ASSUME IndInv, CleanNetworks
    PROVE  IndInv'
<1>1. cmd \in Commands /\ sidecar \in Sidecars /\ cmd.pc = "cleanNetworks" /\ net = "local"
    BY TypeFacts DEF CleanNetworks, IndInv, Apart, OnLocal
<1>2. Moves("cleanElastic")
    BY <1>1, GotoMoves DEF CleanNetworks, Pcs
<1>3. sidecar' \in Sidecars /\ sidecar'.sub = 0 /\ sidecar'.elastic = sidecar.elastic
    BY <1>1, ConstFacts DEF CleanNetworks, Sidecars
<1>4. nextSub > 0
    BY TypeFacts DEF IndInv, TypeInv, CountOK
<1>5. UNCHANGED <<net, chain, where, file, saved, nextSub, lost>>
    BY DEF CleanNetworks
<1>6. NetOK' /\ ChainOK' /\ WhereOK' /\ FileOK' /\ SavedOK' /\ CountOK' /\ LostOK'
    BY <1>5 DEF IndInv, TypeInv, NetOK, ChainOK, WhereOK, FileOK, SavedOK, CountOK, LostOK
<1>7. SidecarOK'
    BY <1>3 DEF SidecarOK
<1>8. CmdOK'
    BY <1>2 DEF Moves, Ends, CmdOK
<1>9. Numbered'
    BY <1>3, <1>4, <1>5 DEF IndInv, Numbered
<1>10. HasAsset'
    BY <1>2 DEF Moves, Ends, HasAsset, Moving
<1>11. Apart'
    BY <1>1, <1>2, <1>3, <1>5 DEF Moves, Ends, IndInv, Apart, OnTestnet, OnLocal
<1>12. TxsDone'
    BY <1>3, <1>5 DEF IndInv, TxsDone, NoTxs
<1>13. Resumed'
    BY <1>2 DEF Moves, Ends, Resumed, Moving
<1>14. OneAsset'
    BY <1>1, <1>5 DEF OneAsset
<1>15. Transforming'
    BY <1>2 DEF Moves, Ends, Transforming
<1>16. RecordedAsset'
    BY <1>3, <1>5 DEF IndInv, RecordedAsset
<1>17. Rests'
    BY <1>2 DEF Moves, Ends, Rests
<1>18. Waiting'
    BY <1>2, <1>5 DEF Moves, Ends, IndInv, Waiting
<1>19. Replacing'
    BY <1>2 DEF Moves, Ends, Replacing
<1>20. SomeoneStays'
    BY <1>2 DEF Moves, Ends, SomeoneStays
<1> QED
    BY <1>6, <1>7, <1>8, <1>9, <1>10, <1>11, <1>12, <1>13, <1>14, <1>15, <1>16, <1>17, <1>18,
      <1>19, <1>20 DEF IndInv, TypeInv

LEMMA CleanElasticStep ==
    ASSUME IndInv, CleanElastic
    PROVE  IndInv'
<1>1. cmd \in Commands /\ sidecar \in Sidecars /\ cmd.pc = "cleanElastic" /\ net = "local"
    BY TypeFacts DEF CleanElastic, IndInv, Apart, OnLocal
<1>2. Ends \/ Moves("cleanFile")
  <2>1. Finish \/ Goto("cleanFile")
      BY DEF CleanElastic
  <2> QED
      BY <1>1, <2>1, GotoMoves, FinishEnds DEF Pcs
<1>3. /\ sidecar' \in Sidecars /\ sidecar'.sub = sidecar.sub /\ sidecar'.elastic.sub = 0
      /\ sidecar'.elastic.asset = 0 /\ sidecar'.elastic.txs = NoTxs
  <2>1. sidecar' = [sidecar EXCEPT !.elastic = NoEntry]
      BY DEF CleanElastic
  <2> QED
      BY <1>1, <2>1, ConstFacts DEF Sidecars, NoEntry
<1>4. nextSub > 0
    BY TypeFacts DEF IndInv, TypeInv, CountOK
<1>5. UNCHANGED <<net, chain, where, file, saved, nextSub, lost>>
    BY DEF CleanElastic
<1>6. NetOK' /\ ChainOK' /\ WhereOK' /\ FileOK' /\ SavedOK' /\ CountOK' /\ LostOK'
    BY <1>5 DEF IndInv, TypeInv, NetOK, ChainOK, WhereOK, FileOK, SavedOK, CountOK, LostOK
<1>7. SidecarOK'
    BY <1>3 DEF SidecarOK
<1>8. CmdOK'
    BY <1>2 DEF Moves, Ends, CmdOK
<1>9. Numbered'
    BY <1>3, <1>4, <1>5 DEF IndInv, Numbered
<1>10. HasAsset'
    BY <1>2 DEF Moves, Ends, HasAsset, Moving
<1>11. Apart'
    BY <1>1, <1>2, <1>3, <1>5 DEF Moves, Ends, IndInv, Apart, OnTestnet, OnLocal
<1>12. TxsDone'
    BY <1>3, <1>5 DEF IndInv, TxsDone, NoTxs
<1>13. Resumed'
    BY <1>2 DEF Moves, Ends, Resumed, Moving
<1>14. OneAsset'
    BY <1>1, <1>5 DEF OneAsset
<1>15. Transforming'
    BY <1>2 DEF Moves, Ends, Transforming
<1>16. RecordedAsset'
    BY <1>3, <1>5 DEF IndInv, RecordedAsset
<1>17. Rests'
    BY <1>2 DEF Moves, Ends, Rests
<1>18. Waiting'
    BY <1>2, <1>5 DEF Moves, Ends, IndInv, Waiting
<1>19. Replacing'
    BY <1>2 DEF Moves, Ends, Replacing
<1>20. SomeoneStays'
    BY <1>2 DEF Moves, Ends, SomeoneStays
<1> QED
    BY <1>6, <1>7, <1>8, <1>9, <1>10, <1>11, <1>12, <1>13, <1>14, <1>15, <1>16, <1>17, <1>18,
      <1>19, <1>20 DEF IndInv, TypeInv

LEMMA CleanFileStep ==
    ASSUME IndInv, CleanFile
    PROVE  IndInv'
<1>1. cmd.pc = "cleanFile" /\ file' \in Files
    BY ConstFacts DEF CleanFile
<1>2. Ends
    BY FinishEnds DEF CleanFile
<1>3. UNCHANGED <<net, chain, where, sidecar, saved, nextSub, lost>>
    BY DEF CleanFile
<1>4. /\ NetOK' /\ ChainOK' /\ WhereOK' /\ SidecarOK' /\ SavedOK' /\ CountOK' /\ LostOK'
      /\ Numbered' /\ TxsDone' /\ RecordedAsset'
    BY <1>3 DEF IndInv, TypeInv, NetOK, ChainOK, WhereOK, SidecarOK, SavedOK, CountOK, LostOK,
      Numbered, TxsDone, RecordedAsset
<1>5. FileOK'
    BY <1>1 DEF FileOK
<1>6. CmdOK'
    BY <1>1, <1>2, <1>3 DEF Ends, IndInv, CmdOK
<1>7. HasAsset'
    BY <1>1, <1>2, <1>3 DEF Ends, IndInv, HasAsset, Moving
<1>8. Apart'
    BY <1>1, <1>2, <1>3 DEF Ends, IndInv, Apart, OnTestnet, OnLocal
<1>9. Resumed'
    BY <1>1, <1>2, <1>3 DEF Ends, IndInv, Resumed, Moving
<1>10. OneAsset'
    BY <1>1, <1>2, <1>3 DEF Ends, IndInv, OneAsset
<1>11. Transforming'
    BY <1>1, <1>2, <1>3 DEF Ends, IndInv, Transforming
<1>12. Rests'
    BY <1>1, <1>2, <1>3 DEF Ends, IndInv, Rests
<1>13. Waiting'
    BY <1>1, <1>2, <1>3 DEF Ends, IndInv, Waiting
<1>14. Replacing'
    BY <1>1, <1>2, <1>3 DEF Ends, IndInv, Replacing
<1>15. SomeoneStays'
    BY <1>1, <1>2, <1>3 DEF Ends, IndInv, SomeoneStays
<1> QED
    BY <1>4, <1>5, <1>6, <1>7, <1>8, <1>9, <1>10, <1>11, <1>12, <1>13, <1>14, <1>15 DEF
      IndInv, TypeInv

-----------------------------------------------------------------------------
(* A command that is rejected, ends, crashes or gets no answer.         *)
LEMMA RejectedStep ==
    ASSUME IndInv, Rejected, UNCHANGED <<net, chain, where, sidecar, file, saved, nextSub>>,
           cmd.pc # "noteCreate"
    PROVE  IndInv'
<1>1. Ends /\ lost' = lost
    BY FinishEnds DEF Rejected
<1>2. lost \in BOOLEAN
    BY DEF IndInv, TypeInv, LostOK
<1> QED
    BY <1>1, <1>2, EndStep

LEMMA FinishStep ==
    ASSUME IndInv, Finish,
           UNCHANGED <<net, chain, where, sidecar, file, saved, nextSub, lost>>,
           cmd.pc # "noteCreate"
    PROVE  IndInv'
<1>1. Ends
    BY FinishEnds
<1>2. lost \in BOOLEAN
    BY DEF IndInv, TypeInv, LostOK
<1> QED
    BY <1>1, <1>2, EndStep

LEMMA CrashStep ==
    ASSUME IndInv, Crash
    PROVE  IndInv'
<1>1. Ends /\ UNCHANGED <<net, chain, where, sidecar, file, saved, nextSub>>
    BY FinishEnds DEF Crash
<1>2. lost \in BOOLEAN
    BY DEF IndInv, TypeInv, LostOK
<1>3. lost' \in BOOLEAN /\ (lost => lost') /\ (cmd.pc = "noteCreate" => lost')
    BY <1>2 DEF Crash, Answered
<1> QED
    BY <1>1, <1>3, EndStep

LEMMA CreateAssetFailsStep ==
    ASSUME IndInv, NEW a \in Assets, CreateAssetFails(a)
    PROVE  IndInv'
<1>1. cmd.pc = "create" /\ UNCHANGED <<net, chain, sidecar, file, saved, nextSub>>
    BY DEF CreateAssetFails
<1>2. CASE Rejected /\ UNCHANGED where
    BY <1>1, <1>2, RejectedStep
<1>3. CASE GaveUp /\ where' = [where EXCEPT ![a] = "achain"]
  <2>1. Ends /\ lost' = TRUE
      BY <1>3, FinishEnds DEF GaveUp
  <2>2. where[a] = "none"
      BY DEF CreateAssetFails, Fresh
  <2>3. Forward
      BY <1>3, <2>2, TypeFacts DEF Forward, Places
  <2> QED
      BY <1>1, <2>1, <2>3, EndForward
<1> QED
    BY <1>2, <1>3 DEF CreateAssetFails

LEMMA ExportAssetFailsStep ==
    ASSUME IndInv, ExportAssetFails
    PROVE  IndInv'
<1>1. cmd.pc = "export" /\ UNCHANGED <<net, chain, sidecar, file, saved, nextSub>>
    BY DEF ExportAssetFails
<1>2. CASE Rejected /\ UNCHANGED where
    BY <1>1, <1>2, RejectedStep
<1>3. CASE /\ where[cmd.asset] = "achain" /\ GaveUp
           /\ where' = [where EXCEPT ![cmd.asset] = "flight"]
  <2>1. Ends /\ lost' = TRUE
      BY <1>3, FinishEnds DEF GaveUp
  <2>2. Forward
      BY <1>3, TypeFacts DEF Forward, Places
  <2> QED
      BY <1>1, <2>1, <2>2, EndForward
<1>4. CASE Finish /\ UNCHANGED <<where, lost>>
    BY <1>1, <1>4, FinishStep
<1> QED
    BY <1>2, <1>3, <1>4 DEF ExportAssetFails

LEMMA ImportAssetFailsStep ==
    ASSUME IndInv, ImportAssetFails
    PROVE  IndInv'
<1>1. cmd.pc = "import" /\ UNCHANGED <<net, chain, sidecar, file, saved, nextSub>>
    BY DEF ImportAssetFails
<1>2. CASE Rejected /\ UNCHANGED where
    BY <1>1, <1>2, RejectedStep
<1>3. CASE GaveUp /\ where' = Arrived
  <2>1. Ends /\ lost' = TRUE
      BY <1>3, FinishEnds DEF GaveUp
  <2>2. Forward
      BY <1>3, TypeFacts, ArrivedForward
  <2> QED
      BY <1>1, <2>1, <2>2, EndForward
<1>4. CASE Finish /\ UNCHANGED <<where, lost>>
    BY <1>1, <1>4, FinishStep
<1> QED
    BY <1>2, <1>3, <1>4 DEF ImportAssetFails

LEMMA TransformSubnetFailsStep ==
    ASSUME IndInv, TransformSubnetFails
    PROVE  IndInv'
<1>1. cmd.pc = "transform" /\ UNCHANGED <<net, where, sidecar, file, saved, nextSub>>
    BY DEF TransformSubnetFails
<1>2. CASE Rejected /\ UNCHANGED chain
    BY <1>1, <1>2, RejectedStep
<1>3. CASE CanTransform(cmd.asset) /\ GaveUp /\ Transformed(cmd.asset, cmd.cfg)
  <2>1. Ends /\ lost' = TRUE
      BY <1>3, FinishEnds DEF GaveUp
  <2>2. cmd.asset \in Assets /\ cmd.cfg \in Cfgs
      BY <1>1, TypeFacts DEF IndInv, HasAsset, Moving, Commands
  <2>3. Elastic(cmd.asset)
      BY <1>3, <2>2, TypeFacts, TransformedFacts
  <2>4. chain.asset = 0 /\ chain.sub # 0
      BY <1>3 DEF CanTransform
  <2> QED
      BY <1>1, <2>1, <2>2, <2>3, <2>4, EndElastic
<1>4. CASE Finish /\ UNCHANGED <<chain, lost>>
    BY <1>1, <1>4, FinishStep
<1> QED
    BY <1>2, <1>3, <1>4 DEF TransformSubnetFails

LEMMA DropValidatorFailsStep ==
    ASSUME IndInv, NEW n \in Nodes, DropValidatorFails(n)
    PROVE  IndInv'
<1>1. cmd.pc = "drop" /\ UNCHANGED <<net, where, sidecar, file, saved, nextSub>>
    BY DEF DropValidatorFails
<1>2. CASE Rejected /\ UNCHANGED chain
    BY <1>1, <1>2, RejectedStep
<1>3. CASE GaveUp /\ Dropped(n)
  <2>1. Ends /\ lost' = TRUE
      BY <1>3, FinishEnds DEF GaveUp
  <2>2. "out" \in Status
      BY DEF Status
  <2>3. Becomes(n, "out")
      BY <1>3, <2>2, TypeFacts, BecomesOnly DEF Dropped
  <2> QED
      BY <1>1, <2>1, <2>2, <2>3, EndBecomes
<1> QED
    BY <1>2, <1>3 DEF DropValidatorFails

LEMMA AddValidatorFailsStep ==
    ASSUME IndInv, NEW n \in Nodes, AddValidatorFails(n)
    PROVE  IndInv'
<1>1. cmd.pc = "add" /\ UNCHANGED <<net, where, sidecar, file, saved, nextSub>>
    BY DEF AddValidatorFails
<1>2. CASE Rejected /\ UNCHANGED chain
    BY <1>1, <1>2, RejectedStep
<1>3. CASE CanAdd(n) /\ GaveUp /\ Added(n)
  <2>1. Ends /\ lost' = TRUE
      BY <1>3, FinishEnds DEF GaveUp
  <2>2. "pending" \in Status
      BY DEF Status
  <2>3. Becomes(n, "pending")
      BY <1>3, TypeFacts, AddedBecomes DEF CanAdd
  <2> QED
      BY <1>1, <2>1, <2>2, <2>3, EndBecomes
<1>4. CASE Finish /\ UNCHANGED <<chain, lost>>
    BY <1>1, <1>4, FinishStep
<1> QED
    BY <1>2, <1>3, <1>4 DEF AddValidatorFails

-----------------------------------------------------------------------------
(* Stakes are amounts.                                                     *)
LEMMA StakesAreAmounts ==
    ASSUME IndInv, NEW least, NEW s \in StakeChoices(least), least \in Nat
    PROVE  s \in Nat
<1>1. chain.cfg \in Cfgs /\ file.cfg \in Cfgs
    BY TypeFacts DEF Chains, Files
<1>2. chain.cfg.most \in Nat /\ file.cfg.max \in Nat
    BY <1>1, CfgFacts
<1> QED
    BY <1>2, ElasticAssumption DEF StakeChoices

(* ... so are the limits of the file.                                   *)
LEMMA LimitsAreAmounts ==
    ASSUME IndInv
    PROVE  file.cfg.min \in Nat /\ file.cfg.del \in Nat
<1>1. file.cfg \in Cfgs
    BY TypeFacts DEF Files
<1> QED
    BY <1>1, ElasticAssumption DEF Cfgs, NoConfig, Config

(* The actions of a command, taken together.                            *)
LEMMA MoveAssetStep ==
    ASSUME IndInv, MoveAsset
    PROVE  IndInv'
<1>1. ASSUME NEW a \in Assets, CreateAsset(a) \/ CreateAssetFails(a)
      PROVE  IndInv'
    BY <1>1, CreateAssetStep, CreateAssetFailsStep
<1>2. CASE SkipCreate \/ NoteCreate
    BY <1>2, SkipCreateStep, NoteCreateStep
<1>3. CASE SkipExport \/ ExportAsset \/ ExportAssetFails \/ NoteExport
    BY <1>3, SkipExportStep, ExportAssetStep, ExportAssetFailsStep, NoteExportStep
<1>4. CASE SkipImport \/ ImportAsset \/ ImportAssetFails \/ NoteImport
    BY <1>4, SkipImportStep, ImportAssetStep, ImportAssetFailsStep, NoteImportStep
<1> QED
    BY <1>1, <1>2, <1>3, <1>4 DEF MoveAsset

LEMMA TransformStep ==
    ASSUME IndInv, Transform
    PROVE  IndInv'
BY TransformSubnetStep, TransformSubnetFailsStep, SaveTransformStep, WriteConfigStep,
   RecordElasticStep DEF Transform

LEMMA TransformValidatorsStep ==
    ASSUME IndInv, TransformValidators
    PROVE  IndInv'
<1>1. CASE DeclineValidators
    BY <1>1, FinishStep DEF DeclineValidators
<1>2. ASSUME NEW s \in StakeChoices(file.cfg.min), ChooseStake(s)
      PROVE  IndInv'
    BY <1>2, StakesAreAmounts, LimitsAreAmounts, ChooseStakeStep
<1>3. ASSUME NEW n \in Nodes, DropValidator(n) \/ DropValidatorFails(n)
      PROVE  IndInv'
    BY <1>3, DropValidatorStep, DropValidatorFailsStep
<1>4. ASSUME NEW n \in Nodes, AddValidator(n) \/ AddValidatorFails(n)
      PROVE  IndInv'
    BY <1>4, AddValidatorStep, AddValidatorFailsStep
<1>5. CASE NoteValidator
    BY <1>5, NoteValidatorStep
<1>6. CASE NoteValidatorPanics
    BY <1>6, FinishStep DEF NoteValidatorPanics
<1>7. CASE Settle
    BY <1>7, FinishStep DEF Settle
<1> QED
    BY <1>1, <1>2, <1>3, <1>4, <1>5, <1>6, <1>7 DEF TransformValidators

(* Every initial state has the invariant, ...                           *)
LEMMA InitInv ==
    Init => IndInv
<1> SUFFICES ASSUME Init PROVE IndInv
    OBVIOUS
<1>1. NetOK /\ ChainOK /\ FileOK /\ CmdOK /\ CountOK /\ LostOK
  <2>1. NetOK /\ LostOK
      BY DEF Init, NetOK, LostOK
  <2>2. ChainOK /\ FileOK /\ CmdOK
      BY ConstFacts DEF Init, ChainOK, FileOK, CmdOK
  <2>3. CountOK
      BY ElasticAssumption DEF Init, CountOK
  <2> QED
      BY <2>1, <2>2, <2>3
<1>2. SavedOK /\ WhereOK
    BY ConstFacts DEF Init, SavedOK, WhereOK, Places
<1>3. SidecarOK
    BY ConstFacts DEF Init, SidecarOK, Sidecars
<1>4. chain.sub = 0 /\ chain.asset = 0 /\ sidecar.sub = 0 /\ nextSub = 1
      /\ sidecar.elastic = NoEntry
    BY ConstFacts DEF Init
<1>5. sidecar.elastic.sub = 0 /\ sidecar.elastic.asset = 0 /\ sidecar.elastic.txs = NoTxs
    BY <1>4 DEF NoEntry
<1>6. cmd.pc = "idle" /\ cmd.kind = "none" /\ cmd.list = {}
    BY DEF Init, Idle
<1>7. Numbered /\ RecordedAsset
    BY <1>4, <1>5 DEF Numbered, RecordedAsset
<1>8. HasAsset /\ Apart
    BY <1>5, <1>6 DEF HasAsset, Moving, Apart, OnTestnet, OnLocal
<1>9. TxsDone /\ Resumed
    BY <1>5, <1>6 DEF TxsDone, Resumed, Moving, NoTxs
<1>10. OneAsset
    BY DEF Init, OneAsset
<1>11. Transforming /\ Rests /\ Waiting /\ Replacing /\ SomeoneStays
    BY <1>6 DEF Transforming, Rests, Waiting, Replacing, SomeoneStays
<1> QED
    BY <1>1, <1>2, <1>3, <1>7, <1>8, <1>9, <1>10, <1>11 DEF IndInv, TypeInv

(* ... a step that changes nothing keeps it, ...                        *)
LEMMA StutterStep ==
    ASSUME IndInv, UNCHANGED vars
    PROVE  IndInv'
<1>1. UNCHANGED <<net, chain, where, sidecar, file, saved, cmd, nextSub, lost>>
    BY DEF vars
<1>2. TypeInv'
    BY <1>1 DEF IndInv, TypeInv, NetOK, ChainOK, WhereOK, SidecarOK, FileOK, SavedOK, CmdOK,
        CountOK, LostOK
<1>3. Numbered' /\ HasAsset' /\ Apart' /\ TxsDone' /\ Resumed'
    BY <1>1 DEF IndInv, Numbered, HasAsset, Apart, TxsDone, Resumed
<1>4. OneAsset' /\ Transforming' /\ RecordedAsset'
    BY <1>1 DEF IndInv, OneAsset, Transforming, RecordedAsset
<1>5. Rests' /\ Waiting' /\ Replacing' /\ SomeoneStays'
    BY <1>1 DEF IndInv, Rests, Waiting, Replacing, SomeoneStays
<1> QED
    BY <1>2, <1>3, <1>4, <1>5 DEF IndInv

(* ... and so does every other step.                                    *)
LEMMA StepInv ==
    IndInv /\ [Next]_vars => IndInv'
<1> SUFFICES ASSUME IndInv, [Next]_vars PROVE IndInv'
    OBVIOUS
<1>1. CASE UNCHANGED vars
    BY <1>1, StutterStep
<1>2. CASE Deploy \/ BeginClean \/ CommitTransform \/ Crash
    BY <1>2, DeployStep, BeginCleanStep, CommitTransformStep, CrashStep
<1>3. ASSUME NEW c \in Configs, BeginElastic(c)
      PROVE  IndInv'
    BY <1>3, BeginElasticStep
<1>4. ASSUME NEW n \in Nodes, NEW s \in StakeChoices(file.cfg.min), NEW p \in Periods,
             BeginJoin(n, s, p)
      PROVE  IndInv'
    BY <1>4, StakesAreAmounts, LimitsAreAmounts, BeginJoinStep
<1>5. ASSUME NEW n \in Nodes, NEW s \in StakeChoices(file.cfg.del), NEW p \in Periods,
             Delegate(n, s, p)
      PROVE  IndInv'
    BY <1>5, StakesAreAmounts, LimitsAreAmounts, DelegateStep
<1>6. ASSUME NEW n \in Nodes, RemoveValidator(n) \/ Activate(n)
      PROVE  IndInv'
    BY <1>6, RemoveValidatorStep, ActivateStep
<1>7. ASSUME NEW a \in Assets, NEW c \in Configs, OthersTransform(a, c)
      PROVE  IndInv'
    BY <1>7, OthersTransformStep
<1>8. CASE Step
    BY <1>8, MoveAssetStep, TransformStep, TransformValidatorsStep, CleanNetworksStep,
       CleanElasticStep, CleanFileStep DEF Step, Clean
<1> QED
    BY <1>1, <1>2, <1>3, <1>4, <1>5, <1>6, <1>7, <1>8 DEF Next

(* Every reachable state has the invariant: an asset that a command     *)
(* works on exists, on Testnet it is the recorded one, what is          *)
(* recorded is done, and one of several validators always stays.        *)
THEOREM Inductive == Spec => []IndInv
BY InitInv, StepInv, PTL DEF Spec

-----------------------------------------------------------------------------
(* Every variable has its type in every reachable state; in particular  *)
(* a command that exports, imports or transforms has an asset to do it  *)
(* with.                                                                *)
THEOREM TypeCorrect == Spec => []TypeOK
<1>1. IndInv => TypeOK
  <2> SUFFICES ASSUME IndInv PROVE TypeOK
      OBVIOUS
  <2>1. net \in Networks /\ where \in [Assets -> Places] /\ lost \in BOOLEAN
        /\ nextSub \in 1..(MaxSubs + 1)
      BY DEF IndInv, TypeInv, NetOK, WhereOK, LostOK, CountOK
  <2>2. chain \in [sub : 0..MaxSubs, asset : 0..MaxAssets, cfg : Configs \cup {NoConfig},
                   free : Nat, val : [Nodes -> Status]]
      BY TypeFacts DEF Chains, Subs, Ids, Cfgs
  <2>3. sidecar \in [sub : 0..MaxSubs,
          elastic : [there : BOOLEAN, sub : 0..MaxSubs, asset : 0..MaxAssets,
                     txs : [create : 0..MaxAssets, exp : BOOLEAN, imp : BOOLEAN],
                     vals : SUBSET Nodes]]
      BY TypeFacts DEF Sidecars, Entries, Txs, Subs, Ids
  <2>4. {file, saved} \subseteq
          [sub : 0..MaxSubs, asset : 0..MaxAssets, cfg : Configs \cup {NoConfig}]
      BY TypeFacts DEF Files, Subs, Ids, Cfgs
  <2>5. cmd \in [pc : Pcs, kind : {"none", "elastic", "join", "clean"}, asset : 0..MaxAssets,
                cfg : Configs \cup {NoConfig}, list : SUBSET Nodes, many : BOOLEAN,
                stake : Nat, period : Periods \cup {0}, node : Nodes \cup {"none"}]
      BY TypeFacts DEF Commands, Ids, Cfgs
  <2>6. cmd.pc \in {"export", "import", "transform"} => cmd.asset \in Assets
      BY DEF IndInv, HasAsset, Moving
  <2> QED
      BY <2>1, <2>2, <2>3, <2>4, <2>5, <2>6 DEF TypeOK
<1> QED
    BY <1>1, Inductive, PTL

(* elastic on Testnet skips the transactions that the sidecar records   *)
(* (checkIfTxHasOccurred), so each of them must be done: the asset      *)
(* exists, has left the A-Chain, has reached the O-Chain. And as long   *)
(* as every answer arrived, retrying creates no second asset.           *)
THEOREM RetriesAreSafe == Spec => []SkippedIsDone
<1>1. IndInv => SkippedIsDone
  <2> SUFFICES ASSUME IndInv PROVE SkippedIsDone
      OBVIOUS
  <2> DEFINE made == {a \in Assets : where[a] # "none"}
             txs == sidecar.elastic.txs
  <2>1. /\ txs.create # 0 => where[txs.create] # "none"
        /\ txs.exp => txs.create # 0 /\ where[txs.create] \in {"flight", "ochain"}
        /\ txs.imp => txs.exp /\ where[txs.create] = "ochain"
      BY DEF IndInv, TxsDone
  <2>2. ASSUME net = "testnet", ~lost, chain.asset = 0
        PROVE  Cardinality(made) <= 1
    <3>1. PICK x : made \subseteq {x}
      <4>1. CASE cmd.pc = "noteCreate"
        <5>1. txs.create = 0
            BY <2>2, <4>1 DEF IndInv, Resumed
        <5>2. made \subseteq {cmd.asset}
            BY <2>2, <5>1, ConstFacts DEF IndInv, OneAsset
        <5> QED
            BY <5>2
      <4>2. CASE cmd.pc # "noteCreate"
        <5>1. made \subseteq {txs.create}
            BY <2>2, <4>2 DEF IndInv, OneAsset
        <5> QED
            BY <5>1
      <4> QED
          BY <4>1, <4>2
    <3>2. IsFiniteSet({x}) /\ Cardinality({x}) = 1
        BY FS_Singleton
    <3> QED
        BY <3>1, <3>2, FS_Subset, FS_CardinalityType
  <2> QED
      BY <2>1, <2>2 DEF SkippedIsDone
<1> QED
    BY <1>1, Inductive, PTL

(* The elastic entry of the sidecar that is of the current deployment   *)
(* names the asset that the subnet was transformed with.                *)
THEOREM SidecarNamesTheAsset == Spec => []RecordedAsset
<1>1. IndInv => RecordedAsset
    BY DEF IndInv
<1> QED
    BY <1>1, Inductive, PTL

(* The validators that remain when elastic removes n are enough.           *)
LEMMA OneStays ==
    ASSUME IndInv, NEW n \in Nodes, cmd.pc = "drop", n \in cmd.list, cmd.many,
           cmd.list = {n} => Slept
    PROVE  \E m \in Nodes : m # n /\ chain.val[m] \in {"perm", "elastic"}
<1>1. cmd.list \subseteq Nodes
    BY TypeFacts DEF Commands
<1>2. CASE \E m \in cmd.list : m # n
    BY <1>1, <1>2 DEF IndInv, Waiting
<1>3. CASE \A m \in cmd.list : m = n
  <2>1. cmd.list = {n}
      BY <1>3
  <2>2. \A m \in Nodes : chain.val[m] # "pending"
      BY <2>1 DEF Slept, Is
  <2>3. PICK m \in Nodes : m \notin cmd.list /\ chain.val[m] \in {"pending", "elastic"}
      BY <1>3 DEF IndInv, SomeoneStays
  <2> QED
      BY <2>2, <2>3
<1> QED
    BY <1>2, <1>3

(* Who validates still does, if no validator but n changes its status, and *)
(* n does not validate before.                                             *)
LEMMA StillSome ==
    ASSUME NEW n \in Nodes, NEW s, Becomes(n, s), Current # {},
           chain.val[n] \notin {"perm", "elastic"}
    PROVE  {m \in Nodes : chain'.val[m] \in {"perm", "elastic"}} # {}
BY DEF Becomes, Current, Is

(* transformValidatorsToPermissionless removes each validator before    *)
(* it adds it again: when there are several, no step of it leaves a     *)
(* subnet that had a validator without one.                             *)
THEOREM OneKeepsValidating == Spec => ElasticKeepsOne
<1> DEFINE Next1 == {n \in Nodes : chain'.val[n] \in {"perm", "elastic"}}
<1>1. ASSUME IndInv, [Next]_vars, cmd.kind = "elastic", cmd.many, chain'.sub = chain.sub,
             Current # {}
      PROVE  Next1 # {}
  <2>1. cmd.pc # "idle"
      BY <1>1 DEF IndInv, Rests
  <2>2. CASE chain'.val = chain.val
      BY <1>1, <2>2 DEF Current, Is
  <2>3. ASSUME NEW n \in Nodes, DropValidator(n) \/ DropValidatorFails(n), chain' # chain
        PROVE  Next1 # {}
    <3>1. Dropped(n) /\ cmd.pc = "drop" /\ n \in cmd.list /\ (cmd.list = {n} => Slept)
        BY <2>3 DEF DropValidator, DropValidatorFails
    <3>2. PICK m \in Nodes : m # n /\ chain.val[m] \in {"perm", "elastic"}
        BY <1>1, <3>1, OneStays
    <3>3. Becomes(n, "out")
        BY <1>1, <3>1, TypeFacts, BecomesOnly DEF Dropped, Status
    <3> QED
        BY <3>2, <3>3 DEF Becomes
  <2>4. ASSUME NEW n \in Nodes, AddValidator(n) \/ AddValidatorFails(n), chain' # chain
        PROVE  Next1 # {}
    <3>1. CanAdd(n) /\ Added(n)
        BY <2>4 DEF AddValidator, AddValidatorFails
    <3>2. Becomes(n, "pending")
        BY <1>1, <3>1, TypeFacts, AddedBecomes DEF CanAdd
    <3> QED
        BY <1>1, <3>1, <3>2, StillSome DEF CanAdd
  <2>5. ASSUME NEW n \in Nodes, Activate(n)
        PROVE  Next1 # {}
    <3>1. Becomes(n, "elastic")
        BY <1>1, <2>5, TypeFacts, BecomesOnly DEF Activate, Status
    <3> QED
        BY <2>5, <3>1, <1>1, StillSome DEF Activate
  <2>6. CASE chain' = chain
      BY <1>1, <2>6 DEF Current, Is
  <2>7. CASE MoveAsset \/ Clean
      BY <2>6, <2>7 DEF MoveAsset, Clean, CreateAsset, CreateAssetFails, SkipCreate, NoteCreate,
         SkipExport, ExportAsset, ExportAssetFails, NoteExport, SkipImport, ImportAsset,
         ImportAssetFails, NoteImport, CleanNetworks, CleanElastic, CleanFile
  <2>8. CASE Transform
    <3>1. chain' = chain \/ Transformed(cmd.asset, cmd.cfg)
        BY <2>8 DEF Transform, TransformSubnet, TransformSubnetFails, SaveTransform,
            WriteConfig,
           RecordElastic
    <3> QED
        BY <1>1, <2>2, <2>6, <3>1, TypeFacts DEF Transformed, Chains
  <2>9. CASE TransformValidators
    <3>1. chain' = chain \/ \E n \in Nodes : DropValidator(n) \/ DropValidatorFails(n)
                                             \/ AddValidator(n) \/ AddValidatorFails(n)
        BY <2>9 DEF TransformValidators, DeclineValidators, ChooseStake, NoteValidator,
           NoteValidatorPanics, Settle
    <3> QED
        BY <2>3, <2>4, <2>6, <3>1
  <2>10. ASSUME NEW a, NEW c, Transformed(a, c)
         PROVE  Next1 # {}
      BY <1>1, <2>2, <2>10, TypeFacts DEF Transformed, Chains
  <2>11. CASE CommitTransform
      BY <2>10, <2>11 DEF CommitTransform
  <2>12. ASSUME NEW a \in Assets, NEW c \in Configs, OthersTransform(a, c)
         PROVE  Next1 # {}
      BY <2>10, <2>12 DEF OthersTransform
  <2>13. CASE Crash \/ UNCHANGED vars
      BY <2>6, <2>13 DEF Crash, vars
  <2>14. ~Deploy /\ ~BeginClean /\ \A n \in Nodes : ~RemoveValidator(n)
      BY <2>1 DEF Deploy, BeginClean, RemoveValidator, Running
  <2>15. /\ \A c \in Configs : ~BeginElastic(c)
         /\ \A n, s, p : ~BeginJoin(n, s, p) /\ ~Delegate(n, s, p)
      BY <2>1 DEF BeginElastic, BeginJoin, Delegate, Running
  <2> HIDE DEF Next1
  <2> QED
      BY <1>1, <2>5, <2>7, <2>8, <2>9, <2>11, <2>12, <2>13, <2>14, <2>15 DEF Next, Step
<1>2. IndInv /\ [Next]_vars =>
        (cmd.kind = "elastic" /\ cmd.many /\ chain'.sub = chain.sub /\ Current # {}
          => {n \in Nodes : chain'.val[n] \in {"perm", "elastic"}} # {})
    BY <1>1
<1> QED
    BY <1>2, Inductive, PTL DEF ElasticKeepsOne, Spec
=============================================================================
