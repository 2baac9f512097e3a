------------------------- MODULE NetworkUpgradeProofs -------------------------
(* Theorems about NetworkUpgrade, for every value of its constants. *)
EXTENDS NetworkUpgrade, TLAPS

-----------------------------------------------------------------------------
(* Types. *)

(* The local part of a VM upgrade, from the choice of its target to the    *)
(* record of its RPC version.                                              *)
Upgrading == cmd.pc \in Targets \cup {"rpc"}

(* The command's half of the type invariant: a VM upgrade under way        *)
(* holds a sidecar that has a binary, knows the version it goes to, and    *)
(* records its RPC version only once the plugin is there.                  *)
CmdOK ==
    /\ cmd \in Commands
    /\ Upgrading => HasBinary(cmd.sc) /\ cmd.to # 0
    /\ cmd.pc = "rpc" => plugin # 0

(* The states of the local network. *)
Networks == [up : BOOLEAN, chain : 0..MaxChains, applied : SUBSET Upgrade, rpc : Rpcs]

(* The other half of the type invariant, with the bounds of the            *)
(* counters.                                                               *)
StateOK ==
    /\ sc \in Sidecar /\ HasBinary(sc)
    /\ {bin, plugin} \subseteq Versions \cup {0}
    /\ {file, lock} \subseteq SUBSET Upgrade
    /\ net \in Networks
    /\ snap \in [def : Saved, tmp : Saved]
    /\ node \in [file : SUBSET Upgrade, plugin : Versions \cup {0}, tracks : BOOLEAN]
    /\ now \in 0..MaxTime
    /\ cut \subseteq {"lock", "rpc"}
    /\ nextChain \in 1..(MaxChains + 1) /\ vmOps \in 0..MaxVmOps

(* The two halves make the type invariant. *)
LEMMA TypeParts == CmdOK /\ StateOK => TypeOK
BY DEF Networks, TypeOK, CmdOK, StateOK, Upgrading

(* No command, the network that is down and the empty snapshot are well    *)
(* typed.                                                                  *)
LEMMA IdleTyped ==
    ASSUME UpgradeAssumption
    PROVE  /\ Idle \in Commands /\ Idle.pc = "idle"
           /\ Down \in Networks /\ Nothing \in Saved
<1>1. NoSidecar \in Sidecar
  BY DEF NoSidecar, Sidecar, NoEntry, Rpcs
<1>2. QED
  BY <1>1 DEF Down, Nothing, Networks, Saved, Rpcs, Idle, Commands, Pcs

(* A step to a further point of a command, which leaves the VM's binary    *)
(* alone, keeps the command well typed; one to a point of a VM upgrade     *)
(* needs that it was one.                                                  *)
LEMMA GotoTyped ==
    ASSUME CmdOK, NEW p \in Pcs, Goto(p), UNCHANGED bin,
           p \in Targets \cup {"rpc"} => Upgrading, p = "rpc" => plugin' # 0
    PROVE  CmdOK'
BY DEF CmdOK, Goto, Commands, HasBinary, Upgrading

(* The end of a command, or its crash, leaves no command. *)
LEMMA FinishTyped ==
    ASSUME UpgradeAssumption, Finish
    PROVE  CmdOK'
BY IdleTyped DEF CmdOK, Finish, Upgrading, Targets

(* Every step keeps the command well typed. *)
LEMMA StepCmd ==
    ASSUME UpgradeAssumption, CmdOK, StateOK, [Next]_vars
    PROVE  CmdOK'
<1>1. CASE DeployLocal
  BY <1>1 DEF DeployLocal, CmdOK, HasBinary, Upgrading
<1>2. CASE DeployPublic
  BY <1>2 DEF DeployPublic, CmdOK, HasBinary, Upgrading, vmVars
<1>3. ASSUME NEW s \in {"def", "tmp"}, NetworkStart(s)
      PROVE  CmdOK'
  BY <1>3 DEF NetworkStart, CmdOK, HasBinary, Upgrading, vmVars
<1>4. CASE NetworkStop
  BY <1>4 DEF NetworkStop, CmdOK, HasBinary, Upgrading, vmVars
<1>5. CASE NetworkClean
  BY <1>5 DEF NetworkClean, CmdOK, HasBinary, Upgrading, Running
<1>6. CASE Tick
  BY <1>6 DEF Tick, CmdOK, HasBinary, Upgrading, vmVars
<1>7. CASE BeginGenerate
  BY <1>7, IdleTyped DEF BeginGenerate, CmdOK, Commands, Pcs, Targets, Upgrading
<1>8. CASE More
  BY <1>8, IdleTyped DEF More, CmdOK, Commands, Pcs, Targets, Upgrading
<1>9. CASE WriteUpgradeFile
  BY <1>9, FinishTyped DEF WriteUpgradeFile
<1>10. ASSUME NEW p \in Precompiles, NEW t \in 1..MaxTime, Pick(p, t)
      PROVE  CmdOK'
  <2>1. [pre |-> p, ts |-> t] \in Upgrade
    BY DEF Upgrade
  <2>2. cmd' \in Commands /\ cmd'.pc \in {"pick", "more"}
    BY <1>10, <2>1 DEF Pick, CmdOK, Commands, Pcs
  <2>3. QED
    BY <2>2 DEF CmdOK, Targets, Upgrading
<1>11. ASSUME NEW S \in Imports, ImportUpgrade(S)
      PROVE  CmdOK'
  BY <1>11 DEF ImportUpgrade, CmdOK, HasBinary, Upgrading, vmVars
<1>12. CASE BeginApply
  BY <1>12, IdleTyped DEF BeginApply, CmdOK, Commands, Pcs, Targets, Upgrading, StateOK
<1>13. CASE SaveSnapshot
  BY <1>13, GotoTyped DEF SaveSnapshot, Pcs, Targets, vmVars
<1>14. CASE LoadSnapshot
  BY <1>14, GotoTyped DEF LoadSnapshot, Pcs, Targets, vmVars
<1>15. CASE WaitForHealthy
  BY <1>15, GotoTyped DEF WaitForHealthy, Pcs, Targets, vmVars
<1>16. CASE ApplyFails
  BY <1>16, FinishTyped DEF ApplyFails
<1>17. CASE WriteLockFile
  BY <1>17, FinishTyped DEF WriteLockFile
<1>18. CASE ApplyPublic
  BY <1>18 DEF ApplyPublic, CmdOK, HasBinary, Upgrading, vmVars
<1>19. ASSUME NEW force \in BOOLEAN, BeginJoin(force)
      PROVE  CmdOK'
  BY <1>19, IdleTyped DEF BeginJoin, CmdOK, Commands, Pcs, Targets, Upgrading
<1>20. CASE CreatePlugin
  BY <1>20, GotoTyped DEF CreatePlugin, Pcs, Targets, vmVars, AfterPlugin
<1>21. CASE WriteChainFiles
  BY <1>21, GotoTyped DEF WriteChainFiles, Pcs, Targets, vmVars
<1>22. CASE EditConfigFile
  BY <1>22, FinishTyped DEF EditConfigFile
<1>23. CASE JoinFails
  BY <1>23, FinishTyped DEF JoinFails
<1>24. ASSUME NEW v \in Versions, NEW to \in Targets, BeginUpgradeVM(v, to)
      PROVE  CmdOK'
  BY <1>24, IdleTyped DEF BeginUpgradeVM, CmdOK, Commands, Pcs, Targets, StateOK, HasBinary
<1>25. ASSUME NEW v \in Versions, NEW to \in Targets, BeginCustomVM(v, to)
      PROVE  CmdOK'
  <2>1. [sc EXCEPT !.vm = "custom", !.rpc = Rpc[v]] \in Sidecar
    BY DEF StateOK, Sidecar, Rpcs
  <2>2. v # 0 /\ v \in Versions \cup {0}
    BY DEF UpgradeAssumption
  <2>3. cmd' \in Commands
    BY <1>25, <2>1, <2>2, IdleTyped DEF BeginCustomVM, Commands, Pcs
  <2>4. HasBinary(cmd.sc)' /\ cmd'.to # 0 /\ cmd'.pc = to
    BY <1>25, <2>1, <2>2, IdleTyped DEF BeginCustomVM, Commands, HasBinary, Sidecar
  <2>5. QED
    BY <2>3, <2>4 DEF CmdOK, Targets
<1>26. CASE UpdateFuture
  BY <1>26, FinishTyped DEF UpdateFuture
<1>27. CASE UpgradePlugin
  BY <1>27, GotoTyped DEF UpgradePlugin, CmdOK, Pcs, Targets, Upgrading
<1>28. CASE UpgradePluginFails
  BY <1>28, FinishTyped DEF UpgradePluginFails
<1>29. CASE UpdateLocalSidecarRPC
  BY <1>29, FinishTyped DEF UpdateLocalSidecarRPC
<1>30. CASE UpgradeNode
  BY <1>30, FinishTyped DEF UpgradeNode
<1>31. CASE Crash
  BY <1>31, FinishTyped DEF Crash
<1>32. CASE UNCHANGED vars
  BY <1>32 DEF vars, CmdOK, HasBinary, Upgrading
<1>33. QED
  BY <1>1, <1>2, <1>3, <1>4, <1>5, <1>6, <1>7, <1>8, <1>9, <1>10, <1>11, <1>12, <1>13, <1>14,
     <1>15, <1>16, <1>17, <1>18, <1>19, <1>20, <1>21, <1>22, <1>23, <1>24, <1>25, <1>26,
     <1>27, <1>28, <1>29, <1>30, <1>31, <1>32 DEF Next, Generate, Apply, Join, UpgradeTheVM

(* Every step keeps the rest of the state well typed. *)
LEMMA StepState ==
    ASSUME UpgradeAssumption, CmdOK, StateOK, [Next]_vars
    PROVE  StateOK'
<1>1. CASE DeployLocal
  BY <1>1 DEF DeployLocal, Sidecar, Networks, StateOK, HasBinary, Binary
<1>2. CASE DeployPublic
  BY <1>2 DEF DeployPublic, Sidecar, StateOK, HasBinary, vmVars, chainVars
<1>3. ASSUME NEW s \in {"def", "tmp"}, NetworkStart(s)
      PROVE  StateOK'
  BY <1>3 DEF NetworkStart, Sidecar, Saved, Networks, StateOK, HasBinary, vmVars, NeededRpc,
     Rpcs
<1>4. CASE NetworkStop
  BY <1>4 DEF NetworkStop, Saved, Networks, StateOK, HasBinary, vmVars, Current, Down, Rpcs
<1>5. CASE NetworkClean
  BY <1>5 DEF NetworkClean, Sidecar, Saved, Networks, StateOK, HasBinary, Down, Nothing,
     NoEntry, Rpcs
<1>6. CASE Tick
  BY <1>6 DEF Tick, StateOK, HasBinary, vmVars, chainVars
<1>7. CASE BeginGenerate
  BY <1>7 DEF BeginGenerate, StateOK, HasBinary, vmVars, chainVars
<1>8. CASE More
  BY <1>8 DEF More, StateOK, HasBinary, vmVars, chainVars
<1>9. CASE WriteUpgradeFile
  BY <1>9 DEF WriteUpgradeFile, StateOK, HasBinary, vmVars, chainVars, CmdOK, Commands
<1>10. ASSUME NEW p \in Precompiles, NEW t \in 1..MaxTime, Pick(p, t)
      PROVE  StateOK'
  BY <1>10 DEF Pick, StateOK, HasBinary, vmVars, chainVars
<1>11. ASSUME NEW S \in Imports, ImportUpgrade(S)
      PROVE  StateOK'
  BY <1>11 DEF ImportUpgrade, StateOK, HasBinary, vmVars, chainVars
<1>12. CASE BeginApply
  BY <1>12 DEF BeginApply, StateOK, HasBinary, vmVars, chainVars
<1>13. CASE SaveSnapshot
  <2>1. net' \in Networks
    BY <1>13, IdleTyped DEF SaveSnapshot, StateOK, Networks
  <2>2. snap' \in [def : Saved, tmp : Saved]
    BY <1>13 DEF SaveSnapshot, StateOK, Networks, Saved, Current
  <2>3. QED
    BY <1>13, <2>1, <2>2 DEF SaveSnapshot, StateOK, HasBinary, vmVars
<1>14. CASE LoadSnapshot
  BY <1>14 DEF LoadSnapshot, Saved, Networks, StateOK, HasBinary, vmVars, CmdOK, Commands
<1>15. CASE WaitForHealthy
  BY <1>15 DEF WaitForHealthy, StateOK, HasBinary, vmVars, chainVars
<1>16. CASE ApplyFails
  BY <1>16 DEF ApplyFails, Networks, StateOK, HasBinary, vmVars, Down, Rpcs
<1>17. CASE WriteLockFile
  BY <1>17 DEF WriteLockFile, StateOK, HasBinary, vmVars, chainVars, CmdOK, Commands
<1>18. CASE ApplyPublic
  BY <1>18 DEF ApplyPublic, StateOK, HasBinary, vmVars, chainVars
<1>19. ASSUME NEW force \in BOOLEAN, BeginJoin(force)
      PROVE  StateOK'
  BY <1>19 DEF BeginJoin, StateOK, HasBinary, vmVars, chainVars
<1>20. CASE CreatePlugin
  BY <1>20 DEF CreatePlugin, Sidecar, StateOK, HasBinary, vmVars, chainVars, Binary
<1>21. CASE WriteChainFiles
  BY <1>21 DEF WriteChainFiles, StateOK, HasBinary, vmVars, chainVars
<1>22. CASE EditConfigFile
  BY <1>22 DEF EditConfigFile, StateOK, HasBinary, vmVars, chainVars
<1>23. CASE JoinFails
  BY <1>23 DEF JoinFails, StateOK, HasBinary, vmVars, chainVars
<1>24. ASSUME NEW v \in Versions, NEW to \in Targets, BeginUpgradeVM(v, to)
      PROVE  StateOK'
  BY <1>24 DEF BeginUpgradeVM, StateOK, HasBinary, chainVars, MayUpgradeVM
<1>25. ASSUME NEW v \in Versions, NEW to \in Targets, BeginCustomVM(v, to)
      PROVE  StateOK'
  BY <1>25 DEF BeginCustomVM, StateOK, HasBinary, chainVars, MayUpgradeVM
<1>26. CASE UpdateFuture
  BY <1>26 DEF UpdateFuture, Sidecar, StateOK, HasBinary, vmVars, chainVars, CmdOK, Commands,
     Upgrading, Targets
<1>27. CASE UpgradePlugin
  BY <1>27 DEF UpgradePlugin, StateOK, HasBinary, chainVars, CmdOK, Commands
<1>28. CASE UpgradePluginFails
  BY <1>28 DEF UpgradePluginFails, StateOK, HasBinary, vmVars, chainVars
<1>29. CASE UpdateLocalSidecarRPC
  BY <1>29 DEF UpdateLocalSidecarRPC, Sidecar, StateOK, HasBinary, vmVars, chainVars, CmdOK,
     Commands, Upgrading, Rpcs
<1>30. CASE UpgradeNode
  BY <1>30 DEF UpgradeNode, StateOK, HasBinary, vmVars, chainVars, CmdOK, Commands
<1>31. CASE Crash
  BY <1>31 DEF Crash, Networks, StateOK, HasBinary, vmVars, Down, Rpcs
<1>32. CASE UNCHANGED vars
  BY <1>32 DEF vars, StateOK, HasBinary
<1>33. QED
  BY <1>1, <1>2, <1>3, <1>4, <1>5, <1>6, <1>7, <1>8, <1>9, <1>10, <1>11, <1>12, <1>13, <1>14,
     <1>15, <1>16, <1>17, <1>18, <1>19, <1>20, <1>21, <1>22, <1>23, <1>24, <1>25, <1>26,
     <1>27, <1>28, <1>29, <1>30, <1>31, <1>32 DEF Next, Generate, Apply, Join, UpgradeTheVM

-----------------------------------------------------------------------------
(* The three invariants that make the safety properties inductive. *)

(* While no write of the lock file has been cut short, what the            *)
(* snapshots and the network have applied is in the lock file. Between     *)
(* the start of the network with an upgrade file and the write of the      *)
(* lock file, the network is ahead by exactly what the command read,       *)
(* which is no less than the lock file.                                    *)
UpgradesLocked ==
    "lock" \notin cut =>
        /\ snap.def.applied \subseteq lock /\ snap.tmp.applied \subseteq lock
        /\ cmd.pc \notin {"healthy", "lock"} => net.applied \subseteq lock
        /\ cmd.pc \in {"save", "load", "healthy", "lock"} => lock \subseteq cmd.got
        /\ cmd.pc \in {"healthy", "lock"} => net.applied = cmd.got

(* The chain the sidecar names is in the temporary snapshot, or in the     *)
(* network while it is up and in the default snapshot while it is down;    *)
(* an apply has it in the network until the save and in the temporary      *)
(* snapshot until the load. A VM upgrade's copy of the sidecar agrees on   *)
(* it.                                                                     *)
ChainKept ==
    /\ sc.loc.chain \in {0, snap.tmp.chain, IF net.up THEN net.chain ELSE snap.def.chain}
    /\ cmd.pc = "save" => net.up /\ net.chain = sc.loc.chain
    /\ cmd.pc = "load" => snap.tmp.chain = sc.loc.chain
    /\ Upgrading => cmd.sc.loc = sc.loc

(* A node that tracks the subnet has the VM's plugin, and so has one       *)
(* that a join has gone past the plugin with.                              *)
NodeHasVM == TrackedHasVM /\ (cmd.pc \in {"files", "config"} => node.plugin # 0)

(* Every step keeps what is applied in the lock file. *)
LEMMA StepLocked ==
    ASSUME UpgradeAssumption, CmdOK, StateOK, UpgradesLocked, [Next]_vars
    PROVE  UpgradesLocked'
<1>1. CASE DeployLocal
  BY <1>1 DEF DeployLocal, Running, UpgradesLocked
<1>2. CASE DeployPublic
  BY <1>2 DEF DeployPublic, chainVars, UpgradesLocked
<1>3. ASSUME NEW s \in {"def", "tmp"}, NetworkStart(s)
      PROVE  UpgradesLocked'
  BY <1>3 DEF NetworkStart, Running, UpgradesLocked
<1>4. CASE NetworkStop
  BY <1>4 DEF NetworkStop, Running, UpgradesLocked, Current, Down
<1>5. CASE NetworkClean
  BY <1>5 DEF NetworkClean, Running, UpgradesLocked, Down, Nothing
<1>6. CASE Tick
  BY <1>6 DEF Tick, chainVars, UpgradesLocked
<1>7. CASE BeginGenerate
  BY <1>7 DEF BeginGenerate, Running, chainVars, UpgradesLocked
<1>8. CASE More
  BY <1>8 DEF More, chainVars, UpgradesLocked
<1>9. CASE WriteUpgradeFile
  BY <1>9 DEF WriteUpgradeFile, Idle, Finish, chainVars, UpgradesLocked
<1>10. ASSUME NEW p \in Precompiles, NEW t \in 1..MaxTime, Pick(p, t)
      PROVE  UpgradesLocked'
  BY <1>10 DEF Pick, chainVars, UpgradesLocked
<1>11. ASSUME NEW S \in Imports, ImportUpgrade(S)
      PROVE  UpgradesLocked'
  BY <1>11 DEF ImportUpgrade, chainVars, UpgradesLocked
<1>12. CASE BeginApply
  BY <1>12 DEF BeginApply, Running, chainVars, UpgradesLocked, MayApply, ContainsLock
<1>13. CASE SaveSnapshot
  BY <1>13 DEF SaveSnapshot, Goto, UpgradesLocked, Current, Down
<1>14. CASE LoadSnapshot
  BY <1>14 DEF LoadSnapshot, Goto, UpgradesLocked
<1>15. CASE WaitForHealthy
  BY <1>15 DEF WaitForHealthy, Goto, chainVars, UpgradesLocked
<1>16. CASE ApplyFails
  BY <1>16 DEF ApplyFails, Idle, Finish, UpgradesLocked, Down
<1>17. CASE WriteLockFile
  BY <1>17 DEF WriteLockFile, Idle, Finish, chainVars, UpgradesLocked
<1>18. CASE ApplyPublic
  BY <1>18 DEF ApplyPublic, chainVars, UpgradesLocked
<1>19. ASSUME NEW force \in BOOLEAN, BeginJoin(force)
      PROVE  UpgradesLocked'
  BY <1>19 DEF BeginJoin, Running, chainVars, UpgradesLocked
<1>20. CASE CreatePlugin
  BY <1>20 DEF CreatePlugin, Goto, chainVars, UpgradesLocked, AfterPlugin
<1>21. CASE WriteChainFiles
  BY <1>21 DEF WriteChainFiles, Goto, chainVars, UpgradesLocked
<1>22. CASE EditConfigFile
  BY <1>22 DEF EditConfigFile, Idle, Finish, chainVars, UpgradesLocked
<1>23. CASE JoinFails
  BY <1>23 DEF JoinFails, Idle, Finish, chainVars, UpgradesLocked
<1>24. ASSUME NEW v \in Versions, NEW to \in Targets, BeginUpgradeVM(v, to)
      PROVE  UpgradesLocked'
  <2>1. cmd'.pc \in Targets
    BY <1>24 DEF BeginUpgradeVM
  <2>2. UNCHANGED <<net, snap, lock, cut>> /\ cmd.pc = "idle"
    BY <1>24 DEF BeginUpgradeVM, MayUpgradeVM, Running, chainVars
  <2>3. QED
    BY <2>1, <2>2 DEF UpgradesLocked, Targets
<1>25. ASSUME NEW v \in Versions, NEW to \in Targets, BeginCustomVM(v, to)
      PROVE  UpgradesLocked'
  <2>1. cmd'.pc \in Targets
    BY <1>25 DEF BeginCustomVM
  <2>2. UNCHANGED <<net, snap, lock, cut>> /\ cmd.pc = "idle"
    BY <1>25 DEF BeginCustomVM, MayUpgradeVM, Running, chainVars
  <2>3. QED
    BY <2>1, <2>2 DEF UpgradesLocked, Targets
<1>26. CASE UpdateFuture
  BY <1>26 DEF UpdateFuture, Idle, Finish, chainVars, UpgradesLocked
<1>27. CASE UpgradePlugin
  BY <1>27 DEF UpgradePlugin, Goto, chainVars, UpgradesLocked
<1>28. CASE UpgradePluginFails
  BY <1>28 DEF UpgradePluginFails, Idle, Finish, chainVars, UpgradesLocked
<1>29. CASE UpdateLocalSidecarRPC
  BY <1>29 DEF UpdateLocalSidecarRPC, Idle, Finish, chainVars, UpgradesLocked
<1>30. CASE UpgradeNode
  BY <1>30 DEF UpgradeNode, Idle, Finish, chainVars, UpgradesLocked
<1>31. CASE Crash
  BY <1>31 DEF Crash, Idle, Finish, UpgradesLocked, Down
<1>32. CASE UNCHANGED vars
  BY <1>32 DEF vars, UpgradesLocked
<1>33. QED
  BY <1>1, <1>2, <1>3, <1>4, <1>5, <1>6, <1>7, <1>8, <1>9, <1>10, <1>11, <1>12, <1>13, <1>14,
     <1>15, <1>16, <1>17, <1>18, <1>19, <1>20, <1>21, <1>22, <1>23, <1>24, <1>25, <1>26,
     <1>27, <1>28, <1>29, <1>30, <1>31, <1>32 DEF Next, Generate, Apply, Join, UpgradeTheVM

(* Every step keeps the deployed chain where the sidecar's entry can       *)
(* find it.                                                                *)
LEMMA StepChain ==
    ASSUME UpgradeAssumption, CmdOK, StateOK, ChainKept, [Next]_vars
    PROVE  ChainKept'
<1>1. CASE DeployLocal
  BY <1>1 DEF DeployLocal, Running, ChainKept, Upgrading, Targets
<1>2. CASE DeployPublic
  BY <1>2 DEF DeployPublic, chainVars, ChainKept, Upgrading
<1>3. ASSUME NEW s \in {"def", "tmp"}, NetworkStart(s)
      PROVE  ChainKept'
  BY <1>3 DEF NetworkStart, ChainKept, Upgrading
<1>4. CASE NetworkStop
  BY <1>4 DEF NetworkStop, Running, ChainKept, Upgrading, Current, Down
<1>5. CASE NetworkClean
  BY <1>5 DEF NetworkClean, Running, ChainKept, Upgrading, Targets, NoEntry
<1>6. CASE Tick
  BY <1>6 DEF Tick, chainVars, ChainKept, Upgrading
<1>7. CASE BeginGenerate
  BY <1>7 DEF BeginGenerate, chainVars, ChainKept, Upgrading, Targets
<1>8. CASE More
  BY <1>8 DEF More, chainVars, ChainKept, Upgrading, Targets
<1>9. CASE WriteUpgradeFile
  BY <1>9 DEF WriteUpgradeFile, Idle, Finish, chainVars, ChainKept, Upgrading, Targets
<1>10. ASSUME NEW p \in Precompiles, NEW t \in 1..MaxTime, Pick(p, t)
      PROVE  ChainKept'
  BY <1>10 DEF Pick, chainVars, ChainKept, Upgrading, Targets
<1>11. ASSUME NEW S \in Imports, ImportUpgrade(S)
      PROVE  ChainKept'
  BY <1>11 DEF ImportUpgrade, chainVars, ChainKept, Upgrading
<1>12. CASE BeginApply
  BY <1>12 DEF BeginApply, chainVars, ChainKept, Upgrading, Targets
<1>13. CASE SaveSnapshot
  BY <1>13 DEF SaveSnapshot, Goto, ChainKept, Upgrading, Targets, Current
<1>14. CASE LoadSnapshot
  BY <1>14 DEF LoadSnapshot, Goto, ChainKept, Upgrading, Targets
<1>15. CASE WaitForHealthy
  BY <1>15 DEF WaitForHealthy, Goto, chainVars, ChainKept, Upgrading, Targets
<1>16. CASE ApplyFails
  BY <1>16 DEF ApplyFails, Idle, Finish, ChainKept, Upgrading, Targets
<1>17. CASE WriteLockFile
  BY <1>17 DEF WriteLockFile, Idle, Finish, chainVars, ChainKept, Upgrading, Targets
<1>18. CASE ApplyPublic
  BY <1>18 DEF ApplyPublic, chainVars, ChainKept, Upgrading
<1>19. ASSUME NEW force \in BOOLEAN, BeginJoin(force)
      PROVE  ChainKept'
  BY <1>19 DEF BeginJoin, chainVars, ChainKept, Upgrading, Targets
<1>20. CASE CreatePlugin
  BY <1>20 DEF CreatePlugin, Goto, chainVars, ChainKept, Upgrading, Targets, AfterPlugin
<1>21. CASE WriteChainFiles
  BY <1>21 DEF WriteChainFiles, Goto, chainVars, ChainKept, Upgrading, Targets
<1>22. CASE EditConfigFile
  BY <1>22 DEF EditConfigFile, Idle, Finish, chainVars, ChainKept, Upgrading, Targets
<1>23. CASE JoinFails
  BY <1>23 DEF JoinFails, Idle, Finish, chainVars, ChainKept, Upgrading, Targets
<1>24. ASSUME NEW v \in Versions, NEW to \in Targets, BeginUpgradeVM(v, to)
      PROVE  ChainKept'
  BY <1>24 DEF BeginUpgradeVM, chainVars, ChainKept, Targets
<1>25. ASSUME NEW v \in Versions, NEW to \in Targets, BeginCustomVM(v, to)
      PROVE  ChainKept'
  BY <1>25 DEF BeginCustomVM, StateOK, Sidecar, Idle, chainVars, ChainKept, Targets
<1>26. CASE UpdateFuture
  BY <1>26 DEF UpdateFuture, Idle, Finish, chainVars, ChainKept, Upgrading, Targets
<1>27. CASE UpgradePlugin
  BY <1>27 DEF UpgradePlugin, Goto, chainVars, ChainKept, Upgrading, Targets
<1>28. CASE UpgradePluginFails
  BY <1>28 DEF UpgradePluginFails, Idle, Finish, chainVars, ChainKept, Upgrading, Targets
<1>29. CASE UpdateLocalSidecarRPC
  BY <1>29 DEF UpdateLocalSidecarRPC, CmdOK, Commands, Sidecar, Idle, Finish, chainVars,
     ChainKept, Upgrading, Targets
<1>30. CASE UpgradeNode
  BY <1>30 DEF UpgradeNode, Idle, Finish, chainVars, ChainKept, Upgrading, Targets
<1>31. CASE Crash
  BY <1>31 DEF Crash, Idle, Finish, ChainKept, Upgrading, Targets
<1>32. CASE UNCHANGED vars
  BY <1>32 DEF vars, ChainKept, Upgrading
<1>33. QED
  BY <1>1, <1>2, <1>3, <1>4, <1>5, <1>6, <1>7, <1>8, <1>9, <1>10, <1>11, <1>12, <1>13, <1>14,
     <1>15, <1>16, <1>17, <1>18, <1>19, <1>20, <1>21, <1>22, <1>23, <1>24, <1>25, <1>26,
     <1>27, <1>28, <1>29, <1>30, <1>31, <1>32 DEF Next, Generate, Apply, Join, UpgradeTheVM

(* Every step keeps the recorded RPC version that of the chain's plugin.   *)
(* It needs the copy of the sidecar that an upgrade writes back to be      *)
(* current.                                                                *)
LEMMA StepPlugin ==
    ASSUME UpgradeAssumption, CmdOK, StateOK, ChainKept, RecordedRpc, [Next]_vars
    PROVE  RecordedRpc'
<1>1. CASE DeployLocal
  BY <1>1 DEF DeployLocal, RecordedRpc
<1>2. CASE DeployPublic
  BY <1>2 DEF DeployPublic, vmVars, RecordedRpc
<1>3. ASSUME NEW s \in {"def", "tmp"}, NetworkStart(s)
      PROVE  RecordedRpc'
  BY <1>3 DEF NetworkStart, vmVars, RecordedRpc
<1>4. CASE NetworkStop
  BY <1>4 DEF NetworkStop, vmVars, RecordedRpc
<1>5. CASE NetworkClean
  BY <1>5 DEF NetworkClean, RecordedRpc, NoEntry
<1>6. CASE Tick
  BY <1>6 DEF Tick, vmVars, RecordedRpc
<1>7. CASE BeginGenerate
  BY <1>7 DEF BeginGenerate, Running, vmVars, RecordedRpc
<1>8. CASE More
  BY <1>8 DEF More, vmVars, RecordedRpc
<1>9. CASE WriteUpgradeFile
  BY <1>9 DEF WriteUpgradeFile, vmVars, RecordedRpc
<1>10. ASSUME NEW p \in Precompiles, NEW t \in 1..MaxTime, Pick(p, t)
      PROVE  RecordedRpc'
  BY <1>10 DEF Pick, vmVars, RecordedRpc
<1>11. ASSUME NEW S \in Imports, ImportUpgrade(S)
      PROVE  RecordedRpc'
  BY <1>11 DEF ImportUpgrade, vmVars, RecordedRpc
<1>12. CASE BeginApply
  BY <1>12 DEF BeginApply, Running, vmVars, RecordedRpc
<1>13. CASE SaveSnapshot
  BY <1>13 DEF SaveSnapshot, vmVars, RecordedRpc
<1>14. CASE LoadSnapshot
  BY <1>14 DEF LoadSnapshot, vmVars, RecordedRpc
<1>15. CASE WaitForHealthy
  BY <1>15 DEF WaitForHealthy, vmVars, RecordedRpc
<1>16. CASE ApplyFails
  BY <1>16 DEF ApplyFails, vmVars, RecordedRpc
<1>17. CASE WriteLockFile
  BY <1>17 DEF WriteLockFile, vmVars, RecordedRpc
<1>18. CASE ApplyPublic
  BY <1>18 DEF ApplyPublic, vmVars, RecordedRpc
<1>19. ASSUME NEW force \in BOOLEAN, BeginJoin(force)
      PROVE  RecordedRpc'
  BY <1>19 DEF BeginJoin, Running, vmVars, RecordedRpc
<1>20. CASE CreatePlugin
  BY <1>20 DEF CreatePlugin, vmVars, RecordedRpc
<1>21. CASE WriteChainFiles
  BY <1>21 DEF WriteChainFiles, vmVars, RecordedRpc
<1>22. CASE EditConfigFile
  BY <1>22 DEF EditConfigFile, vmVars, RecordedRpc
<1>23. CASE JoinFails
  BY <1>23 DEF JoinFails, vmVars, RecordedRpc
<1>24. ASSUME NEW v \in Versions, NEW to \in Targets, BeginUpgradeVM(v, to)
      PROVE  RecordedRpc'
  <2>1. cmd'.pc \in Targets
    BY <1>24 DEF BeginUpgradeVM
  <2>2. UNCHANGED <<sc, plugin, cut>> /\ cmd.pc = "idle"
    BY <1>24 DEF BeginUpgradeVM, MayUpgradeVM, Running
  <2>3. QED
    BY <2>1, <2>2 DEF RecordedRpc
<1>25. ASSUME NEW v \in Versions, NEW to \in Targets, BeginCustomVM(v, to)
      PROVE  RecordedRpc'
  <2>1. cmd'.pc \in Targets
    BY <1>25 DEF BeginCustomVM
  <2>2. UNCHANGED <<sc, plugin, cut>> /\ cmd.pc = "idle"
    BY <1>25 DEF BeginCustomVM, MayUpgradeVM, Running
  <2>3. QED
    BY <2>1, <2>2 DEF RecordedRpc
<1>26. CASE UpdateFuture
  BY <1>26 DEF UpdateFuture, vmVars, RecordedRpc, Upgrading, Targets, ChainKept
<1>27. CASE UpgradePlugin
  BY <1>27 DEF UpgradePlugin, Goto, RecordedRpc
<1>28. CASE UpgradePluginFails
  BY <1>28 DEF UpgradePluginFails, RecordedRpc
<1>29. CASE UpdateLocalSidecarRPC
  BY <1>29 DEF UpdateLocalSidecarRPC, CmdOK, Commands, Sidecar, vmVars, RecordedRpc
<1>30. CASE UpgradeNode
  BY <1>30 DEF UpgradeNode, vmVars, RecordedRpc
<1>31. CASE Crash
  BY <1>31 DEF Crash, vmVars, RecordedRpc
<1>32. CASE UNCHANGED vars
  BY <1>32 DEF vars, RecordedRpc
<1>33. QED
  BY <1>1, <1>2, <1>3, <1>4, <1>5, <1>6, <1>7, <1>8, <1>9, <1>10, <1>11, <1>12, <1>13, <1>14,
     <1>15, <1>16, <1>17, <1>18, <1>19, <1>20, <1>21, <1>22, <1>23, <1>24, <1>25, <1>26,
     <1>27, <1>28, <1>29, <1>30, <1>31, <1>32 DEF Next, Generate, Apply, Join, UpgradeTheVM

(* Every step keeps the plugin of a node that tracks the subnet. *)
LEMMA StepNode ==
    ASSUME UpgradeAssumption, CmdOK, StateOK, NodeHasVM, [Next]_vars
    PROVE  NodeHasVM'
<1>1. CASE DeployLocal
  BY <1>1 DEF DeployLocal, NodeHasVM, TrackedHasVM
<1>2. CASE DeployPublic
  BY <1>2 DEF DeployPublic, NodeHasVM, TrackedHasVM
<1>3. ASSUME NEW s \in {"def", "tmp"}, NetworkStart(s)
      PROVE  NodeHasVM'
  BY <1>3 DEF NetworkStart, NodeHasVM, TrackedHasVM
<1>4. CASE NetworkStop
  BY <1>4 DEF NetworkStop, NodeHasVM, TrackedHasVM
<1>5. CASE NetworkClean
  BY <1>5 DEF NetworkClean, NodeHasVM, TrackedHasVM
<1>6. CASE Tick
  BY <1>6 DEF Tick, NodeHasVM, TrackedHasVM
<1>7. CASE BeginGenerate
  BY <1>7 DEF BeginGenerate, NodeHasVM, TrackedHasVM
<1>8. CASE More
  BY <1>8 DEF More, NodeHasVM, TrackedHasVM
<1>9. CASE WriteUpgradeFile
  BY <1>9 DEF WriteUpgradeFile, Idle, Finish, NodeHasVM, TrackedHasVM
<1>10. ASSUME NEW p \in Precompiles, NEW t \in 1..MaxTime, Pick(p, t)
      PROVE  NodeHasVM'
  BY <1>10 DEF Pick, NodeHasVM, TrackedHasVM
<1>11. ASSUME NEW S \in Imports, ImportUpgrade(S)
      PROVE  NodeHasVM'
  BY <1>11 DEF ImportUpgrade, NodeHasVM, TrackedHasVM
<1>12. CASE BeginApply
  BY <1>12 DEF BeginApply, NodeHasVM, TrackedHasVM
<1>13. CASE SaveSnapshot
  BY <1>13 DEF SaveSnapshot, Goto, NodeHasVM, TrackedHasVM
<1>14. CASE LoadSnapshot
  BY <1>14 DEF LoadSnapshot, Goto, NodeHasVM, TrackedHasVM
<1>15. CASE WaitForHealthy
  BY <1>15 DEF WaitForHealthy, Goto, NodeHasVM, TrackedHasVM
<1>16. CASE ApplyFails
  BY <1>16 DEF ApplyFails, Idle, Finish, NodeHasVM, TrackedHasVM
<1>17. CASE WriteLockFile
  BY <1>17 DEF WriteLockFile, Idle, Finish, NodeHasVM, TrackedHasVM
<1>18. CASE ApplyPublic
  BY <1>18 DEF ApplyPublic, NodeHasVM, TrackedHasVM
<1>19. ASSUME NEW force \in BOOLEAN, BeginJoin(force)
      PROVE  NodeHasVM'
  BY <1>19 DEF BeginJoin, NodeHasVM, TrackedHasVM
<1>20. CASE CreatePlugin
  BY <1>20 DEF CreatePlugin, StateOK, Sidecar, NodeHasVM, TrackedHasVM, Binary, HasBinary
<1>21. CASE WriteChainFiles
  BY <1>21 DEF WriteChainFiles, NodeHasVM, TrackedHasVM
<1>22. CASE EditConfigFile
  BY <1>22 DEF EditConfigFile, StateOK, NodeHasVM, TrackedHasVM
<1>23. CASE JoinFails
  BY <1>23 DEF JoinFails, Idle, Finish, NodeHasVM, TrackedHasVM
<1>24. ASSUME NEW v \in Versions, NEW to \in Targets, BeginUpgradeVM(v, to)
      PROVE  NodeHasVM'
  BY <1>24 DEF BeginUpgradeVM, NodeHasVM, TrackedHasVM, Targets
<1>25. ASSUME NEW v \in Versions, NEW to \in Targets, BeginCustomVM(v, to)
      PROVE  NodeHasVM'
  BY <1>25 DEF BeginCustomVM, NodeHasVM, TrackedHasVM, Targets
<1>26. CASE UpdateFuture
  BY <1>26 DEF UpdateFuture, Idle, Finish, NodeHasVM, TrackedHasVM
<1>27. CASE UpgradePlugin
  BY <1>27 DEF UpgradePlugin, Goto, NodeHasVM, TrackedHasVM
<1>28. CASE UpgradePluginFails
  BY <1>28 DEF UpgradePluginFails, Idle, Finish, NodeHasVM, TrackedHasVM
<1>29. CASE UpdateLocalSidecarRPC
  BY <1>29 DEF UpdateLocalSidecarRPC, Idle, Finish, NodeHasVM, TrackedHasVM
<1>30. CASE UpgradeNode
  BY <1>30 DEF UpgradeNode, CmdOK, StateOK, Idle, Finish, NodeHasVM, TrackedHasVM, Upgrading,
     Targets
<1>31. CASE Crash
  BY <1>31 DEF Crash, Idle, Finish, NodeHasVM, TrackedHasVM
<1>32. CASE UNCHANGED vars
  BY <1>32 DEF vars, NodeHasVM, TrackedHasVM
<1>33. QED
  BY <1>1, <1>2, <1>3, <1>4, <1>5, <1>6, <1>7, <1>8, <1>9, <1>10, <1>11, <1>12, <1>13, <1>14,
     <1>15, <1>16, <1>17, <1>18, <1>19, <1>20, <1>21, <1>22, <1>23, <1>24, <1>25, <1>26,
     <1>27, <1>28, <1>29, <1>30, <1>31, <1>32 DEF Next, Generate, Apply, Join, UpgradeTheVM

-----------------------------------------------------------------------------
(* The inductive invariant, and what follows from it. *)

(* The inductive invariant. *)
IndInv == CmdOK /\ StateOK /\ UpgradesLocked /\ ChainKept /\ RecordedRpc /\ NodeHasVM

(* It holds initially. *)
LEMMA InitInv ==
    ASSUME UpgradeAssumption, Init
    PROVE  IndInv
<1>1. CmdOK
  BY IdleTyped DEF Init, CmdOK, Upgrading, Targets
<1>2. StateOK
  <2>1. sc \in Sidecar /\ HasBinary(sc)
    <3>1. NoEntry \in [chain : 0..MaxChains, rpc : Rpcs]
      BY DEF NoEntry, Rpcs
    <3>2. Rpc[Created] \in Rpcs /\ Created \in Versions \ {0}
      BY DEF Rpcs
    <3>3. QED
      BY <3>1, <3>2 DEF Init, Sidecar, HasBinary
  <2>2. snap \in [def : Saved, tmp : Saved] /\ net \in Networks
    BY IdleTyped DEF Init
  <2>3. QED
    BY <2>1, <2>2 DEF Init, StateOK
<1>3. UpgradesLocked /\ ChainKept /\ RecordedRpc /\ NodeHasVM
  BY DEF Init, UpgradesLocked, ChainKept, RecordedRpc, NodeHasVM, TrackedHasVM, Upgrading,
     Targets, Idle, Down, Nothing, NoEntry
<1>4. QED
  BY <1>1, <1>2, <1>3 DEF IndInv

(* It is kept by every step. *)
LEMMA StepInv ==
    ASSUME UpgradeAssumption, IndInv, [Next]_vars
    PROVE  IndInv'
BY StepCmd, StepState, StepLocked, StepChain, StepPlugin, StepNode DEF IndInv

(* So it holds throughout. *)
LEMMA Inductive == Spec => []IndInv
<1>1. Init => IndInv
  BY InitInv, UpgradeAssumption
<1>2. IndInv /\ [Next]_vars => IndInv'
  BY StepInv, UpgradeAssumption
<1>3. QED
  BY <1>1, <1>2, PTL DEF Spec

(* The files, the network and the command always have the form the code    *)
(* gives them.                                                             *)
THEOREM TypeInvariant == Spec => []TypeOK
<1>1. IndInv => TypeOK
  BY TypeParts DEF IndInv
<1>2. QED
  BY <1>1, Inductive, PTL

(* The network that an apply starts with an upgrade file has every         *)
(* upgrade that its snapshot had activated, so the chain does not refuse   *)
(* the file: the comparison with the lock file (upgradecmd/apply.go)       *)
(* sees to it, unless a failure cut the write of the lock file short.      *)
THEOREM ActivatedUpgradesStay == Spec => []ActivatedStay
<1>1. IndInv => ActivatedStay
  BY DEF IndInv, UpgradesLocked, ActivatedStay, Forgets, Active
<1>2. QED
  BY <1>1, Inductive, PTL

(* A chain that the sidecar says is deployed locally runs or is in a       *)
(* snapshot: an apply saves it before it takes the network down.           *)
THEOREM DeployedChainSurvives == Spec => []ChainSurvives
<1>1. IndInv => ChainSurvives
  BY DEF IndInv, ChainKept, ChainSurvives
<1>2. QED
  BY <1>1, Inductive, PTL

(* The RPC version that the sidecar records for the local deployment is    *)
(* the one the commands that start the network need, unless a failure      *)
(* came between the plugin and the record.                                 *)
THEOREM RpcRecorded == Spec => []RecordedRpc
<1>1. IndInv => RecordedRpc
  BY DEF IndInv
<1>2. QED
  BY <1>1, Inductive, PTL

(* A node whose configuration tracks the subnet has the VM's plugin:       *)
(* join writes the configuration last.                                     *)
THEOREM TrackingNodeHasVM == Spec => []TrackedHasVM
<1>1. IndInv => TrackedHasVM
  BY DEF IndInv, NodeHasVM
<1>2. QED
  BY <1>1, Inductive, PTL
===============================================================================
