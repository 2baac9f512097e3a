------------------------- MODULE SubnetStoreProofs --------------------------
(* Theorems about SubnetStore, for every value of its constants.        *)
EXTENDS SubnetStore, TLAPS

(* What the allow list of the wizard may be.                               *)
Admins == (SUBSET Addresses) \cup {NotAdded}

(* What runs in a terminal, as a record.                                   *)
Commands ==
    [pc : Pcs,
     what : {"none", "create", "import", "opm", "export", "subnet", "empty"} \cup Networks,
     sc : Sidecar, gen : GenesisFile, pre : [Precompiles -> Admins],
     left : SUBSET Precompiles, alloc : [Addresses -> Nat], stale : BOOLEAN]

(* A genesis with an allow list funds one of its admins.                   *)
Pays(g) == g.listed => g.funded

(* A custom VM has the version of a protocol.                              *)
Speaks(s) == s.vm = "custom" => s.rpc # 0

(* Where a command has in hand a sidecar that it will write or export.     *)
Complete(c) ==
    \/ c.pc \in {"write", "sidecar", "imported", "fields", "bundle", "deploy", "publish"}
    \/ c.what = "import" /\ c.pc \in {"build", "make", "rpc"}

(* What a command knows by itself, ...                                     *)
Knows(c) ==
    /\ Pays(c.gen)
    /\ Complete(c) => Speaks(c.sc)
    /\ c.pc = "imported" => c.what = "import"
    /\ c.pc = "choose" => c.what = "create"
    /\ c.pc \in {"deploy", "running"} => c.what \in Networks

(* ... and what it knows of the files g, s and b until another one writes. *)
Sees(g, s, b, c) ==
    ~c.stale =>
        /\ c.pc \in {"sidecar", "imported", "running"} => g.id = c.gen.id
        /\ c.pc = "empty" => s.id = c.gen.id
        /\ c.pc \in {"fields", "deploy"} => c.sc = s
        /\ c.pc \in {"write", "sidecar", "imported"} /\ c.sc.vm = "custom" => b = c.sc.rpc

(* The files are what they should be, ...                                  *)
DiskOK ==
    /\ genesis \in GenesisFile /\ Pays(genesis)
    /\ sc \in Sidecar /\ Speaks(sc)
    /\ bin \in Rpcs \cup {0}

(* ... so is the bundle that was exported, ...                          *)
BundleOK ==
    /\ bundle \in [sc : Sidecar, gen : GenesisFile]
    /\ Pays(bundle.gen) /\ Speaks(bundle.sc)

(* ... the next ID to be given out, and what was cut short; ...         *)
CountOK == nextId \in 1..(MaxIds + 1)
CutOK == cut \subseteq {"pair", "bin"}

(* ... so is what the commands hold, ...                                   *)
CmdOK == cmd \in [Terminals -> Commands]
CmdKnows == \A t \in Terminals : Knows(cmd[t])
CmdSees == \A t \in Terminals : Sees(genesis, sc, bin, cmd[t])

(* ... and the files agree with each other.                                *)
Quiet == \A t \in Terminals : cmd[t].pc \notin Writing
PairWhole == Quiet /\ "pair" \notin cut => genesis.id = sc.id
BinWhole == "bin" \notin cut /\ sc.vm = "custom" => bin = sc.rpc

IndInv ==
    /\ DiskOK /\ BundleOK /\ CountOK /\ CutOK
    /\ CmdOK /\ CmdKnows /\ CmdSees
    /\ PairWhole /\ BinWhole

(* Nobody but t goes on.                                                   *)
OthersStay(t) == \A u \in Terminals \ {t} : cmd'[u].pc = cmd[u].pc

-----------------------------------------------------------------------------
(* What the empty files are.                                            *)
LEMMA ConstFacts ==
    /\ NoSidecar \in Sidecar /\ Torn \in Sidecar
    /\ Speaks(NoSidecar) /\ Speaks(Torn)
    /\ NoGenesis \in GenesisFile /\ Pays(NoGenesis)
    /\ NoPrecompile \in [Precompiles -> Admins]
    /\ Nobody \in [Addresses -> Nat]
<1>1. 0 \in 0..MaxIds
    BY StoreAssumption
<1>2. NoSidecar \in Sidecar /\ Torn \in Sidecar
    BY <1>1 DEF NoSidecar, Torn, Sidecar
<1>3. Speaks(NoSidecar) /\ Speaks(Torn)
    BY DEF NoSidecar, Torn, Speaks
<1>4. NoGenesis \in GenesisFile /\ Pays(NoGenesis)
    BY <1>1 DEF NoGenesis, Genesis, GenesisFile, Pays
<1>5. NoPrecompile \in [Precompiles -> Admins]
  <2>1. NotAdded \in Admins
      BY DEF Admins
  <2> QED
      BY <2>1 DEF NoPrecompile
<1>6. Nobody \in [Addresses -> Nat]
    BY DEF Nobody
<1> QED
    BY <1>2, <1>3, <1>4, <1>5, <1>6

(* The genesis of a new subnet.                                         *)
LEMMA NewGenesis ==
    ASSUME CountOK, nextId <= MaxIds
    PROVE  Genesis(nextId) \in GenesisFile /\ Pays(Genesis(nextId))
           /\ Genesis(nextId).id = nextId
<1>1. nextId \in 0..MaxIds
    BY StoreAssumption DEF CountOK
<1> QED
    BY <1>1 DEF Genesis, GenesisFile, Pays

(* The command line before a command is typed.                          *)
LEMMA IdleOK ==
    ASSUME NEW g, NEW s, NEW b
    PROVE  /\ Idle \in Commands /\ Knows(Idle) /\ Sees(g, s, b, Idle)
           /\ Idle.pc = "idle"
<1>1. Idle \in Commands
    BY ConstFacts DEF Idle, Commands, Pcs
<1>2. Knows(Idle)
    BY ConstFacts DEF Idle, Knows, Complete
<1>3. Sees(g, s, b, Idle)
    BY DEF Idle, Sees
<1> QED
    BY <1>1, <1>2, <1>3 DEF Idle

(* A command that another one has overtaken knows what it knew, and     *)
(* sees nothing.                                                        *)
LEMMA StaleOK ==
    ASSUME NEW c \in Commands, Knows(c), NEW g, NEW s, NEW b
    PROVE  /\ [c EXCEPT !.stale = TRUE] \in Commands
           /\ Knows([c EXCEPT !.stale = TRUE])
           /\ Sees(g, s, b, [c EXCEPT !.stale = TRUE])
           /\ [c EXCEPT !.stale = TRUE].pc = c.pc
<1> DEFINE d == [c EXCEPT !.stale = TRUE]
<1>1. d \in Commands /\ d.stale = TRUE
    BY DEF Commands
<1>2. d.pc = c.pc /\ d.what = c.what /\ d.gen = c.gen /\ d.sc = c.sc
    BY DEF Commands
<1> HIDE DEF d
<1>3. Knows(d)
    BY <1>2 DEF Knows, Complete
<1>4. Sees(g, s, b, d)
    BY <1>1 DEF Sees
<1> QED
    BY <1>1, <1>2, <1>3, <1>4 DEF d

(* What the commands know and see after t has written, ...              *)
LEMMA OthersFrame ==
    ASSUME CmdOK, CmdKnows, NEW t \in Terminals, NEW c \in Commands, Knows(c),
           Sees(genesis', sc', bin', c), cmd' = Others(t, c)
    PROVE  /\ CmdOK' /\ CmdKnows' /\ CmdSees'
           /\ OthersStay(t) /\ cmd'[t] = c
<1>1. ASSUME NEW u \in Terminals
      PROVE  /\ cmd'[u] \in Commands /\ Knows(cmd'[u])
             /\ Sees(genesis', sc', bin', cmd'[u])
             /\ u # t => cmd'[u].pc = cmd[u].pc
  <2>1. cmd[u] \in Commands /\ Knows(cmd[u])
      BY DEF CmdOK, CmdKnows
  <2>2. CASE u = t
      BY <2>2 DEF Others
  <2>3. CASE u # t /\ cmd[u].pc = "idle"
    <3>1. cmd'[u] = Idle
        BY <2>3 DEF Others
    <3> QED
        BY <2>3, <3>1, IdleOK
  <2>4. CASE u # t /\ cmd[u].pc # "idle"
    <3>1. cmd'[u] = [cmd[u] EXCEPT !.stale = TRUE]
        BY <2>4 DEF Others
    <3> QED
        BY <2>1, <3>1, StaleOK
  <2> QED
      BY <2>2, <2>3, <2>4
<1>2. cmd' \in [Terminals -> Commands]
  <2>1. DOMAIN cmd' = Terminals /\ cmd' = [u \in Terminals |-> cmd'[u]]
      BY DEF Others
  <2> QED
      BY <1>1, <2>1
<1>3. cmd'[t] = c
    BY DEF Others
<1> QED
    BY <1>1, <1>2, <1>3 DEF CmdOK, CmdKnows, CmdSees, OthersStay

(* ... which does not move the others, ...                              *)
LEMMA OthersPc ==
    ASSUME NEW t \in Terminals, NEW u \in Terminals, u # t, NEW c, cmd' = Others(u, c),
           cmd[t].pc # "idle", IndInv
    PROVE  cmd'[t].pc = cmd[t].pc
<1>1. cmd[t] \in Commands
    BY DEF IndInv, CmdOK
<1>2. cmd'[t] = [cmd[t] EXCEPT !.stale = TRUE]
    BY DEF Others
<1> QED
    BY <1>1, <1>2 DEF Commands

(* ... and after t has gone on without writing.                         *)
LEMMA OneFrame ==
    ASSUME CmdOK, CmdKnows, CmdSees, NEW t \in Terminals, NEW c \in Commands, Knows(c),
           Sees(genesis, sc, bin, c), cmd' = [cmd EXCEPT ![t] = c], UNCHANGED disk
    PROVE  /\ CmdOK' /\ CmdKnows' /\ CmdSees'
           /\ OthersStay(t) /\ cmd'[t] = c
<1>1. genesis' = genesis /\ sc' = sc /\ bin' = bin
    BY DEF disk
<1>2. CmdOK'
    BY DEF CmdOK
<1>3. cmd'[t] = c /\ \A u \in Terminals : u # t => cmd'[u] = cmd[u]
    BY DEF CmdOK
<1>4. CmdKnows'
    BY <1>3 DEF CmdKnows
<1>5. CmdSees'
    BY <1>1, <1>3 DEF CmdSees
<1> QED
    BY <1>2, <1>3, <1>4, <1>5 DEF OthersStay

(* The genesis and the sidecar stay of one subnet, ...                  *)
LEMMA PairKept ==
    ASSUME PairWhole, NEW t \in Terminals, OthersStay(t),
           cmd[t].pc \notin Writing, genesis'.id = genesis.id, sc'.id = sc.id,
           cut \subseteq cut'
    PROVE  PairWhole'
<1> SUFFICES ASSUME Quiet', "pair" \notin cut'
             PROVE  genesis'.id = sc'.id
    BY DEF PairWhole
<1>1. Quiet
    BY DEF Quiet, OthersStay
<1> QED
    BY <1>1 DEF PairWhole

(* ... or a command is still writing them.                              *)
LEMMA PairWritten ==
    ASSUME NEW t \in Terminals, cmd'[t].pc \in Writing
    PROVE  PairWhole'
BY DEF PairWhole, Quiet

(* A command that does not write to the files of the subnet.               *)
LEMMA QuietStep ==
    ASSUME IndInv, NEW t \in Terminals, NEW c \in Commands, Knows(c),
           Sees(genesis, sc, bin, c), cmd' = [cmd EXCEPT ![t] = c], UNCHANGED disk,
           BundleOK', CountOK', CutOK', cut \subseteq cut',
           cmd[t].pc \in Writing => "pair" \in cut'
    PROVE  IndInv'
<1>1. genesis' = genesis /\ sc' = sc /\ bin' = bin
    BY DEF disk
<1>2. CmdOK' /\ CmdKnows' /\ CmdSees' /\ OthersStay(t)
    BY OneFrame DEF IndInv
<1>3. DiskOK'
    BY <1>1 DEF IndInv, DiskOK
<1>4. PairWhole'
  <2>1. CASE "pair" \in cut'
      BY <2>1 DEF PairWhole
  <2>2. CASE "pair" \notin cut'
      BY <1>1, <1>2, <2>2, PairKept DEF IndInv
  <2> QED
      BY <2>1, <2>2
<1>5. BinWhole'
    BY <1>1 DEF IndInv, BinWhole
<1> QED
    BY <1>2, <1>3, <1>4, <1>5 DEF IndInv

(* A command that ends without writing.                                 *)
LEMMA EndStep ==
    ASSUME IndInv, NEW t \in Terminals, Finish(t), UNCHANGED disk,
           BundleOK', CountOK', CutOK', cut \subseteq cut',
           cmd[t].pc \in Writing => "pair" \in cut'
    PROVE  IndInv'
BY IdleOK, QuietStep DEF Finish

(* What Keep leaves alone.                                              *)
LEMMA KeepFacts ==
    ASSUME IndInv, Keep
    PROVE  UNCHANGED disk /\ BundleOK' /\ CountOK' /\ CutOK' /\ cut' = cut
BY DEF IndInv, Keep, outside, BundleOK, CountOK, CutOK

(* A command that goes on without writing or loading anything.             *)
LEMMA KeepStep ==
    ASSUME IndInv, NEW t \in Terminals, NEW c \in Commands, Knows(c),
           Sees(genesis, sc, bin, c), cmd' = [cmd EXCEPT ![t] = c], Keep,
           cmd[t].pc \notin Writing
    PROVE  IndInv'
BY KeepFacts, QuietStep

(* A command that writes to them.                                          *)
LEMMA WriteStep ==
    ASSUME IndInv, NEW t \in Terminals, NEW c \in Commands, Knows(c),
           Sees(genesis', sc', bin', c), cmd' = Others(t, c),
           DiskOK', BundleOK', CountOK', CutOK', PairWhole', BinWhole'
    PROVE  IndInv'
BY OthersFrame DEF IndInv

(* One that replaces or removes the binary.                                *)
LEMMA BinaryWritten ==
    ASSUME IndInv, NEW t \in Terminals, NEW c \in Commands, Knows(c),
           Sees(genesis', sc', bin', c), cmd' = Others(t, c), bin' \in Rpcs \cup {0},
           cut' = cut \cup {"bin"}, UNCHANGED <<genesis, sc, outside>>,
           cmd[t].pc \notin Writing
    PROVE  IndInv'
<1>1. DiskOK' /\ BundleOK' /\ CountOK'
    BY DEF IndInv, DiskOK, BundleOK, CountOK, outside
<1>2. CutOK'
    BY DEF IndInv, CutOK
<1>3. BinWhole'
    BY DEF BinWhole
<1>4. OthersStay(t)
    BY OthersFrame DEF IndInv
<1>5. PairWhole'
    BY <1>4, PairKept DEF IndInv
<1> QED
    BY <1>1, <1>2, <1>3, <1>5, WriteStep

(* What the invariant says of one command.                              *)
LEMMA CmdFacts ==
    ASSUME IndInv, NEW t \in Terminals
    PROVE  /\ cmd[t] \in Commands /\ Knows(cmd[t]) /\ Sees(genesis, sc, bin, cmd[t])
           /\ cmd \in [Terminals -> Commands]
BY DEF IndInv, CmdOK, CmdKnows, CmdSees

-----------------------------------------------------------------------------
(* The steps of subnet create.                                             *)
Asking == {"descriptors", "fee", "airdrop", "precompiles", "verify"}

(* The wizard moves on to another page.                                 *)
LEMMA MoveStep ==
    ASSUME IndInv, NEW t \in Terminals, NEW p \in Asking, Goto(t, p), Keep,
           cmd[t].pc \in Asking \cup {"choose"}
    PROVE  IndInv'
<1> DEFINE c == [cmd[t] EXCEPT !.pc = p]
<1>1. cmd[t] \in Commands /\ Knows(cmd[t]) /\ cmd \in [Terminals -> Commands]
    BY CmdFacts
<1>2. c \in Commands
    BY <1>1 DEF Commands, Pcs, Working, Asking
<1>3. c.pc = p /\ c.gen = cmd[t].gen
    BY <1>1 DEF Commands
<1>4. cmd' = [cmd EXCEPT ![t] = c]
    BY DEF Goto
<1> HIDE DEF c
<1>5. Knows(c)
    BY <1>1, <1>3 DEF Knows, Complete, Asking
<1>6. Sees(genesis, sc, bin, c)
    BY <1>3 DEF Sees, Asking
<1>7. cmd[t].pc \notin Writing
    BY DEF Writing, Asking
<1> QED
    BY <1>2, <1>4, <1>5, <1>6, <1>7, KeepStep

LEMMA BeginCreateStep ==
    ASSUME IndInv, NEW t \in Terminals, NEW force \in BOOLEAN, BeginCreate(t, force)
    PROVE  IndInv'
<1> DEFINE c == [Idle EXCEPT !.pc = "choose", !.what = "create", !.gen = Genesis(nextId)]
<1>1. Genesis(nextId) \in GenesisFile /\ Pays(Genesis(nextId))
    BY NewGenesis DEF BeginCreate, IndInv
<1>2. Idle \in Commands
    BY IdleOK
<1>3. c \in Commands
    BY <1>1, <1>2 DEF Commands, Pcs, Working
<1>4. c.pc = "choose" /\ c.what = "create" /\ c.gen = Genesis(nextId)
    BY DEF Idle
<1>5. cmd' = [cmd EXCEPT ![t] = c] /\ cmd[t].pc = "idle"
    BY DEF BeginCreate, Start, At
<1> HIDE DEF c
<1>6. Knows(c) /\ Sees(genesis, sc, bin, c)
    BY <1>1, <1>4 DEF Knows, Complete, Sees
<1>7. UNCHANGED disk /\ BundleOK' /\ CutOK' /\ cut' = cut
    BY DEF BeginCreate, IndInv, BundleOK, CutOK
<1>8. CountOK'
    BY StoreAssumption DEF BeginCreate, IndInv, CountOK
<1> QED
    BY <1>3, <1>5, <1>6, <1>7, <1>8, QuietStep DEF Writing

LEMMA GivenGenesisStep ==
    ASSUME IndInv, NEW t \in Terminals, GivenGenesis(t)
    PROVE  IndInv'
<1> DEFINE s == [NoSidecar EXCEPT !.vm = "evm"]
           c == [cmd[t] EXCEPT !.pc = "write", !.sc = s]
<1>1. cmd[t] \in Commands /\ Knows(cmd[t]) /\ cmd \in [Terminals -> Commands]
    BY CmdFacts
<1>2. s \in Sidecar /\ s.vm = "evm"
    BY ConstFacts DEF NoSidecar, Sidecar
<1> HIDE DEF s
<1>3. c \in Commands
    BY <1>1, <1>2 DEF Commands, Pcs
<1>4. c.pc = "write" /\ c.sc = s /\ c.gen = cmd[t].gen
    BY <1>1 DEF Commands
<1>5. cmd' = [cmd EXCEPT ![t] = c] /\ cmd[t].pc = "choose" /\ Keep
    BY <1>1 DEF GivenGenesis, At, s
<1> HIDE DEF c
<1>6. Knows(c) /\ Sees(genesis, sc, bin, c)
    BY <1>1, <1>2, <1>4 DEF Knows, Complete, Speaks, Sees
<1> QED
    BY <1>3, <1>5, <1>6, KeepStep DEF Writing

LEMMA AirdropStep ==
    ASSUME IndInv, NEW t \in Terminals, NEW alloc \in Airdrops, Airdrop(t, alloc)
    PROVE  IndInv'
<1> DEFINE c == [cmd[t] EXCEPT !.pc = "precompiles", !.alloc = alloc, !.left = Precompiles]
<1>1. cmd[t] \in Commands /\ Knows(cmd[t]) /\ cmd \in [Terminals -> Commands]
    BY CmdFacts
<1>2. alloc \in [Addresses -> Nat]
    BY StoreAssumption
<1>3. c \in Commands
    BY <1>1, <1>2 DEF Commands, Pcs, Working
<1>4. c.pc = "precompiles" /\ c.gen = cmd[t].gen
    BY <1>1 DEF Commands
<1>5. cmd' = [cmd EXCEPT ![t] = c] /\ cmd[t].pc = "airdrop" /\ Keep
    BY <1>1 DEF Airdrop, At
<1> HIDE DEF c
<1>6. Knows(c) /\ Sees(genesis, sc, bin, c)
    BY <1>1, <1>4 DEF Knows, Complete, Sees
<1> QED
    BY <1>3, <1>5, <1>6, KeepStep DEF Writing

LEMMA AddPrecompileStep ==
    ASSUME IndInv, NEW t \in Terminals, NEW p \in Precompiles, NEW admins \in Lists(p),
           AddPrecompile(t, p, admins)
    PROVE  IndInv'
<1> DEFINE q == IF cmd[t].left = {p} THEN "verify" ELSE "precompiles"
           pre == [cmd[t].pre EXCEPT ![p] = admins]
           left == cmd[t].left \ {p}
           c == [cmd[t] EXCEPT !.pre = pre, !.left = left, !.pc = q]
<1>1. cmd[t] \in Commands /\ Knows(cmd[t]) /\ cmd \in [Terminals -> Commands]
    BY CmdFacts
<1>2. pre \in [Precompiles -> Admins]
  <2>1. cmd[t].pre \in [Precompiles -> Admins]
      BY <1>1 DEF Commands
  <2>2. admins \in Admins
      BY DEF Lists, Admins
  <2> QED
      BY <2>1, <2>2
<1>3. left \in SUBSET Precompiles /\ q \in {"verify", "precompiles"}
    BY <1>1 DEF Commands
<1>4. cmd' = [cmd EXCEPT ![t] = c] /\ cmd[t].pc = "precompiles" /\ Keep
    BY <1>1 DEF AddPrecompile, At
<1> HIDE DEF pre, left, q
<1>5. c \in Commands
    BY <1>1, <1>2, <1>3 DEF Commands, Pcs, Working
<1>6. c.pc = q /\ c.gen = cmd[t].gen
    BY <1>1 DEF Commands
<1> HIDE DEF c
<1>7. Knows(c) /\ Sees(genesis, sc, bin, c)
    BY <1>1, <1>3, <1>6 DEF Knows, Complete, Sees
<1> QED
    BY <1>4, <1>5, <1>7, KeepStep DEF Writing

(* What the wizard accepts pays: the low word of zero is zero.             *)
LEMMA AcceptedPays ==
    ASSUME NEW pre \in [Precompiles -> Admins], NEW alloc \in [Addresses -> Nat],
           AdminsOK(pre, alloc), Listed(pre)
    PROVE  HasTokens(pre["txAllowList"], alloc)
<1>1. pre["txAllowList"] \subseteq Addresses
  <2>1. pre["txAllowList"] \in Admins
      BY StoreAssumption
  <2> QED
      BY <2>1 DEF Listed, Admins
<1>2. PICK a \in pre["txAllowList"] : alloc[a] % Word > 0
    BY DEF AdminsOK, Funded
<1>3. alloc[a] \in Nat
    BY <1>1
<1>4. alloc[a] # 0
  <2>1. Word \in Nat /\ Word > 0
      BY StoreAssumption
  <2>2. 0 % Word = 0
      BY <2>1
  <2> QED
      BY <1>2, <2>2
<1>5. alloc[a] > 0
    BY <1>3, <1>4
<1> QED
    BY <1>1, <1>5 DEF HasTokens

LEMMA VerifiedStep ==
    ASSUME IndInv, NEW t \in Terminals, Verified(t)
    PROVE  IndInv'
<1> DEFINE s == [NoSidecar EXCEPT !.vm = "evm"]
           listed == Listed(cmd[t].pre)
           funded == HasTokens(cmd[t].pre["txAllowList"], cmd[t].alloc)
           g == [cmd[t].gen EXCEPT !.listed = listed, !.funded = funded]
           c == [cmd[t] EXCEPT !.pc = "write", !.sc = s, !.gen = g,
                               !.pre = NoPrecompile, !.left = {}, !.alloc = Nobody]
<1>1. cmd[t] \in Commands /\ Knows(cmd[t]) /\ cmd \in [Terminals -> Commands]
    BY CmdFacts
<1>2. s \in Sidecar /\ s.vm = "evm"
    BY ConstFacts DEF NoSidecar, Sidecar
<1>3. cmd[t].gen \in GenesisFile /\ cmd[t].pre \in [Precompiles -> Admins]
      /\ cmd[t].alloc \in [Addresses -> Nat]
    BY <1>1 DEF Commands
<1>4. listed \in BOOLEAN /\ funded \in BOOLEAN
    BY DEF Listed, HasTokens
<1>5. listed => funded
    BY <1>3, AcceptedPays DEF Verified
<1>6. cmd[t].pc = "verify" /\ Keep
    BY DEF Verified, At
<1>11. cmd' = [cmd EXCEPT ![t].pc = "write", ![t].sc = s, ![t].gen.listed = listed,
                          ![t].gen.funded = funded, ![t].pre = NoPrecompile,
                          ![t].left = {}, ![t].alloc = Nobody]
    BY DEF Verified
<1> HIDE DEF s, listed, funded
<1>12. cmd' = [cmd EXCEPT ![t] = c]
  <2>1. cmd'[t] = c
      BY <1>1, <1>11
  <2>2. \A u \in Terminals : u # t => cmd'[u] = cmd[u]
      BY <1>1, <1>11
  <2>3. DOMAIN cmd' = Terminals /\ cmd' = [u \in Terminals |-> cmd'[u]]
      BY <1>1, <1>11, ZenonT(60)
  <2> QED
      BY <1>1, <2>1, <2>2, <2>3
<1>7. g \in GenesisFile /\ Pays(g)
    BY <1>3, <1>4, <1>5 DEF GenesisFile, Pays
<1> HIDE DEF g
<1>8. c \in Commands
    BY <1>1, <1>2, <1>7, ConstFacts DEF Commands, Pcs
<1>9. c.pc = "write" /\ c.sc = s /\ c.gen = g
    BY <1>1 DEF Commands
<1> HIDE DEF c
<1>10. Knows(c) /\ Sees(genesis, sc, bin, c)
    BY <1>2, <1>7, <1>9 DEF Knows, Complete, Speaks, Sees
<1> QED
    BY <1>6, <1>8, <1>10, <1>12, KeepStep DEF Writing

LEMMA ChooseRepoStep ==
    ASSUME IndInv, NEW t \in Terminals, ChooseRepo(t)
    PROVE  IndInv'
<1> DEFINE s == [NoSidecar EXCEPT !.vm = "custom", !.repo = TRUE]
           c == [cmd[t] EXCEPT !.pc = "build", !.sc = s]
<1>1. cmd[t] \in Commands /\ Knows(cmd[t]) /\ cmd \in [Terminals -> Commands]
    BY CmdFacts
<1>2. s \in Sidecar
    BY ConstFacts DEF NoSidecar, Sidecar
<1>3. cmd' = [cmd EXCEPT ![t] = c] /\ cmd[t].pc = "choose" /\ Keep
    BY <1>1 DEF ChooseRepo, At
<1> HIDE DEF s
<1>4. c \in Commands
    BY <1>1, <1>2 DEF Commands, Pcs, Working
<1>5. c.pc = "build" /\ c.what = cmd[t].what /\ c.gen = cmd[t].gen
    BY <1>1 DEF Commands
<1> HIDE DEF c
<1>6. Knows(c) /\ Sees(genesis, sc, bin, c)
    BY <1>1, <1>3, <1>5 DEF Knows, Complete, Sees
<1> QED
    BY <1>3, <1>4, <1>6, KeepStep DEF Writing

LEMMA CopyVMBinaryStep ==
    ASSUME IndInv, NEW t \in Terminals, NEW v \in Rpcs, CopyVMBinary(t, v)
    PROVE  IndInv'
<1> DEFINE s == [NoSidecar EXCEPT !.vm = "custom"]
           c == [cmd[t] EXCEPT !.pc = "rpc", !.sc = s]
<1>1. cmd[t] \in Commands /\ Knows(cmd[t]) /\ cmd[t].pc = "choose"
    BY CmdFacts DEF CopyVMBinary, At
<1>2. s \in Sidecar
    BY ConstFacts DEF NoSidecar, Sidecar
<1>3. cmd' = Others(t, c) /\ bin' = v /\ cut' = cut \cup {"bin"}
      /\ UNCHANGED <<genesis, sc, outside>>
    BY DEF CopyVMBinary
<1> HIDE DEF s
<1>4. c \in Commands
    BY <1>1, <1>2 DEF Commands, Pcs, Working
<1>5. c.pc = "rpc" /\ c.what = cmd[t].what /\ c.gen = cmd[t].gen
    BY <1>1 DEF Commands
<1> HIDE DEF c
<1>6. Knows(c) /\ Sees(genesis', sc', bin', c)
    BY <1>1, <1>5 DEF Knows, Complete, Sees
<1> QED
    BY <1>1, <1>3, <1>4, <1>6, BinaryWritten DEF Writing

LEMMA RemoveOldBinaryStep ==
    ASSUME IndInv, NEW t \in Terminals, RemoveOldBinary(t)
    PROVE  IndInv'
<1> DEFINE c == [cmd[t] EXCEPT !.pc = "make"]
<1>1. cmd[t] \in Commands /\ Knows(cmd[t]) /\ cmd[t].pc = "build"
    BY CmdFacts DEF RemoveOldBinary, At
<1>2. cmd' = Others(t, c) /\ bin' = 0 /\ cut' = cut \cup {"bin"}
      /\ UNCHANGED <<genesis, sc, outside>>
    BY DEF RemoveOldBinary
<1>3. c \in Commands
    BY <1>1 DEF Commands, Pcs, Working
<1>4. c.pc = "make" /\ c.what = cmd[t].what /\ c.gen = cmd[t].gen /\ c.sc = cmd[t].sc
    BY <1>1 DEF Commands
<1> HIDE DEF c
<1>5. Knows(c) /\ Sees(genesis', sc', bin', c)
    BY <1>1, <1>4 DEF Knows, Complete, Sees
<1> QED
    BY <1>1, <1>2, <1>3, <1>5, BinaryWritten DEF Writing

LEMMA BuildCustomVMStep ==
    ASSUME IndInv, NEW t \in Terminals, NEW v \in Rpcs, BuildCustomVM(t, v)
    PROVE  IndInv'
<1> DEFINE c == [cmd[t] EXCEPT !.pc = "rpc"]
<1>1. cmd[t] \in Commands /\ Knows(cmd[t]) /\ cmd[t].pc = "make"
    BY CmdFacts DEF BuildCustomVM, At
<1>2. cmd' = Others(t, c) /\ bin' = v /\ cut' = cut \cup {"bin"}
      /\ UNCHANGED <<genesis, sc, outside>>
    BY DEF BuildCustomVM
<1>3. c \in Commands
    BY <1>1 DEF Commands, Pcs, Working
<1>4. c.pc = "rpc" /\ c.what = cmd[t].what /\ c.gen = cmd[t].gen /\ c.sc = cmd[t].sc
    BY <1>1 DEF Commands
<1> HIDE DEF c
<1>5. Knows(c) /\ Sees(genesis', sc', bin', c)
    BY <1>1, <1>4 DEF Knows, Complete, Sees
<1> QED
    BY <1>1, <1>2, <1>3, <1>5, BinaryWritten DEF Writing

(* The binary now speaks what the sidecar of the command says.             *)
LEMMA AskRpcStep ==
    ASSUME IndInv, NEW t \in Terminals, AskRpc(t)
    PROVE  IndInv'
<1> DEFINE s == [cmd[t].sc EXCEPT !.rpc = bin]
           c == [cmd[t] EXCEPT !.pc = "write", !.sc = s]
<1>1. cmd[t] \in Commands /\ Knows(cmd[t]) /\ cmd \in [Terminals -> Commands]
    BY CmdFacts
<1>2. cmd[t].sc \in Sidecar /\ bin \in Rpcs \cup {0} /\ bin # 0
    BY <1>1 DEF Commands, IndInv, DiskOK, AskRpc
<1>3. s \in Sidecar /\ s.rpc = bin
    BY <1>2 DEF Sidecar
<1>4. cmd' = [cmd EXCEPT ![t] = c] /\ cmd[t].pc = "rpc" /\ Keep
    BY <1>1, <1>2 DEF AskRpc, At
<1> HIDE DEF s
<1>5. c \in Commands
    BY <1>1, <1>3 DEF Commands, Pcs
<1>6. c.pc = "write" /\ c.sc = s /\ c.gen = cmd[t].gen
    BY <1>1 DEF Commands
<1> HIDE DEF c
<1>7. Knows(c) /\ Sees(genesis, sc, bin, c)
    BY <1>1, <1>2, <1>3, <1>6 DEF Knows, Complete, Speaks, Sees
<1> QED
    BY <1>4, <1>5, <1>7, KeepStep DEF Writing

LEMMA WriteGenesisStep ==
    ASSUME IndInv, NEW t \in Terminals, NEW next \in {"sidecar", "imported"},
           cmd[t].pc = "write", next = "imported" => cmd[t].what = "import",
           WriteGenesis(t, cmd[t].gen, next), UNCHANGED <<sc, bin, outside>>
    PROVE  IndInv'
<1> DEFINE c == [cmd[t] EXCEPT !.pc = next]
<1>1. cmd[t] \in Commands /\ Knows(cmd[t]) /\ Sees(genesis, sc, bin, cmd[t])
    BY CmdFacts
<1>2. cmd' = Others(t, c) /\ genesis' = cmd[t].gen /\ cut' = cut \cup NoteStale(t)
      /\ UNCHANGED <<sc, bin, outside>>
    BY DEF WriteGenesis
<1>3. c \in Commands
    BY <1>1 DEF Commands, Pcs, Writing
<1>4. /\ c.pc = next /\ c.what = cmd[t].what /\ c.gen = cmd[t].gen /\ c.sc = cmd[t].sc
      /\ c.stale = cmd[t].stale
    BY <1>1 DEF Commands
<1> HIDE DEF c
<1>5. Knows(c)
    BY <1>1, <1>4 DEF Knows, Complete
<1>6. Sees(genesis', sc', bin', c)
    BY <1>1, <1>2, <1>4 DEF Sees
<1>7. DiskOK' /\ BundleOK' /\ CountOK'
  <2>1. cmd[t].gen \in GenesisFile /\ Pays(cmd[t].gen)
      BY <1>1 DEF Commands, Knows
  <2> QED
      BY <1>2, <2>1 DEF IndInv, DiskOK, BundleOK, CountOK, outside
<1>8. CutOK'
    BY <1>2 DEF IndInv, CutOK, NoteStale
<1>9. BinWhole'
    BY <1>2 DEF IndInv, BinWhole
<1>10. PairWhole'
    BY <1>2, <1>4, PairWritten DEF Others, Writing
<1> QED
    BY <1>2, <1>3, <1>5, <1>6, <1>7, <1>8, <1>9, <1>10, WriteStep

(* The sidecar is written last: of the creation of the genesis, and of the *)
(* binary, unless somebody has written to the files in between.            *)
LEMMA SidecarStep ==
    ASSUME IndInv, NEW t \in Terminals, NEW s \in Sidecar, Speaks(s),
           cmd[t].pc \in {"sidecar", "imported", "running"},
           cmd[t].pc = "imported" \/ s.id = cmd[t].gen.id,
           s.vm = "custom" => cmd[t].pc # "running" /\ cmd[t].sc.vm = "custom"
                              /\ s.rpc = cmd[t].sc.rpc,
           CreateSidecar(t, s, {"pair", "bin"}), cmd' = Others(t, Idle),
           UNCHANGED <<genesis, bin, outside>>
    PROVE  IndInv'
<1>1. cmd[t] \in Commands /\ Knows(cmd[t]) /\ Sees(genesis, sc, bin, cmd[t])
    BY CmdFacts
<1>2. sc' = s /\ cut' = (cut \ {"pair", "bin"}) \cup NoteStale(t) \cup NoteMixed(t, s)
      /\ UNCHANGED <<genesis, bin, outside>>
    BY DEF CreateSidecar
<1>3. DiskOK' /\ BundleOK' /\ CountOK'
    BY <1>2 DEF IndInv, DiskOK, BundleOK, CountOK, outside
<1>4. CutOK'
    BY <1>2 DEF IndInv, CutOK, NoteStale, NoteMixed
<1>5. BinWhole'
    BY <1>1, <1>2 DEF BinWhole, NoteStale, Sees
<1>6. PairWhole'
  <2>1. SUFFICES ASSUME "pair" \notin cut'
                 PROVE  genesis'.id = sc'.id
      BY DEF PairWhole
  <2>2. ~cmd[t].stale /\ ~(cmd[t].what = "import" /\ s.id # cmd[t].gen.id)
      BY <1>2, <2>1 DEF NoteStale, NoteMixed
  <2>3. genesis.id = cmd[t].gen.id
      BY <1>1, <2>2 DEF Sees
  <2>4. s.id = cmd[t].gen.id
      BY <1>1, <2>2 DEF Knows
  <2> QED
      BY <1>2, <2>3, <2>4
<1>7. Idle \in Commands /\ Knows(Idle) /\ Sees(genesis', sc', bin', Idle)
    BY IdleOK
<1> QED
    BY <1>3, <1>4, <1>5, <1>6, <1>7, WriteStep

LEMMA WriteNewSidecarStep ==
    ASSUME IndInv, NEW t \in Terminals, WriteNewSidecar(t)
    PROVE  IndInv'
<1> DEFINE s == Made(t)
<1>1. cmd[t] \in Commands /\ Knows(cmd[t]) /\ cmd[t].pc = "sidecar"
    BY CmdFacts DEF WriteNewSidecar, At
<1>2. cmd[t].sc \in Sidecar /\ cmd[t].gen.id \in 0..MaxIds /\ Speaks(cmd[t].sc)
    BY <1>1 DEF Commands, GenesisFile, Knows, Complete
<1>3. /\ s \in Sidecar /\ s.id = cmd[t].gen.id /\ s.vm = cmd[t].sc.vm
      /\ s.rpc = cmd[t].sc.rpc
    BY <1>2 DEF Made, Sidecar
<1>4. CreateSidecar(t, s, {"pair", "bin"}) /\ cmd' = Others(t, Idle)
      /\ UNCHANGED <<genesis, bin, outside>>
    BY DEF WriteNewSidecar
<1> HIDE DEF s
<1>5. Speaks(s)
    BY <1>2, <1>3 DEF Speaks
<1> QED
    BY <1>1, <1>3, <1>4, <1>5, SidecarStep

-----------------------------------------------------------------------------
(* subnet delete.                                                          *)
LEMMA DeleteStep ==
    ASSUME IndInv, NEW t \in Terminals, Delete(t)
    PROVE  IndInv'
<1> DEFINE c == [Idle EXCEPT !.pc = "rmdir"]
<1>1. c \in Commands
    BY IdleOK DEF Commands, Pcs
<1>2. c.pc = "rmdir" /\ c.gen = NoGenesis
    BY DEF Idle
<1>3. cmd' = Others(t, c) /\ cmd[t].pc = "idle" /\ UNCHANGED <<genesis, sc, outside>>
    BY DEF Delete, At
<1> HIDE DEF c
<1>4. Knows(c) /\ Sees(genesis', sc', bin', c)
    BY <1>2, ConstFacts DEF Knows, Complete, Sees
<1>5. (bin' = bin /\ cut' = cut) \/ (bin' = 0 /\ cut' = cut \cup {"bin"})
    BY DEF Delete
<1>6. DiskOK' /\ BundleOK' /\ CountOK'
    BY <1>3, <1>5 DEF IndInv, DiskOK, BundleOK, CountOK, outside
<1>7. CutOK' /\ cut \subseteq cut'
    BY <1>5 DEF IndInv, CutOK
<1>8. BinWhole'
    BY <1>3, <1>5 DEF IndInv, BinWhole
<1>9. PairWhole'
  <2>1. OthersStay(t)
      BY <1>1, <1>3, <1>4, OthersFrame DEF IndInv
  <2> QED
      BY <1>3, <1>7, <2>1, PairKept DEF IndInv, Writing
<1> QED
    BY <1>1, <1>3, <1>4, <1>6, <1>7, <1>8, <1>9, WriteStep

LEMMA RemoveDirStep ==
    ASSUME IndInv, NEW t \in Terminals, RemoveDir(t)
    PROVE  IndInv'
<1>1. /\ genesis' = NoGenesis /\ sc' = NoSidecar /\ bin' = bin
      /\ cut' = (cut \ {"pair"}) \cup NoteStale(t) \cup NoteMixed(t, NoSidecar)
      /\ cmd' = Others(t, Idle) /\ UNCHANGED outside
    BY DEF RemoveDir, CreateSidecar
<1>2. DiskOK' /\ BundleOK' /\ CountOK'
    BY <1>1, ConstFacts DEF IndInv, DiskOK, BundleOK, CountOK, outside
<1>3. CutOK'
    BY <1>1 DEF IndInv, CutOK, NoteStale, NoteMixed
<1>4. BinWhole'
    BY <1>1 DEF BinWhole, NoSidecar
<1>5. PairWhole'
    BY <1>1 DEF PairWhole, NoGenesis, Genesis, NoSidecar
<1>6. Idle \in Commands /\ Knows(Idle) /\ Sees(genesis', sc', bin', Idle)
    BY IdleOK
<1> QED
    BY <1>1, <1>2, <1>3, <1>4, <1>5, <1>6, WriteStep

-----------------------------------------------------------------------------
(* subnet export and deploy, which load a sidecar and may write it again.  *)
LEMMA LoadStep ==
    ASSUME IndInv, NEW t \in Terminals, NEW p \in {"fields", "bundle", "deploy", "publish"},
           NEW w \in {"none", "export", "subnet", "empty"} \cup Networks,
           Start(t, [Idle EXCEPT !.pc = p, !.what = w, !.sc = sc]), Keep,
           p = "deploy" => w \in Networks
    PROVE  IndInv'
<1> DEFINE c == [Idle EXCEPT !.pc = p, !.what = w, !.sc = sc]
<1>1. sc \in Sidecar /\ Speaks(sc)
    BY DEF IndInv, DiskOK
<1>2. p \in Pcs
    BY DEF Pcs, Working
<1>3. c \in Commands
    BY <1>1, <1>2, IdleOK DEF Commands
<1>4. c.pc = p /\ c.what = w /\ c.sc = sc /\ c.gen = NoGenesis
    BY DEF Idle
<1>5. cmd' = [cmd EXCEPT ![t] = c] /\ cmd[t].pc = "idle"
    BY DEF Start, At
<1> HIDE DEF c
<1>6. Knows(c) /\ Sees(genesis, sc, bin, c)
    BY <1>1, <1>4, ConstFacts DEF Knows, Complete, Sees
<1> QED
    BY <1>3, <1>5, <1>6, KeepStep DEF Writing

LEMMA BeginExportStep ==
    ASSUME IndInv, NEW t \in Terminals, BeginExport(t)
    PROVE  IndInv'
<1> DEFINE p == IF sc.vm # "evm" /\ ~sc.repo THEN "fields" ELSE "bundle"
<1>1. p \in {"fields", "bundle"}
    OBVIOUS
<1>2. Start(t, [Idle EXCEPT !.pc = p, !.what = "export", !.sc = sc]) /\ Keep
    BY DEF BeginExport
<1> QED
    BY <1>1, <1>2, LoadStep

LEMMA BeginDeployStep ==
    ASSUME IndInv, NEW t \in Terminals, NEW n \in Networks, BeginDeploy(t, n)
    PROVE  IndInv'
<1>1. Start(t, [Idle EXCEPT !.pc = "deploy", !.what = n, !.sc = sc]) /\ Keep
    BY DEF BeginDeploy
<1> QED
    BY <1>1, LoadStep

LEMMA BeginPublishStep ==
    ASSUME IndInv, NEW t \in Terminals, BeginPublish(t)
    PROVE  IndInv'
<1> DEFINE w == IF Published \in sc.nets THEN "subnet" ELSE "empty"
           c == [Idle EXCEPT !.pc = "publish", !.sc = sc, !.what = w]
<1>1. w \in {"subnet", "empty"}
    OBVIOUS
<1>2. Start(t, c) /\ Keep
    BY DEF BeginPublish
<1>3. c = [Idle EXCEPT !.pc = "publish", !.what = w, !.sc = sc]
    BY DEF Idle
<1> HIDE DEF c, w
<1> QED
    BY <1>1, <1>2, <1>3, LoadStep

(* A sidecar that was loaded is written: as long as nobody else wrote, it  *)
(* is the one that is there, and the genesis and the binary agree with it. *)
LEMMA UpdateStep ==
    ASSUME IndInv, NEW t \in Terminals, cmd[t].pc \in {"fields", "deploy"},
           NEW s \in Sidecar, s.id = cmd[t].sc.id, s.vm = cmd[t].sc.vm, s.rpc = cmd[t].sc.rpc,
           UpdateSidecar(t, s), UNCHANGED <<genesis, bin, outside>>
    PROVE  IndInv'
<1>1. cmd[t] \in Commands /\ Knows(cmd[t]) /\ Sees(genesis, sc, bin, cmd[t])
    BY CmdFacts
<1>2. cmd[t].pc \notin Writing
    BY DEF Writing
<1>3. BundleOK' /\ CountOK'
    BY DEF IndInv, BundleOK, CountOK, outside
<1>4. CASE Finish(t) /\ UNCHANGED <<sc, cut>>
  <2>1. UNCHANGED disk /\ CutOK' /\ cut \subseteq cut'
      BY <1>4 DEF IndInv, CutOK, disk
  <2> QED
      BY <1>2, <1>3, <1>4, <2>1, EndStep
<1>5. CASE sc' = s /\ cut' = cut \cup NoteStale(t) /\ cmd' = Others(t, Idle)
  <2>1. Speaks(s)
      BY <1>1 DEF Knows, Complete, Speaks
  <2>2. DiskOK'
      BY <1>5, <2>1 DEF IndInv, DiskOK
  <2>3. CutOK' /\ cut \subseteq cut'
      BY <1>5 DEF IndInv, CutOK, NoteStale
  <2>4. Idle \in Commands /\ Knows(Idle) /\ Sees(genesis', sc', bin', Idle)
      BY IdleOK
  <2>5. OthersStay(t)
      BY <1>5, <2>4, OthersFrame DEF IndInv
  <2>6. CASE cmd[t].stale
    <3>1. {"pair", "bin"} \subseteq cut'
        BY <1>5, <2>6 DEF NoteStale
    <3>2. PairWhole' /\ BinWhole'
        BY <3>1 DEF PairWhole, BinWhole
    <3> QED
        BY <1>3, <1>5, <2>2, <2>3, <2>4, <3>2, WriteStep
  <2>7. CASE ~cmd[t].stale
    <3>1. cmd[t].sc = sc
        BY <1>1, <2>7 DEF Sees
    <3>2. PairWhole'
        BY <1>2, <1>5, <2>3, <2>5, <3>1, PairKept DEF IndInv
    <3>3. BinWhole'
        BY <1>5, <2>3, <3>1 DEF IndInv, BinWhole
    <3> QED
        BY <1>3, <1>5, <2>2, <2>3, <2>4, <3>2, <3>3, WriteStep
  <2> QED
      BY <2>6, <2>7
<1> QED
    BY <1>4, <1>5 DEF UpdateSidecar

LEMMA SetSourceFieldsStep ==
    ASSUME IndInv, NEW t \in Terminals, SetSourceFields(t)
    PROVE  IndInv'
<1> DEFINE s == [cmd[t].sc EXCEPT !.repo = TRUE]
<1>1. cmd[t].sc \in Sidecar
    BY CmdFacts DEF Commands
<1>2. s \in Sidecar /\ s.id = cmd[t].sc.id /\ s.vm = cmd[t].sc.vm /\ s.rpc = cmd[t].sc.rpc
    BY <1>1 DEF Sidecar
<1>3. UpdateSidecar(t, s) /\ UNCHANGED <<genesis, bin, outside>> /\ cmd[t].pc = "fields"
    BY DEF SetSourceFields, At
<1> QED
    BY <1>2, <1>3, UpdateStep

LEMMA UpdateSidecarNetworksStep ==
    ASSUME IndInv, NEW t \in Terminals, UpdateSidecarNetworks(t)
    PROVE  IndInv'
<1> DEFINE s == [cmd[t].sc EXCEPT !.nets = @ \cup {cmd[t].what}]
<1>1. cmd[t].sc \in Sidecar /\ cmd[t].what \in Networks /\ cmd[t].pc = "deploy"
    BY CmdFacts DEF Commands, Knows, UpdateSidecarNetworks, At
<1>2. s \in Sidecar /\ s.id = cmd[t].sc.id /\ s.vm = cmd[t].sc.vm /\ s.rpc = cmd[t].sc.rpc
    BY <1>1 DEF Sidecar
<1>3. UpdateSidecar(t, s) /\ UNCHANGED <<genesis, bin, outside>> /\ cmd[t].pc = "deploy"
    BY DEF UpdateSidecarNetworks, At
<1> QED
    BY <1>2, <1>3, UpdateStep

LEMMA WriteBundleStep ==
    ASSUME IndInv, NEW t \in Terminals, WriteBundle(t)
    PROVE  IndInv'
<1>1. cmd[t].pc = "bundle" /\ Finish(t) /\ UNCHANGED disk /\ cut' = cut /\ nextId' = nextId
      /\ bundle' = [sc |-> cmd[t].sc, gen |-> genesis]
    BY DEF WriteBundle, At
<1>2. cmd[t].sc \in Sidecar /\ Speaks(cmd[t].sc) /\ genesis \in GenesisFile /\ Pays(genesis)
    BY <1>1, CmdFacts DEF Commands, Knows, Complete, IndInv, DiskOK
<1>3. BundleOK' /\ CountOK' /\ CutOK'
    BY <1>1, <1>2 DEF IndInv, BundleOK, CountOK, CutOK
<1> QED
    BY <1>1, <1>3, EndStep DEF Writing

-----------------------------------------------------------------------------
(* subnet import.                                                          *)
LEMMA BeginImportStep ==
    ASSUME IndInv, NEW t \in Terminals, NEW force \in BOOLEAN, BeginImport(t, force)
    PROVE  IndInv'
<1> DEFINE p == IF bundle.sc.vm # "evm" THEN "build" ELSE "write"
           c == [Idle EXCEPT !.pc = p, !.what = "import", !.sc = bundle.sc, !.gen = bundle.gen]
<1>1. bundle.sc \in Sidecar /\ bundle.gen \in GenesisFile /\ Pays(bundle.gen)
      /\ Speaks(bundle.sc)
    BY DEF IndInv, BundleOK
<1>2. p = "build" \/ (p = "write" /\ bundle.sc.vm = "evm")
    OBVIOUS
<1>3. cmd' = [cmd EXCEPT ![t] = c] /\ cmd[t].pc = "idle" /\ Keep
    BY DEF BeginImport, Start, At
<1> HIDE DEF p
<1>4. c \in Commands
    BY <1>1, <1>2, IdleOK DEF Commands, Pcs, Working
<1>5. c.pc = p /\ c.what = "import" /\ c.sc = bundle.sc /\ c.gen = bundle.gen
    BY DEF Idle
<1> HIDE DEF c
<1>6. Knows(c) /\ Sees(genesis, sc, bin, c)
    BY <1>1, <1>2, <1>5 DEF Knows, Sees
<1> QED
    BY <1>3, <1>4, <1>6, KeepStep DEF Writing

LEMMA CheckRpcStep ==
    ASSUME IndInv, NEW t \in Terminals, CheckRpc(t)
    PROVE  IndInv'
<1>1. cmd[t] \in Commands /\ Knows(cmd[t]) /\ cmd \in [Terminals -> Commands]
    BY CmdFacts
<1>2. cmd[t].pc = "rpc" /\ cmd[t].what = "import" /\ Keep
    BY DEF CheckRpc, At
<1>3. CASE bin = cmd[t].sc.rpc /\ Goto(t, "write")
  <2> DEFINE c == [cmd[t] EXCEPT !.pc = "write"]
  <2>1. c \in Commands
      BY <1>1 DEF Commands, Pcs
  <2>2. c.pc = "write" /\ c.what = cmd[t].what /\ c.gen = cmd[t].gen /\ c.sc = cmd[t].sc
      BY <1>1 DEF Commands
  <2>3. cmd' = [cmd EXCEPT ![t] = c]
      BY <1>3 DEF Goto
  <2> HIDE DEF c
  <2>4. Knows(c) /\ Sees(genesis, sc, bin, c)
      BY <1>1, <1>2, <1>3, <2>2 DEF Knows, Complete, Sees
  <2> QED
      BY <1>2, <2>1, <2>3, <2>4, KeepStep DEF Writing
<1>4. CASE Finish(t)
    BY <1>2, <1>4, KeepFacts, EndStep DEF Writing
<1> QED
    BY <1>3, <1>4 DEF CheckRpc

LEMMA WriteImportedSidecarStep ==
    ASSUME IndInv, NEW t \in Terminals, WriteImportedSidecar(t)
    PROVE  IndInv'
<1>1. cmd[t] \in Commands /\ Knows(cmd[t]) /\ cmd[t].pc = "imported"
    BY CmdFacts DEF WriteImportedSidecar, At
<1>2. cmd[t].sc \in Sidecar /\ Speaks(cmd[t].sc)
    BY <1>1 DEF Commands, Knows, Complete
<1>3. CreateSidecar(t, cmd[t].sc, {"pair", "bin"}) /\ cmd' = Others(t, Idle)
      /\ UNCHANGED <<genesis, bin, outside>>
    BY DEF WriteImportedSidecar
<1> QED
    BY <1>1, <1>2, <1>3, SidecarStep

LEMMA ImportOPMStep ==
    ASSUME IndInv, NEW t \in Terminals, ImportOPM(t)
    PROVE  IndInv'
<1> DEFINE c == [Idle EXCEPT !.pc = "opm", !.what = "opm", !.gen = Genesis(nextId)]
<1>1. Genesis(nextId) \in GenesisFile /\ Pays(Genesis(nextId))
    BY NewGenesis DEF ImportOPM, IndInv
<1>2. c \in Commands
    BY <1>1, IdleOK DEF Commands, Pcs, Working
<1>3. c.pc = "opm" /\ c.what = "opm" /\ c.gen = Genesis(nextId)
    BY DEF Idle
<1>4. cmd' = [cmd EXCEPT ![t] = c] /\ cmd[t].pc = "idle"
    BY DEF ImportOPM, Start, At
<1> HIDE DEF c
<1>5. Knows(c) /\ Sees(genesis, sc, bin, c)
    BY <1>1, <1>3 DEF Knows, Complete, Sees
<1>6. UNCHANGED disk /\ BundleOK' /\ CutOK' /\ cut' = cut
    BY DEF ImportOPM, IndInv, BundleOK, CutOK
<1>7. CountOK'
    BY StoreAssumption DEF ImportOPM, IndInv, CountOK
<1> QED
    BY <1>2, <1>4, <1>5, <1>6, <1>7, QuietStep DEF Writing

LEMMA WriteOPMSidecarStep ==
    ASSUME IndInv, NEW t \in Terminals, WriteOPMSidecar(t)
    PROVE  IndInv'
<1> DEFINE s == [NoSidecar EXCEPT !.id = cmd[t].gen.id, !.vm = "opm"]
           c == [cmd[t] EXCEPT !.pc = "empty"]
<1>1. cmd[t] \in Commands /\ Knows(cmd[t]) /\ cmd[t].pc = "opm"
    BY CmdFacts DEF WriteOPMSidecar, At
<1>2. cmd[t].gen.id \in 0..MaxIds
    BY <1>1 DEF Commands, GenesisFile
<1>3. s \in Sidecar /\ s.vm = "opm" /\ s.id = cmd[t].gen.id
    BY <1>2, ConstFacts DEF Sidecar, NoSidecar
<1>4. /\ sc' = s /\ cut' = (cut \ {"bin"}) \cup NoteStale(t) \cup NoteMixed(t, s)
      /\ cmd' = Others(t, c) /\ UNCHANGED <<genesis, bin, outside>>
    BY DEF WriteOPMSidecar, CreateSidecar
<1> HIDE DEF s
<1>5. c \in Commands
    BY <1>1 DEF Commands, Pcs, Writing
<1>6. c.pc = "empty" /\ c.gen = cmd[t].gen
    BY <1>1 DEF Commands
<1> HIDE DEF c
<1>7. Knows(c) /\ Sees(genesis', sc', bin', c)
    BY <1>1, <1>3, <1>4, <1>6 DEF Knows, Complete, Sees
<1>8. DiskOK' /\ BundleOK' /\ CountOK'
    BY <1>3, <1>4 DEF IndInv, DiskOK, BundleOK, CountOK, outside, Speaks
<1>9. CutOK'
    BY <1>4 DEF IndInv, CutOK, NoteStale, NoteMixed
<1>10. BinWhole'
    BY <1>3, <1>4 DEF BinWhole
<1>11. PairWhole'
    BY <1>4, <1>6, PairWritten DEF Others, Writing
<1> QED
    BY <1>4, <1>5, <1>7, <1>8, <1>9, <1>10, <1>11, WriteStep

LEMMA WriteEmptyGenesisStep ==
    ASSUME IndInv, NEW t \in Terminals, WriteEmptyGenesis(t)
    PROVE  IndInv'
<1>1. /\ cmd[t] \in Commands /\ Knows(cmd[t]) /\ Sees(genesis, sc, bin, cmd[t])
      /\ cmd[t].pc = "empty"
    BY CmdFacts DEF WriteEmptyGenesis, At
<1>2. /\ genesis' = cmd[t].gen /\ cmd' = Others(t, Idle)
      /\ cut' = (cut \ {"pair"}) \cup NoteStale(t) /\ UNCHANGED <<sc, bin, outside>>
    BY DEF WriteEmptyGenesis
<1>3. DiskOK' /\ BundleOK' /\ CountOK'
  <2>1. cmd[t].gen \in GenesisFile /\ Pays(cmd[t].gen)
      BY <1>1 DEF Commands, Knows
  <2> QED
      BY <1>2, <2>1 DEF IndInv, DiskOK, BundleOK, CountOK, outside
<1>4. CutOK'
    BY <1>2 DEF IndInv, CutOK, NoteStale
<1>5. BinWhole'
    BY <1>2 DEF IndInv, BinWhole
<1>6. PairWhole'
    BY <1>1, <1>2 DEF PairWhole, NoteStale, Sees
<1>7. Idle \in Commands /\ Knows(Idle) /\ Sees(genesis', sc', bin', Idle)
    BY IdleOK
<1> QED
    BY <1>2, <1>3, <1>4, <1>5, <1>6, <1>7, WriteStep

LEMMA ImportRunningStep ==
    ASSUME IndInv, NEW t \in Terminals, NEW n \in Networks, ImportRunning(t, n)
    PROVE  IndInv'
<1> DEFINE g == Genesis(nextId)
           c == [Idle EXCEPT !.pc = "running", !.what = n, !.gen = g]
<1>1. g \in GenesisFile /\ Pays(g)
    BY NewGenesis DEF ImportRunning, IndInv
<1>2. genesis' = g /\ cmd' = Others(t, c) /\ nextId <= MaxIds /\ nextId' = nextId + 1
      /\ UNCHANGED <<sc, bin, bundle, cut>>
    BY DEF ImportRunning
<1> HIDE DEF g
<1>3. c \in Commands
    BY <1>1, IdleOK DEF Commands, Pcs, Working
<1>4. c.pc = "running" /\ c.gen = g /\ c.what = n
    BY DEF Idle
<1> HIDE DEF c
<1>5. Knows(c) /\ Sees(genesis', sc', bin', c)
    BY <1>1, <1>2, <1>4 DEF Knows, Complete, Sees
<1>6. CountOK'
    BY <1>2, StoreAssumption DEF IndInv, CountOK
<1>7. DiskOK' /\ BundleOK' /\ CutOK' /\ BinWhole'
    BY <1>1, <1>2 DEF IndInv, DiskOK, BundleOK, CutOK, BinWhole
<1>8. PairWhole'
    BY <1>2, <1>4, PairWritten DEF Others, Writing
<1> QED
    BY <1>2, <1>3, <1>5, <1>6, <1>7, <1>8, WriteStep

LEMMA WriteRunningSidecarStep ==
    ASSUME IndInv, NEW t \in Terminals, WriteRunningSidecar(t)
    PROVE  IndInv'
<1> DEFINE s == [NoSidecar EXCEPT !.id = cmd[t].gen.id, !.vm = "evm", !.nets = {cmd[t].what}]
<1>1. cmd[t] \in Commands /\ cmd[t].pc = "running" /\ cmd[t].what \in Networks
    BY CmdFacts DEF WriteRunningSidecar, At, Knows
<1>2. cmd[t].gen.id \in 0..MaxIds
    BY <1>1 DEF Commands, GenesisFile
<1>3. s \in Sidecar /\ s.vm = "evm" /\ s.id = cmd[t].gen.id
    BY <1>1, <1>2, ConstFacts DEF Sidecar, NoSidecar
<1>4. CreateSidecar(t, s, {"pair", "bin"}) /\ cmd' = Others(t, Idle)
      /\ UNCHANGED <<genesis, bin, outside>>
    BY DEF WriteRunningSidecar
<1> HIDE DEF s
<1> QED
    BY <1>1, <1>3, <1>4, SidecarStep DEF Speaks

-----------------------------------------------------------------------------
(* Failures and interruptions.                                             *)
LEMMA FailsStep ==
    ASSUME IndInv, NEW t \in Terminals, Fails(t)
    PROVE  IndInv'
<1>1. Finish(t) /\ UNCHANGED <<disk, outside>>
      /\ cut' = cut \cup (IF At(t, "running") THEN {"pair"} ELSE {}) /\ cmd[t].pc \in Working
    BY DEF Fails
<1>2. BundleOK' /\ CountOK'
    BY <1>1 DEF IndInv, BundleOK, CountOK, outside
<1>3. CutOK' /\ cut \subseteq cut'
    BY <1>1 DEF IndInv, CutOK
<1>4. cmd[t].pc \in Writing => "pair" \in cut'
    BY <1>1 DEF Working, Writing, At
<1> QED
    BY <1>1, <1>2, <1>3, <1>4, EndStep

LEMMA CrashStep ==
    ASSUME IndInv, NEW t \in Terminals, Crash(t)
    PROVE  IndInv'
<1>1. Finish(t) /\ UNCHANGED <<disk, outside>> /\ cut' = cut \cup Mixed(t)
    BY DEF Crash
<1>2. BundleOK' /\ CountOK'
    BY <1>1 DEF IndInv, BundleOK, CountOK, outside
<1>3. CutOK' /\ cut \subseteq cut' /\ (cmd[t].pc \in Writing => "pair" \in cut')
    BY <1>1 DEF IndInv, CutOK, Mixed
<1> QED
    BY <1>1, <1>2, <1>3, EndStep

LEMMA TornWriteStep ==
    ASSUME IndInv, NEW t \in Terminals, TornWrite(t)
    PROVE  IndInv'
<1>1. sc' = Torn /\ cmd' = Others(t, Idle) /\ cut' = cut \cup {"pair"}
      /\ UNCHANGED <<genesis, bin, outside>>
    BY DEF TornWrite
<1>2. DiskOK' /\ BundleOK' /\ CountOK'
    BY <1>1, ConstFacts DEF IndInv, DiskOK, BundleOK, CountOK, outside
<1>3. CutOK' /\ PairWhole'
    BY <1>1 DEF IndInv, CutOK, PairWhole
<1>4. BinWhole'
    BY <1>1 DEF BinWhole, Torn, NoSidecar
<1>5. Idle \in Commands /\ Knows(Idle) /\ Sees(genesis', sc', bin', Idle)
    BY IdleOK
<1> QED
    BY <1>1, <1>2, <1>3, <1>4, <1>5, WriteStep

-----------------------------------------------------------------------------
(* The steps of one command, taken together.                            *)
LEMMA WizardStep ==
    ASSUME IndInv, NEW t \in Terminals, Wizard(t)
    PROVE  IndInv'
<1>1. CASE StartWizard(t)
    BY <1>1, MoveStep DEF StartWizard, At, Asking
<1>2. CASE Descriptors(t)
    BY <1>2, MoveStep DEF Descriptors, At, Asking
<1>3. CASE FeeConfig(t)
    BY <1>3, MoveStep DEF FeeConfig, At, Asking
<1>4. CASE AirdropBack(t)
    BY <1>4, MoveStep DEF AirdropBack, At, Asking
<1>5. CASE PrecompilesDone(t)
    BY <1>5, MoveStep DEF PrecompilesDone, At, Asking
<1>6. CASE \E alloc \in Airdrops : Airdrop(t, alloc)
    BY <1>6, AirdropStep
<1>7. CASE \E p \in Precompiles : \E admins \in Lists(p) : AddPrecompile(t, p, admins)
    BY <1>7, AddPrecompileStep
<1>8. CASE Verified(t)
    BY <1>8, VerifiedStep
<1>9. CASE NotVerified(t)
    BY <1>9, KeepFacts, EndStep DEF NotVerified, At, Writing
<1> QED
    BY <1>1, <1>2, <1>3, <1>4, <1>5, <1>6, <1>7, <1>8, <1>9 DEF Wizard

LEMMA CreateStep ==
    ASSUME IndInv, NEW t \in Terminals, Create(t)
    PROVE  IndInv'
<1>1. CASE \E force \in BOOLEAN : BeginCreate(t, force)
    BY <1>1, BeginCreateStep
<1>2. CASE GivenGenesis(t)
    BY <1>2, GivenGenesisStep
<1>3. CASE Wizard(t)
    BY <1>3, WizardStep
<1>4. CASE ChooseRepo(t)
    BY <1>4, ChooseRepoStep
<1>5. CASE RemoveOldBinary(t)
    BY <1>5, RemoveOldBinaryStep
<1>6. CASE AskRpc(t)
    BY <1>6, AskRpcStep
<1>7. CASE \E v \in Rpcs : CopyVMBinary(t, v) \/ BuildCustomVM(t, v)
    BY <1>7, CopyVMBinaryStep, BuildCustomVMStep
<1>8. CASE WriteNewGenesis(t)
    BY <1>8, WriteGenesisStep DEF WriteNewGenesis, At
<1>9. CASE WriteNewSidecar(t)
    BY <1>9, WriteNewSidecarStep
<1> QED
    BY <1>1, <1>2, <1>3, <1>4, <1>5, <1>6, <1>7, <1>8, <1>9 DEF Create

LEMMA ExportStep ==
    ASSUME IndInv, NEW t \in Terminals, Export(t)
    PROVE  IndInv'
<1>1. CASE BeginExport(t)
    BY <1>1, BeginExportStep
<1>2. CASE SetSourceFields(t)
    BY <1>2, SetSourceFieldsStep
<1>3. CASE WriteBundle(t)
    BY <1>3, WriteBundleStep
<1>4. CASE NoGenesisToExport(t)
    BY <1>4, KeepFacts, EndStep DEF NoGenesisToExport, At, Writing
<1>5. CASE BeginPublish(t)
    BY <1>5, BeginPublishStep
<1>6. CASE Push(t)
    BY <1>6, KeepFacts, EndStep DEF Push, At, Writing
<1> QED
    BY <1>1, <1>2, <1>3, <1>4, <1>5, <1>6 DEF Export

LEMMA ImportStep ==
    ASSUME IndInv, NEW t \in Terminals, Import(t)
    PROVE  IndInv'
<1>1. CASE \E force \in BOOLEAN : BeginImport(t, force)
    BY <1>1, BeginImportStep
<1>2. CASE CheckRpc(t)
    BY <1>2, CheckRpcStep
<1>3. CASE WriteImportedFiles(t)
    BY <1>3, WriteGenesisStep DEF WriteImportedFiles, At
<1>4. CASE WriteImportedSidecar(t)
    BY <1>4, WriteImportedSidecarStep
<1>5. CASE ImportOPM(t)
    BY <1>5, ImportOPMStep
<1>6. CASE WriteOPMSidecar(t)
    BY <1>6, WriteOPMSidecarStep
<1>7. CASE WriteEmptyGenesis(t)
    BY <1>7, WriteEmptyGenesisStep
<1>8. CASE \E n \in Networks : ImportRunning(t, n)
    BY <1>8, ImportRunningStep
<1>9. CASE WriteRunningSidecar(t)
    BY <1>9, WriteRunningSidecarStep
<1> QED
    BY <1>1, <1>2, <1>3, <1>4, <1>5, <1>6, <1>7, <1>8, <1>9 DEF Import

(* Every initial state has the invariant, ...                           *)
LEMMA InitInv ==
    Init => IndInv
<1> SUFFICES ASSUME Init PROVE IndInv
    OBVIOUS
<1>1. CmdOK /\ CmdKnows /\ CmdSees
    BY IdleOK DEF Init, CmdOK, CmdKnows, CmdSees
<1>2. DiskOK /\ BundleOK
    BY ConstFacts DEF Init, DiskOK, BundleOK
<1>3. CountOK /\ CutOK
    BY StoreAssumption DEF Init, CountOK, CutOK
<1>4. PairWhole /\ BinWhole
    BY DEF Init, PairWhole, BinWhole, NoGenesis, Genesis, NoSidecar
<1> QED
    BY <1>1, <1>2, <1>3, <1>4 DEF IndInv

(* ... and every step keeps it.                                         *)
LEMMA StepInv ==
    IndInv /\ [Next]_vars => IndInv'
<1> SUFFICES ASSUME IndInv, [Next]_vars PROVE IndInv'
    OBVIOUS
<1>1. CASE UNCHANGED vars
  <2>1. UNCHANGED <<genesis, sc, bin, bundle, cmd, nextId, cut>>
      BY <1>1 DEF vars
  <2>2. DiskOK' /\ BundleOK' /\ CountOK' /\ CutOK' /\ BinWhole'
      BY <2>1 DEF IndInv, DiskOK, BundleOK, CountOK, CutOK, BinWhole
  <2>3. CmdOK' /\ CmdKnows' /\ CmdSees'
      BY <2>1 DEF IndInv, CmdOK, CmdKnows, CmdSees
  <2>4. PairWhole'
      BY <2>1 DEF IndInv, PairWhole, Quiet
  <2> QED
      BY <2>2, <2>3, <2>4 DEF IndInv
<1>2. ASSUME NEW t \in Terminals, Create(t) \/ Import(t) \/ Export(t)
      PROVE  IndInv'
    BY <1>2, CreateStep, ImportStep, ExportStep
<1>3. ASSUME NEW t \in Terminals, Delete(t) \/ RemoveDir(t)
      PROVE  IndInv'
    BY <1>3, DeleteStep, RemoveDirStep
<1>4. ASSUME NEW t \in Terminals, (\E n \in Networks : BeginDeploy(t, n))
                                   \/ UpdateSidecarNetworks(t)
      PROVE  IndInv'
    BY <1>4, BeginDeployStep, UpdateSidecarNetworksStep
<1>5. ASSUME NEW t \in Terminals, Fails(t) \/ Crash(t) \/ TornWrite(t)
      PROVE  IndInv'
    BY <1>5, FailsStep, CrashStep, TornWriteStep
<1> QED
    BY <1>1, <1>2, <1>3, <1>4, <1>5 DEF Next

(* Every reachable state has the invariant: the files on disk are what  *)
(* their readers expect, and a command that no other has overtaken      *)
(* holds what they hold.                                                *)
THEOREM Inductive == Spec => []IndInv
BY InitInv, StepInv, PTL DEF Spec

-----------------------------------------------------------------------------
(* Every variable has its type in every reachable state, whatever the   *)
(* commands in several terminals write and wherever they are cut        *)
(* short: LoadSidecar reads what CreateSidecar and UpdateSidecar        *)
(* wrote.                                                               *)
THEOREM TypeCorrect == Spec => []TypeOK
<1>1. IndInv => TypeOK
  <2> SUFFICES ASSUME IndInv PROVE TypeOK
      OBVIOUS
  <2>1. ASSUME NEW t \in Terminals
        PROVE  /\ cmd[t].pc \in Pcs /\ cmd[t].sc \in Sidecar /\ cmd[t].gen \in GenesisFile
               /\ cmd[t].left \subseteq Precompiles
      BY CmdFacts DEF Commands
  <2> QED
      BY <2>1 DEF TypeOK, IndInv, DiskOK, BundleOK, CountOK, CutOK, Speaks
<1> QED
    BY <1>1, Inductive, PTL

(* A genesis with an allow list of the wizard (precompiles.go) or of    *)
(* an import funds one of its admins, however the user goes back and    *)
(* forth between the pages: without it nobody could pay for a           *)
(* transaction of an admin.                                             *)
THEOREM AllowListPays == Spec => []AdminsFunded
<1>1. IndInv => AdminsFunded
    BY DEF IndInv, DiskOK, Pays, AdminsFunded
<1> QED
    BY <1>1, Inductive, PTL

(* After every command of every terminal, the genesis and the sidecar   *)
(* in the directory are of one subnet, and a custom VM has the binary   *)
(* of the protocol in its sidecar, unless a command was interrupted or  *)
(* failed between its writes, or removed the binary before it had       *)
(* another.                                                             *)
THEOREM WholeOrMarked == Spec => []ConfigIsWhole
<1>1. IndInv => ConfigIsWhole
    BY DEF IndInv, PairWhole, BinWhole, Quiet, ConfigIsWhole
<1> QED
    BY <1>1, Inductive, PTL

(* What a step may do to the sidecar behind a command that will write it.  *)
LEMMA CreateLeaves ==
    ASSUME IndInv, NEW u \in Terminals, Create(u) \/ Import(u), NEW t \in Terminals,
           cmd[t].pc \in {"deploy", "fields"}
    PROVE  sc' = sc \/ cmd'[t].pc = cmd[t].pc
<1>1. CASE Create(u)
  <2>1. CASE WriteNewSidecar(u)
    <3>1. u # t /\ cmd' = Others(u, Idle)
        BY <2>1 DEF WriteNewSidecar, At
    <3> QED
        BY <3>1, OthersPc
  <2>2. CASE ~WriteNewSidecar(u)
    <3>1. CASE Wizard(u)
        BY <3>1 DEF Wizard, StartWizard, Descriptors, FeeConfig, AirdropBack, PrecompilesDone,
            Airdrop, AddPrecompile, Verified, NotVerified, Keep, disk
    <3>2. CASE ~Wizard(u)
        BY <1>1, <2>2, <3>2 DEF Create, BeginCreate, GivenGenesis, ChooseRepo, RemoveOldBinary,
            AskRpc, CopyVMBinary, BuildCustomVM, WriteNewGenesis, Keep, disk
    <3> QED
        BY <3>1, <3>2
  <2> QED
      BY <2>1, <2>2
<1>2. CASE Import(u)
  <2>1. CASE WriteImportedSidecar(u)
    <3>1. u # t /\ cmd' = Others(u, Idle)
        BY <2>1 DEF WriteImportedSidecar, At
    <3> QED
        BY <3>1, OthersPc
  <2>2. CASE WriteOPMSidecar(u)
    <3>1. u # t /\ cmd' = Others(u, [cmd[u] EXCEPT !.pc = "empty"])
        BY <2>2 DEF WriteOPMSidecar, At
    <3> QED
        BY <3>1, OthersPc
  <2>3. CASE WriteRunningSidecar(u)
    <3>1. u # t /\ cmd' = Others(u, Idle)
        BY <2>3 DEF WriteRunningSidecar, At
    <3> QED
        BY <3>1, OthersPc
  <2>4. CASE ~(WriteImportedSidecar(u) \/ WriteOPMSidecar(u) \/ WriteRunningSidecar(u))
      BY <1>2, <2>4 DEF Import, BeginImport, CheckRpc, WriteImportedFiles, ImportOPM,
          WriteEmptyGenesis, ImportRunning, Keep, disk
  <2> QED
      BY <2>1, <2>2, <2>3, <2>4
<1> QED
    BY <1>1, <1>2

(* What a command that updates writes, if nobody wrote since it loaded.    *)
LEMMA UpdateLeaves ==
    ASSUME IndInv, NEW t \in Terminals, ~cmd[t].stale,
           SetSourceFields(t) \/ UpdateSidecarNetworks(t)
    PROVE  /\ sc.nets \subseteq sc'.nets
           /\ sc.id = sc'.id /\ sc.vm = sc'.vm /\ sc.rpc = sc'.rpc
<1>1. cmd[t].sc = sc
    BY CmdFacts DEF Sees, SetSourceFields, UpdateSidecarNetworks, At
<1>2. sc \in Sidecar
    BY DEF IndInv, DiskOK
<1>3. CASE SetSourceFields(t)
  <2>1. sc' = [sc EXCEPT !.repo = TRUE] \/ sc' = sc
      BY <1>1, <1>3 DEF SetSourceFields, UpdateSidecar
  <2> QED
      BY <1>2, <2>1 DEF Sidecar
<1>4. CASE UpdateSidecarNetworks(t)
  <2>1. sc' = [sc EXCEPT !.nets = @ \cup {cmd[t].what}] \/ sc' = sc
      BY <1>1, <1>4 DEF UpdateSidecarNetworks, UpdateSidecar
  <2> QED
      BY <1>2, <2>1 DEF Sidecar
<1> QED
    BY <1>3, <1>4

(* UpdateSidecarNetworks and SetSourceFields write the whole sidecar    *)
(* that they loaded before the deployment: if no other command wrote    *)
(* in between, they keep its networks, its subnet, its VM and its       *)
(* version of the protocol.                                             *)
THEOREM LoadedIsKept == Spec => UpdateKeeps
<1>1. ASSUME IndInv, [Next]_vars, NEW t \in Terminals, Updates(t), ~cmd[t].stale
      PROVE  /\ sc.nets \subseteq sc'.nets
             /\ <<sc.id, sc.vm, sc.rpc>> = <<sc'.id, sc'.vm, sc'.rpc>>
  <2>1. cmd[t].pc \in {"deploy", "fields"} /\ cmd'[t].pc = "idle" /\ sc' # Torn
      BY <1>1 DEF Updates
  <2>2. CASE sc' = sc
      BY <2>2
  <2>3. CASE UNCHANGED vars
      BY <2>3 DEF vars
  <2>4. ASSUME NEW u \in Terminals, Create(u) \/ Import(u)
        PROVE  sc' = sc
      BY <1>1, <2>1, <2>4, CreateLeaves
  <2>5. ASSUME NEW u \in Terminals, Export(u), ~SetSourceFields(u)
        PROVE  sc' = sc
      BY <2>5 DEF Export, BeginExport, WriteBundle, NoGenesisToExport, BeginPublish, Push,
          Keep, disk
  <2>6. ASSUME NEW u \in Terminals, Delete(u) \/ Fails(u) \/ Crash(u)
                                    \/ \E n \in Networks : BeginDeploy(u, n)
        PROVE  sc' = sc
      BY <2>6 DEF Delete, Fails, Crash, BeginDeploy, Keep, disk
  <2>7. ASSUME NEW u \in Terminals, RemoveDir(u)
        PROVE  FALSE
    <3>1. u # t /\ cmd' = Others(u, Idle)
        BY <2>1, <2>7 DEF RemoveDir, At
    <3> QED
        BY <1>1, <2>1, <3>1, OthersPc
  <2>8. ASSUME NEW u \in Terminals, TornWrite(u)
        PROVE  FALSE
      BY <2>1, <2>8 DEF TornWrite
  <2>9. ASSUME NEW u \in Terminals, SetSourceFields(u) \/ UpdateSidecarNetworks(u), sc' # sc
        PROVE  u = t
    <3> SUFFICES ASSUME u # t PROVE FALSE
        OBVIOUS
    <3>1. cmd' = Others(u, Idle)
        BY <2>9 DEF SetSourceFields, UpdateSidecarNetworks, UpdateSidecar
    <3> QED
        BY <1>1, <2>1, <3>1, OthersPc
  <2>10. CASE SetSourceFields(t) \/ UpdateSidecarNetworks(t)
      BY <1>1, <2>10, UpdateLeaves
  <2> QED
      BY <1>1, <2>2, <2>3, <2>4, <2>5, <2>6, <2>7, <2>8, <2>9, <2>10 DEF Next
<1>2. IndInv /\ [Next]_vars =>
        \A t \in Terminals : Updates(t) /\ ~cmd[t].stale =>
          /\ sc.nets \subseteq sc'.nets
          /\ <<sc.id, sc.vm, sc.rpc>> = <<sc'.id, sc'.vm, sc'.rpc>>
    BY <1>1
<1> QED
    BY <1>2, Inductive, PTL DEF UpdateKeeps, Spec
=============================================================================
