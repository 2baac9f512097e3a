------------------------- MODULE PublicDeployProofs -------------------------
(* Theorems about PublicDeploy, for every value of its constants.       *)
EXTENDS PublicDeploy, FiniteSetTheorems, TLAPS

-----------------------------------------------------------------------------
(* The inductive invariant.                                                *)

(* The O-Chain: IDs are given out in order, and the owners of a subnet are *)
(* in the chain's own order.                                               *)
OwnersOK ==
    /\ owners \in [1..MaxIds -> Owner]
    /\ nextId \in 1..(MaxIds + 1)
    /\ \A s \in SubnetIds :
        /\ s < nextId
        /\ \E S \in SUBSET Keys : owners[s].keys = Ordered[S]

(* A transaction asks for the signatures of a threshold of the owners of   *)
(* its subnet, and has those of owners that it asks.                       *)
TxGood(t) == TxOK(t) /\ Cardinality(t.idx) = owners[t.sub].thr

(* What the O-Chain accepted is whole and signed by all that it asks.   *)
AcceptedOK == \A t \in accepted : TxGood(t) /\ t.signed = t.idx

(* A recorded subnet exists.                                            *)
SidecarOK ==
    /\ sidecar \in [Users -> [sub : 0..MaxIds, chain : 0..MaxIds]]
    /\ \A u \in Users : sidecar[u].sub # 0 => sidecar[u].sub \in SubnetIds

(* A file holds no transaction, a broken one or a whole one.            *)
FileOK ==
    /\ DOMAIN file = Paths
    /\ \A p \in Paths : file[p] \in {NoTx, Corrupt} \/ TxGood(file[p])

(* The keys chosen are control keys, no more than the threshold, and       *)
(* include every control key that the wallet holds.                        *)
Chosen(u, auth, control, thr) ==
    /\ WalletOf[u] \cap RangeOf(control) \subseteq auth
    /\ auth \subseteq RangeOf(control)
    /\ IsFiniteSet(auth) /\ Cardinality(auth) <= thr

(* Commands that build a transaction, and those that work on a file.    *)
Builds(r) == r.kind \in {"deploy", "validator"}
Signs(r) == r.kind \in {"sign", "commit"}

(* Where each command may be, and whose keys it holds there.               *)
KeysOK(u, r) ==
    /\ r.pc # "idle" => r.path \in Paths
    /\ r.pc \in {"keys", "subnet", "order"} => r.kind = "deploy"
    /\ r.pc \in {"auth", "build", "save"} => Builds(r)
    /\ r.pc \in {"remaining", "truncate", "write"} => Signs(r)
    /\ r.pc \in {"owners", "issue"} => Builds(r) \/ Signs(r)
    /\ r.pc = "subnet" => r.thr # 0
    /\ r.pc \in {"subnet", "order", "build"} => Chosen(u, r.auth, r.ctl, r.thr)
    /\ r.pc = "order" => /\ RangeOf(owners[r.sub].keys) = RangeOf(r.ctl)
                         /\ owners[r.sub].thr = r.thr
    /\ r.pc \in {"auth", "build"} => /\ r.ctl = owners[r.sub].keys
                                     /\ r.thr = owners[r.sub].thr

(* What transaction a command holds: a whole one when it issues it, one    *)
(* that lacks a signature when it saves a new one.                         *)
HoldsOK(r) ==
    /\ r.pc = "owners" /\ Signs(r) => TxGood(r.tx)
    /\ r.pc \in {"issue", "save", "remaining", "truncate", "write"} => TxGood(r.tx)
    /\ r.pc = "issue" => r.tx.signed = r.tx.idx
    /\ r.pc = "save" => r.tx.signed # r.tx.idx
    /\ r.pc \in {"save", "issue"} /\ Builds(r) => AuthSigners(r.tx, r.ctl) = r.auth
    /\ r.pc \in {"save", "issue"} /\ r.kind = "deploy" => r.tx.kind = "chain"
    /\ r.pc = "record" /\ r.tx # NoTx =>
        /\ TxGood(r.tx) /\ r.tx.kind = "chain"
        /\ r.tx \in accepted \/ r.tx.signed # r.tx.idx

(* A command is where it may be, with what it holds there.              *)
CmdGood(u, r) == CmdOK(r) /\ KeysOK(u, r) /\ HoldsOK(r)

(* The inductive invariant of all runs, whoever deploys.                *)
IndInv ==
    /\ OwnersOK /\ AcceptedOK /\ SidecarOK /\ FileOK
    /\ DOMAIN cmd = Users /\ \A u \in Users : CmdGood(u, cmd[u])

(* A recorded blockchain was accepted; a chain has its subnet recorded.    *)
ChainAccepted ==
    \A u \in Users : sidecar[u].chain # 0 =>
        /\ sidecar[u].sub # 0
        /\ \E t \in accepted : t.kind = "chain" /\ t.id = sidecar[u].chain

(* One deployer who types no deploy once it is recorded, and a chain that  *)
(* rejects but answers in time: as long as his subnet is not in his        *)
(* sidecar, it is in his command or not there at all, and nobody else has  *)
(* anything to work on.                                                    *)
Alone(d) == Deployers \subseteq {d} /\ ~Redeploy /\ Faults \subseteq {"reject"}

OnlyOne(d) ==
    /\ \A s, t \in SubnetIds : s = t
    /\ \A u \in Users : cmd[u].kind = "deploy" => u = d
    /\ sidecar[d].sub = 0 =>
        /\ Running(d) => cmd[d].kind = "deploy"
        /\ cmd[d].pc # "record" => \A p \in Paths : file[p] = NoTx
        /\ \A u \in Users : sidecar[u] = NoEntry /\ (u # d => ~Running(u))
        /\ SubnetIds # {} => cmd[d].pc \in {"order", "build", "issue", "save", "record"}
    /\ cmd[d].pc \in {"keys", "subnet", "order"} => sidecar[d].sub = 0
    /\ cmd[d].pc \in {"keys", "subnet"} => SubnetIds = {}

-----------------------------------------------------------------------------
(* Facts about the operators.                                              *)

(* A set of numbers with a bound has a greatest one.                       *)
LEMMA Greatest ==
    ASSUME NEW S \in SUBSET Nat, S # {}, NEW n \in Nat, \A x \in S : x <= n
    PROVE  \E m \in S : \A x \in S : x <= m
<1> DEFINE T == {k \in Nat : n - k \in S}
<1>1. T # {}
  <2>1. PICK x \in S : TRUE
    OBVIOUS
  <2>2. n - x \in T
    OBVIOUS
  <2>3. QED
    BY <2>2
<1>2. PICK k \in T : \A j \in T : <<j, k>> \notin OpToRel(<, Nat)
  BY <1>1, NatLessThanWellFounded, WFMin
<1>3. \A j \in T : ~(j < k)
  BY <1>2 DEF OpToRel
<1>4. ASSUME NEW x \in S
      PROVE  x <= n - k
  <2>1. n - x \in T
    OBVIOUS
  <2>2. ~(n - x < k)
    BY <2>1, <1>3
  <2>3. x \in Nat /\ k \in Nat
    OBVIOUS
  <2>4. QED
    BY <2>2, <2>3
<1>5. QED
  BY <1>4

(* The keys of a list are a finite set of keys.                         *)
LEMMA RangeFinite ==
    ASSUME NEW s \in Seq(Keys)
    PROVE  /\ RangeOf(s) \in SUBSET Keys /\ IsFiniteSet(RangeOf(s))
           /\ Cardinality(RangeOf(s)) \in Nat /\ Cardinality(RangeOf(s)) <= Len(s)
<1>1. s \in Surjection(1..Len(s), RangeOf(s))
  BY DEF Surjection, RangeOf
<1>2. Len(s) \in Nat
  OBVIOUS
<1>3. IsFiniteSet(1..Len(s)) /\ Cardinality(1..Len(s)) = Len(s)
  BY <1>2, FS_Interval
<1>4. IsFiniteSet(RangeOf(s)) /\ Cardinality(RangeOf(s)) <= Len(s)
  BY <1>1, <1>3, FS_Surjection
<1>5. QED
  BY <1>4, FS_CardinalityType DEF RangeOf

(* The O-Chain's own order names every owner once.                         *)
LEMMA OrderedOnce ==
    ASSUME PublicAssumption, NEW S \in SUBSET Keys
    PROVE  /\ Ordered[S] \in Seq(Keys) /\ RangeOf(Ordered[S]) = S
           /\ \A i, j \in 1..Len(Ordered[S]) : Ordered[S][i] = Ordered[S][j] => i = j
<1> DEFINE s == Ordered[S]
<1>1. s \in Seq(Keys) /\ RangeOf(s) = S /\ Len(s) = Cardinality(S)
  BY DEF PublicAssumption
<1>2. s \in Surjection(1..Len(s), S)
  BY <1>1 DEF Surjection, RangeOf
<1>3. IsFiniteSet(1..Len(s)) /\ Cardinality(1..Len(s)) = Cardinality(S)
  BY <1>1, FS_Interval
<1>4. s \in Injection(1..Len(s), S)
  BY <1>2, <1>3, FS_SurjSameCardinalityImpliesInj
<1>5. QED
  BY <1>1, <1>4 DEF Injection, IsInjective

(* The wallet builder never asks for more signatures than the threshold.   *)
LEMMA SigIndicesFew ==
    ASSUME NEW control \in Seq(Keys), NEW addrs, NEW thr \in Nat
    PROVE  LET idx == SigIndices(control, addrs, thr)
           IN  /\ idx \subseteq 1..Len(control) /\ \A i \in idx : control[i] \in addrs
               /\ IsFiniteSet(idx) /\ Cardinality(idx) \in Nat /\ Cardinality(idx) <= thr
<1> DEFINE idx == SigIndices(control, addrs, thr)
           Upto(m) == {j \in 1..m : control[j] \in addrs}
<1>1. idx \subseteq 1..Len(control) /\ \A i \in idx : control[i] \in addrs
  BY DEF SigIndices
<1>2. IsFiniteSet(idx) /\ Cardinality(idx) \in Nat
  <2>1. Len(control) \in Nat
    OBVIOUS
  <2>2. IsFiniteSet(1..Len(control)) /\ idx \in SUBSET (1..Len(control))
    BY <1>1, <2>1, FS_Interval
  <2>3. QED
    BY <2>2, FS_Subset, FS_CardinalityType
<1>3. CASE idx = {}
  BY <1>1, <1>2, <1>3, FS_EmptySet
<1>4. CASE idx # {}
  <2>1. idx \in SUBSET Nat /\ Len(control) \in Nat /\ \A i \in idx : i <= Len(control)
    BY <1>1
  <2>2. PICK m \in idx : \A i \in idx : i <= m
    <3> HIDE DEF idx
    <3>1. QED
      BY <2>1, <1>4, Greatest
  <2>3. m \in 1..Len(control) /\ Cardinality(Upto(m)) <= thr
    BY DEF SigIndices
  <2>4. IsFiniteSet(Upto(m)) /\ Cardinality(Upto(m)) \in Nat
    <3>1. IsFiniteSet(1..m)
      BY <2>3, FS_Interval
    <3>2. Upto(m) \in SUBSET (1..m)
      OBVIOUS
    <3>3. QED
      BY <3>1, <3>2, FS_Subset, FS_CardinalityType
  <2>5. idx \in SUBSET Upto(m)
    BY <1>1, <2>2, <2>3
  <2>6. Cardinality(idx) <= Cardinality(Upto(m))
    BY <2>4, <2>5, FS_Subset
  <2>7. QED
    BY <1>1, <1>2, <2>3, <2>4, <2>6
<1>5. QED
  BY <1>3, <1>4

(* Whichever way the keys are chosen, they pass the check that             *)
(* CheckSubnetAuthKeys makes of the flag, except that a flag may name a    *)
(* key twice.                                                              *)
LEMMA ChoicesFit ==
    ASSUME NEW u \in Users, NEW control \in Seq(Keys), NEW thr \in Nat, PublicAssumption,
           NEW auth \in AuthChoices(u, control, thr)
    PROVE  Chosen(u, auth, control, thr) /\ auth \in SUBSET Keys
<1>1. RangeOf(control) \in SUBSET Keys /\ IsFiniteSet(RangeOf(control))
  BY RangeFinite
<1>2. CASE auth \in GetSubnetAuthKeys(WalletOf[u], control, thr)
  <2>1. CASE Len(control) = thr
    BY <1>1, <1>2, <2>1, RangeFinite DEF GetSubnetAuthKeys, Chosen
  <2>2. CASE Len(control) # thr
    BY <1>1, <1>2, <2>2, FS_Subset DEF GetSubnetAuthKeys, Chosen
  <2>3. QED
    BY <2>1, <2>2
<1>3. ASSUME NEW f \in Flags, CheckSubnetAuthKeys(WalletOf[u], f, control, thr),
             auth = RangeOf(f)
      PROVE  Chosen(u, auth, control, thr) /\ auth \in SUBSET Keys
  <2>1. f \in Seq(Keys)
    BY DEF PublicAssumption
  <2>2. QED
    BY <1>3, <2>1, RangeFinite DEF CheckSubnetAuthKeys, Chosen
<1>4. QED
  BY <1>2, <1>3 DEF AuthChoices

(* When the wallet builder finds enough signers among the keys chosen, the *)
(* signers are those keys.                                                 *)
LEMMA SignersChosen ==
    ASSUME NEW u \in Users, NEW control \in Seq(Keys), NEW thr \in Nat, NEW auth, NEW t,
           \A i, j \in 1..Len(control) : control[i] = control[j] => i = j,
           Chosen(u, auth, control, thr), Cardinality(t.idx) = thr,
           t.idx = SigIndices(control, WalletOf[u] \cup auth, thr)
    PROVE  AuthSigners(t, control) = auth
<1> DEFINE idx == t.idx
           signers == {control[i] : i \in idx}
<1>1. /\ idx \subseteq 1..Len(control) /\ \A i \in idx : control[i] \in WalletOf[u] \cup auth
      /\ IsFiniteSet(idx) /\ Cardinality(idx) = thr
  BY SigIndicesFew
<1>2. signers \subseteq auth
  <2>1. ASSUME NEW i \in idx
        PROVE  control[i] \in auth
    <3>1. i \in 1..Len(control) /\ control[i] \in WalletOf[u] \cup auth
      BY <1>1
    <3>2. control[i] \in RangeOf(control)
      BY <3>1 DEF RangeOf
    <3>3. QED
      BY <3>1, <3>2 DEF Chosen
  <2>2. QED
    BY <2>1
<1>3. Cardinality(signers) = thr
  <2> DEFINE f == [i \in idx |-> control[i]]
  <2>1. \A i, j \in idx : control[i] = control[j] => i = j
    <3>1. \A i \in idx : i \in 1..Len(control)
      BY <1>1
    <3>2. QED
      BY <3>1
  <2>2. f \in [idx -> signers]
    OBVIOUS
  <2>3. \A i, j \in idx : f[i] = f[j] => i = j
    BY <2>1
  <2>4. \A x \in signers : \E i \in idx : f[i] = x
    OBVIOUS
  <2> HIDE DEF f, signers
  <2>5. f \in Bijection(idx, signers)
    BY <2>2, <2>3, <2>4 DEF Bijection, Injection, Surjection, IsInjective
  <2>6. QED
    BY <2>5, <1>1, FS_Bijection DEF ExistsBijection
<1>4. signers \in SUBSET auth /\ IsFiniteSet(auth) /\ Cardinality(auth) <= thr
  BY <1>2 DEF Chosen
<1>5. Cardinality(auth) \in Nat /\ Cardinality(signers) <= Cardinality(auth)
  BY <1>4, FS_Subset, FS_CardinalityType
<1>6. signers = auth
  <2>1. Cardinality(auth) = Cardinality(signers)
    BY <1>3, <1>4, <1>5
  <2> HIDE DEF signers
  <2>2. QED
    BY <1>4, <2>1, FS_Subset
<1>7. QED
  BY <1>1, <1>6 DEF AuthSigners

-----------------------------------------------------------------------------
(* Every step keeps the inductive invariant.                               *)

(* The O-Chain never changes the owners of a subnet.                       *)
Grows == OwnersOK' /\ \A s \in SubnetIds : s \in SubnetIds' /\ owners'[s] = owners[s]

(* Nothing changes but the command of u.                                *)
OnlyCmd(u) ==
    /\ UNCHANGED <<owners, accepted, sidecar, file, nextId>>
    /\ DOMAIN cmd' = Users /\ \A v \in Users \ {u} : cmd'[v] = cmd[v]

(* A step of u that lets the chain grow, whose accepted transactions    *)
(* and files are whole, and which leaves the other commands alone.      *)
LEMMA Frame ==
    ASSUME IndInv, Grows, NEW u \in Users,
           DOMAIN cmd' = Users, \A v \in Users \ {u} : cmd'[v] = cmd[v],
           CmdGood(u, cmd[u])',
           accepted \subseteq accepted',
           \A t \in accepted' : t \in accepted \/ (TxGood(t) /\ t.signed = t.idx),
           DOMAIN file' = Paths,
           \A p \in Paths : \/ file'[p] \in {file[p], NoTx, Corrupt}
                             \/ \E t : file'[p] = t /\ TxGood(t),
           sidecar' \in [Users -> [sub : 0..MaxIds, chain : 0..MaxIds]],
           \A v \in Users : sidecar'[v] = sidecar[v] \/ sidecar'[v].sub \in SubnetIds \cup {0}
    PROVE  IndInv'
<1>1. AcceptedOK'
  BY DEF IndInv, Grows, AcceptedOK, TxGood, TxOK
<1>2. SidecarOK'
  BY DEF IndInv, Grows, SidecarOK
<1>3. FileOK'
  BY DEF IndInv, Grows, FileOK, TxGood, TxOK
<1>4. ASSUME NEW v \in Users, v # u
      PROVE  CmdGood(v, cmd[v])'
  <2>1. CmdGood(v, cmd[v]) /\ cmd'[v] = cmd[v]
    BY <1>4 DEF IndInv
  <2>2. CmdOK(cmd[v])'
    BY <2>1 DEF CmdGood, CmdOK, Grows, TxOK
  <2>3. KeysOK(v, cmd[v])'
    <3>1. /\ KeysOK(v, cmd[v])
          /\ cmd[v].pc \in {"order", "auth", "build"} => cmd[v].sub \in SubnetIds
      BY <2>1 DEF CmdGood, CmdOK, Commands, Pcs
    <3>2. QED
      BY <2>1, <3>1 DEF KeysOK, Grows, Builds, Signs, Chosen
  <2>4. HoldsOK(cmd[v])'
    BY <2>1 DEF CmdGood, HoldsOK, Grows, Builds, Signs, TxGood, TxOK, AuthSigners
  <2>5. QED
    BY <2>2, <2>3, <2>4 DEF CmdGood
<1>5. QED
  BY <1>1, <1>2, <1>3, <1>4 DEF IndInv, Grows

(* A step that changes the command of u only.                           *)
LEMMA CmdFrame ==
    ASSUME IndInv, NEW u \in Users, OnlyCmd(u), CmdGood(u, cmd[u])'
    PROVE  IndInv'
<1>1. Grows
  BY DEF OnlyCmd, IndInv, Grows, OwnersOK, SubnetIds
<1>2. QED
  BY <1>1, Frame DEF OnlyCmd, IndInv, SidecarOK, FileOK

(* The command line before a command is typed.                          *)
LEMMA IdleTyped == PublicAssumption => Idle \in Commands /\ Idle.pc = "idle"
BY DEF PublicAssumption, Idle, Commands, Pcs

(* A transaction read from a file is whole.                             *)
LEMMA FileTx ==
    ASSUME FileOK, NEW p \in Paths, IsTx(file[p])
    PROVE  TxGood(file[p])
BY DEF FileOK, IsTx, NoTx, Corrupt

(* A command that ends, ...                                             *)
LEMMA FinishGood ==
    ASSUME IndInv, PublicAssumption, NEW u \in Users, NEW res \in {"ok", "err"}, Finish(u, res)
    PROVE  /\ DOMAIN cmd' = Users /\ \A v \in Users \ {u} : cmd'[v] = cmd[v]
           /\ CmdGood(u, cmd[u])'
<1>1. CmdOK(cmd[u]) /\ DOMAIN cmd = Users
  BY DEF IndInv, CmdGood
<1>2. cmd'[u] = [Idle EXCEPT !.kind = cmd[u].kind, !.res = res]
  BY <1>1 DEF Finish
<1>3. CmdOK(cmd[u])'
  BY <1>1, <1>2, IdleTyped DEF CmdOK, Commands
<1>4. cmd'[u].pc = "idle"
  BY <1>2 DEF Idle
<1>5. KeysOK(u, cmd[u])' /\ HoldsOK(cmd[u])'
  BY <1>4 DEF KeysOK, HoldsOK
<1>6. QED
  BY <1>1, <1>3, <1>5 DEF Finish, CmdGood

(* ... and one that ends and changes nothing else.                      *)
LEMMA FinishFrame ==
    ASSUME IndInv, PublicAssumption, NEW u \in Users, NEW res \in {"ok", "err"}, Finish(u, res),
           UNCHANGED <<owners, accepted, sidecar, file, nextId>>
    PROVE  IndInv'
BY FinishGood, CmdFrame DEF OnlyCmd

(* The commands are typed.                                              *)
LEMMA BeginDeployStep ==
    ASSUME IndInv, PublicAssumption, NEW u \in Users, NEW p \in Paths, BeginDeploy(u, p)
    PROVE  IndInv'
<1>1. /\ DOMAIN cmd = Users /\ CmdOK(cmd[u]) /\ KeysOK(u, cmd[u]) /\ HoldsOK(cmd[u])
      /\ OwnersOK /\ SidecarOK /\ FileOK
  BY DEF IndInv, CmdGood
<1>2. OnlyCmd(u)
  BY <1>1 DEF BeginDeploy, OnlyCmd
<1>3. cmd'[u] \in Commands
  <2> DEFINE q == IF sidecar[u].sub # 0 /\ sidecar[u].chain = 0 THEN "owners" ELSE "keys"
             s == IF sidecar[u].sub # 0 /\ sidecar[u].chain = 0 THEN sidecar[u].sub ELSE 0
  <2>1. cmd'[u] = [Idle EXCEPT !.kind = "deploy", !.path = p, !.pc = q, !.sub = s]
    BY <1>1 DEF BeginDeploy
  <2>2. q \in Pcs /\ s \in 0..MaxIds
    BY <1>1 DEF Pcs, SidecarOK, PublicAssumption
  <2> HIDE DEF q, s
  <2>3. QED
    BY <2>1, <2>2, IdleTyped DEF Commands
<1>4. CmdOK(cmd[u])'
  BY <1>1, <1>3, IdleTyped DEF BeginDeploy, CmdOK, Commands, SubnetIds, SidecarOK
<1>5. KeysOK(u, cmd[u])'
  BY <1>1, IdleTyped DEF BeginDeploy, CmdOK, Commands, KeysOK, Builds, Signs, Chosen
<1>6. HoldsOK(cmd[u])'
  BY <1>1, IdleTyped DEF BeginDeploy, CmdOK, Commands, HoldsOK, KeysOK, Builds, Signs
<1>7. QED
  BY <1>2, <1>4, <1>5, <1>6, CmdFrame DEF CmdGood

LEMMA BeginDeployIntoStep ==
    ASSUME IndInv, PublicAssumption, NEW u \in Users, NEW p \in Paths, NEW s \in SubnetIds,
           BeginDeployInto(u, p, s)
    PROVE  IndInv'
<1>1. /\ DOMAIN cmd = Users /\ CmdOK(cmd[u]) /\ KeysOK(u, cmd[u]) /\ HoldsOK(cmd[u])
      /\ OwnersOK /\ SidecarOK /\ FileOK
  BY DEF IndInv, CmdGood
<1>2. OnlyCmd(u)
  BY <1>1 DEF BeginDeployInto, OnlyCmd
<1>3. cmd'[u] \in Commands
  <2>1. cmd'[u] = [Idle EXCEPT !.kind = "deploy", !.path = p, !.pc = "owners", !.sub = s]
    BY <1>1 DEF BeginDeployInto
  <2>2. s \in 0..MaxIds /\ "owners" \in Pcs
    BY DEF SubnetIds, Pcs
  <2>3. QED
    BY <2>1, <2>2, IdleTyped DEF Commands
<1>4. CmdOK(cmd[u])'
  BY <1>1, <1>3, IdleTyped DEF BeginDeployInto, CmdOK, Commands, SubnetIds
<1>5. KeysOK(u, cmd[u])'
  BY <1>1, IdleTyped DEF BeginDeployInto, CmdOK, Commands, KeysOK, Builds, Signs, Chosen
<1>6. HoldsOK(cmd[u])'
  BY <1>1, IdleTyped DEF BeginDeployInto, CmdOK, Commands, HoldsOK, KeysOK, Builds, Signs
<1>7. QED
  BY <1>2, <1>4, <1>5, <1>6, CmdFrame DEF CmdGood

LEMMA BeginValidatorStep ==
    ASSUME IndInv, PublicAssumption, NEW u \in Users, NEW p \in Paths, BeginValidator(u, p)
    PROVE  IndInv'
<1>1. /\ DOMAIN cmd = Users /\ CmdOK(cmd[u]) /\ KeysOK(u, cmd[u]) /\ HoldsOK(cmd[u])
      /\ OwnersOK /\ SidecarOK /\ FileOK
  BY DEF IndInv, CmdGood
<1>2. OnlyCmd(u)
  BY <1>1 DEF BeginValidator, OnlyCmd
<1>3. cmd'[u] \in Commands
  BY <1>1, IdleTyped DEF BeginValidator, Commands, Pcs, SidecarOK
<1>4. CmdOK(cmd[u])'
  BY <1>1, <1>3, IdleTyped DEF BeginValidator, CmdOK, Commands, SubnetIds, SidecarOK
<1>5. KeysOK(u, cmd[u])'
  BY <1>1, IdleTyped DEF BeginValidator, CmdOK, Commands, KeysOK, Builds, Signs, Chosen
<1>6. HoldsOK(cmd[u])'
  BY <1>1, IdleTyped DEF BeginValidator, CmdOK, Commands, HoldsOK, KeysOK, Builds, Signs
<1>7. QED
  BY <1>2, <1>4, <1>5, <1>6, CmdFrame DEF CmdGood

LEMMA BeginSignStep ==
    ASSUME IndInv, PublicAssumption, NEW u \in Users, NEW p \in Paths, BeginSign(u, p)
    PROVE  IndInv'
<1>1. /\ DOMAIN cmd = Users /\ CmdOK(cmd[u]) /\ KeysOK(u, cmd[u]) /\ HoldsOK(cmd[u])
      /\ OwnersOK /\ SidecarOK /\ FileOK
  BY DEF IndInv, CmdGood
<1>2. OnlyCmd(u)
  BY <1>1 DEF BeginSign, OnlyCmd
<1>3. cmd'[u] \in Commands
  <2>1. cmd'[u] = [Idle EXCEPT !.kind = "sign", !.path = p, !.pc = "owners",
                              !.sub = file[p].sub, !.tx = file[p]]
    BY <1>1 DEF BeginSign
  <2>2. TxGood(file[p])
    BY <1>1, FileTx DEF BeginSign
  <2>3. file[p].sub \in 0..MaxIds /\ "owners" \in Pcs
    BY <1>1, <2>2 DEF TxGood, TxOK, SubnetIds, SidecarOK, Pcs
  <2>4. file[p] \in Tx
    BY <2>2 DEF TxGood, TxOK
  <2>5. QED
    BY <2>1, <2>3, <2>4, IdleTyped DEF Commands
<1>4. CmdOK(cmd[u])'
  BY <1>1, <1>3, IdleTyped, FileTx DEF BeginSign, CmdOK, Commands, SubnetIds, TxGood, TxOK
<1>5. KeysOK(u, cmd[u])'
  BY <1>1, IdleTyped, FileTx DEF BeginSign, CmdOK, Commands, KeysOK, Builds, Signs, Chosen
<1>6. HoldsOK(cmd[u])'
  BY <1>1, IdleTyped, FileTx DEF BeginSign, CmdOK, Commands, HoldsOK, KeysOK, Builds, Signs,
      TxGood, TxOK, SubnetIds
<1>7. QED
  BY <1>2, <1>4, <1>5, <1>6, CmdFrame DEF CmdGood

LEMMA BeginCommitStep ==
    ASSUME IndInv, PublicAssumption, NEW u \in Users, NEW p \in Paths, BeginCommit(u, p)
    PROVE  IndInv'
<1>1. /\ DOMAIN cmd = Users /\ CmdOK(cmd[u]) /\ KeysOK(u, cmd[u]) /\ HoldsOK(cmd[u])
      /\ OwnersOK /\ SidecarOK /\ FileOK
  BY DEF IndInv, CmdGood
<1>2. OnlyCmd(u)
  BY <1>1 DEF BeginCommit, OnlyCmd
<1>3. cmd'[u] \in Commands
  <2>1. cmd'[u] = [Idle EXCEPT !.kind = "commit", !.path = p, !.pc = "owners",
                              !.sub = sidecar[u].sub, !.tx = file[p]]
    BY <1>1 DEF BeginCommit
  <2>2. TxGood(file[p])
    BY <1>1, FileTx DEF BeginCommit
  <2>3. sidecar[u].sub \in 0..MaxIds /\ "owners" \in Pcs
    BY <1>1, <2>2 DEF TxGood, TxOK, SubnetIds, SidecarOK, Pcs
  <2>4. file[p] \in Tx
    BY <2>2 DEF TxGood, TxOK
  <2>5. QED
    BY <2>1, <2>3, <2>4, IdleTyped DEF Commands
<1>4. CmdOK(cmd[u])'
  BY <1>1, <1>3, IdleTyped, FileTx DEF BeginCommit, CmdOK, Commands, SubnetIds, TxGood, TxOK,
      SidecarOK
<1>5. KeysOK(u, cmd[u])'
  BY <1>1, IdleTyped, FileTx DEF BeginCommit, CmdOK, Commands, KeysOK, Builds, Signs, Chosen
<1>6. HoldsOK(cmd[u])'
  BY <1>1, IdleTyped, FileTx DEF BeginCommit, CmdOK, Commands, HoldsOK, KeysOK, Builds, Signs,
      TxGood, TxOK, SubnetIds
<1>7. QED
  BY <1>2, <1>4, <1>5, <1>6, CmdFrame DEF CmdGood

(* What comes before a transaction is built.                            *)
LEMMA ChooseKeysStep ==
    ASSUME IndInv, PublicAssumption, NEW u \in Users, NEW o \in OwnerChoices, ChooseKeys(u, o)
    PROVE  IndInv'
<1>1. /\ DOMAIN cmd = Users /\ CmdOK(cmd[u]) /\ KeysOK(u, cmd[u]) /\ HoldsOK(cmd[u])
      /\ OwnersOK /\ SidecarOK /\ FileOK
  BY DEF IndInv, CmdGood
<1>2. o.keys \in Seq(Keys) /\ o.thr \in Nat \ {0}
  BY DEF PublicAssumption
<1>3. PICK A \in AuthChoices(u, o.keys, o.thr) :
        cmd' = [cmd EXCEPT ![u].pc = "subnet", ![u].ctl = o.keys, ![u].thr = o.thr,
            ![u].auth = A]
  BY DEF ChooseKeys
<1>4. Chosen(u, A, o.keys, o.thr) /\ A \in SUBSET Keys
  BY <1>2, ChoicesFit
<1>5. cmd'[u] = [cmd[u] EXCEPT !.pc = "subnet", !.ctl = o.keys, !.thr = o.thr, !.auth = A]
  BY <1>1, <1>3
<1>6. cmd'[u] \in Commands
  BY <1>1, <1>2, <1>4, <1>5 DEF CmdOK, Commands, Pcs
<1>7. OnlyCmd(u) /\ cmd[u].pc = "keys"
  BY <1>1, <1>3 DEF ChooseKeys, OnlyCmd
<1>8. CmdOK(cmd[u])'
  BY <1>1, <1>5, <1>6 DEF CmdOK, Commands
<1>9. KeysOK(u, cmd[u])'
  BY <1>1, <1>2, <1>4, <1>5, <1>7 DEF KeysOK, CmdOK, Commands, Builds, Signs, Chosen
<1>10. HoldsOK(cmd[u])'
  BY <1>1, <1>5 DEF HoldsOK, CmdOK, Commands
<1>11. QED
  BY <1>7, <1>8, <1>9, <1>10, CmdFrame DEF CmdGood

(* A new subnet, whatever the client hears of it.                          *)
LEMMA OwnGrows ==
    ASSUME IndInv, PublicAssumption, NEW u \in Users, cmd[u].pc = "subnet", nextId <= MaxIds,
           Own(u), nextId' = nextId + 1
    PROVE  /\ Grows /\ nextId \in SubnetIds'
           /\ RangeOf(owners'[nextId].keys) = RangeOf(cmd[u].ctl)
           /\ owners'[nextId].thr = cmd[u].thr
<1> DEFINE new == [keys |-> Ordered[RangeOf(cmd[u].ctl)], thr |-> cmd[u].thr]
<1>1. OwnersOK /\ cmd[u].ctl \in Seq(Keys) /\ cmd[u].thr \in Nat \ {0}
  BY DEF IndInv, CmdGood, CmdOK, Commands, KeysOK
<1>2. /\ RangeOf(cmd[u].ctl) \in SUBSET Keys /\ new.keys \in Seq(Keys)
      /\ RangeOf(new.keys) = RangeOf(cmd[u].ctl)
  BY <1>1, RangeFinite, OrderedOnce
<1>3. new \in Owner /\ new # NoSubnet
  BY <1>1, <1>2 DEF Owner, NoSubnet
<1>4. nextId \in 1..MaxIds /\ owners' = [owners EXCEPT ![nextId] = new]
  BY <1>1 DEF Own, OwnersOK, PublicAssumption
<1>5. owners'[nextId] = new /\ \A s \in 1..MaxIds : s # nextId => owners'[s] = owners[s]
  BY <1>1, <1>4 DEF OwnersOK
<1>6. owners' \in [1..MaxIds -> Owner]
  BY <1>1, <1>3, <1>4 DEF OwnersOK
<1>7. \A s \in SubnetIds' : s = nextId \/ s \in SubnetIds
  BY <1>5 DEF SubnetIds
<1>8. OwnersOK'
  <2>1. (nextId \in 1..(MaxIds + 1))' /\ \A s \in SubnetIds' : s < nextId'
    BY <1>1, <1>4, <1>7 DEF OwnersOK, PublicAssumption, SubnetIds
  <2>2. \A s \in SubnetIds' : \E S \in SUBSET Keys : owners'[s].keys = Ordered[S]
    <3>1. ASSUME NEW s \in SubnetIds', s # nextId
          PROVE  \E S \in SUBSET Keys : owners'[s].keys = Ordered[S]
      BY <1>1, <1>5, <1>7, <3>1 DEF OwnersOK, SubnetIds
    <3>2. QED
      BY <1>2, <1>5, <3>1
  <2>3. QED
    BY <1>6, <2>1, <2>2 DEF OwnersOK
<1>9. \A s \in SubnetIds : s \in SubnetIds' /\ owners'[s] = owners[s]
  BY <1>1, <1>4, <1>5 DEF OwnersOK, SubnetIds
<1>10. QED
  BY <1>2, <1>3, <1>4, <1>5, <1>8, <1>9 DEF Grows, SubnetIds

LEMMA CreateSubnetStep ==
    ASSUME IndInv, PublicAssumption, NEW u \in Users, CreateSubnet(u)
    PROVE  IndInv'
<1>1. /\ DOMAIN cmd = Users /\ CmdOK(cmd[u]) /\ KeysOK(u, cmd[u]) /\ HoldsOK(cmd[u])
      /\ OwnersOK /\ SidecarOK /\ FileOK
  BY DEF IndInv, CmdGood
<1>2. /\ Grows /\ nextId \in SubnetIds'
      /\ RangeOf(owners'[nextId].keys) = RangeOf(cmd[u].ctl)
      /\ owners'[nextId].thr = cmd[u].thr
  BY OwnGrows DEF CreateSubnet
<1>3. cmd'[u] = [cmd[u] EXCEPT !.pc = "order", !.sub = nextId] /\ cmd[u].pc = "subnet"
  BY <1>1 DEF CreateSubnet
<1>4. nextId \in 0..MaxIds
  BY <1>1 DEF CreateSubnet, OwnersOK, PublicAssumption
<1>5. CmdOK(cmd[u])'
  BY <1>1, <1>2, <1>3, <1>4 DEF CmdOK, Commands, Pcs
<1>6. KeysOK(u, cmd[u])'
  BY <1>1, <1>2, <1>3 DEF KeysOK, CmdOK, Commands, Chosen
<1>7. HoldsOK(cmd[u])'
  BY <1>1, <1>3 DEF HoldsOK, CmdOK, Commands
<1>8. QED
  BY <1>1, <1>2, <1>5, <1>6, <1>7, Frame DEF CreateSubnet, CmdGood, SidecarOK, FileOK

LEMMA CreateSubnetFailsStep ==
    ASSUME IndInv, PublicAssumption, NEW u \in Users, CreateSubnetFails(u)
    PROVE  IndInv'
<1>1. CASE UNCHANGED <<owners, nextId>>
  BY <1>1, FinishFrame DEF CreateSubnetFails
<1>2. CASE Own(u) /\ nextId' = nextId + 1
  <2>1. Grows
    BY <1>2, OwnGrows DEF CreateSubnetFails
  <2>2. QED
    BY <2>1, FinishGood, Frame DEF CreateSubnetFails, IndInv, SidecarOK, FileOK
<1>3. QED
  BY <1>1, <1>2 DEF CreateSubnetFails

LEMMA OrderKeysStep ==
    ASSUME IndInv, PublicAssumption, NEW u \in Users, OrderKeys(u)
    PROVE  IndInv'
<1>1. /\ DOMAIN cmd = Users /\ CmdOK(cmd[u]) /\ KeysOK(u, cmd[u]) /\ HoldsOK(cmd[u])
      /\ OwnersOK /\ SidecarOK /\ FileOK
  BY DEF IndInv, CmdGood
<1>2. OnlyCmd(u)
  BY <1>1 DEF OrderKeys, OnlyCmd
<1>3. cmd'[u] \in Commands
  BY <1>1 DEF OrderKeys, CmdOK, Commands, Pcs, OwnersOK, SubnetIds, Owner
<1>4. CmdOK(cmd[u])'
  BY <1>1, <1>3, IdleTyped DEF OrderKeys, CmdOK, Commands, SubnetIds
<1>5. KeysOK(u, cmd[u])'
  BY <1>1, IdleTyped DEF OrderKeys, CmdOK, Commands, KeysOK, Builds, Signs, Chosen, OwnersOK,
      SubnetIds
<1>6. HoldsOK(cmd[u])'
  BY <1>1, IdleTyped DEF OrderKeys, CmdOK, Commands, HoldsOK, KeysOK, Builds, Signs
<1>7. QED
  BY <1>2, <1>4, <1>5, <1>6, CmdFrame DEF CmdGood

LEMMA GetOwnersStep ==
    ASSUME IndInv, PublicAssumption, NEW u \in Users, GetOwners(u)
    PROVE  IndInv'
<1>1. /\ DOMAIN cmd = Users /\ CmdOK(cmd[u]) /\ KeysOK(u, cmd[u]) /\ HoldsOK(cmd[u])
      /\ OwnersOK /\ SidecarOK /\ FileOK
  BY DEF IndInv, CmdGood
<1>2. OnlyCmd(u)
  BY <1>1 DEF GetOwners, OnlyCmd
<1>3. cmd'[u] \in Commands
  BY <1>1 DEF GetOwners, CmdOK, Commands, Pcs, OwnersOK, SubnetIds, Owner, KeysOK
<1>4. CmdOK(cmd[u])'
  BY <1>1, <1>3, IdleTyped DEF GetOwners, CmdOK, Commands, SubnetIds
<1>5. KeysOK(u, cmd[u])'
  BY <1>1, IdleTyped DEF GetOwners, CmdOK, Commands, KeysOK, Builds, Signs, Chosen
<1>6. HoldsOK(cmd[u])'
  BY <1>1, IdleTyped, ZenonT(60)
  DEF GetOwners, CmdOK, Commands, HoldsOK, KeysOK, Builds, Signs, TxGood,
      TxOK, SubnetIds
<1>7. QED
  BY <1>2, <1>4, <1>5, <1>6, CmdFrame DEF CmdGood

LEMMA ChooseAuthStep ==
    ASSUME IndInv, PublicAssumption, NEW u \in Users, ChooseAuth(u)
    PROVE  IndInv'
<1>1. /\ DOMAIN cmd = Users /\ CmdOK(cmd[u]) /\ KeysOK(u, cmd[u]) /\ HoldsOK(cmd[u])
      /\ OwnersOK /\ SidecarOK /\ FileOK
  BY DEF IndInv, CmdGood
<1>2. CASE Finish(u, "err")
  BY <1>2, FinishFrame DEF ChooseAuth
<1>3. ASSUME NEW A \in AuthChoices(u, cmd[u].ctl, cmd[u].thr),
             cmd' = [cmd EXCEPT ![u].pc = "build", ![u].auth = A]
      PROVE  IndInv'
  <2>1. Chosen(u, A, cmd[u].ctl, cmd[u].thr) /\ A \in SUBSET Keys
    <3>1. cmd[u].ctl \in Seq(Keys) /\ cmd[u].thr \in Nat
      BY <1>1 DEF CmdOK, Commands
    <3>2. QED
      BY <3>1, ChoicesFit, SMTT(30)
  <2>2. cmd'[u] = [cmd[u] EXCEPT !.pc = "build", !.auth = A] /\ cmd[u].pc = "auth"
    BY <1>1, <1>3 DEF ChooseAuth
  <2>3. CmdOK(cmd[u])'
    BY <1>1, <2>1, <2>2 DEF ChooseAuth, CmdOK, Commands, Pcs, SubnetIds
  <2>4. KeysOK(u, cmd[u])'
    BY <1>1, <2>1, <2>2 DEF ChooseAuth, KeysOK, CmdOK, Commands, Chosen, Builds, Signs
  <2>5. HoldsOK(cmd[u])'
    BY <1>1, <2>2 DEF HoldsOK, CmdOK, Commands
  <2>6. OnlyCmd(u)
    BY <1>1, <1>3 DEF ChooseAuth, OnlyCmd
  <2>7. QED
    BY <2>3, <2>4, <2>5, <2>6, CmdFrame DEF CmdGood
<1>4. QED
  BY <1>2, <1>3 DEF ChooseAuth

(* A deployer that fails ends, or goes on to record what it has.        *)
LEMMA DeployerFailsGood ==
    ASSUME IndInv, PublicAssumption, NEW u \in Users, DeployerFails(u),
           cmd[u].pc \in {"build", "issue"}
    PROVE  /\ DOMAIN cmd' = Users /\ \A v \in Users \ {u} : cmd'[v] = cmd[v]
           /\ UNCHANGED owners => CmdGood(u, cmd[u])'
<1>1. /\ DOMAIN cmd = Users /\ CmdOK(cmd[u]) /\ KeysOK(u, cmd[u]) /\ HoldsOK(cmd[u])
      /\ OwnersOK /\ SidecarOK /\ FileOK
  BY DEF IndInv, CmdGood
<1>2. CASE Finish(u, "err")
  BY <1>2, FinishGood
<1>3. CASE cmd' = [cmd EXCEPT ![u].pc = "record", ![u].tx = NoTx]
  <2>1. cmd'[u] = [cmd[u] EXCEPT !.pc = "record", !.tx = NoTx]
    BY <1>1, <1>3
  <2>2. UNCHANGED owners => CmdOK(cmd[u])'
    BY <1>1, <2>1 DEF CmdOK, Commands, Pcs, SubnetIds
  <2>3. KeysOK(u, cmd[u])'
    BY <1>1, <2>1 DEF KeysOK, CmdOK, Commands
  <2>4. HoldsOK(cmd[u])'
    BY <1>1, <2>1 DEF HoldsOK, CmdOK, Commands
  <2>5. QED
    BY <1>1, <1>3, <2>2, <2>3, <2>4 DEF CmdGood
<1>4. QED
  BY <1>2, <1>3 DEF DeployerFails

(* A transaction is built, issued or saved, and recorded.               *)
LEMMA BuildStep ==
    ASSUME IndInv, PublicAssumption, NEW u \in Users, Build(u)
    PROVE  IndInv'
<1> DEFINE o == owners[cmd[u].sub]
           idx == SigIndices(o.keys, WalletOf[u] \cup cmd[u].auth, o.thr)
           tx == [id |-> nextId, sub |-> cmd[u].sub, idx |-> idx,
                  kind |-> IF cmd[u].kind = "deploy" THEN "chain" ELSE "validator",
                  signed |-> SignedBy(u, o.keys, idx)]
           next == IF RemainingSigners(tx, cmd[u].ctl) = {} THEN "issue" ELSE "save"
<1>1. /\ DOMAIN cmd = Users /\ CmdOK(cmd[u]) /\ KeysOK(u, cmd[u]) /\ HoldsOK(cmd[u])
      /\ OwnersOK /\ SidecarOK /\ FileOK
  BY DEF IndInv, CmdGood
<1>2. /\ cmd[u].pc = "build" /\ Builds(cmd[u]) /\ cmd[u].sub \in SubnetIds
      /\ cmd[u].ctl = o.keys /\ cmd[u].thr = o.thr
      /\ Chosen(u, cmd[u].auth, o.keys, o.thr)
  BY <1>1 DEF Build, CmdOK, KeysOK, Commands, Pcs
<1>3. o \in Owner /\ nextId \in 1..MaxIds
  BY <1>1, <1>2 DEF Build, OwnersOK, SubnetIds, PublicAssumption
<1>4. CASE DeployerFails(u) /\ UNCHANGED nextId
  <2>1. Grows
    BY <1>1, <1>4 DEF Build, Grows, OwnersOK, SubnetIds
  <2>2. QED
    BY <1>2, <1>4, <2>1, DeployerFailsGood, Frame DEF Build, IndInv, SidecarOK, FileOK
<1>5. CASE /\ ~(Cardinality(idx) < o.thr)
           /\ cmd' = [cmd EXCEPT ![u].pc = next, ![u].tx = tx]
           /\ nextId' = nextId + 1
  <2>1. PICK S \in SUBSET Keys : o.keys = Ordered[S]
    BY <1>1, <1>2 DEF OwnersOK
  <2>2. Cardinality(tx.idx) = o.thr /\ AuthSigners(tx, o.keys) = cmd[u].auth
    <3>1. o.thr \in Nat
      BY <1>3 DEF Owner
    <3>2. tx.idx = SigIndices(o.keys, WalletOf[u] \cup cmd[u].auth, o.thr)
      OBVIOUS
    <3>3. Cardinality(tx.idx) = o.thr
      BY <1>3, <1>5, <3>1, SigIndicesFew DEF Owner
    <3> HIDE DEF tx, o
    <3>4. Chosen(u, cmd[u].auth, o.keys, o.thr)
      BY <1>2
    <3>5. /\ o.keys \in Seq(Keys)
          /\ \A i, j \in 1..Len(o.keys) : o.keys[i] = o.keys[j] => i = j
      BY <2>1, OrderedOnce
    <3>6. QED
      BY <3>1, <3>2, <3>3, <3>4, <3>5, SignersChosen
  <2>3. idx \subseteq 1..Len(o.keys) /\ tx.signed \subseteq idx
    BY DEF SigIndices, SignedBy
  <2> HIDE DEF idx
  <2>4. TxGood(tx)
    BY <1>2, <1>3, <2>2, <2>3 DEF TxGood, TxOK, Tx, SubnetIds, Owner
  <2>5. AuthSigners(tx, cmd[u].ctl) = cmd[u].auth
    BY <1>2, <2>2
  <2>6. next = "issue" => tx.signed = tx.idx
    <3>1. \A i \in idx \ tx.signed : cmd[u].ctl[i] \in RemainingSigners(tx, cmd[u].ctl)
      BY DEF RemainingSigners
    <3>2. QED
      BY <2>3, <3>1
  <2>7. next = "save" => tx.signed # tx.idx
    BY DEF RemainingSigners
  <2>8. next \in {"issue", "save"} /\ (cmd[u].kind = "deploy" => tx.kind = "chain")
    OBVIOUS
  <2> HIDE DEF tx, next
  <2>9. cmd'[u] = [cmd[u] EXCEPT !.pc = next, !.tx = tx]
    BY <1>1, <1>5
  <2>10. UNCHANGED <<owners, accepted, sidecar, file>>
    BY DEF Build
  <2>11. CmdOK(cmd[u])'
    BY <1>1, <1>2, <2>4, <2>8, <2>9, <2>10 DEF CmdOK, Commands, Pcs, TxGood, TxOK, SubnetIds
  <2>12. KeysOK(u, cmd[u])'
    BY <1>1, <1>2, <2>8, <2>9 DEF KeysOK, CmdOK, Commands, Builds
  <2>13. HoldsOK(cmd[u])'
    BY <1>1, <1>2, <2>4, <2>5, <2>6, <2>7, <2>8, <2>9, <2>10, SMTT(30)
    DEF HoldsOK, CmdOK, Commands, Builds, Signs, TxGood, TxOK, SubnetIds, AuthSigners
  <2>14. Grows
    BY <1>1, <1>3, <1>5, <2>10 DEF Grows, OwnersOK, SubnetIds, PublicAssumption
  <2>15. QED
    BY <1>1, <1>5, <2>10, <2>11, <2>12, <2>13, <2>14, Frame DEF CmdGood, SidecarOK, FileOK
<1>6. QED
  BY <1>4, <1>5 DEF Build

LEMMA BuildFailsStep ==
    ASSUME IndInv, PublicAssumption, NEW u \in Users, BuildFails(u)
    PROVE  IndInv'
BY DeployerFailsGood, CmdFrame DEF BuildFails, OnlyCmd

(* What is issued was held by a command that may issue it.                 *)
LEMMA IssuedGood ==
    ASSUME IndInv, NEW u \in Users, cmd[u].pc = "issue",
           accepted' \in {accepted, accepted \cup {cmd[u].tx}},
           UNCHANGED <<owners, sidecar, file, nextId>>,
           DOMAIN cmd' = Users, \A v \in Users \ {u} : cmd'[v] = cmd[v],
           CmdGood(u, cmd[u])'
    PROVE  IndInv'
<1>1. TxGood(cmd[u].tx) /\ cmd[u].tx.signed = cmd[u].tx.idx
  BY DEF IndInv, CmdGood, HoldsOK
<1>2. Grows
  BY DEF IndInv, Grows, OwnersOK, SubnetIds
<1>3. QED
  BY <1>1, <1>2, Frame DEF IndInv, SidecarOK, FileOK

LEMMA IssueStep ==
    ASSUME IndInv, PublicAssumption, NEW u \in Users, Issue(u)
    PROVE  IndInv'
<1>1. /\ DOMAIN cmd = Users /\ CmdOK(cmd[u]) /\ KeysOK(u, cmd[u]) /\ HoldsOK(cmd[u])
      /\ OwnersOK /\ SidecarOK /\ FileOK
  BY DEF IndInv, CmdGood
<1>2. CASE Finish(u, "ok")
  BY <1>2, FinishGood, IssuedGood DEF Issue
<1>3. CASE cmd[u].tx.kind = "chain" /\ Goto(u, "record")
  <2>1. cmd'[u] = [cmd[u] EXCEPT !.pc = "record"] /\ cmd[u].pc = "issue"
    BY <1>1, <1>3 DEF Goto, Issue
  <2>2. CmdOK(cmd[u])'
    BY <1>1, <2>1 DEF Issue, CmdOK, Commands, Pcs, SubnetIds
  <2>3. KeysOK(u, cmd[u])'
    BY <1>1, <2>1 DEF KeysOK, CmdOK, Commands
  <2>4. HoldsOK(cmd[u])'
    BY <1>1, <1>3, <2>1 DEF Issue, HoldsOK, CmdOK, Commands, TxGood, TxOK, SubnetIds
  <2>5. QED
    BY <1>1, <1>3, <2>2, <2>3, <2>4, IssuedGood DEF Issue, Goto, CmdGood
<1>4. QED
  BY <1>2, <1>3 DEF Issue, AfterIssue

LEMMA IssueFailsStep ==
    ASSUME IndInv, PublicAssumption, NEW u \in Users, IssueFails(u)
    PROVE  IndInv'
BY DeployerFailsGood, IssuedGood DEF IssueFails

LEMMA SaveStep ==
    ASSUME IndInv, PublicAssumption, NEW u \in Users, Save(u)
    PROVE  IndInv'
<1>1. /\ DOMAIN cmd = Users /\ CmdOK(cmd[u]) /\ KeysOK(u, cmd[u]) /\ HoldsOK(cmd[u])
      /\ OwnersOK /\ SidecarOK /\ FileOK
  BY DEF IndInv, CmdGood
<1>2. Grows
  BY <1>1 DEF Save, Grows, OwnersOK, SubnetIds
<1>3. TxGood(cmd[u].tx) /\ cmd[u].path \in Paths
  BY <1>1 DEF Save, HoldsOK, KeysOK
<1>4. CASE Finish(u, "ok")
  BY <1>1, <1>2, <1>3, <1>4, FinishGood, Frame DEF Save, FileOK, SidecarOK
<1>5. CASE cmd[u].kind = "deploy" /\ Goto(u, "record")
  <2>1. cmd'[u] = [cmd[u] EXCEPT !.pc = "record"] /\ cmd[u].pc = "save"
    BY <1>1, <1>5 DEF Goto, Save
  <2>2. CmdOK(cmd[u])'
    BY <1>1, <2>1 DEF Save, CmdOK, Commands, Pcs, SubnetIds
  <2>3. KeysOK(u, cmd[u])'
    BY <1>1, <2>1 DEF KeysOK, CmdOK, Commands
  <2>4. HoldsOK(cmd[u])'
    BY <1>1, <1>5, <2>1 DEF Save, HoldsOK, CmdOK, Commands, TxGood, TxOK, SubnetIds
  <2>5. QED
    BY <1>1, <1>2, <1>3, <1>5, <2>2, <2>3, <2>4, Frame DEF Save, Goto, CmdGood, FileOK,
        SidecarOK
<1>6. QED
  BY <1>4, <1>5 DEF Save, AfterSave

LEMMA RecordStep ==
    ASSUME IndInv, PublicAssumption, NEW u \in Users, Record(u)
    PROVE  IndInv'
<1> DEFINE id == IF cmd[u].tx.signed = cmd[u].tx.idx THEN cmd[u].tx.id ELSE 0
<1>1. /\ DOMAIN cmd = Users /\ CmdOK(cmd[u]) /\ KeysOK(u, cmd[u]) /\ HoldsOK(cmd[u])
      /\ OwnersOK /\ SidecarOK /\ FileOK
  BY DEF IndInv, CmdGood
<1>2. cmd[u].sub \in SubnetIds /\ cmd[u].sub \in 0..MaxIds
  BY <1>1 DEF Record, CmdOK, Commands, Pcs
<1>3. cmd[u].tx = NoTx \/ TxGood(cmd[u].tx)
  BY <1>1 DEF Record, HoldsOK
<1>4. id \in 0..MaxIds
  BY <1>3 DEF NoTx, TxGood, TxOK, PublicAssumption
<1>5. sidecar' = [sidecar EXCEPT ![u] = [sub |-> cmd[u].sub, chain |-> id]]
  BY DEF Record
<1> HIDE DEF id
<1>6. /\ sidecar' \in [Users -> [sub : 0..MaxIds, chain : 0..MaxIds]]
      /\ \A v \in Users : sidecar'[v] = sidecar[v] \/ sidecar'[v].sub \in SubnetIds
  BY <1>1, <1>2, <1>4, <1>5 DEF SidecarOK
<1>7. Grows
  BY <1>1 DEF Record, Grows, OwnersOK, SubnetIds
<1>8. QED
  BY <1>1, <1>6, <1>7, FinishGood, Frame DEF Record, FileOK

(* transaction sign and transaction commit.                             *)
LEMMA SignTxStep ==
    ASSUME IndInv, PublicAssumption, NEW u \in Users, SignTx(u)
    PROVE  IndInv'
<1>1. /\ DOMAIN cmd = Users /\ CmdOK(cmd[u]) /\ KeysOK(u, cmd[u]) /\ HoldsOK(cmd[u])
      /\ OwnersOK /\ SidecarOK /\ FileOK
  BY DEF IndInv, CmdGood
<1>2. OnlyCmd(u)
  BY <1>1 DEF SignTx, OnlyCmd
<1>3. cmd'[u] \in Commands
  BY <1>1 DEF SignTx, CmdOK, Commands, Pcs, HoldsOK, TxGood, TxOK, Tx, SignedBy
<1>4. CmdOK(cmd[u])'
  BY <1>1, <1>3, IdleTyped, ZenonT(60)
  DEF SignTx, CmdOK, Commands, SubnetIds, HoldsOK, TxGood, TxOK, Tx,
      SignedBy
<1>5. KeysOK(u, cmd[u])'
  BY <1>1, IdleTyped DEF SignTx, CmdOK, Commands, KeysOK, Builds, Signs, Chosen
<1>6. HoldsOK(cmd[u])'
  BY <1>1, IdleTyped DEF SignTx, CmdOK, Commands, HoldsOK, KeysOK, Builds, Signs, TxGood,
      TxOK, Tx, SubnetIds, SignedBy
<1>7. QED
  BY <1>2, <1>4, <1>5, <1>6, CmdFrame DEF CmdGood

LEMMA TruncateFileStep ==
    ASSUME IndInv, PublicAssumption, NEW u \in Users, TruncateFile(u)
    PROVE  IndInv'
<1>1. /\ DOMAIN cmd = Users /\ CmdOK(cmd[u]) /\ KeysOK(u, cmd[u]) /\ HoldsOK(cmd[u])
      /\ OwnersOK /\ SidecarOK /\ FileOK
  BY DEF IndInv, CmdGood
<1>2. Grows
  BY <1>1 DEF TruncateFile, Grows, OwnersOK, SubnetIds
<1>3. cmd'[u] = [cmd[u] EXCEPT !.pc = "write"] /\ cmd[u].pc = "truncate"
  BY <1>1 DEF Goto, TruncateFile
<1>4. CmdOK(cmd[u])'
  BY <1>1, <1>3 DEF TruncateFile, CmdOK, Commands, Pcs, SubnetIds, TxOK
<1>5. KeysOK(u, cmd[u])'
  BY <1>1, <1>3 DEF KeysOK, CmdOK, Commands, Signs
<1>6. HoldsOK(cmd[u])'
  BY <1>1, <1>3 DEF TruncateFile, HoldsOK, CmdOK, Commands, TxGood, TxOK, SubnetIds
<1>7. QED
  BY <1>1, <1>2, <1>4, <1>5, <1>6, Frame DEF TruncateFile, Goto, CmdGood, FileOK, SidecarOK

LEMMA WriteFileStep ==
    ASSUME IndInv, PublicAssumption, NEW u \in Users, WriteFile(u)
    PROVE  IndInv'
<1>1. /\ DOMAIN cmd = Users /\ CmdOK(cmd[u]) /\ KeysOK(u, cmd[u]) /\ HoldsOK(cmd[u])
      /\ OwnersOK /\ SidecarOK /\ FileOK
  BY DEF IndInv, CmdGood
<1>2. Grows
  BY <1>1 DEF WriteFile, Grows, OwnersOK, SubnetIds
<1>3. TxGood(cmd[u].tx)
  BY <1>1 DEF WriteFile, HoldsOK
<1>4. QED
  BY <1>1, <1>2, <1>3, FinishGood, Frame DEF WriteFile, FileOK, SidecarOK

LEMMA CheckSignedStep ==
    ASSUME IndInv, PublicAssumption, NEW u \in Users, CheckSigned(u)
    PROVE  IndInv'
<1>1. /\ DOMAIN cmd = Users /\ CmdOK(cmd[u]) /\ KeysOK(u, cmd[u]) /\ HoldsOK(cmd[u])
      /\ OwnersOK /\ SidecarOK /\ FileOK
  BY DEF IndInv, CmdGood
<1>2. CASE Finish(u, "err")
  BY <1>2, FinishFrame DEF CheckSigned
<1>3. CASE RemainingSigners(cmd[u].tx, cmd[u].ctl) = {} /\ Goto(u, "issue")
  <2>1. cmd'[u] = [cmd[u] EXCEPT !.pc = "issue"]
    BY <1>1, <1>3 DEF Goto
  <2>2. TxGood(cmd[u].tx) /\ cmd[u].tx.signed = cmd[u].tx.idx
    <3>1. TxGood(cmd[u].tx)
      BY <1>1 DEF CheckSigned, HoldsOK
    <3>2. \A i \in cmd[u].tx.idx \ cmd[u].tx.signed :
            cmd[u].ctl[i] \in RemainingSigners(cmd[u].tx, cmd[u].ctl)
      BY DEF RemainingSigners
    <3>3. QED
      BY <1>3, <3>1, <3>2 DEF TxGood, TxOK
  <2>3. CmdOK(cmd[u])'
    BY <1>1, <2>1, <2>2 DEF CheckSigned, CmdOK, Commands, Pcs, SubnetIds, TxGood, TxOK
  <2>4. KeysOK(u, cmd[u])'
    BY <1>1, <2>1 DEF CheckSigned, KeysOK, CmdOK, Commands, Signs
  <2>5. HoldsOK(cmd[u])'
    BY <1>1, <2>1, <2>2 DEF CheckSigned, HoldsOK, CmdOK, Commands, Builds, TxGood, TxOK,
        SubnetIds
  <2>6. OnlyCmd(u)
    BY <1>1, <1>3 DEF CheckSigned, OnlyCmd, Goto
  <2>7. QED
    BY <2>3, <2>4, <2>5, <2>6, CmdFrame DEF CmdGood
<1>4. QED
  BY <1>2, <1>3 DEF CheckSigned

(* A crash, and what happens to the files between the commands.            *)
LEMMA CrashStep ==
    ASSUME IndInv, PublicAssumption, NEW u \in Users, Crash(u)
    PROVE  IndInv'
<1>1. cmd'[u] = Idle /\ OnlyCmd(u)
  BY DEF Crash, OnlyCmd, IndInv
<1>2. CmdGood(u, cmd[u])'
  BY <1>1, IdleTyped DEF CmdGood, CmdOK, KeysOK, HoldsOK
<1>3. QED
  BY <1>1, <1>2, CmdFrame

(* What the users do between the commands.                              *)
LEMMA OutsideStep ==
    ASSUME IndInv,
           \/ \E p \in Paths : DeleteFile(p) \/ \E q \in Paths : SendFile(p, q)
           \/ \E u, v \in Users : ShareSubnet(u, v)
           \/ UNCHANGED vars
    PROVE  IndInv'
<1>1. UNCHANGED <<owners, accepted, nextId, cmd>>
  BY DEF DeleteFile, SendFile, ShareSubnet, vars
<1>2. SidecarOK'
  BY DEF IndInv, SidecarOK, SubnetIds, DeleteFile, SendFile, ShareSubnet, vars
<1>3. FileOK'
  <2>1. /\ DOMAIN file' = Paths
        /\ \A p \in Paths : file'[p] = NoTx \/ \E q \in Paths : file'[p] = file[q]
    BY DEF IndInv, FileOK, DeleteFile, SendFile, ShareSubnet, vars
  <2>2. QED
    BY <1>1, <2>1 DEF IndInv, FileOK, TxGood, TxOK, SubnetIds
<1>4. OwnersOK' /\ AcceptedOK'
  BY <1>1 DEF IndInv, OwnersOK, AcceptedOK, TxGood, TxOK, SubnetIds
<1>5. ASSUME NEW u \in Users
      PROVE  CmdGood(u, cmd[u])'
  <2>1. CmdOK(cmd[u])' /\ KeysOK(u, cmd[u])'
    BY <1>1 DEF IndInv, CmdGood, CmdOK, KeysOK, TxOK, SubnetIds, Chosen, Builds, Signs
  <2>2. HoldsOK(cmd[u])'
    BY <1>1 DEF IndInv, CmdGood, HoldsOK, TxGood, TxOK, SubnetIds, Builds, Signs, AuthSigners
  <2>3. QED
    BY <2>1, <2>2 DEF CmdGood
<1>6. QED
  BY <1>1, <1>2, <1>3, <1>4, <1>5 DEF IndInv

(* Every step keeps the invariant, ...                                  *)
LEMMA StepInv ==
    ASSUME IndInv, PublicAssumption, [Next]_vars
    PROVE  IndInv'
<1>1. ASSUME NEW u \in Users, Begin(u)
      PROVE  IndInv'
  BY <1>1, BeginDeployStep, BeginDeployIntoStep, BeginValidatorStep, BeginSignStep,
     BeginCommitStep DEF Begin
<1>2. ASSUME NEW u \in Users, Prepare(u)
      PROVE  IndInv'
  <2>1. ASSUME NEW o \in OwnerChoices, ChooseKeysFails(u, o)
        PROVE  IndInv'
    BY <2>1, FinishFrame DEF ChooseKeysFails
  <2>2. CASE GetOwnersFails(u)
    BY <2>2, FinishFrame DEF GetOwnersFails
  <2>3. QED
    BY <1>2, <2>1, <2>2, ChooseKeysStep, CreateSubnetStep, CreateSubnetFailsStep, OrderKeysStep,
       GetOwnersStep, ChooseAuthStep DEF Prepare
<1>3. ASSUME NEW u \in Users, Submit(u)
      PROVE  IndInv'
  <2>1. CASE SaveFails(u)
    BY <2>1, FinishFrame DEF SaveFails
  <2>2. QED
    BY <1>3, <2>1, BuildStep, BuildFailsStep, IssueStep, IssueFailsStep, SaveStep, RecordStep
    DEF Submit
<1>4. ASSUME NEW u \in Users, SignAndCommit(u)
      PROVE  IndInv'
  <2>1. CASE SignRefused(u)
    BY <2>1, FinishFrame DEF SignRefused
  <2>2. CASE OverwriteFails(u)
    BY <2>2, FinishFrame DEF OverwriteFails
  <2>3. QED
    BY <1>4, <2>1, <2>2, SignTxStep, TruncateFileStep, WriteFileStep, CheckSignedStep
    DEF SignAndCommit
<1>5. QED
  BY <1>1, <1>2, <1>3, <1>4, CrashStep, OutsideStep DEF Next, Step

(* ... every initial state has it, ...                                  *)
LEMMA InitInv == PublicAssumption /\ Init => IndInv
<1> SUFFICES ASSUME PublicAssumption, Init
             PROVE  IndInv
  OBVIOUS
<1>1. SubnetIds = {}
  BY DEF Init, SubnetIds
<1>2. OwnersOK
  BY <1>1 DEF Init, OwnersOK, Owner, NoSubnet, PublicAssumption
<1>3. AcceptedOK /\ SidecarOK /\ FileOK
  BY DEF Init, AcceptedOK, SidecarOK, FileOK, NoEntry, PublicAssumption
<1>4. ASSUME NEW u \in Users
      PROVE  CmdGood(u, cmd[u])
  BY IdleTyped DEF Init, CmdGood, CmdOK, KeysOK, HoldsOK
<1>5. QED
  BY <1>2, <1>3, <1>4 DEF IndInv, Init

(* ... so every reachable state has it.                                 *)
LEMMA Inductive == Spec => []IndInv
<1>1. Init => IndInv
  BY InitInv, PublicAssumption
<1>2. IndInv /\ [Next]_vars => IndInv'
  BY StepInv, PublicAssumption
<1>3. QED
  BY <1>1, <1>2, PTL DEF Spec

(* Every variable has its type in every reachable state: the wallet     *)
(* builder and the commands of signing never leave a transaction, a     *)
(* file or an entry of the sidecar that the readers of models.Sidecar   *)
(* and txutils could not read.                                          *)
THEOREM TypeCorrect == Spec => []TypeOK
<1>1. IndInv => TypeOK
  BY DEF IndInv, TypeOK, OwnersOK, AcceptedOK, SidecarOK, FileOK, TxGood, CmdGood
<1>2. QED
  BY <1>1, Inductive, PTL

(* CheckSubnetAuthKeys and GetSubnetAuthKeys see to it that the wallet     *)
(* builder, which picks the signers by itself, picks the keys that the     *)
(* user chose.                                                             *)
THEOREM ChosenKeysSign == Spec => []SignersAreChosen
<1>1. IndInv => SignersAreChosen
  BY DEF IndInv, CmdGood, HoldsOK, Builds, SignersAreChosen
<1>2. QED
  BY <1>1, Inductive, PTL

(* Whoever issues a transaction, and whatever copies of its file went      *)
(* around, the O-Chain gets it with the signatures of a threshold of the   *)
(* owners of its subnet.                                                   *)
THEOREM OnlySignedAccepted == Spec => []AcceptedAreSigned
<1>1. IndInv => AcceptedAreSigned
  BY DEF IndInv, AcceptedOK, TxGood, AcceptedAreSigned
<1>2. QED
  BY <1>1, Inductive, PTL

-----------------------------------------------------------------------------
(* The recorded blockchain.                                                *)

(* A blockchain is recorded by the command that had it accepted.        *)
LEMMA ChainStep ==
    ASSUME IndInv, PublicAssumption, ChainAccepted, [Next]_vars
    PROVE  ChainAccepted'
<1>1. ASSUME UNCHANGED sidecar, accepted \subseteq accepted'
      PROVE  ChainAccepted'
  BY <1>1 DEF ChainAccepted
<1>2. ASSUME NEW u \in Users, Record(u)
      PROVE  ChainAccepted'
  <2> DEFINE id == IF cmd[u].tx.signed = cmd[u].tx.idx THEN cmd[u].tx.id ELSE 0
  <2>1. /\ sidecar' = [sidecar EXCEPT ![u] = [sub |-> cmd[u].sub, chain |-> id]]
        /\ UNCHANGED accepted /\ DOMAIN sidecar = Users
    BY <1>2 DEF Record, IndInv, SidecarOK
  <2>2. HoldsOK(cmd[u]) /\ CmdOK(cmd[u]) /\ cmd[u].pc = "record"
    BY <1>2 DEF Record, IndInv, CmdGood
  <2>3. cmd[u].sub # 0
    BY <2>2 DEF CmdOK, Pcs, SubnetIds, PublicAssumption
  <2>4. id # 0 => cmd[u].tx \in accepted /\ cmd[u].tx.kind = "chain" /\ cmd[u].tx.id = id
    BY <2>2 DEF HoldsOK, NoTx
  <2> HIDE DEF id
  <2>5. ASSUME NEW v \in Users, sidecar'[v].chain # 0
        PROVE  /\ sidecar'[v].sub # 0
               /\ \E t \in accepted' : t.kind = "chain" /\ t.id = sidecar'[v].chain
    <3>1. CASE v = u
      <4>1. sidecar'[v].sub = cmd[u].sub /\ sidecar'[v].chain = id
        BY <2>1, <3>1
      <4>2. QED
        BY <2>1, <2>3, <2>4, <2>5, <4>1
    <3>2. CASE v # u
      BY <2>1, <2>5, <3>2 DEF ChainAccepted
    <3>3. QED
      BY <3>1, <3>2
  <2>6. QED
    BY <2>5 DEF ChainAccepted
<1>3. ASSUME NEW u \in Users, NEW v \in Users, ShareSubnet(u, v)
      PROVE  ChainAccepted'
  BY <1>3 DEF ShareSubnet, ChainAccepted, IndInv, SidecarOK
<1>4. ASSUME NEW u \in Users, Begin(u)
      PROVE  UNCHANGED <<sidecar, accepted>>
  BY <1>4 DEF Begin, BeginDeploy, BeginDeployInto, BeginValidator, BeginSign, BeginCommit
<1>5. ASSUME NEW u \in Users, Prepare(u)
      PROVE  UNCHANGED <<sidecar, accepted>>
  BY <1>5 DEF Prepare, ChooseKeys, ChooseKeysFails, CreateSubnet, CreateSubnetFails, OrderKeys,
     GetOwners, GetOwnersFails, ChooseAuth
<1>6. ASSUME NEW u \in Users, Submit(u)
      PROVE  ChainAccepted'
  <2>1. CASE Build(u)
    BY <1>1, <2>1 DEF Build
  <2>2. CASE ~Build(u)
    BY <1>1, <1>2, <1>6, <2>2 DEF Submit, BuildFails, Issue, IssueFails, Save, SaveFails
  <2>3. QED
    BY <2>1, <2>2
<1>7. ASSUME NEW u \in Users, SignAndCommit(u)
      PROVE  UNCHANGED <<sidecar, accepted>>
  BY <1>7 DEF SignAndCommit, SignTx, SignRefused, TruncateFile, WriteFile, OverwriteFails,
      CheckSigned
<1>8. ASSUME NEW u \in Users, Crash(u)
      PROVE  UNCHANGED <<sidecar, accepted>>
  BY <1>8 DEF Crash
<1>9. ASSUME NEW p \in Paths, DeleteFile(p) \/ \E q \in Paths : SendFile(p, q)
      PROVE  UNCHANGED <<sidecar, accepted>>
  BY <1>9 DEF DeleteFile, SendFile
<1>10. QED
  BY <1>1, <1>3, <1>4, <1>5, <1>6, <1>7, <1>8, <1>9 DEF Next, Step, vars

(* Every recorded blockchain was accepted by the O-Chain.               *)
LEMMA ChainsAccepted == Spec => []ChainAccepted
<1>1. Init => ChainAccepted
  BY DEF Init, ChainAccepted, NoEntry
<1>2. IndInv /\ ChainAccepted /\ [Next]_vars => ChainAccepted'
  BY ChainStep, PublicAssumption
<1>3. QED
  BY <1>1, <1>2, Inductive, PTL DEF Spec

(* No command goes on but that of u.                                    *)
OthersWait(u) == \A v \in Users \ {u} : cmd'[v] = cmd[v]

(* A command that goes on without a new subnet and without recording one:  *)
(* a deploy whose subnet is not recorded goes on to record it.             *)
LEMMA Onward ==
    ASSUME IndInv, NEW d \in Users, OnlyOne(d), NEW u \in Users,
           UNCHANGED <<owners, sidecar>>,
           OthersWait(u),
           cmd'[u].kind = cmd[u].kind, cmd[u].pc \notin {"idle", "record"},
           cmd'[u].pc \notin {"keys", "order"}, cmd'[u].pc = "subnet" => cmd[u].pc = "keys",
           sidecar[d].sub = 0 /\ cmd[u].kind = "deploy"
               /\ cmd[u].pc \notin {"keys", "subnet"} =>
               cmd'[u].pc \in {"build", "issue", "save", "record"},
           cmd[u].kind = "deploy" /\ cmd'[u].pc # "record" => UNCHANGED file
    PROVE  OnlyOne(d)'
<1>1. SubnetIds' = SubnetIds /\ CmdOK(cmd[u])
  BY DEF SubnetIds, IndInv, CmdGood
<1>2. CASE u = d
  BY <1>1, <1>2 DEF OthersWait, OnlyOne, Running, CmdOK, Commands, Pcs
<1>3. CASE u # d
  BY <1>1, <1>3 DEF OthersWait, OnlyOne, Running
<1>4. QED
  BY <1>2, <1>3

(* A new command of one of the users.                                   *)
LEMMA OneBegin ==
    ASSUME IndInv, NEW d \in Users, Alone(d), OnlyOne(d), NEW u \in Users, Begin(u)
    PROVE  OnlyOne(d)'
<1>1. DOMAIN cmd = Users /\ ~Running(u) /\ OthersWait(u)
  BY DEF IndInv, OthersWait, Begin, BeginDeploy, BeginDeployInto, BeginValidator, BeginSign,
      BeginCommit
<1>2. UNCHANGED <<owners, sidecar, file>> /\ SubnetIds' = SubnetIds
  BY DEF Begin, BeginDeploy, BeginDeployInto, BeginValidator, BeginSign, BeginCommit, SubnetIds
<1>3. /\ cmd'[u].pc \in {"keys", "owners"}
      /\ cmd'[u].kind = "deploy" => u \in Deployers
      /\ cmd'[u].pc = "keys" => cmd'[u].kind = "deploy" /\ sidecar[u].sub = 0
      /\ sidecar[u].sub = 0 =>
            cmd'[u].kind = "deploy" /\ (cmd'[u].pc = "keys" \/ SubnetIds # {})
  <2>1. ASSUME NEW p \in Paths, BeginDeploy(u, p)
        PROVE  /\ cmd'[u].kind = "deploy" /\ u \in Deployers
               /\ cmd'[u].pc = IF sidecar[u].sub = 0 THEN "keys" ELSE "owners"
    BY <1>1, <2>1 DEF BeginDeploy, Idle, Alone
  <2>2. ASSUME NEW p \in Paths, NEW s \in SubnetIds, BeginDeployInto(u, p, s)
        PROVE  cmd'[u].kind = "deploy" /\ u \in Deployers /\ cmd'[u].pc = "owners"
    BY <1>1, <2>2 DEF BeginDeployInto, Idle
  <2>3. ASSUME NEW p \in Paths, BeginValidator(u, p) \/ BeginSign(u, p) \/ BeginCommit(u, p)
        PROVE  cmd'[u].kind # "deploy" /\ cmd'[u].pc = "owners" /\ sidecar[u].sub # 0
    BY <1>1, <2>3, ZenonT(60) DEF BeginValidator, BeginSign, BeginCommit, Idle
  <2>4. QED
    BY <2>1, <2>2, <2>3 DEF Begin
<1>4. CASE u = d
  BY <1>1, <1>2, <1>3, <1>4 DEF OthersWait, OnlyOne, Running
<1>5. CASE u # d
  BY <1>1, <1>2, <1>3, <1>5 DEF OthersWait, OnlyOne, Running, Alone, NoEntry
<1>6. QED
  BY <1>4, <1>5

(* The subnet of the one deployer is created.                           *)
LEMMA OneCreate ==
    ASSUME IndInv, PublicAssumption, NEW d \in Users, OnlyOne(d), NEW u \in Users,
           CreateSubnet(u)
    PROVE  OnlyOne(d)'
<1>1. CmdGood(u, cmd[u]) /\ DOMAIN cmd = Users /\ OwnersOK
  BY DEF IndInv
<1>2. cmd[u].pc = "subnet" /\ cmd[u].kind = "deploy" /\ u = d
  BY <1>1 DEF CreateSubnet, CmdGood, KeysOK, OnlyOne
<1>3. cmd'[d] = [cmd[d] EXCEPT !.pc = "order", !.sub = nextId]
  BY <1>1, <1>2 DEF CreateSubnet
<1>4. \A v \in Users : v # d => cmd'[v] = cmd[v]
  BY <1>1, <1>2 DEF CreateSubnet
<1>5. SubnetIds = {} /\ SubnetIds' \subseteq {nextId}
  BY <1>1, <1>2 DEF CreateSubnet, Own, OnlyOne, SubnetIds, OwnersOK
<1>6. UNCHANGED <<sidecar, file>>
  BY DEF CreateSubnet
<1>7. cmd'[d].pc = "order" /\ cmd'[d].kind = "deploy"
  BY <1>1, <1>2, <1>3 DEF CmdGood, CmdOK, Commands
<1>8. QED
  BY <1>2, <1>4, <1>5, <1>6, <1>7 DEF OnlyOne, Running

(* He records it.                                                       *)
LEMMA OneRecord ==
    ASSUME IndInv, PublicAssumption, NEW d \in Users, OnlyOne(d), NEW u \in Users, Record(u)
    PROVE  OnlyOne(d)'
<1> DEFINE id == IF cmd[u].tx.signed = cmd[u].tx.idx THEN cmd[u].tx.id ELSE 0
<1>1. CmdGood(u, cmd[u]) /\ DOMAIN cmd = Users /\ SidecarOK
  BY DEF IndInv
<1>2. cmd[u].pc = "record" /\ UNCHANGED <<owners, file>> /\ SubnetIds' = SubnetIds
  BY DEF Record, SubnetIds
<1>3. sidecar' = [sidecar EXCEPT ![u] = [sub |-> cmd[u].sub, chain |-> id]]
  BY DEF Record
<1> HIDE DEF id
<1>4. cmd[u].sub # 0 /\ sidecar'[u].sub = cmd[u].sub
  BY <1>1, <1>2, <1>3 DEF CmdGood, CmdOK, Pcs, SubnetIds, SidecarOK, PublicAssumption
<1>5. \A v \in Users : v # u => cmd'[v] = cmd[v] /\ sidecar'[v] = sidecar[v]
  BY <1>1, <1>3 DEF Record, Finish, SidecarOK
<1>6. cmd'[u].pc = "idle" /\ cmd'[u].kind = cmd[u].kind
  BY <1>1 DEF Record, Finish, Idle
<1>7. CASE u = d
  BY <1>2, <1>4, <1>5, <1>6, <1>7 DEF OnlyOne
<1>8. CASE u # d
  BY <1>2, <1>4, <1>5, <1>6, <1>8 DEF OnlyOne, Running
<1>9. QED
  BY <1>7, <1>8

(* Files and sidecars change hands.                                     *)
LEMMA OneOutside ==
    ASSUME IndInv, NEW d \in Users, OnlyOne(d),
           \/ \E p \in Paths : DeleteFile(p) \/ \E q \in Paths : SendFile(p, q)
           \/ \E u, v \in Users : ShareSubnet(u, v)
           \/ UNCHANGED vars
    PROVE  OnlyOne(d)'
<1>1. UNCHANGED <<owners, cmd>> /\ SubnetIds' = SubnetIds
  BY DEF DeleteFile, SendFile, ShareSubnet, vars, SubnetIds
<1>2. CASE UNCHANGED sidecar
  <2>1. cmd[d].pc = "record" \/ sidecar[d].sub # 0 \/ UNCHANGED file
    <3>1. ASSUME \A p \in Paths : file[p] = NoTx
          PROVE  UNCHANGED file
      BY <3>1 DEF DeleteFile, SendFile, ShareSubnet, vars, IsTx, NoTx
    <3>2. QED
      BY <3>1 DEF OnlyOne
  <2>2. QED
    BY <1>1, <1>2, <2>1 DEF OnlyOne, Running
<1>3. ASSUME NEW u \in Users, NEW v \in Users, ShareSubnet(u, v)
      PROVE  OnlyOne(d)'
  <2>1. sidecar[d].sub # 0 /\ sidecar'[d].sub # 0
    BY <1>3 DEF ShareSubnet, OnlyOne, NoEntry, IndInv, SidecarOK
  <2>2. QED
    BY <1>1, <2>1 DEF OnlyOne
<1>4. QED
  BY <1>2, <1>3 DEF DeleteFile, SendFile, vars

(* Where the commands of u go when they end or fail.                    *)
LEMMA FinishMoves ==
    ASSUME DOMAIN cmd = Users, NEW u \in Users, Finish(u, "ok") \/ Finish(u, "err")
    PROVE  OthersWait(u) /\ cmd'[u].kind = cmd[u].kind /\ cmd'[u].pc = "idle"
BY DEF OthersWait, Finish, Idle

LEMMA GotoMoves ==
    ASSUME DOMAIN cmd = Users, NEW u \in Users, CmdOK(cmd[u]), Goto(u, "record")
    PROVE  OthersWait(u) /\ cmd'[u].kind = cmd[u].kind /\ cmd'[u].pc = "record"
BY DEF OthersWait, Goto, CmdOK, Commands

LEMMA DeployerMoves ==
    ASSUME DOMAIN cmd = Users, NEW u \in Users, CmdOK(cmd[u]), DeployerFails(u)
    PROVE  /\ OthersWait(u)
           /\ cmd'[u].kind = cmd[u].kind
           /\ cmd'[u].pc = IF cmd[u].kind = "deploy" THEN "record" ELSE "idle"
<1>1. CASE cmd[u].kind = "deploy"
  <2>1. cmd' = [cmd EXCEPT ![u].pc = "record", ![u].tx = NoTx]
    BY <1>1 DEF DeployerFails
  <2>2. cmd'[u] = [cmd[u] EXCEPT !.pc = "record", !.tx = NoTx]
    BY <2>1
  <2>3. QED
    BY <1>1, <2>1, <2>2 DEF OthersWait, CmdOK, Commands
<1>2. CASE cmd[u].kind # "deploy"
  BY <1>2, FinishMoves DEF DeployerFails
<1>3. QED
  BY <1>1, <1>2

(* Every step of a protocol with one deployer.                          *)
LEMMA OneStep ==
    ASSUME IndInv, PublicAssumption, NEW d \in Users, Alone(d), OnlyOne(d), [Next]_vars
    PROVE  OnlyOne(d)'
<1>1. ASSUME NEW u \in Users, Prepare(u)
      PROVE  OnlyOne(d)'
  <2>1. CmdGood(u, cmd[u]) /\ DOMAIN cmd = Users
    BY DEF IndInv
  <2>2. ASSUME NEW o \in OwnerChoices, ChooseKeys(u, o)
        PROVE  OnlyOne(d)'
    BY <2>1, <2>2, Onward DEF OthersWait, ChooseKeys, CmdGood, CmdOK, Commands, KeysOK
  <2>3. ASSUME NEW o \in OwnerChoices, ChooseKeysFails(u, o)
        PROVE  OnlyOne(d)'
    BY <2>1, <2>3, Onward DEF OthersWait, ChooseKeysFails, CmdGood, CmdOK, Commands, KeysOK,
        Finish, Idle
  <2>4. CASE CreateSubnetFails(u)
    BY <2>1, <2>4, Onward DEF OthersWait, CreateSubnetFails, CmdGood, CmdOK, Commands, KeysOK,
        Finish, Idle, Alone
  <2>5. CASE OrderKeys(u)
    BY <2>1, <2>5, Onward DEF OthersWait, OrderKeys, CmdGood, CmdOK, Commands, KeysOK
  <2>6. CASE GetOwners(u)
    <3>1. /\ OthersWait(u)
          /\ cmd'[u].kind = cmd[u].kind /\ cmd[u].pc = "owners"
          /\ cmd'[u].pc \in {"auth", "remaining"}
      BY <2>1, <2>6 DEF OthersWait, GetOwners, CmdGood, CmdOK, Commands
    <3>2. UNCHANGED <<owners, sidecar, file>> /\ ~(sidecar[d].sub = 0 /\ cmd[u].kind = "deploy")
      BY <2>1, <2>6 DEF GetOwners, OnlyOne, CmdGood, CmdOK, Pcs
    <3>3. QED
      BY <2>1, <3>1, <3>2, Onward DEF CmdGood, KeysOK, Builds, Signs
  <2>7. CASE ChooseAuth(u)
    <3>1. /\ OthersWait(u)
          /\ cmd'[u].kind = cmd[u].kind /\ cmd[u].pc = "auth"
          /\ cmd'[u].pc \in {"build", "idle"}
      <4>1. CASE Finish(u, "err")
        BY <2>1, <2>7, <4>1, FinishMoves DEF ChooseAuth
      <4>2. ASSUME NEW A, cmd' = [cmd EXCEPT ![u].pc = "build", ![u].auth = A]
            PROVE  OthersWait(u) /\ cmd'[u].kind = cmd[u].kind /\ cmd'[u].pc = "build"
        BY <2>1, <4>2 DEF OthersWait, CmdGood, CmdOK, Commands
      <4>3. QED
        BY <2>7, <4>1, <4>2 DEF ChooseAuth
    <3>2. UNCHANGED <<owners, sidecar, file>> /\ ~(sidecar[d].sub = 0 /\ cmd[u].kind = "deploy")
      BY <2>1, <2>7 DEF ChooseAuth, OnlyOne, CmdGood, CmdOK, Pcs
    <3>3. QED
      BY <2>1, <3>1, <3>2, Onward DEF CmdGood, KeysOK, Builds, Signs
  <2>8. QED
    BY <1>1, <2>2, <2>3, <2>4, <2>5, <2>6, <2>7, OneCreate DEF Prepare, GetOwnersFails, Alone
<1>2. ASSUME NEW u \in Users, Submit(u)
      PROVE  OnlyOne(d)'
  <2>1. CmdGood(u, cmd[u]) /\ DOMAIN cmd = Users
    BY DEF IndInv
  <2>2. CASE Build(u)
    <3>1. cmd[u].pc = "build" /\ UNCHANGED <<owners, sidecar, file>>
      BY <2>2 DEF Build
    <3>2. CASE DeployerFails(u)
      <4>1. /\ OthersWait(u) /\ cmd'[u].kind = cmd[u].kind
            /\ cmd'[u].pc \in {"record", "idle"}
            /\ cmd[u].kind = "deploy" => cmd'[u].pc = "record"
        BY <2>1, <3>2, DeployerMoves DEF CmdGood
      <4>2. QED
        BY <3>1, <4>1, Onward
    <3>3. ASSUME NEW q \in {"issue", "save"}, NEW tx,
                 cmd' = [cmd EXCEPT ![u].pc = q, ![u].tx = tx]
          PROVE  OnlyOne(d)'
      <4>1. /\ OthersWait(u)
            /\ cmd'[u].kind = cmd[u].kind /\ cmd'[u].pc \in {"issue", "save"}
        BY <2>1, <3>3 DEF OthersWait, CmdGood, CmdOK, Commands
      <4>2. QED
        BY <3>1, <4>1, Onward
    <3>4. QED
      BY <2>2, <3>2, <3>3 DEF Build
  <2>3. CASE BuildFails(u)
    <3>1. /\ OthersWait(u)
          /\ cmd'[u].kind = cmd[u].kind /\ cmd[u].pc = "build"
          /\ cmd'[u].pc \in {"record", "idle"}
          /\ cmd[u].kind = "deploy" => cmd'[u].pc = "record"
      BY <2>1, <2>3 , DeployerMoves DEF BuildFails, CmdGood
    <3>2. UNCHANGED <<owners, sidecar, file>>
      BY <2>1, <2>3 DEF BuildFails
    <3>3. QED
      BY <2>1, <3>1, <3>2, Onward DEF CmdGood, KeysOK, Builds, Signs
  <2>4. CASE Issue(u)
    <3>1. /\ OthersWait(u)
          /\ cmd'[u].kind = cmd[u].kind /\ cmd[u].pc = "issue"
          /\ cmd'[u].pc \in {"record", "idle"}
          /\ cmd[u].kind = "deploy" => cmd'[u].pc = "record"
      BY <2>1, <2>4, FinishMoves, GotoMoves DEF Issue, AfterIssue, HoldsOK, CmdGood
    <3>2. UNCHANGED <<owners, sidecar, file>>
      BY <2>1, <2>4 DEF Issue
    <3>3. QED
      BY <2>1, <3>1, <3>2, Onward DEF CmdGood, KeysOK, Builds, Signs
  <2>5. CASE IssueFails(u)
    <3>1. /\ OthersWait(u)
          /\ cmd'[u].kind = cmd[u].kind /\ cmd[u].pc = "issue"
          /\ cmd'[u].pc \in {"record", "idle"}
          /\ cmd[u].kind = "deploy" => cmd'[u].pc = "record"
      BY <2>1, <2>5 , DeployerMoves DEF IssueFails, CmdGood
    <3>2. UNCHANGED <<owners, sidecar, file>>
      BY <2>1, <2>5 DEF IssueFails
    <3>3. QED
      BY <2>1, <3>1, <3>2, Onward DEF CmdGood, KeysOK, Builds, Signs
  <2>6. CASE Save(u)
    <3>1. /\ OthersWait(u)
          /\ cmd'[u].kind = cmd[u].kind /\ cmd[u].pc = "save"
          /\ cmd'[u].pc \in {"record", "idle"}
          /\ cmd[u].kind = "deploy" => cmd'[u].pc = "record"
      BY <2>1, <2>6, FinishMoves, GotoMoves DEF Save, AfterSave, CmdGood
    <3>2. UNCHANGED <<owners, sidecar>>
      BY <2>1, <2>6 DEF Save
    <3>3. QED
      BY <2>1, <3>1, <3>2, Onward DEF CmdGood, KeysOK, Builds, Signs
  <2>7. CASE SaveFails(u)
    BY <2>1, <2>7, Onward DEF OthersWait, SaveFails, CmdGood, CmdOK, Commands, KeysOK,
        OnlyOne, Alone, Finish, Idle
  <2>8. QED
    BY <1>2, <2>2, <2>3, <2>4, <2>5, <2>6, <2>7, OneRecord DEF Submit
<1>3. ASSUME NEW u \in Users, SignAndCommit(u)
      PROVE  OnlyOne(d)'
  <2>1. CmdGood(u, cmd[u]) /\ DOMAIN cmd = Users
    BY DEF IndInv
  <2>2. CASE SignTx(u)
    BY <2>1, <2>2, Onward DEF OthersWait, SignTx, CmdGood, CmdOK, Commands, KeysOK, Signs,
        Builds
  <2>3. CASE SignRefused(u)
    BY <2>1, <2>3, Onward DEF OthersWait, SignRefused, CmdGood, CmdOK, Commands, KeysOK,
        Signs, Builds, Finish, Idle
  <2>4. CASE TruncateFile(u)
    BY <2>1, <2>4, Onward DEF OthersWait, TruncateFile, CmdGood, CmdOK, Commands, KeysOK,
        Goto, Signs, Builds
  <2>5. CASE WriteFile(u)
    BY <2>1, <2>5, Onward DEF OthersWait, WriteFile, CmdGood, CmdOK, Commands, KeysOK, Signs,
        Builds, Finish, Idle
  <2>6. CASE CheckSigned(u)
    <3>1. /\ OthersWait(u)
          /\ cmd'[u].kind = cmd[u].kind /\ cmd[u].pc = "remaining"
          /\ cmd'[u].pc \in {"issue", "idle"} /\ cmd[u].kind = "commit"
      BY <2>1, <2>6, ZenonT(60)
      DEF OthersWait, CheckSigned, Goto, Finish, Idle, CmdGood, CmdOK, Commands
    <3>2. UNCHANGED <<owners, sidecar, file>>
      BY <2>1, <2>6 DEF CheckSigned
    <3>3. QED
      BY <2>1, <3>1, <3>2, Onward DEF CmdGood, KeysOK, Builds, Signs
  <2>7. QED
    BY <1>3, <2>2, <2>3, <2>4, <2>5, <2>6 DEF SignAndCommit, OverwriteFails, Alone
<1>4. QED
  BY <1>1, <1>2, <1>3, OneBegin, OneOutside DEF Next, Step, Alone, Crash

(* Before anything is deployed.                                         *)
LEMMA OneInit ==
    ASSUME PublicAssumption, NEW d \in Users, Init
    PROVE  OnlyOne(d)
<1>1. SubnetIds = {}
  BY DEF Init, SubnetIds
<1>2. QED
  BY <1>1 DEF Init, OnlyOne, Running, Idle, NoEntry

(* While only d deploys, there is at most one subnet.                   *)
LEMMA StaysOne ==
    ASSUME NEW d \in Users, Alone(d)
    PROVE  Spec => []OnlyOne(d)
<1>1. Init => OnlyOne(d)
  BY OneInit, PublicAssumption
<1>2. IndInv /\ OnlyOne(d) /\ [Next]_vars => OnlyOne(d)'
  BY OneStep, PublicAssumption
<1>3. QED
  BY <1>1, <1>2, Inductive, PTL DEF Spec

(* "fix the issue and try again with a new deploy cmd": however often one  *)
(* deployer tries again after rejected transactions, with whatever keys    *)
(* and whoever else signs, commits and manages validators, there is one    *)
(* subnet.                                                                 *)
THEOREM OneSubnet ==
    ASSUME NEW d \in Users, Alone(d)
    PROVE  Spec => []RetryReusesSubnet
<1>1. OnlyOne(d) => RetryReusesSubnet
  <2> SUFFICES ASSUME \A s, t \in SubnetIds : s = t
               PROVE  Cardinality(SubnetIds) <= 1
    BY DEF OnlyOne, RetryReusesSubnet
  <2>1. CASE SubnetIds = {}
    <3>1. Cardinality(SubnetIds) = 0
      BY <2>1, FS_EmptySet
    <3>2. QED
      BY <3>1
  <2>2. ASSUME NEW s \in SubnetIds
        PROVE  Cardinality(SubnetIds) <= 1
    <3>1. SubnetIds = {s}
      OBVIOUS
    <3>2. Cardinality(SubnetIds) = 1
      BY <3>1, FS_Singleton
    <3>3. QED
      BY <3>2
  <2>3. QED
    BY <2>1, <2>2
<1>2. QED
  BY <1>1, StaysOne, PTL

(* The blockchain that any user has recorded was accepted by the O-Chain,  *)
(* in the subnet recorded with it.                                         *)
THEOREM ChainIsHosted ==
    ASSUME NEW d \in Users, Alone(d)
    PROVE  Spec => []RecordedChainIsHosted
<1>1. IndInv /\ ChainAccepted /\ OnlyOne(d) => RecordedChainIsHosted
  <2> SUFFICES ASSUME IndInv, ChainAccepted, OnlyOne(d), NEW u \in Users, sidecar[u].chain # 0
               PROVE  \E t \in accepted : /\ t.kind = "chain" /\ t.id = sidecar[u].chain
                                           /\ t.sub = sidecar[u].sub
    BY DEF RecordedChainIsHosted
  <2>1. PICK t \in accepted : t.kind = "chain" /\ t.id = sidecar[u].chain
    BY DEF ChainAccepted
  <2>2. t.sub \in SubnetIds /\ sidecar[u].sub \in SubnetIds
    BY DEF IndInv, AcceptedOK, TxGood, TxOK, SidecarOK, ChainAccepted
  <2>3. QED
    BY <2>1, <2>2 DEF OnlyOne
<1>2. QED
  BY <1>1, StaysOne, ChainsAccepted, Inductive, PTL
=============================================================================
