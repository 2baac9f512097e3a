------------------------- MODULE KeyTransferProofs --------------------------
(* Theorems about KeyTransfer, for every value of its constants.        *)
EXTENDS KeyTransfer, Functions, FiniteSetTheorems, TLAPS

-----------------------------------------------------------------------------
(* Sums over finite sets: what SumFunctionOnSet of the community        *)
(* modules is, whatever order it adds in. Its definition picks          *)
(* elements one by one; an equation for it, and facts that do not       *)
(* depend on the order, follow by induction on the set of the indices   *)
(* that remain, stated as the existence of a minimal counterexample.    *)

(* The element that SumFunctionOnSet adds first, and the function it    *)
(* is computed by.                                                      *)
Pick(s) == CHOOSE x \in s : TRUE
Iterates(f, S, g) ==
    g = [s \in SUBSET S |-> IF s = {} THEN 0 ELSE f[Pick(s)] + g[s \ {Pick(s)}]]

(* What is picked is an element.                                        *)
LEMMA PickIn ==
    ASSUME NEW s, s # {}
    PROVE  Pick(s) \in s
BY DEF Pick

(* A sum, with the definition of the community modules unfolded.        *)
LEMMA SumUnfold ==
    ASSUME NEW f, NEW S
    PROVE  SumFunctionOnSet(f, S) = (CHOOSE g : Iterates(f, S, g))[S]
BY DEF SumFunctionOnSet, FoldFunctionOnSet, MapThenFoldSet, Iterates, Pick

(* Induction over the subsets of a finite set: a set of subsets that    *)
(* is not empty has a minimal one.                                      *)
LEMMA Least ==
    ASSUME NEW S, IsFiniteSet(S), NEW F \in SUBSET SUBSET S, F # {}
    PROVE  \E t \in F : \A r \in F : r \subseteq t => r = t
<1>1. IsWellFoundedOn(StrictSubsetOrdering(S), SUBSET S)
  BY FS_StrictSubsetOrderingWellFounded, FS_FiniteSubsetsOfFinite
<1>2. PICK t \in F : \A r \in F : <<r, t>> \notin StrictSubsetOrdering(S)
  BY <1>1, WFMin
<1>3. QED
  BY <1>2 DEF StrictSubsetOrdering

(* Two such functions agree on the sets that both are about.            *)
LEMMA IteratesOnce ==
    ASSUME NEW f, NEW A, NEW B, IsFiniteSet(A), NEW g, NEW h,
           Iterates(f, A, g), Iterates(f, B, h),
           NEW s \in SUBSET A, s \in SUBSET B
    PROVE  g[s] = h[s]
<1> DEFINE D == {t \in SUBSET A : t \in SUBSET B /\ g[t] # h[t]}
<1> SUFFICES ASSUME D # {}
             PROVE  FALSE
  OBVIOUS
<1>1. PICK t \in D : \A r \in D : r \subseteq t => r = t
  <2> HIDE DEF D
  <2>1. D \in SUBSET SUBSET A
    BY DEF D
  <2>2. QED
    BY <2>1, Least
<1>2. CASE t = {}
  BY <1>2 DEF Iterates
<1>3. CASE t # {}
  <2> DEFINE x == Pick(t)
             r == t \ {x}
  <2>1. x \in t
    BY <1>3, PickIn
  <2>2. r \in SUBSET A /\ r \in SUBSET B /\ r \subseteq t /\ r # t
    BY <2>1
  <2>3. g[r] = h[r]
    BY <1>1, <2>2
  <2>4. g[t] = f[x] + g[r]
    BY <1>3 DEF Iterates
  <2>5. h[t] = f[x] + h[r]
    BY <1>3 DEF Iterates
  <2>6. QED
    BY <2>3, <2>4, <2>5
<1>4. QED
  BY <1>2, <1>3

(* There is one for every finite set.                                   *)
LEMMA IteratesExists ==
    ASSUME NEW f, NEW S, IsFiniteSet(S)
    PROVE  \E g : Iterates(f, S, g)
<1> DEFINE D == {t \in SUBSET S : ~ \E g : Iterates(f, t, g)}
<1> SUFFICES ASSUME D # {}
             PROVE  FALSE
  OBVIOUS
<1>1. PICK t \in D : \A r \in D : r \subseteq t => r = t
  <2> HIDE DEF D
  <2>1. D \in SUBSET SUBSET S
    BY DEF D
  <2>2. QED
    BY <2>1, Least
<1> DEFINE h(r) == CHOOSE g : Iterates(f, r, g)
           v(r) == IF r = {} THEN 0 ELSE f[Pick(r)] + h(r \ {Pick(r)})[r \ {Pick(r)}]
           g == [r \in SUBSET t |-> v(r)]
<1>2. ASSUME NEW r \in SUBSET t, r # t
      PROVE  Iterates(f, r, h(r))
  <2>1. r \notin D
    BY <1>1, <1>2
  <2>2. \E k : Iterates(f, r, k)
    BY <2>1
  <2>3. QED
    BY <2>2
<1>3. ASSUME NEW r \in SUBSET t, r # {}
      PROVE  g[r \ {Pick(r)}] = h(r \ {Pick(r)})[r \ {Pick(r)}]
  <2> DEFINE q == r \ {Pick(r)}
             p == q \ {Pick(q)}
  <2>1. q \in SUBSET t /\ q # t
    BY <1>3, PickIn
  <2>2. Iterates(f, q, h(q))
    BY <1>2, <2>1
  <2> HIDE DEF h
  <2>3. g[q] = v(q)
    BY <2>1
  <2>4. CASE q = {}
    BY <2>2, <2>3, <2>4 DEF Iterates
  <2>5. CASE q # {}
    <3>1. h(q)[q] = f[Pick(q)] + h(q)[p]
      BY <2>2, <2>5 DEF Iterates
    <3>2. p \in SUBSET t /\ p # t /\ p \in SUBSET q
      BY <2>1
    <3>3. Iterates(f, p, h(p)) /\ IsFiniteSet(p)
      <4>1. Iterates(f, p, h(p))
        BY <1>2, <3>2
      <4>2. p \in SUBSET S
        BY <3>2
      <4>3. QED
        BY <4>1, <4>2, FS_Subset
    <3>4. h(p)[p] = h(q)[p]
      BY <2>2, <3>2, <3>3, IteratesOnce
    <3>5. QED
      BY <2>3, <2>5, <3>1, <3>4
  <2>6. QED
    BY <2>4, <2>5
<1>4. Iterates(f, t, g)
  <2>1. \A r \in SUBSET t : v(r) = IF r = {} THEN 0 ELSE f[Pick(r)] + g[r \ {Pick(r)}]
    <3> HIDE DEF h, g
    <3>1. QED
      BY <1>3
  <2> HIDE DEF v
  <2>2. QED
    BY <2>1 DEF Iterates
<1>5. QED
  BY <1>1, <1>4

(* The equation of a sum: its first element, and the sum of the rest.   *)
LEMMA SumStep ==
    ASSUME NEW f, NEW S, IsFiniteSet(S)
    PROVE  SumFunctionOnSet(f, S) =
               IF S = {} THEN 0 ELSE f[Pick(S)] + SumFunctionOnSet(f, S \ {Pick(S)})
<1> DEFINE h(r) == CHOOSE g : Iterates(f, r, g)
<1>1. ASSUME NEW r \in SUBSET S
      PROVE  Iterates(f, r, h(r)) /\ SumFunctionOnSet(f, r) = h(r)[r] /\ IsFiniteSet(r)
  <2>1. IsFiniteSet(r)
    BY <1>1, FS_Subset
  <2>2. \E g : Iterates(f, r, g)
    BY <2>1, IteratesExists
  <2>3. SumFunctionOnSet(f, r) = h(r)[r]
    BY SumUnfold
  <2>4. QED
    BY <2>1, <2>2, <2>3
<1> DEFINE q == S \ {Pick(S)}
<1> HIDE DEF h
<1>2. Iterates(f, S, h(S)) /\ SumFunctionOnSet(f, S) = h(S)[S]
  BY <1>1
<1>3. CASE S = {}
  BY <1>2, <1>3 DEF Iterates
<1>4. CASE S # {}
  <2>1. h(S)[S] = f[Pick(S)] + h(S)[q]
    BY <1>2, <1>4 DEF Iterates
  <2> HIDE DEF q
  <2>2. q \in SUBSET S
    BY DEF q
  <2>3. Iterates(f, q, h(q)) /\ SumFunctionOnSet(f, q) = h(q)[q] /\ IsFiniteSet(q)
    BY <1>1, <2>2
  <2>4. h(q)[q] = h(S)[q]
    <3>1. Iterates(f, q, h(q)) /\ Iterates(f, S, h(S)) /\ IsFiniteSet(q)
      BY <1>2, <2>3
    <3>2. QED
      BY <2>2, <3>1, IteratesOnce
  <2>5. QED
    BY <1>2, <1>4, <2>1, <2>3, <2>4 DEF q
<1>5. QED
  BY <1>3, <1>4

(* A sum of natural numbers is one.                                     *)
LEMMA SumNat ==
    ASSUME NEW S, IsFiniteSet(S), NEW f, \A i \in S : f[i] \in Nat
    PROVE  SumFunctionOnSet(f, S) \in Nat
<1> DEFINE D == {t \in SUBSET S : SumFunctionOnSet(f, t) \notin Nat}
<1> SUFFICES ASSUME D # {}
             PROVE  FALSE
  OBVIOUS
<1>1. PICK t \in D : \A r \in D : r \subseteq t => r = t
  <2> HIDE DEF D
  <2>1. D \in SUBSET SUBSET S
    BY DEF D
  <2>2. QED
    BY <2>1, Least
<1>2. IsFiniteSet(t)
  BY FS_Subset
<1>3. CASE t = {}
  <2>1. SumFunctionOnSet(f, t) = 0
    BY <1>2, <1>3, SumStep
  <2>2. QED
    BY <2>1
<1>4. CASE t # {}
  <2>1. Pick(t) \in t
    BY <1>4, PickIn
  <2>2. SumFunctionOnSet(f, t \ {Pick(t)}) \in Nat
    BY <1>1, <2>1
  <2>3. SumFunctionOnSet(f, t) = f[Pick(t)] + SumFunctionOnSet(f, t \ {Pick(t)})
    BY <1>2, <1>4, SumStep
  <2>4. QED
    BY <2>1, <2>2, <2>3
<1>5. QED
  BY <1>3, <1>4

(* Any element may be taken out, not just the first one.                *)
LEMMA SumWithout ==
    ASSUME NEW S, IsFiniteSet(S), NEW f, \A i \in S : f[i] \in Nat, NEW x \in S
    PROVE  SumFunctionOnSet(f, S) = f[x] + SumFunctionOnSet(f, S \ {x})
<1> DEFINE D == {t \in SUBSET S : \E y \in t :
                   SumFunctionOnSet(f, t) # f[y] + SumFunctionOnSet(f, t \ {y})}
<1> SUFFICES ASSUME D # {}
             PROVE  FALSE
  OBVIOUS
<1>1. PICK t \in D : \A r \in D : r \subseteq t => r = t
  <2> HIDE DEF D
  <2>1. D \in SUBSET SUBSET S
    BY DEF D
  <2>2. QED
    BY <2>1, Least
<1>2. PICK y \in t : SumFunctionOnSet(f, t) # f[y] + SumFunctionOnSet(f, t \ {y})
  OBVIOUS
<1> DEFINE c == Pick(t)
<1>3. c \in t /\ SumFunctionOnSet(f, t) = f[c] + SumFunctionOnSet(f, t \ {c})
  <2>1. IsFiniteSet(t)
    BY FS_Subset
  <2>2. QED
    BY <2>1, SumStep, PickIn
<1>4. y # c
  BY <1>2, <1>3
<1>5. t \ {c} \notin D /\ t \ {y} \notin D
  BY <1>1, <1>2, <1>3
<1>6. SumFunctionOnSet(f, t \ {c}) = f[y] + SumFunctionOnSet(f, (t \ {c}) \ {y})
  BY <1>4, <1>5
<1>7. SumFunctionOnSet(f, t \ {y}) = f[c] + SumFunctionOnSet(f, (t \ {y}) \ {c})
  BY <1>3, <1>4, <1>5
<1>8. (t \ {c}) \ {y} = (t \ {y}) \ {c}
  OBVIOUS
<1>9. SumFunctionOnSet(f, (t \ {c}) \ {y}) \in Nat /\ f[c] \in Nat /\ f[y] \in Nat
  <2>1. IsFiniteSet((t \ {c}) \ {y})
    BY FS_Subset
  <2>2. QED
    BY <1>3, <2>1, SumNat
<1>10. QED
  BY <1>2, <1>3, <1>6, <1>7, <1>8, <1>9

(* A sum depends on the values at its indices only.                     *)
LEMMA SumSame ==
    ASSUME NEW S, IsFiniteSet(S), NEW f, NEW g, \A i \in S : f[i] = g[i]
    PROVE  SumFunctionOnSet(f, S) = SumFunctionOnSet(g, S)
<1> DEFINE D == {t \in SUBSET S : SumFunctionOnSet(f, t) # SumFunctionOnSet(g, t)}
<1> SUFFICES ASSUME D # {}
             PROVE  FALSE
  OBVIOUS
<1>1. PICK t \in D : \A r \in D : r \subseteq t => r = t
  <2> HIDE DEF D
  <2>1. D \in SUBSET SUBSET S
    BY DEF D
  <2>2. QED
    BY <2>1, Least
<1>2. IsFiniteSet(t)
  BY FS_Subset
<1>3. CASE t = {}
  BY <1>2, <1>3, SumStep
<1>4. CASE t # {}
  <2>1. Pick(t) \in t
    BY <1>4, PickIn
  <2>2. SumFunctionOnSet(f, t \ {Pick(t)}) = SumFunctionOnSet(g, t \ {Pick(t)})
    BY <1>1, <2>1
  <2>3. /\ SumFunctionOnSet(f, t) = f[Pick(t)] + SumFunctionOnSet(f, t \ {Pick(t)})
        /\ SumFunctionOnSet(g, t) = g[Pick(t)] + SumFunctionOnSet(g, t \ {Pick(t)})
    BY <1>2, <1>4, SumStep
  <2>4. QED
    BY <2>1, <2>2, <2>3
<1>5. QED
  BY <1>3, <1>4

(* A sum over more indices is not smaller.                              *)
LEMMA SumMono ==
    ASSUME NEW R, IsFiniteSet(R), NEW f, \A i \in R : f[i] \in Nat, NEW S \in SUBSET R
    PROVE  SumFunctionOnSet(f, S) <= SumFunctionOnSet(f, R)
<1> DEFINE D == {t \in SUBSET R :
                   S \subseteq t /\ ~(SumFunctionOnSet(f, S) <= SumFunctionOnSet(f, t))}
<1> SUFFICES ASSUME D # {}
             PROVE  FALSE
  OBVIOUS
<1>1. PICK t \in D : \A r \in D : r \subseteq t => r = t
  <2> HIDE DEF D
  <2>1. D \in SUBSET SUBSET R
    BY DEF D
  <2>2. QED
    BY <2>1, Least
<1>2. \A r \in SUBSET R : IsFiniteSet(r) /\ SumFunctionOnSet(f, r) \in Nat
  BY FS_Subset, SumNat
<1>3. PICK y \in t : y \notin S
  BY <1>2
<1>4. SumFunctionOnSet(f, t) = f[y] + SumFunctionOnSet(f, t \ {y})
  BY <1>2, SumWithout
<1>5. SumFunctionOnSet(f, S) <= SumFunctionOnSet(f, t \ {y})
  BY <1>1, <1>3
<1>6. QED
  BY <1>2, <1>4, <1>5

-----------------------------------------------------------------------------
(* The inductive invariant.                                                *)

(* The records of the commands and of the transfers.                    *)
Commands == [pc : {"idle", "send", "importA", "exportA", "importO"},
             key : Keys \cup {NoKey}, to : Keys \cup {NoKey}, amount : Nat, i : Nat]

Transfer == [to : Keys, amount : Amounts, step : 0..3, exports : Nat]

(* The key files, and the bounds on what happens to them.               *)
FilesOK ==
    /\ stored \in [Names -> Keys \cup {NoKey}] /\ copy \in [Names -> Keys \cup {NoKey}]
    /\ made \subseteq Keys
    /\ keyOps \in Nat /\ keyOps <= MaxKeyOps /\ faults \in Nat /\ faults <= MaxFaults

(* An output that waits to be imported is worth the fee of its import.     *)
BalancesOK ==
    /\ o \in [Keys -> Nat] /\ a \in [Keys -> Nat] /\ toA \in [Keys -> Nat]
    /\ toO \in [Keys -> Nat] /\ got \in [Keys -> Nat]
    /\ \A k \in Keys : /\ toA[k] = 0 \/ toA[k] >= Fee
                       /\ toO[k] = 0 \/ toO[k] >= Fee

(* The transfers sent and those about to be are within the bound.          *)
Sending == {t \in Terminals : cmd[t].pc = "send"}

TransfersOK ==
    /\ tr \in Seq(Transfer)
    /\ IsFiniteSet(Sending) /\ Len(tr) + Cardinality(Sending) <= MaxSends

(* A command that receives is at the step of its transfer, for the key     *)
(* that the transfer was sent to.                                          *)
AtStep(pc, step) ==
    \/ pc = "importA" /\ step = 0
    \/ pc = "exportA" /\ step = 1
    \/ pc = "importO" /\ step = 2

Sends(c) == c.pc = "send" /\ c.key \in Keys /\ c.to \in Keys /\ c.amount \in Amounts /\ c.i = 0

Receives(c) ==
    /\ c.i \in DOMAIN tr /\ AtStep(c.pc, tr[c.i].step)
    /\ c.key = tr[c.i].to /\ c.amount = tr[c.i].amount

(* Every terminal is idle, sends or receives, and no two receive the    *)
(* same transfer.                                                       *)
CmdOK ==
    /\ cmd \in [Terminals -> Commands]
    /\ \A t \in Terminals : cmd[t] = Idle \/ Sends(cmd[t]) \/ Receives(cmd[t])
    /\ \A t, u \in Terminals : cmd[t].i # 0 /\ cmd[t].i = cmd[u].i => t = u

(* What a key imported and what its outputs will bring cover everything it *)
(* exported for a transfer.                                                *)
Exported(k) == {i \in SentTo(k) : tr[i].exports > 0}
Done(k) == {i \in SentTo(k) : tr[i].step = 3 /\ tr[i].exports > 0}
Pending(k) == IF toO[k] = 0 THEN 0 ELSE toO[k] - Fee

Covered ==
    \A k \in Keys : /\ got[k] + Pending(k) >= Total(Exported(k))
                    /\ got[k] >= Total(Done(k))

TypeInv == FilesOK /\ BalancesOK /\ TransfersOK /\ CmdOK
IndInv == TypeInv /\ Covered

-----------------------------------------------------------------------------
(* Facts about the transfers.                                              *)

(* The transfers as a sequence.                                         *)
LEMMA TrFacts ==
    ASSUME TransferAssumption, NEW s \in Seq(Transfer)
    PROVE  /\ Len(s) \in Nat /\ DOMAIN s = 1..Len(s) /\ IsFiniteSet(DOMAIN s)
           /\ \A i \in DOMAIN s : s[i] \in Transfer /\ i # 0 /\ i \in Nat /\ s[i].amount \in Nat
<1>1. Len(s) \in Nat /\ DOMAIN s = 1..Len(s) /\ \A i \in DOMAIN s : s[i] \in Transfer
  OBVIOUS
<1>2. IsFiniteSet(DOMAIN s)
  BY <1>1, FS_Interval
<1>3. ASSUME NEW i \in DOMAIN s
      PROVE  i # 0 /\ i \in Nat /\ s[i].amount \in Nat
  <2>1. s[i].amount \in Amounts
    BY <1>1 DEF Transfer
  <2>2. s[i].amount \in Nat
    BY <2>1
  <2>3. i \in 1..Len(s) /\ Len(s) \in Nat
    BY <1>1
  <2>4. i # 0 /\ i \in Nat
    BY <2>3
  <2>5. QED
    BY <2>2, <2>4
<1>4. QED
  BY <1>1, <1>2, <1>3

(* The totals of a key are natural numbers, and what is done is part of    *)
(* what is exported.                                                       *)
LEMMA TotalsNat ==
    ASSUME TransferAssumption, TransfersOK, NEW k
    PROVE  /\ Total(Exported(k)) \in Nat /\ Total(Done(k)) \in Nat
           /\ Total(Done(k)) <= Total(Exported(k))
<1>1. tr \in Seq(Transfer)
  BY DEF TransfersOK
<1>2. Exported(k) \in SUBSET (DOMAIN tr) /\ Done(k) \in SUBSET Exported(k)
  BY DEF Exported, Done, SentTo
<1>3. IsFiniteSet(Exported(k)) /\ IsFiniteSet(Done(k))
  BY <1>1, <1>2, TrFacts, FS_Subset
<1>4. \A i \in Exported(k) : Promised[i] \in Nat
  BY <1>1, <1>2, TrFacts DEF Promised
<1>5. QED
  BY <1>2, <1>3, <1>4, SumNat, SumMono DEF Total

-----------------------------------------------------------------------------
(* The commands and the sends that are about to be.                        *)

(* The commands of the other terminals stay.                            *)
OthersWait(t) ==
    cmd' \in [Terminals -> Commands] /\ \A u \in Terminals \ {t} : cmd'[u] = cmd[u]

(* A step of t keeps the commands well formed.                          *)
LEMMA CmdFrame ==
    ASSUME TransferAssumption, TypeInv, NEW t \in Terminals, OthersWait(t),
           DOMAIN tr \subseteq DOMAIN tr',
           \A j \in DOMAIN tr : tr'[j] = tr[j] \/ j = cmd[t].i,
           cmd'[t] = Idle \/ Sends(cmd'[t]) \/ Receives(cmd[t])',
           cmd'[t].i \in {0, cmd[t].i} \/ \A u \in Terminals : cmd[u].i # cmd'[t].i
    PROVE  CmdOK'
<1>1. CmdOK /\ \A j \in DOMAIN tr : j # 0
  BY TrFacts DEF TypeInv
<1>2. ASSUME NEW u \in Terminals, u # t
      PROVE  cmd'[u] = cmd[u] /\ (cmd[u] = Idle \/ Sends(cmd[u]) \/ Receives(cmd[u])')
  <2>1. cmd'[u] = cmd[u]
    BY <1>2 DEF OthersWait
  <2>2. ASSUME Receives(cmd[u])
        PROVE  Receives(cmd[u])'
    BY <1>1, <1>2, <2>1, <2>2 DEF Receives, CmdOK
  <2>3. QED
    BY <1>1, <2>1, <2>2 DEF CmdOK
<1>3. ASSUME NEW u \in Terminals, NEW v \in Terminals, cmd'[u].i # 0, cmd'[u].i = cmd'[v].i
      PROVE  u = v
  BY <1>1, <1>2, <1>3 DEF CmdOK
<1>4. \A u \in Terminals : cmd'[u] = Idle \/ Sends(cmd'[u]) \/ Receives(cmd[u])'
  BY <1>2
<1>5. QED
  BY <1>3, <1>4 DEF OthersWait, CmdOK

(* How many are about to send, after a step of t.                       *)
LEMMA SendingFrame ==
    ASSUME TypeInv, NEW t \in Terminals, OthersWait(t)
    PROVE  /\ IsFiniteSet(Sending) /\ IsFiniteSet(Sending')
           /\ Cardinality(Sending) \in Nat /\ Cardinality(Sending') \in Nat
           /\ cmd'[t].pc # "send" => Cardinality(Sending') <= Cardinality(Sending)
           /\ cmd'[t].pc # "send" /\ cmd[t].pc = "send" =>
                  Cardinality(Sending') = Cardinality(Sending) - 1
           /\ Cardinality(Sending') <= Cardinality(Sending) + 1
<1>1. IsFiniteSet(Sending) /\ Cardinality(Sending) \in Nat
  BY FS_CardinalityType DEF TypeInv, TransfersOK
<1>2. Sending' = {u \in Terminals : cmd'[u].pc = "send"}
  BY DEF Sending
<1>3. /\ cmd'[t].pc # "send" => Sending' = Sending \ {t}
      /\ cmd'[t].pc = "send" => Sending' = Sending \cup {t}
  BY <1>2 DEF OthersWait, Sending
<1>4. CASE cmd'[t].pc # "send"
  <2>1. /\ IsFiniteSet(Sending \ {t})
        /\ Cardinality(Sending \ {t}) = IF t \in Sending THEN Cardinality(Sending) - 1
                                        ELSE Cardinality(Sending)
    BY <1>1, FS_RemoveElement
  <2>2. t \in Sending <=> cmd[t].pc = "send"
    BY DEF Sending
  <2>3. Sending' = Sending \ {t}
    BY <1>3, <1>4
  <2>4. Cardinality(Sending') \in Nat
    BY <2>1, <2>3, FS_CardinalityType
  <2>5. QED
    BY <1>1, <1>4, <2>1, <2>2, <2>3, <2>4
<1>5. CASE cmd'[t].pc = "send"
  <2>1. /\ IsFiniteSet(Sending \cup {t})
        /\ Cardinality(Sending \cup {t}) = IF t \in Sending THEN Cardinality(Sending)
                                           ELSE Cardinality(Sending) + 1
    BY <1>1, FS_AddElement
  <2>2. Sending' = Sending \cup {t}
    BY <1>3, <1>5
  <2>3. QED
    BY <1>1, <1>5, <2>1, <2>2
<1>6. QED
  BY <1>4, <1>5

(* A command that ends, with nothing else changed but the files' counter   *)
(* of failures.                                                            *)
LEMMA IdleOK == Idle \in Commands /\ Idle.pc = "idle" /\ Idle.i = 0
BY DEF Idle, Commands

LEMMA IdleFrame ==
    ASSUME TransferAssumption, TypeInv, NEW t \in Terminals, cmd' = [cmd EXCEPT ![t] = Idle],
           \A j \in DOMAIN tr : tr'[j] = tr[j] \/ j = cmd[t].i, DOMAIN tr \subseteq DOMAIN tr'
    PROVE  /\ CmdOK' /\ IsFiniteSet(Sending') /\ Cardinality(Sending') \in Nat
           /\ Cardinality(Sending) \in Nat
           /\ Cardinality(Sending') <= Cardinality(Sending)
           /\ cmd[t].pc = "send" => Cardinality(Sending') = Cardinality(Sending) - 1
<1>1. cmd'[t] = Idle /\ OthersWait(t)
  BY IdleOK DEF TypeInv, CmdOK, OthersWait
<1>2. CmdOK'
  BY <1>1, IdleOK, CmdFrame
<1>3. QED
  BY <1>1, <1>2, IdleOK, SendingFrame

-----------------------------------------------------------------------------
(* Every step keeps the inductive invariant.                               *)

(* What no transfer is received by leaves every total as it is.            *)
LEMMA Uncovered ==
    ASSUME TransferAssumption, TransfersOK, TransfersOK', BalancesOK, Covered,
           UNCHANGED <<toO, got>>, DOMAIN tr \subseteq DOMAIN tr',
           \A i \in DOMAIN tr :
               /\ tr'[i].to = tr[i].to /\ tr'[i].amount = tr[i].amount
               /\ tr'[i].exports = tr[i].exports
               /\ tr'[i].step = 3 /\ tr[i].step # 3 => toO[tr[i].to] = 0,
           \A i \in DOMAIN tr' \ DOMAIN tr : tr'[i].exports = 0
    PROVE  Covered'
<1> SUFFICES ASSUME NEW k \in Keys
             PROVE  /\ got'[k] + Pending(k)' >= Total(Exported(k))'
                    /\ got'[k] >= Total(Done(k))'
  BY DEF Covered
<1> DEFINE E == Exported(k)
           D == Done(k)
<1>1. tr \in Seq(Transfer) /\ tr' \in Seq(Transfer)
  BY DEF TransfersOK
<1>2. E' = E /\ E \in SUBSET (DOMAIN tr) /\ D \in SUBSET E /\ D' \in SUBSET E
  <2>1. \A i \in DOMAIN tr' \ DOMAIN tr : ~(tr'[i].exports > 0)
    OBVIOUS
  <2>2. QED
    BY <2>1 DEF Exported, Done, SentTo
<1>3. \A i \in E : Promised'[i] = Promised[i] /\ Promised[i] \in Nat
  BY <1>1, <1>2, TrFacts DEF Promised
<1>4. IsFiniteSet(E) /\ IsFiniteSet(D) /\ IsFiniteSet(D')
  BY <1>1, <1>2, TrFacts, FS_Subset
<1> HIDE DEF E, D
<1>5. SumFunctionOnSet(Promised', E) = SumFunctionOnSet(Promised, E)
  BY <1>3, <1>4, SumSame
<1>6. SumFunctionOnSet(Promised', D') = SumFunctionOnSet(Promised, D')
  BY <1>2, <1>3, <1>4, SumSame
<1>7. /\ SumFunctionOnSet(Promised, D') \in Nat /\ SumFunctionOnSet(Promised, E) \in Nat
      /\ SumFunctionOnSet(Promised, D) \in Nat
      /\ SumFunctionOnSet(Promised, D') <= SumFunctionOnSet(Promised, E)
  BY <1>2, <1>3, <1>4, SumNat, SumMono
<1>8. /\ got[k] \in Nat /\ got[k] + Pending(k) >= SumFunctionOnSet(Promised, E)
      /\ got[k] >= SumFunctionOnSet(Promised, D)
  BY DEF Covered, BalancesOK, Total, E, D
<1>9. Pending(k)' = Pending(k) /\ got'[k] = got[k]
  BY DEF Pending
<1>10. got[k] >= SumFunctionOnSet(Promised, D')
  <2>1. CASE toO[k] = 0
    BY <1>7, <1>8, <2>1 DEF Pending
  <2>2. CASE toO[k] # 0
    <3>1. D' \in SUBSET D
      BY <2>2 DEF D, Done, SentTo
    <3>2. SumFunctionOnSet(Promised, D') <= SumFunctionOnSet(Promised, D)
      BY <1>2, <1>3, <1>4, <3>1, SumMono
    <3>3. QED
      BY <1>7, <1>8, <3>2
  <2>3. QED
    BY <2>1, <2>2
<1>11. QED
  <2>1. /\ Total(Exported(k))' = SumFunctionOnSet(Promised', E')
        /\ Total(Done(k))' = SumFunctionOnSet(Promised', D')
    BY DEF Total, E, D
  <2>2. QED
    BY <1>2, <1>5, <1>6, <1>8, <1>9, <1>10, <2>1

(* A step that touches the key files only.                              *)
LEMMA SameRest ==
    ASSUME IndInv, FilesOK', UNCHANGED <<chains, tr, cmd>>
    PROVE  IndInv'
<1>1. BalancesOK' /\ TransfersOK'
  BY DEF IndInv, TypeInv, BalancesOK, TransfersOK, Sending, chains
<1>2. CmdOK'
  BY DEF IndInv, TypeInv, CmdOK, Receives
<1>3. Covered'
  BY DEF IndInv, Covered, Total, Promised, Exported, Done, SentTo, Pending, chains
<1>4. QED
  BY <1>1, <1>2, <1>3 DEF IndInv, TypeInv

(* key create, key delete and key export.                               *)
LEMMA KeyFileStep ==
    ASSUME IndInv, TransferAssumption,
           \/ \E n \in Names, k \in Keys, force \in BOOLEAN : CreateKey(n, k, force)
           \/ \E n, from \in Names, force \in BOOLEAN : CopyKeyFile(n, from, force)
           \/ \E n \in Names : DeleteKey(n) \/ ExportKey(n)
    PROVE  IndInv'
<1>1. FilesOK
  BY DEF IndInv, TypeInv
<1>2. ASSUME NEW n \in Names, NEW k \in Keys, NEW force \in BOOLEAN, CreateKey(n, k, force)
      PROVE  FilesOK' /\ UNCHANGED <<chains, tr, cmd>>
  BY <1>1, <1>2 DEF CreateKey, Store, FilesOK
<1>3. ASSUME NEW n \in Names, NEW from \in Names, NEW force \in BOOLEAN,
             CopyKeyFile(n, from, force)
      PROVE  FilesOK' /\ UNCHANGED <<chains, tr, cmd>>
  BY <1>1, <1>3 DEF CopyKeyFile, Store, FilesOK
<1>4. ASSUME NEW n \in Names, DeleteKey(n) \/ ExportKey(n)
      PROVE  FilesOK' /\ UNCHANGED <<chains, tr, cmd>>
  BY <1>1, <1>4 DEF DeleteKey, ExportKey, Store, FilesOK
<1>5. QED
  BY <1>2, <1>3, <1>4, SameRest

(* A step of a command that leaves the chains and the transfers alone.     *)
LEMMA SameChains ==
    ASSUME IndInv, TransferAssumption, UNCHANGED <<files, chains, tr>>,
           faults' \in Nat, faults' <= MaxFaults, CmdOK', IsFiniteSet(Sending'),
           Len(tr) + Cardinality(Sending') <= MaxSends
    PROVE  IndInv'
<1>1. FilesOK' /\ BalancesOK' /\ TransfersOK'
  BY DEF IndInv, TypeInv, FilesOK, BalancesOK, TransfersOK, chains, files
<1>2. Covered'
  BY DEF IndInv, Covered, Total, Promised, Exported, Done, SentTo, Pending, chains
<1>3. QED
  BY <1>1, <1>2 DEF IndInv, TypeInv

(* key transfer, on the side that sends and on the side that receives.  *)
LEMMA BeginSendStep ==
    ASSUME IndInv, TransferAssumption, NEW t \in Terminals, NEW n \in Names, NEW to \in made,
           NEW m \in Amounts, BeginSend(t, n, to, m)
    PROVE  IndInv'
<1>1. TypeInv /\ FilesOK /\ TransfersOK /\ CmdOK
  BY DEF IndInv, TypeInv
<1>2. stored[n] \in Keys /\ to \in Keys /\ m \in Nat
  BY <1>1 DEF BeginSend, KeyExists, FilesOK
<1>3. cmd'[t] = [Idle EXCEPT !.pc = "send", !.key = stored[n], !.to = to, !.amount = m]
  BY <1>1 DEF BeginSend, CmdOK
<1>4. cmd'[t] \in Commands /\ Sends(cmd'[t])
  BY <1>2, <1>3, IdleOK DEF Commands, Sends
<1>5. OthersWait(t)
  BY <1>1, <1>3, <1>4 DEF BeginSend, OthersWait, CmdOK
<1>6. CmdOK'
  <2>1. cmd'[t].i = 0 /\ tr' = tr
    BY <1>4 DEF BeginSend, Sends
  <2>2. QED
    BY <1>1, <1>4, <1>5, <2>1, CmdFrame
<1>7. Len(tr) + Cardinality(Sending) < MaxSends /\ Len(tr) \in Nat /\ MaxSends \in Nat
  BY <1>1 DEF BeginSend, Sending
<1>8. IsFiniteSet(Sending') /\ Len(tr) + Cardinality(Sending') <= MaxSends
  <2>1. /\ Cardinality(Sending) \in Nat /\ Cardinality(Sending') \in Nat
        /\ Cardinality(Sending') <= Cardinality(Sending) + 1 /\ IsFiniteSet(Sending')
    BY <1>1, <1>5, SendingFrame
  <2>2. QED
    BY <1>7, <2>1
<1>9. UNCHANGED <<files, chains, tr>> /\ faults' \in Nat /\ faults' <= MaxFaults
  BY <1>1 DEF BeginSend, FilesOK
<1>10. QED
  BY <1>6, <1>8, <1>9, SameChains

LEMMA BeginReceiveStep ==
    ASSUME IndInv, TransferAssumption, NEW t \in Terminals, NEW n \in Names,
           NEW i \in 1..MaxSends, BeginReceive(t, n, i)
    PROVE  IndInv'
<1> DEFINE q == StepName[tr[i].step + 1]
<1>1. TypeInv /\ FilesOK /\ TransfersOK /\ CmdOK
  BY DEF IndInv, TypeInv
<1>2. i \in DOMAIN tr /\ tr[i] \in Transfer /\ tr[i].amount \in Nat
  BY <1>1, TrFacts DEF BeginReceive, TransfersOK
<1>3. q \in {"importA", "exportA", "importO"} /\ AtStep(q, tr[i].step)
  BY <1>2 DEF BeginReceive, Transfer, StepName, AtStep
<1> HIDE DEF q
<1>4. cmd'[t] = [Idle EXCEPT !.pc = q, !.key = stored[n], !.amount = tr[i].amount, !.i = i]
  BY <1>1 DEF BeginReceive, CmdOK, q
<1>5. stored[n] = tr[i].to /\ tr' = tr
  BY DEF BeginReceive
<1>6. cmd'[t] \in Commands /\ Receives(cmd[t])'
  <2>1. /\ cmd'[t].pc = q /\ cmd'[t].key = stored[n] /\ cmd'[t].to = NoKey
        /\ cmd'[t].amount = tr[i].amount /\ cmd'[t].i = i
    BY <1>4 DEF Idle
  <2>2. cmd'[t] \in Commands
    <3>1. stored[n] \in Keys /\ i \in Nat
      BY <1>2, <1>5 DEF Transfer
    <3>2. cmd'[t] = [pc |-> q, key |-> stored[n], to |-> NoKey,
                    amount |-> tr[i].amount, i |-> i]
      BY <1>4 DEF Idle
    <3>3. QED
      BY <1>2, <1>3, <3>1, <3>2 DEF Commands
  <2>3. QED
    BY <1>2, <1>3, <1>5, <2>1, <2>2 DEF Receives
<1>7. OthersWait(t)
  BY <1>1, <1>4, <1>6 DEF BeginReceive, OthersWait, CmdOK
<1>8. cmd'[t].i = i /\ \A u \in Terminals : cmd[u].i # i
  BY <1>4, IdleOK DEF BeginReceive, Receiving, Idle
<1>9. CmdOK'
  BY <1>1, <1>5, <1>6, <1>7, <1>8, CmdFrame
<1>10. IsFiniteSet(Sending') /\ Len(tr) + Cardinality(Sending') <= MaxSends
  <2>1. cmd'[t].pc # "send"
    BY <1>3, <1>4, IdleOK
  <2>2. /\ Cardinality(Sending) \in Nat /\ Cardinality(Sending') \in Nat
        /\ Cardinality(Sending') <= Cardinality(Sending) /\ IsFiniteSet(Sending')
    BY <1>1, <1>7, <2>1, SendingFrame
  <2>3. Len(tr) + Cardinality(Sending) <= MaxSends /\ Len(tr) \in Nat /\ MaxSends \in Nat
    BY <1>1 DEF TransfersOK
  <2>4. QED
    BY <2>2, <2>3
<1>11. UNCHANGED <<files, chains, tr>> /\ faults' \in Nat /\ faults' <= MaxFaults
  BY <1>1 DEF BeginReceive, FilesOK
<1>12. QED
  BY <1>9, <1>10, <1>11, SameChains

(* A command that ends, whether it is done, fails or crashes.           *)
LEMMA EndStep ==
    ASSUME IndInv, TransferAssumption, NEW t \in Terminals, cmd' = [cmd EXCEPT ![t] = Idle],
           UNCHANGED <<files, chains, tr>>,
           UNCHANGED faults \/ (faults < MaxFaults /\ faults' = faults + 1)
    PROVE  IndInv'
<1>1. TypeInv /\ FilesOK /\ TransfersOK
  BY DEF IndInv, TypeInv
<1>2. /\ CmdOK' /\ IsFiniteSet(Sending') /\ Cardinality(Sending') \in Nat
      /\ Cardinality(Sending) \in Nat /\ Cardinality(Sending') <= Cardinality(Sending)
  BY <1>1, IdleFrame
<1>3. Len(tr) + Cardinality(Sending') <= MaxSends
  <2>1. Len(tr) + Cardinality(Sending) <= MaxSends /\ Len(tr) \in Nat /\ MaxSends \in Nat
    BY <1>1 DEF TransfersOK
  <2>2. QED
    BY <1>2, <2>1
<1>4. faults' \in Nat /\ faults' <= MaxFaults
  BY <1>1 DEF FilesOK
<1>5. QED
  BY <1>2, <1>3, <1>4, SameChains

(* A transaction, or a recovery step that is skipped, of a command that    *)
(* receives: it leaves its transfer where it was, and ends, or takes it a  *)
(* step further.                                                           *)
Moves(t) ==
    /\ tr' \in Seq(Transfer) /\ DOMAIN tr' = DOMAIN tr /\ Len(tr') = Len(tr)
    /\ \A j \in DOMAIN tr : j # cmd[t].i => tr'[j] = tr[j]
    /\ tr'[cmd[t].i].to = tr[cmd[t].i].to /\ tr'[cmd[t].i].amount = tr[cmd[t].i].amount
    /\ tr'[cmd[t].i].step \in {tr[cmd[t].i].step, tr[cmd[t].i].step + 1}
    /\ faults' \in Nat /\ faults' <= MaxFaults

(* A receiving command whose answer arrives takes its transfer one      *)
(* step further.                                                        *)
LEMMA Advance ==
    ASSUME IndInv, TransferAssumption, NEW t \in Terminals, Receives(cmd[t]),
           NEW r \in Transfer,
           r.to = tr[cmd[t].i].to, r.amount = tr[cmd[t].i].amount, r.step = tr[cmd[t].i].step,
           Answered(t, r)
    PROVE  Moves(t) /\ TransfersOK' /\ CmdOK' /\ tr'[cmd[t].i].exports = r.exports
<1> DEFINE i == cmd[t].i
           up == [r EXCEPT !.step = @ + 1]
           q == StepName[r.step + 2]
<1>1. TypeInv /\ FilesOK /\ TransfersOK /\ CmdOK /\ tr \in Seq(Transfer) /\ Len(tr) \in Nat
  BY DEF IndInv, TypeInv, TransfersOK
<1>2. i \in DOMAIN tr /\ i \in 1..Len(tr) /\ r.step \in 0..2
  BY <1>1 DEF Receives, AtStep
<1>3. up \in Transfer /\ up.step = r.step + 1 /\ up.to = r.to /\ up.amount = r.amount
      /\ up.exports = r.exports
  <2>1. r.step + 1 \in 0..3
    BY <1>2
  <2>2. QED
    BY <2>1 DEF Transfer
<1>4. ASSUME NEW s \in Transfer, tr' = [tr EXCEPT ![i] = s], s.exports = r.exports,
             s.to = r.to, s.amount = r.amount, s.step \in {r.step, r.step + 1},
             faults' \in Nat, faults' <= MaxFaults
      PROVE  Moves(t) /\ tr'[i].exports = r.exports
  BY <1>1, <1>2, <1>4 DEF Moves
<1>5. CASE /\ tr' = [tr EXCEPT ![i] = r] /\ cmd' = [cmd EXCEPT ![t] = Idle]
           /\ faults < MaxFaults /\ faults' = faults + 1
  <2>1. faults' \in Nat /\ faults' <= MaxFaults
    BY <1>1, <1>5 DEF FilesOK
  <2>2. Moves(t) /\ tr'[i].exports = r.exports
    BY <1>2, <1>4, <1>5, <2>1
  <2>3. CmdOK' /\ IsFiniteSet(Sending') /\ Len(tr') + Cardinality(Sending') <= MaxSends
    <3>1. /\ CmdOK' /\ IsFiniteSet(Sending') /\ Cardinality(Sending') \in Nat
          /\ Cardinality(Sending) \in Nat /\ Cardinality(Sending') <= Cardinality(Sending)
      BY <1>1, <1>5, <2>2, IdleFrame
    <3>2. QED
      BY <1>1, <2>2, <3>1 DEF Moves, TransfersOK
  <2>4. QED
    BY <2>2, <2>3 DEF Moves, TransfersOK
<1>6. CASE tr' = [tr EXCEPT ![i] = up] /\ UNCHANGED faults /\ r.step = 2
           /\ cmd' = [cmd EXCEPT ![t] = Idle]
  <2>1. Moves(t) /\ tr'[i].exports = r.exports
    BY <1>1, <1>3, <1>4, <1>6 DEF FilesOK
  <2>2. CmdOK' /\ IsFiniteSet(Sending') /\ Len(tr') + Cardinality(Sending') <= MaxSends
    <3>1. /\ CmdOK' /\ IsFiniteSet(Sending') /\ Cardinality(Sending') \in Nat
          /\ Cardinality(Sending) \in Nat /\ Cardinality(Sending') <= Cardinality(Sending)
      BY <1>1, <1>6, <2>1, IdleFrame
    <3>2. QED
      BY <1>1, <2>1, <3>1 DEF Moves, TransfersOK
  <2>3. QED
    BY <2>1, <2>2 DEF Moves, TransfersOK
<1>7. CASE tr' = [tr EXCEPT ![i] = up] /\ UNCHANGED faults /\ r.step # 2
           /\ cmd' = [cmd EXCEPT ![t] = [@ EXCEPT !.pc = q]]
  <2>1. Moves(t) /\ tr'[i].exports = r.exports
    BY <1>1, <1>3, <1>4, <1>7 DEF FilesOK
  <2>2. q \in {"exportA", "importO"} /\ AtStep(q, r.step + 1)
    <3>1. r.step \in {0, 1}
      BY <1>2, <1>7
    <3>2. CASE r.step = 0
      <4>1. q = "exportA"
        BY <3>2 DEF StepName
      <4>2. QED
        BY <3>2, <4>1 DEF AtStep
    <3>3. CASE r.step = 1
      <4>1. q = "importO"
        BY <3>3 DEF StepName
      <4>2. QED
        BY <3>3, <4>1 DEF AtStep
    <3>4. QED
      BY <3>1, <3>2, <3>3
  <2> HIDE DEF q
  <2>3. cmd'[t] = [cmd[t] EXCEPT !.pc = q] /\ cmd[t] \in Commands
    BY <1>1, <1>7 DEF CmdOK
  <2>4. cmd'[t] \in Commands /\ cmd'[t].i = i /\ cmd'[t].pc = q /\ cmd'[t].key = cmd[t].key
        /\ cmd'[t].amount = cmd[t].amount
    BY <2>2, <2>3 DEF Commands
  <2>5. tr'[i] = up
    BY <1>2, <1>7
  <2>6. Receives(cmd[t])'
    BY <1>2, <1>3, <2>1, <2>2, <2>4, <2>5 DEF Receives, Moves
  <2>7. OthersWait(t)
    BY <1>1, <1>7, <2>4 DEF OthersWait, CmdOK
  <2>8. CmdOK'
    BY <1>1, <2>1, <2>4, <2>6, <2>7, CmdFrame DEF Moves
  <2>9. IsFiniteSet(Sending') /\ Len(tr') + Cardinality(Sending') <= MaxSends
    <3>1. /\ Cardinality(Sending) \in Nat /\ Cardinality(Sending') \in Nat
          /\ Cardinality(Sending') <= Cardinality(Sending) /\ IsFiniteSet(Sending')
      BY <1>1, <2>2, <2>4, <2>7, SendingFrame
    <3>2. QED
      BY <1>1, <2>1, <3>1 DEF Moves, TransfersOK
  <2>10. QED
    BY <2>1, <2>8, <2>9 DEF Moves, TransfersOK
<1>8. QED
  BY <1>5, <1>6, <1>7 DEF Answered, Lost

(* The transfer is sent: a new one, nothing of which is imported.       *)
LEMMA SendStep ==
    ASSUME IndInv, TransferAssumption, NEW t \in Terminals, Send(t)
    PROVE  IndInv'
<1> DEFINE k == cmd[t].key
           m == cmd[t].amount
           new == [to |-> cmd[t].to, amount |-> m, step |-> 0, exports |-> 0]
<1>1. TypeInv /\ FilesOK /\ BalancesOK /\ TransfersOK /\ CmdOK /\ tr \in Seq(Transfer)
      /\ Len(tr) \in Nat
  BY DEF IndInv, TypeInv, TransfersOK
<1>2. k \in Keys /\ cmd[t].to \in Keys /\ m \in Amounts /\ cmd[t].i = 0 /\ cmd[t].pc = "send"
  BY <1>1 DEF Send, CmdOK, Idle, Sends, Receives, AtStep
<1>3. m \in Nat /\ Fee \in Nat /\ Sent(m) \in Nat /\ Sent(m) >= Fee
  <2>1. m \in Nat /\ Fee \in Nat
    BY <1>2
  <2>2. QED
    BY <2>1 DEF Sent
<1>4. cmd' = [cmd EXCEPT ![t] = Idle]
      /\ (UNCHANGED faults \/ (faults < MaxFaults /\ faults' = faults + 1))
  BY DEF Send, Lost
<1>5. new \in Transfer
  BY <1>2 DEF Transfer
<1>6. /\ tr' \in Seq(Transfer) /\ Len(tr') = Len(tr) + 1 /\ DOMAIN tr \subseteq DOMAIN tr'
      /\ \A j \in DOMAIN tr : tr'[j] = tr[j]
      /\ \A j \in DOMAIN tr' : j \in DOMAIN tr \/ tr'[j] = new
  <2>1. tr' = Append(tr, new)
    BY DEF Send
  <2> HIDE DEF new
  <2>2. QED
    BY <1>1, <1>5, <2>1
<1>7. FilesOK'
  BY <1>1, <1>4 DEF Send, FilesOK, files
<1>8. BalancesOK'
  <2>1. /\ o' = [o EXCEPT ![k] = @ - (Sent(m) + Fee)] /\ o[k] >= Sent(m) + Fee
        /\ toA' = [toA EXCEPT ![cmd[t].to] = @ + Sent(m)]
        /\ UNCHANGED <<a, toO, got>>
    BY DEF Send, CanSend
  <2> HIDE DEF k, m
  <2>2. o' \in [Keys -> Nat]
    <3>1. o[k] \in Nat /\ Sent(m) + Fee \in Nat
      <4>1. o[k] \in Nat
        BY <1>1, <1>2 DEF BalancesOK
      <4>2. Sent(m) + Fee \in Nat
        BY <1>3
      <4>3. QED
        BY <4>1, <4>2
    <3>2. o[k] - (Sent(m) + Fee) \in Nat
      BY <2>1, <3>1
    <3>3. QED
      BY <1>1, <2>1, <3>2 DEF BalancesOK
  <2>3. toA' \in [Keys -> Nat] /\ \A j \in Keys : toA'[j] = 0 \/ toA'[j] >= Fee
    <3>1. toA[cmd[t].to] \in Nat
      BY <1>1, <1>2 DEF BalancesOK
    <3>2. toA[cmd[t].to] + Sent(m) \in Nat /\ toA[cmd[t].to] + Sent(m) >= Fee
      BY <1>3, <3>1
    <3>3. QED
      BY <1>1, <1>2, <2>1, <3>2 DEF BalancesOK
  <2>4. QED
    BY <1>1, <2>1, <2>2, <2>3 DEF BalancesOK
<1>9. CmdOK' /\ TransfersOK'
  <2>1. /\ CmdOK' /\ IsFiniteSet(Sending') /\ Cardinality(Sending') \in Nat
        /\ Cardinality(Sending) \in Nat /\ Cardinality(Sending') = Cardinality(Sending) - 1
    BY <1>1, <1>2, <1>4, <1>6, IdleFrame
  <2>2. QED
    BY <1>1, <1>6, <2>1 DEF TransfersOK
<1>10. Covered'
  <2>1. \A j \in DOMAIN tr' : j \in DOMAIN tr \/ tr'[j].exports = 0
    BY <1>6
  <2>2. UNCHANGED <<toO, got>>
    BY DEF Send
  <2>3. QED
    BY <1>1, <1>6, <1>9, <2>1, <2>2, Uncovered DEF IndInv
<1>11. QED
  BY <1>7, <1>8, <1>9, <1>10 DEF IndInv, TypeInv

(* The A-Chain imports what was sent.                                   *)
LEMMA ImportAStep ==
    ASSUME IndInv, TransferAssumption, NEW t \in Terminals, ImportA(t)
    PROVE  IndInv'
<1> DEFINE k == cmd[t].key
<1>1. TypeInv /\ FilesOK /\ BalancesOK /\ TransfersOK /\ CmdOK /\ Covered
      /\ tr \in Seq(Transfer)
  BY DEF IndInv, TypeInv, TransfersOK
<1>2. Receives(cmd[t]) /\ tr[cmd[t].i].step = 0
  BY <1>1 DEF ImportA, CmdOK, Idle, Sends, Receives, AtStep
<1>3. tr[cmd[t].i] \in Transfer /\ k \in Keys
  <2>1. cmd[t].i \in DOMAIN tr /\ k = tr[cmd[t].i].to
    BY <1>2 DEF Receives
  <2>2. QED
    BY <1>1, <2>1, TrFacts DEF Transfer
<1>4. Moves(t) /\ TransfersOK' /\ CmdOK' /\ tr'[cmd[t].i].exports = tr[cmd[t].i].exports
  BY <1>2, <1>3, Advance DEF ImportA
<1>5. BalancesOK'
  <2>1. /\ a' = [a EXCEPT ![k] = @ + toA[k] - Fee] /\ toA[k] > 0
        /\ toA' = [toA EXCEPT ![k] = 0] /\ UNCHANGED <<o, toO, got>>
    BY DEF ImportA, CanImportA
  <2>2. Fee \in Nat /\ toA[k] \in Nat /\ toA[k] >= Fee /\ a[k] \in Nat
    BY <1>1, <1>3, <2>1 DEF BalancesOK
  <2> HIDE DEF k
  <2>3. a[k] + toA[k] - Fee \in Nat
    BY <2>2
  <2>4. QED
    BY <1>1, <1>3, <2>1, <2>3 DEF BalancesOK
<1>6. FilesOK'
  BY <1>1, <1>4 DEF ImportA, FilesOK, files, Moves
<1>7. Covered'
  <2>1. DOMAIN tr' = DOMAIN tr /\ UNCHANGED <<toO, got>>
    BY <1>4 DEF ImportA, Moves
  <2>2. ASSUME NEW j \in DOMAIN tr
        PROVE  /\ tr'[j].to = tr[j].to /\ tr'[j].amount = tr[j].amount
               /\ tr'[j].exports = tr[j].exports
               /\ tr'[j].step = 3 /\ tr[j].step # 3 => toO[tr[j].to] = 0
    <3>1. CASE j = cmd[t].i
      BY <1>2, <1>4, <3>1 DEF Moves
    <3>2. CASE j # cmd[t].i
      BY <1>4, <3>2 DEF Moves
    <3>3. QED
      BY <3>1, <3>2
  <2>3. DOMAIN tr' \ DOMAIN tr = {} /\ DOMAIN tr \subseteq DOMAIN tr'
    BY <2>1
  <2>4. QED
    BY <1>1, <1>4, <2>1, <2>2, <2>3, Uncovered
<1>8. QED
  BY <1>4, <1>5, <1>6, <1>7 DEF IndInv, TypeInv

(* The steps of a transfer change neither its key nor its amount.       *)
LEMMA PromisedKept ==
    ASSUME IndInv, NEW t \in Terminals, Moves(t)
    PROVE  /\ Promised' = Promised /\ DOMAIN tr' = DOMAIN tr
           /\ \A j \in DOMAIN tr : tr'[j].to = tr[j].to /\ tr'[j].amount = tr[j].amount
<1>1. /\ DOMAIN tr' = DOMAIN tr
      /\ \A j \in DOMAIN tr : tr'[j].to = tr[j].to /\ tr'[j].amount = tr[j].amount
  BY DEF Moves
<1>2. QED
  BY <1>1 DEF Promised

(* The totals after a step are natural numbers too.                     *)
LEMMA TotalsNatNext ==
    ASSUME TransferAssumption, TransfersOK', NEW k
    PROVE  /\ Total(Exported(k))' \in Nat /\ Total(Done(k))' \in Nat
           /\ Total(Done(k))' <= Total(Exported(k))'
<1>1. tr' \in Seq(Transfer)
  BY DEF TransfersOK
<1>2. Exported(k)' \in SUBSET (DOMAIN tr') /\ Done(k)' \in SUBSET Exported(k)'
  BY DEF Exported, Done, SentTo
<1>3. IsFiniteSet(Exported(k)') /\ IsFiniteSet(Done(k)')
  BY <1>1, <1>2, TrFacts, FS_Subset
<1>4. \A i \in Exported(k)' : Promised'[i] \in Nat
  BY <1>1, <1>2, TrFacts DEF Promised
<1>5. QED
  BY <1>2, <1>3, <1>4, SumNat, SumMono DEF Total

(* The last import pays for everything that was exported to the key.       *)
LEMMA ImportOStep ==
    ASSUME IndInv, TransferAssumption, NEW t \in Terminals, ImportO(t)
    PROVE  IndInv'
<1> DEFINE k == cmd[t].key
<1>1. TypeInv /\ FilesOK /\ BalancesOK /\ TransfersOK /\ CmdOK /\ Covered
      /\ tr \in Seq(Transfer)
  BY DEF IndInv, TypeInv, TransfersOK
<1>2. Receives(cmd[t]) /\ tr[cmd[t].i].step = 2
  BY <1>1 DEF ImportO, CmdOK, Idle, Sends, Receives, AtStep
<1>3. tr[cmd[t].i] \in Transfer /\ k \in Keys
  <2>1. cmd[t].i \in DOMAIN tr /\ k = tr[cmd[t].i].to
    BY <1>2 DEF Receives
  <2>2. QED
    BY <1>1, <2>1, TrFacts DEF Transfer
<1>4. Moves(t) /\ TransfersOK' /\ CmdOK' /\ tr'[cmd[t].i].exports = tr[cmd[t].i].exports
  BY <1>2, <1>3, Advance DEF ImportO
<1>5. /\ o' = [o EXCEPT ![k] = @ + (toO[k] - Fee)]
      /\ got' = [got EXCEPT ![k] = @ + (toO[k] - Fee)]
      /\ toO' = [toO EXCEPT ![k] = 0] /\ toO[k] > 0 /\ UNCHANGED <<a, toA>>
  BY DEF ImportO, CanImportO
<1>6. Fee \in Nat /\ toO[k] \in Nat /\ toO[k] >= Fee /\ o[k] \in Nat /\ got[k] \in Nat
  BY <1>1, <1>3, <1>5 DEF BalancesOK
<1>7. BalancesOK'
  <2> HIDE DEF k
  <2>1. o[k] + (toO[k] - Fee) \in Nat /\ got[k] + (toO[k] - Fee) \in Nat
    BY <1>6
  <2>2. QED
    BY <1>1, <1>3, <1>5, <2>1 DEF BalancesOK
<1>8. FilesOK'
  BY <1>1, <1>4 DEF ImportO, FilesOK, files, Moves
<1>9. ASSUME NEW j \in Keys
      PROVE  /\ got'[j] + Pending(j)' >= Total(Exported(j))'
             /\ got'[j] >= Total(Done(j))'
  <2>1. Exported(j)' = Exported(j) /\ Total(Exported(j))' = Total(Exported(j))
    <3>1. Exported(j)' = Exported(j)
      BY <1>2, <1>4, PromisedKept DEF Exported, SentTo, Moves
    <3>2. QED
      BY <1>4, <3>1, PromisedKept DEF Total
  <2>2. CASE j = k
    <3>1. got'[j] = got[j] + Pending(j) /\ Pending(j)' = 0
      <4>1. got'[j] = got[j] + (toO[j] - Fee) /\ toO'[j] = 0
        BY <1>1, <1>3, <1>5, <2>2 DEF BalancesOK
      <4>2. toO[j] # 0
        BY <1>5, <1>6, <2>2
      <4>3. Pending(j) = toO[j] - Fee /\ Pending(j)' = 0
        BY <4>1, <4>2 DEF Pending
      <4>4. QED
        BY <4>1, <4>3
    <3>2. /\ Total(Exported(j))' \in Nat /\ Total(Done(j))' \in Nat
          /\ Total(Done(j))' <= Total(Exported(j))'
      BY <1>4, TotalsNatNext
    <3>3. got[j] + Pending(j) >= Total(Exported(j)) /\ got'[j] \in Nat
      BY <1>1, <1>7 DEF Covered, BalancesOK
    <3>4. QED
      BY <2>1, <3>1, <3>2, <3>3
  <2>3. CASE j # k
    <3>1. got'[j] = got[j] /\ Pending(j)' = Pending(j)
      BY <1>1, <1>5, <2>3 DEF Pending
    <3>2. Done(j)' = Done(j) /\ Total(Done(j))' = Total(Done(j))
      <4>1. Done(j)' = Done(j)
        BY <1>2, <1>4, <2>3, PromisedKept DEF Done, SentTo, Moves, Receives
      <4>2. QED
        BY <1>4, <4>1, PromisedKept DEF Total
    <3>3. QED
      BY <1>1, <2>1, <3>1, <3>2 DEF Covered
  <2>4. QED
    BY <2>2, <2>3
<1>10. QED
  BY <1>4, <1>7, <1>8, <1>9 DEF IndInv, TypeInv, Covered

(* The export brings what the transfer promises and the fee of the import. *)
LEMMA ExportAStep ==
    ASSUME IndInv, TransferAssumption, NEW t \in Terminals, ExportA(t)
    PROVE  IndInv'
<1> DEFINE k == cmd[t].key
           m == cmd[t].amount
           i == cmd[t].i
           r == [tr[i] EXCEPT !.exports = @ + 1]
<1>1. TypeInv /\ FilesOK /\ BalancesOK /\ TransfersOK /\ CmdOK /\ Covered
      /\ tr \in Seq(Transfer)
  BY DEF IndInv, TypeInv, TransfersOK
<1>2. Receives(cmd[t]) /\ tr[i].step = 1
  BY <1>1 DEF ExportA, CmdOK, Idle, Sends, Receives, AtStep
<1>3. tr[i] \in Transfer /\ k \in Keys /\ m \in Nat /\ i \in DOMAIN tr /\ tr[i].to = k
      /\ tr[i].amount = m
  BY <1>1, <1>2, TrFacts DEF Receives, Transfer
<1>4. r \in Transfer /\ r.to = k /\ r.amount = m /\ r.step = 1 /\ r.exports > 0
  BY <1>2, <1>3 DEF Transfer
<1>5. Moves(t) /\ TransfersOK' /\ CmdOK' /\ tr'[i].exports > 0
  <2>1. Answered(t, r)
    BY DEF ExportA
  <2> HIDE DEF r
  <2>2. QED
    BY <1>2, <1>3, <1>4, <2>1, Advance
<1>6. /\ a' = [a EXCEPT ![k] = @ - (SentBack(m) + Fee)] /\ a[k] >= SentBack(m) + Fee
      /\ toO' = [toO EXCEPT ![k] = @ + SentBack(m)] /\ UNCHANGED <<o, toA, got>>
  BY DEF ExportA, CanExportA
<1>7. /\ Fee \in Nat /\ SentBack(m) = m + Fee /\ SentBack(m) \in Nat /\ toO[k] \in Nat
      /\ a[k] \in Nat /\ Fee # 0 /\ got[k] \in Nat
  <2>1. Fee \in Nat /\ Fee # 0
    BY DEF TransferAssumption
  <2>2. toO[k] \in Nat /\ a[k] \in Nat /\ got[k] \in Nat
    BY <1>1, <1>3 DEF BalancesOK
  <2>3. SentBack(m) = m + Fee
    BY DEF SentBack
  <2>4. m + Fee \in Nat
    BY <1>3, <2>1
  <2>5. QED
    BY <2>1, <2>2, <2>3, <2>4
<1> HIDE DEF k, m, i, r
<1>8. BalancesOK'
  <2>1. a[k] - (SentBack(m) + Fee) \in Nat /\ toO[k] + SentBack(m) \in Nat
        /\ toO[k] + SentBack(m) >= Fee
    BY <1>3, <1>6, <1>7
  <2>2. QED
    BY <1>1, <1>3, <1>6, <2>1 DEF BalancesOK
<1>9. FilesOK'
  BY <1>1, <1>5 DEF ExportA, FilesOK, files, Moves
<1>10. Promised' = Promised /\ \A j \in DOMAIN tr : j # i => tr'[j] = tr[j]
  BY <1>5, PromisedKept DEF Moves, i
<1>11. ASSUME NEW j \in Keys
       PROVE  Done(j)' = Done(j) /\ Total(Done(j))' = Total(Done(j))
  <2>1. tr'[i].step # 3 /\ tr[i].step # 3 /\ DOMAIN tr' = DOMAIN tr
    BY <1>2, <1>5 DEF Moves, i
  <2>2. Done(j)' = Done(j)
    BY <1>10, <2>1 DEF Done, SentTo
  <2>3. QED
    BY <1>10, <2>2 DEF Total
<1>12. ASSUME NEW x \in Keys, x = k
       PROVE  got'[x] + Pending(x)' >= Total(Exported(x))'
  <2> DEFINE E == Exported(x)
  <2>1. E' = E \cup {i} /\ E \in SUBSET (DOMAIN tr)
    <3>1. DOMAIN tr' = DOMAIN tr /\ tr'[i].to = x
      BY <1>3, <1>5, <1>12, PromisedKept
    <3>2. E' = {j \in DOMAIN tr : tr'[j].to = x /\ tr'[j].exports > 0}
      BY <3>1 DEF Exported, SentTo
    <3>3. E = {j \in DOMAIN tr : tr[j].to = x /\ tr[j].exports > 0}
      BY DEF Exported, SentTo
    <3>4. QED
      BY <1>3, <1>5, <1>10, <1>12, <3>1, <3>2, <3>3
  <2>2. IsFiniteSet(E \cup {i}) /\ \A j \in E \cup {i} : Promised[j] \in Nat
    <3>1. E \cup {i} \in SUBSET (DOMAIN tr)
      BY <1>3, <2>1
    <3>2. QED
      BY <1>1, <3>1, TrFacts, FS_Subset DEF Promised
  <2>3. Promised[i] = m
    BY <1>3 DEF Promised
  <2>4. Total(E) \in Nat /\ Total(E)' = SumFunctionOnSet(Promised, E \cup {i})
    BY <1>1, <1>10, <2>1, TotalsNat DEF Total
  <2> HIDE DEF E
  <2>5. SumFunctionOnSet(Promised, E \cup {i}) <= m + Total(E)
    <3>1. CASE i \in E
      <4>1. E \cup {i} = E
        BY <3>1
      <4>2. SumFunctionOnSet(Promised, E \cup {i}) = Total(E) /\ Total(E) \in Nat
        BY <2>4, <4>1 DEF Total
      <4>3. QED
        BY <1>3, <4>2
    <3>2. CASE i \notin E
      <4>1. (E \cup {i}) \ {i} = E
        BY <3>2
      <4>2. SumFunctionOnSet(Promised, E \cup {i}) = m + SumFunctionOnSet(Promised, E)
        BY <2>2, <2>3, <4>1, SumWithout
      <4>3. QED
        BY <1>3, <2>4, <4>2 DEF Total
    <3>3. QED
      BY <3>1, <3>2
  <2>6. got[x] + Pending(x) >= Total(E)
    BY <1>1, <1>3, <1>12 DEF Covered, E
  <2>7. got'[x] = got[x] /\ Pending(x)' >= Pending(x) + m /\ Pending(x) \in Int
        /\ Pending(x)' \in Int
    <3>1. toO'[x] = toO[x] + m + Fee /\ toO'[x] # 0
      <4>1. toO'[x] = toO[x] + SentBack(m)
        BY <1>1, <1>3, <1>12, <1>6 DEF BalancesOK
      <4>2. QED
        BY <1>3, <1>7, <1>12, <4>1
    <3>2. Pending(x)' = toO'[x] - Fee
      BY <3>1 DEF Pending
    <3>3. Pending(x) \in Int /\ Pending(x)' \in Int /\ Pending(x)' >= Pending(x) + m
      <4>1. CASE toO[x] = 0
        BY <1>3, <1>7, <1>12, <3>1, <3>2, <4>1 DEF Pending
      <4>2. CASE toO[x] # 0
        BY <1>3, <1>7, <1>12, <3>1, <3>2, <4>2 DEF Pending
      <4>3. QED
        BY <4>1, <4>2
    <3>4. QED
      BY <1>6, <1>12, <3>3
  <2>8. Total(E)' \in Nat
    BY <1>5, TotalsNatNext DEF E
  <2>9. QED
    BY <1>3, <1>7, <1>12, <2>4, <2>5, <2>6, <2>7, <2>8 DEF E
<1>13. ASSUME NEW j \in Keys, j # k
       PROVE  got'[j] + Pending(j)' >= Total(Exported(j))'
  <2>1. Exported(j)' = Exported(j)
    BY <1>3, <1>5, <1>10, <1>13 DEF Exported, SentTo, Moves
  <2>2. Total(Exported(j))' = Total(Exported(j))
    BY <1>10, <2>1 DEF Total
  <2>3. got'[j] = got[j] /\ Pending(j)' = Pending(j)
    BY <1>1, <1>6, <1>13 DEF Pending
  <2>4. QED
    BY <1>1, <2>2, <2>3 DEF Covered
<1>14. Covered'
  <2>1. \A j \in Keys : got[j] >= Total(Done(j))
    BY <1>1 DEF Covered
  <2>2. \A j \in Keys : got'[j] = got[j]
    BY <1>6
  <2>3. \A j \in Keys : got'[j] >= Total(Done(j))'
    BY <1>11, <2>1, <2>2
  <2>4. \A j \in Keys : got'[j] + Pending(j)' >= Total(Exported(j))'
    BY <1>12, <1>13
  <2>5. QED
    BY <2>3, <2>4 DEF Covered
<1>15. QED
  BY <1>5, <1>8, <1>9, <1>14 DEF IndInv, TypeInv

(* The user goes on to the next step when there is nothing left to do for  *)
(* this one; the last one is left when nothing waits to be imported.       *)
LEMMA BuildFailsStep ==
    ASSUME IndInv, TransferAssumption, NEW t \in Terminals, BuildFails(t)
    PROVE  IndInv'
<1> DEFINE i == cmd[t].i
<1>1. TypeInv /\ FilesOK /\ BalancesOK /\ TransfersOK /\ CmdOK /\ Covered
      /\ tr \in Seq(Transfer)
      /\ Len(tr) \in Nat
  BY DEF IndInv, TypeInv, TransfersOK
<1>2. CASE cmd[t].pc = "send"
  BY <1>2, EndStep DEF BuildFails
<1>3. CASE cmd[t].pc # "send"
  <2>1. Receives(cmd[t]) /\ i \in DOMAIN tr /\ tr[i] \in Transfer /\ tr[i].step \in 0..2
    BY <1>1, <1>3 DEF BuildFails, CmdOK, Sends, Receives, AtStep
  <2>2. tr' = [tr EXCEPT ![i] = [tr[i] EXCEPT !.step = @ + 1]]
    BY <1>3, <2>1 DEF BuildFails
  <2>3. [tr[i] EXCEPT !.step = @ + 1] \in Transfer
    <3>1. tr[i].step + 1 \in 0..3
      BY <2>1
    <3>2. QED
      BY <2>1, <3>1 DEF Transfer
  <2>4. /\ tr' \in Seq(Transfer) /\ DOMAIN tr' = DOMAIN tr /\ Len(tr') = Len(tr)
        /\ \A j \in DOMAIN tr : j # i => tr'[j] = tr[j]
    BY <1>1, <2>1, <2>2, <2>3
  <2>5. /\ tr'[i].to = tr[i].to /\ tr'[i].amount = tr[i].amount
        /\ tr'[i].exports = tr[i].exports /\ tr'[i].step = tr[i].step + 1
    BY <2>1, <2>2 DEF Transfer
  <2>6. UNCHANGED <<files, chains, faults>> /\ cmd' = [cmd EXCEPT ![t] = Idle]
    BY DEF BuildFails
  <2>7. TransfersOK' /\ CmdOK'
    <3>1. /\ CmdOK' /\ IsFiniteSet(Sending') /\ Cardinality(Sending') \in Nat
          /\ Cardinality(Sending) \in Nat /\ Cardinality(Sending') <= Cardinality(Sending)
      BY <1>1, <2>4, <2>6, IdleFrame
    <3>2. QED
      BY <1>1, <2>4, <3>1 DEF TransfersOK
  <2>8. tr[i].step = 2 => toO[tr[i].to] = 0
    <3>1. ASSUME tr[i].step = 2
          PROVE  cmd[t].pc = "importO" /\ cmd[t].key = tr[i].to /\ tr[i].to \in Keys
      BY <2>1, <3>1 DEF Receives, AtStep, Transfer
    <3>2. cmd[t].pc = "importO" => ~(toO[cmd[t].key] > 0)
      BY DEF BuildFails, Possible, CanImportO
    <3>3. \A k \in Keys : toO[k] \in Nat
      BY <1>1 DEF BalancesOK
    <3>4. QED
      BY <3>1, <3>2, <3>3
  <2>9. Covered'
    <3>1. UNCHANGED <<toO, got>>
      BY <2>6 DEF chains
    <3>2. \A j \in DOMAIN tr' :
            /\ j \in DOMAIN tr /\ tr'[j].to = tr[j].to /\ tr'[j].amount = tr[j].amount
            /\ tr'[j].exports = tr[j].exports
            /\ tr'[j].step = 3 /\ tr[j].step # 3 => toO[tr[j].to] = 0
      BY <2>1, <2>4, <2>5, <2>8
    <3>3. QED
      BY <1>1, <2>4, <2>7, <3>1, <3>2, Uncovered
  <2>10. FilesOK' /\ BalancesOK'
    BY <1>1, <2>6 DEF FilesOK, BalancesOK, files, chains
  <2>11. QED
    BY <2>7, <2>9, <2>10 DEF IndInv, TypeInv
<1>4. QED
  BY <1>2, <1>3

-----------------------------------------------------------------------------
(* Every step keeps the invariant, ...                                  *)
LEMMA StepInv ==
    ASSUME IndInv, TransferAssumption, [Next]_vars
    PROVE  IndInv'
<1>1. ASSUME NEW t \in Terminals, Cancel(t) \/ \E kind \in {"crash", "reject"} : Fails(t, kind)
      PROVE  IndInv'
  BY <1>1, EndStep DEF Cancel, Fails
<1>2. CASE UNCHANGED vars
  BY <1>2, SameRest DEF vars, IndInv, TypeInv, FilesOK, chains
<1>3. ASSUME NEW i \in 1..MaxSends, ReceiveOn(i)
      PROVE  IndInv'
  BY <1>3, BeginReceiveStep DEF ReceiveOn
<1>4. QED
  BY <1>1, <1>2, <1>3, KeyFileStep, BeginSendStep, SendStep, ImportAStep, ExportAStep,
     ImportOStep, BuildFailsStep DEF Next, Issue

(* ... every initial state has it, ...                                  *)
LEMMA InitInv == TransferAssumption /\ Init => IndInv
<1> SUFFICES ASSUME TransferAssumption, Init
             PROVE  IndInv
  OBVIOUS
<1>1. FilesOK /\ BalancesOK
  BY DEF Init, FilesOK, BalancesOK
<1>2. CmdOK
  BY IdleOK DEF Init, CmdOK
<1>3. TransfersOK
  <2>1. Sending = {}
    BY IdleOK DEF Init, Sending
  <2>2. IsFiniteSet(Sending) /\ Cardinality(Sending) = 0
    BY <2>1, FS_EmptySet
  <2>3. QED
    BY <2>2 DEF Init, TransfersOK
<1>4. Covered
  <2>1. \A k \in Keys : Exported(k) = {} /\ Done(k) = {}
    BY DEF Init, Exported, Done, SentTo
  <2>2. Total({}) = 0
    BY FS_EmptySet, SumStep DEF Total
  <2>3. \A k \in Keys : Total(Exported(k)) = 0 /\ Total(Done(k)) = 0
    BY <2>1, <2>2
  <2>4. \A k \in Keys : got[k] = 0 /\ Pending(k) = 0
    BY DEF Init, Pending
  <2>5. QED
    BY <2>3, <2>4 DEF Covered
<1>5. QED
  BY <1>1, <1>2, <1>3, <1>4 DEF IndInv, TypeInv

(* ... so every reachable state has it.                                 *)
LEMMA Inductive == Spec => []IndInv
<1>1. Init => IndInv
  BY InitInv, TransferAssumption
<1>2. IndInv /\ [Next]_vars => IndInv'
  BY StepInv, TransferAssumption
<1>3. QED
  BY <1>1, <1>2, PTL DEF Spec

(* No step of a transfer takes more than the key owns.                     *)
THEOREM TypeCorrect == Spec => []TypeOK
<1>1. IndInv => TypeOK
  <2> SUFFICES ASSUME IndInv
               PROVE  TypeOK
    OBVIOUS
  <2>1. FilesOK /\ BalancesOK /\ TransfersOK /\ CmdOK
    BY DEF IndInv, TypeInv
  <2>2. \A i \in DOMAIN tr : tr[i] \in Transfer
    BY <2>1 DEF TransfersOK
  <2>3. \A t \in Terminals : cmd[t].i \in 0..Len(tr)
    BY <2>1 DEF CmdOK, Idle, Sends, Receives, TransfersOK
  <2>4. Len(tr) <= MaxSends
    <3>1. Cardinality(Sending) \in Nat /\ Len(tr) \in Nat
          /\ Len(tr) + Cardinality(Sending) <= MaxSends
      BY <2>1, FS_CardinalityType DEF TransfersOK
    <3>2. QED
      BY <3>1, TransferAssumption
  <2>5. QED
    BY <2>1, <2>2, <2>3, <2>4 DEF TypeOK, FilesOK, BalancesOK, CmdOK, Transfer, Commands
<1>2. QED
  BY <1>1, Inductive, PTL

(* A receiver who has come through the last step has at least what was     *)
(* sent to him: whatever the amounts and the fee, however many transfers   *)
(* are received in whichever order, and whatever is lost on the way.       *)
THEOREM DeliveredWhenDone == Spec => []DoneMeansDelivered
<1>1. IndInv => DoneMeansDelivered
  BY DEF IndInv, Covered, Done, DoneMeansDelivered
<1>2. QED
  BY <1>1, Inductive, PTL
=============================================================================
