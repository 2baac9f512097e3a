------------------------------ MODULE KeyTransfer ------------------------------
(***************************************************************************)
(* `odyssey key`: the keys kept as files, and `key transfer`, which moves  *)
(* funds between two addresses of the O-Chain by way of the A-Chain.  The  *)
(* sender exports to an output that the receiver owns; the receiver, often *)
(* on another machine and later, imports it on the A-Chain, exports it     *)
(* back and imports it on the O-Chain.  Each of the four transactions      *)
(* costs a fee, and the sender pays them all: three are added to what is   *)
(* sent.  A receive that fails prints the step to restart from, which the  *)
(* user passes with --receive-recovery-step.                               *)
(*                                                                         *)
(* Balances are sums: a transaction takes what it needs out of everything  *)
(* that the key owns, and an import brings all the outputs that wait.  The *)
(* chains are external: they accept a transaction whose inputs are there.  *)
(***************************************************************************)
EXTENDS Integers, Sequences, FiniteSetsExt

CONSTANTS
    Terminals,     \* where commands run, at the same time
    Names,         \* names of key files
    Keys,          \* the keys that may be generated
    First, Owner,  \* a key that exists at first, and the name it is kept under
    Funds,         \* what the key First owns on the O-Chain at first
    Amounts,       \* what users send
    Fee,           \* the fee of a transaction
    Faults,        \* the kinds of failure a run admits
    MaxSends,      \* bound: transfers in one behaviour
    MaxKeyOps,     \* bound: changes of the key files, restoring one apart
    MaxFaults      \* bound: failures in one behaviour

FaultKinds == {
    "crash",     \* the command is interrupted between two of its transactions
    "reject",    \* the network refuses the transaction, or does not answer
    "timeout" }  \* it accepts it, and the answer is lost

ASSUME TransferAssumption ==
    /\ First \in Keys /\ Owner \in Names
    /\ Funds \in Nat /\ Fee \in Nat \ {0} /\ Amounts \subseteq Nat \ {0}
    /\ Faults \subseteq FaultKinds
    /\ MaxSends \in Nat /\ MaxKeyOps \in Nat /\ MaxFaults \in Nat

VARIABLES
    stored,    \* the key in each file of the key directory
    copy,      \* the copy of it that `key export` wrote elsewhere
    made,      \* the keys generated so far
    o, a,      \* what each key owns on the O-Chain and on the A-Chain
    toA, toO,  \* what waits for it to be imported on each
    tr,        \* the transfers sent, with the step that the receiver is at
    got,       \* what each key has imported on the O-Chain (history)
    cmd,       \* the command of each terminal
    keyOps, faults

vars == <<stored, copy, made, o, a, toA, toO, tr, got, cmd, keyOps, faults>>
files == <<stored, copy, made, keyOps>>
chains == <<o, a, toA, toO, got>>

NoKey == "none"
Idle == [pc |-> "idle", key |-> NoKey, to |-> NoKey, amount |-> 0, i |-> 0]

Receiving(i) == \E t \in Terminals : cmd[t].i = i
Held(k) == \E n \in Names : k \in {stored[n], copy[n]}

Init ==
    /\ stored = [n \in Names |-> IF n = Owner THEN First ELSE NoKey]
    /\ copy = [n \in Names |-> NoKey]
    /\ made = {First}
    /\ o = [k \in Keys |-> IF k = First THEN Funds ELSE 0]
    /\ a = [k \in Keys |-> 0] /\ toA = [k \in Keys |-> 0] /\ toO = [k \in Keys |-> 0]
    /\ tr = <<>>
    /\ got = [k \in Keys |-> 0]
    /\ cmd = [t \in Terminals |-> Idle]
    /\ keyOps = 0 /\ faults = 0

-----------------------------------------------------------------------------
(* key create: a key that exists is replaced with --force only.  A new key *)
(* is generated, or one is copied from a file.  key delete, after asking,  *)
(* and key export.                                                         *)
KeyExists(n) == stored[n] # NoKey
Store(n, k) == stored' = [stored EXCEPT ![n] = k]

CreateKey(n, k, force) ==
    /\ keyOps < MaxKeyOps
    /\ KeyExists(n) => force
    /\ k \notin made
    /\ Store(n, k)
    /\ made' = made \cup {k}
    /\ keyOps' = keyOps + 1
    /\ UNCHANGED <<copy, chains, tr, cmd, faults>>

CopyKeyFile(n, from, force) ==
    /\ KeyExists(n) => force
    /\ copy[from] \notin {NoKey, stored[n]}
    /\ Store(n, copy[from])
    /\ UNCHANGED <<copy, made, keyOps, chains, tr, cmd, faults>>

DeleteKey(n) ==
    /\ keyOps < MaxKeyOps
    /\ KeyExists(n)
    /\ Store(n, NoKey)
    /\ keyOps' = keyOps + 1
    /\ UNCHANGED <<copy, made, chains, tr, cmd, faults>>

ExportKey(n) ==
    /\ keyOps < MaxKeyOps
    /\ KeyExists(n)
    /\ copy' = [copy EXCEPT ![n] = stored[n]]
    /\ keyOps' = keyOps + 1
    /\ UNCHANGED <<stored, made, chains, tr, cmd, faults>>

-----------------------------------------------------------------------------
(* key transfer.  The key is loaded before the user is asked to confirm:   *)
(* what happens to its file then changes nothing.  Sending to oneself is   *)
(* refused.                                                                *)
BeginSend(t, n, to, m) ==
    /\ cmd[t] = Idle
    /\ Len(tr) + Cardinality({u \in Terminals : cmd[u].pc = "send"}) < MaxSends
    /\ KeyExists(n) /\ to # stored[n]
    /\ cmd' = [cmd EXCEPT ![t] = [Idle EXCEPT
                   !.pc = "send", !.key = stored[n], !.to = to, !.amount = m]]
    /\ UNCHANGED <<files, chains, tr, faults>>

StepName == <<"importA", "exportA", "importO">>

BeginReceive(t, n, i) ==
    /\ cmd[t] = Idle
    /\ i \in 1..Len(tr) /\ tr[i].step < 3 /\ ~Receiving(i)
    /\ stored[n] = tr[i].to
    /\ cmd' = [cmd EXCEPT ![t] = [Idle EXCEPT
                   !.pc = StepName[tr[i].step + 1], !.key = stored[n],
                   !.amount = tr[i].amount, !.i = i]]
    /\ UNCHANGED <<files, chains, tr, faults>>

Cancel(t) ==
    /\ cmd[t].pc = "send"
    /\ cmd' = [cmd EXCEPT ![t] = Idle]
    /\ UNCHANGED <<files, chains, tr, faults>>

(* What a receiving command does with the answer to its transaction: on    *)
(* success it goes on with the next step; a lost answer leaves it where it *)
(* was, and the user with the step to restart from.  r is the transfer as  *)
(* the transaction leaves it.                                              *)
Lost(t) ==
    /\ "timeout" \in Faults /\ faults < MaxFaults
    /\ faults' = faults + 1
    /\ cmd' = [cmd EXCEPT ![t] = Idle]

Answered(t, r) ==
    LET i == cmd[t].i IN
    \/ /\ tr' = [tr EXCEPT ![i] = [r EXCEPT !.step = @ + 1]]
       /\ cmd' = [cmd EXCEPT ![t] = IF r.step = 2 THEN Idle
                                    ELSE [@ EXCEPT !.pc = StepName[r.step + 2]]]
       /\ UNCHANGED faults
    \/ Lost(t) /\ tr' = [tr EXCEPT ![i] = r]

(* Mutant of Sent: the last of the receiver's three fees is forgotten.     *)
SentTooLittle(m) == m + 2 * Fee

(* The export of `send`: the amount and the fees of the three other steps. *)
Sent(m) == m + 3 * Fee

CanSend(t) == o[cmd[t].key] >= Sent(cmd[t].amount) + Fee

Send(t) ==
    /\ cmd[t].pc = "send" /\ CanSend(t)
    /\ o' = [o EXCEPT ![cmd[t].key] = @ - (Sent(cmd[t].amount) + Fee)]
    /\ toA' = [toA EXCEPT ![cmd[t].to] = @ + Sent(cmd[t].amount)]
    /\ tr' = Append(tr, [to |-> cmd[t].to, amount |-> cmd[t].amount,
                         step |-> 0, exports |-> 0])
    /\ \/ cmd' = [cmd EXCEPT ![t] = Idle] /\ UNCHANGED faults
       \/ Lost(t)
    /\ UNCHANGED <<files, a, toO, got>>

(* Step 0, the import on the A-Chain, pays its fee out of what it brings.  *)
CanImportA(t) == toA[cmd[t].key] > 0

ImportA(t) ==
    /\ cmd[t].pc = "importA" /\ CanImportA(t)
    /\ a' = [a EXCEPT ![cmd[t].key] = @ + toA[cmd[t].key] - Fee]
    /\ toA' = [toA EXCEPT ![cmd[t].key] = 0]
    /\ Answered(t, tr[cmd[t].i])
    /\ UNCHANGED <<files, o, toO, got>>

(* Mutant of SentBack: the fee of the last import is not added.            *)
SentBackBare(m) == m

(* Step 1, the export to the O-Chain: the amount and the fee of step 2,    *)
(* and its own fee on top.                                                 *)
SentBack(m) == m + Fee

(* Mutant of CanExportA: the fee of the export itself is not reckoned.     *)
CanExportBare(t) == a[cmd[t].key] >= SentBack(cmd[t].amount)
CanExportA(t) == a[cmd[t].key] >= SentBack(cmd[t].amount) + Fee

ExportA(t) ==
    /\ cmd[t].pc = "exportA" /\ CanExportA(t)
    /\ a' = [a EXCEPT ![cmd[t].key] = @ - (SentBack(cmd[t].amount) + Fee)]
    /\ toO' = [toO EXCEPT ![cmd[t].key] = @ + SentBack(cmd[t].amount)]
    /\ Answered(t, [tr[cmd[t].i] EXCEPT !.exports = @ + 1])
    /\ UNCHANGED <<files, o, toA, got>>

(* Step 2, the import on the O-Chain.                                      *)
CanImportO(t) == toO[cmd[t].key] > 0

ImportO(t) ==
    /\ cmd[t].pc = "importO" /\ CanImportO(t)
    /\ LET brought == toO[cmd[t].key] - Fee IN
       /\ o' = [o EXCEPT ![cmd[t].key] = @ + brought]
       /\ got' = [got EXCEPT ![cmd[t].key] = @ + brought]
    /\ toO' = [toO EXCEPT ![cmd[t].key] = 0]
    /\ Answered(t, tr[cmd[t].i])
    /\ UNCHANGED <<files, a, toA>>

(* The wallet cannot build the transaction, for want of funds or because   *)
(* there is nothing to import.  The hint says to restart at the same step; *)
(* a user who sees that there is nothing to do for it passes the next one. *)
Possible(t) ==
    CASE cmd[t].pc = "send"    -> CanSend(t)
      [] cmd[t].pc = "importA" -> CanImportA(t)
      [] cmd[t].pc = "exportA" -> CanExportA(t)
      [] cmd[t].pc = "importO" -> CanImportO(t)

BuildFails(t) ==
    /\ cmd[t] # Idle /\ ~Possible(t)
    /\ cmd' = [cmd EXCEPT ![t] = Idle]
    /\ tr' = IF cmd[t].pc = "send" THEN tr
             ELSE [tr EXCEPT ![cmd[t].i].step = @ + 1]
    /\ UNCHANGED <<files, chains, faults>>

(* The network refuses, or the command is interrupted.                     *)
Fails(t, kind) ==
    /\ kind \in Faults /\ faults < MaxFaults
    /\ cmd[t] # Idle
    /\ faults' = faults + 1
    /\ cmd' = [cmd EXCEPT ![t] = Idle]
    /\ UNCHANGED <<files, chains, tr>>

Issue(t) == Send(t) \/ ImportA(t) \/ ExportA(t) \/ ImportO(t)

ReceiveOn(i) == \E t \in Terminals, n \in Names : BeginReceive(t, n, i)

Restore(k) == \E n, from \in Names :
    copy[from] = k /\ (\A m \in Names : stored[m] # k) /\ CopyKeyFile(n, from, TRUE)

Next ==
    \/ \E n \in Names, k \in Keys, force \in BOOLEAN : CreateKey(n, k, force)
    \/ \E n, from \in Names, force \in BOOLEAN : CopyKeyFile(n, from, force)
    \/ \E n \in Names : DeleteKey(n) \/ ExportKey(n)
    \/ \E t \in Terminals, n \in Names, to \in made, m \in Amounts : BeginSend(t, n, to, m)
    \/ \E i \in 1..MaxSends : ReceiveOn(i)
    \/ \E t \in Terminals : Cancel(t) \/ Issue(t) \/ BuildFails(t)
    \/ \E t \in Terminals, kind \in {"crash", "reject"} : Fails(t, kind)

Spec == Init /\ [][Next]_vars

(* A user who waits for a transfer runs the command again whenever he has  *)
(* a terminal free, and gets a key that he needs back from the copy he     *)
(* made; a command that runs goes on.                                      *)
FairSpec ==
    /\ Spec
    /\ \A i \in 1..MaxSends : SF_vars(ReceiveOn(i))
    /\ \A k \in Keys : SF_vars(Restore(k))
    /\ \A t \in Terminals : WF_vars(Issue(t) \/ BuildFails(t) \/ Cancel(t))

-----------------------------------------------------------------------------
(* The types.  In particular no step of a transfer takes from the A-Chain  *)
(* more than the key owns there.                                           *)
TypeOK ==
    /\ stored \in [Names -> Keys \cup {NoKey}] /\ copy \in [Names -> Keys \cup {NoKey}]
    /\ made \subseteq Keys
    /\ \A f \in {o, a, toA, toO, got} : f \in [Keys -> Nat]
    /\ \A i \in DOMAIN tr : /\ tr[i].to \in Keys /\ tr[i].amount \in Amounts
                           /\ tr[i].step \in 0..3 /\ tr[i].exports \in Nat
    /\ \A t \in Terminals : /\ cmd[t].key \in Keys \cup {NoKey} /\ cmd[t].i \in 0..Len(tr)
                           /\ cmd[t].pc \in {"idle", "send", "importA", "exportA", "importO"}
    /\ Len(tr) <= MaxSends /\ keyOps <= MaxKeyOps /\ faults <= MaxFaults

Promised == [i \in DOMAIN tr |-> tr[i].amount]
Total(S) == SumFunctionOnSet(Promised, S)
SentTo(k) == {i \in DOMAIN tr : tr[i].to = k}

(* A receiver who has come through the last step, his export accepted, has *)
(* on the O-Chain at least what all such transfers promised him, in        *)
(* whichever order several of them were received and whatever was lost on  *)
(* the way: the fees the sender added cover every step of transferF.       *)
DoneMeansDelivered == \A k \in Keys :
    got[k] >= Total({i \in SentTo(k) : tr[i].step = 3 /\ tr[i].exports > 0})

(* What is sent arrives: however often the receiver's command is refused   *)
(* or interrupted, its recovery steps bring the funds of every transfer to *)
(* the O-Chain, unless the key is lost, or a lost answer made the receiver *)
(* issue the export of transferF's step 1 a second time, with the funds of *)
(* another transfer.                                                       *)
Excused(k) == ~Held(k) \/ \E i \in SentTo(k) : tr[i].exports > 1
Arrives == \A k \in Keys :
    (SentTo(k) # {}) ~> (got[k] >= Total(SentTo(k)) \/ Excused(k))
=============================================================================
