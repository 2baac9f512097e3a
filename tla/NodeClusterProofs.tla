-------------------------- MODULE NodeClusterProofs --------------------------
(* Theorems about NodeCluster, for every value of its constants. *)
EXTENDS NodeCluster, TLAPS

-----------------------------------------------------------------------------
(* The inductive invariant.                                                *)

(* The nodes that a command still has to record. *)
ToRecord(r) == Ids(r.made) \cup (IF r.pc = "node" THEN RangeOf(r.todo) ELSE {})

IsNode(i) ==
    \/ \E c \in Clusters : i \in RangeOf(entry[c].nodes)
    \/ \E t \in Terminals : i \in ToRecord(cmd[t])

IsMonitor(i) ==
    \/ \E c \in Clusters : i = entry[c].monitor
    \/ \E t \in Terminals : i = cmd[t].existing \/ i = cmd[t].monitor

IsHeld(i) == \E t \in Terminals : i \in RangeOf(cmd[t].todo) \cup cmd[t].listed

(* What is recorded or will be has been rented. *)
Rented ==
    \A i \in Instances :
        /\ power[i] # "none" => service[i] \in Services
        /\ IsNode(i) \/ IsMonitor(i) \/ IsHeld(i) => power[i] # "none"

(* No instance is a node of one cluster and monitors another. *)
RolesApart == \A i \in Instances : ~(IsNode(i) /\ IsMonitor(i))

(* A command records its nodes as what they are. *)
ServiceKnown ==
    \A t \in Terminals : \A i \in ToRecord(cmd[t]) : service[i] = cmd[t].service

Recordable == Rented /\ RolesApart /\ ServiceKnown
Good == TypeOK /\ Recordable

-----------------------------------------------------------------------------
(* Typing, in two parts.                                                   *)
DataOK ==
    /\ service \in [Instances -> Services \cup {"none"}]
    /\ power \in [Instances -> {"none", "running", "stopped"}]
    /\ address \subseteq Instances
    /\ nodeDir \in [Instances -> Config \cup {NoDir}]
    /\ entry \in [Clusters -> [there : BOOLEAN, nodes : Seq(Instances),
                              monitor : Instances \cup {None}]]
    /\ inventory \in [Clusters -> [hosts : SUBSET Instances,
                                   monitors : SUBSET Instances]]

CmdOK ==
    /\ cmd \in [Terminals -> Commands]
    /\ \A t \in Terminals : WellFormed(cmd[t])

LEMMA TypeParts == TypeOK <=> DataOK /\ CmdOK
BY DEF TypeOK, DataOK, CmdOK

(* A command is replaced by a well-formed one. *)
LEMMA SetTyped ==
    ASSUME CmdOK, NEW t \in Terminals, NEW new \in Commands, WellFormed(new),
           cmd' = [cmd EXCEPT ![t] = new]
    PROVE  CmdOK'
BY DEF CmdOK

LEMMA IdleTyped ==
    /\ Idle \in Commands /\ WellFormed(Idle)
    /\ Idle.pc = "idle" /\ Idle.made = {} /\ Idle.todo = <<>> /\ Idle.listed = {}
    /\ Idle.existing = None /\ Idle.monitor = None /\ ~Idle.separate
    /\ ToRecord(Idle) = {}
<1>1. Idle \in Commands
  BY DEF Idle, Commands, Pcs
<1>2. /\ Idle.pc = "idle" /\ Idle.made = {} /\ Idle.todo = <<>> /\ Idle.listed = {}
      /\ Idle.existing = None /\ Idle.monitor = None /\ ~Idle.separate
  BY DEF Idle
<1>3. WellFormed(Idle)
  BY <1>2 DEF WellFormed
<1>4. ToRecord(Idle) = {}
  BY <1>2 DEF ToRecord, Ids
<1>5. QED
  BY <1>1, <1>2, <1>3, <1>4

-----------------------------------------------------------------------------
(* Sequences and the set of their elements.                                *)

LEMMA HeadInRange ==
    ASSUME NEW S, NEW s \in Seq(S), s # <<>>
    PROVE  Head(s) \in RangeOf(s) /\ Head(s) \in S
BY DEF RangeOf

LEMMA TailInRange ==
    ASSUME NEW S, NEW s \in Seq(S), s # <<>>
    PROVE  /\ Tail(s) \in Seq(S) /\ RangeOf(Tail(s)) \subseteq RangeOf(s)
           /\ Len(s) > 1 => Tail(s) # <<>>
<1>1. Tail(s) \in Seq(S) /\ RangeOf(Tail(s)) \subseteq RangeOf(s)
  BY DEF RangeOf
<1>2. Len(Tail(s)) = Len(s) - 1 /\ Len(s) \in Nat /\ Len(<<>>) = 0
  OBVIOUS
<1>3. Len(s) > 1 => Len(Tail(s)) # Len(<<>>)
  BY <1>2
<1>4. QED
  BY <1>1, <1>3

LEMMA AppendInRange ==
    ASSUME NEW S, NEW s \in Seq(S), NEW e \in S
    PROVE  Append(s, e) \in Seq(S) /\ RangeOf(Append(s, e)) = RangeOf(s) \cup {e}
<1>1. Append(s, e) \in Seq(S) /\ Len(Append(s, e)) = Len(s) + 1
  OBVIOUS
<1>2. ASSUME NEW i \in 1..Len(s)
      PROVE  Append(s, e)[i] = s[i]
  OBVIOUS
<1>3. Append(s, e)[Len(s) + 1] = e
  OBVIOUS
<1>4. 1..(Len(s) + 1) = 1..Len(s) \cup {Len(s) + 1}
  OBVIOUS
<1>5. QED
  BY <1>1, <1>2, <1>3, <1>4 DEF RangeOf

LEMMA RangeTyped ==
    ASSUME NEW S, NEW s \in Seq(S)
    PROVE  RangeOf(s) \subseteq S
BY DEF RangeOf

LEMMA EmptyRange == RangeOf(<<>>) = {}
BY DEF RangeOf

-----------------------------------------------------------------------------
(* A step that disturbs no more than one command and what it rents.        *)

Same(r, s) ==
    /\ r.pc = s.pc /\ r.service = s.service /\ r.made = s.made
    /\ r.todo = s.todo /\ r.listed = s.listed
    /\ r.existing = s.existing /\ r.monitor = s.monitor

JustRented(i) == power[i] = "none" /\ power'[i] # "none"

(* Instances stay what they are, and the clusters config names only what   *)
(* it or a command has named before.                                       *)
Steady ==
    /\ \A i \in Instances : power[i] # "none" =>
            power'[i] # "none" /\ service'[i] = service[i]
    /\ \A i \in Instances : power'[i] # "none" => service'[i] \in Services
    /\ \A c \in Clusters : \A i \in RangeOf(entry'[c].nodes) : IsNode(i)
    /\ \A c \in Clusters : entry'[c].monitor # None => IsMonitor(entry'[c].monitor)

(* What the new command of a terminal may name. *)
Names(t, new) ==
    /\ \A i \in ToRecord(new) :
        \/ i \in ToRecord(cmd[t]) /\ new.service = cmd[t].service
        \/ i \in Instances /\ JustRented(i) /\ service'[i] = new.service
    /\ \A i \in {new.existing, new.monitor} \ {None} :
        \/ IsMonitor(i)
        \/ i \in Instances /\ JustRented(i) /\ i \notin ToRecord(new)
    /\ \A i \in RangeOf(new.todo) \cup new.listed :
        IsNode(i) \/ IsMonitor(i) \/ IsHeld(i) \/ JustRented(i)

LEMMA SameNames ==
    ASSUME NEW r, NEW s, Same(r, s)
    PROVE  ToRecord(r) = ToRecord(s)
BY DEF Same, ToRecord

LEMMA ToRecordTyped ==
    ASSUME NEW r \in Commands
    PROVE  ToRecord(r) \subseteq Instances
BY DEF Commands, ToRecord, Ids, RangeOf

LEMMA Frame ==
    ASSUME TypeOK, Recordable, NEW t \in Terminals, DataOK', CmdOK',
           \A u \in Terminals \ {t} : Same(cmd'[u], cmd[u]),
           Steady, Names(t, cmd'[t])
    PROVE  Recordable'
<1> USE DEF Recordable
<1>1. ASSUME NEW i \in Instances, IsNode(i)'
      PROVE  IsNode(i) \/ (JustRented(i) /\ i \in ToRecord(cmd'[t]))
  <2>1. CASE \E c \in Clusters : i \in RangeOf(entry'[c].nodes)
    BY <2>1 DEF Steady
  <2>2. ASSUME NEW u \in Terminals \ {t}, i \in ToRecord(cmd'[u])
        PROVE  IsNode(i)
    BY <2>2, SameNames DEF IsNode
  <2>3. CASE i \in ToRecord(cmd'[t])
    BY <2>3 DEF Names, IsNode
  <2>4. QED
    BY <1>1, <2>1, <2>2, <2>3 DEF IsNode
<1>2. ASSUME NEW i \in Instances, IsMonitor(i)'
      PROVE  IsMonitor(i) \/ (JustRented(i) /\ i \notin ToRecord(cmd'[t]))
  <2>0. i # None
    BY NodeAssumption
  <2>1. CASE \E c \in Clusters : i = entry'[c].monitor
    BY <2>0, <2>1 DEF Steady
  <2>2. ASSUME NEW u \in Terminals \ {t},
               i = cmd'[u].existing \/ i = cmd'[u].monitor
        PROVE  IsMonitor(i)
    BY <2>2 DEF Same, IsMonitor
  <2>3. CASE i = cmd'[t].existing \/ i = cmd'[t].monitor
    BY <2>0, <2>3 DEF Names
  <2>4. QED
    BY <1>2, <2>1, <2>2, <2>3 DEF IsMonitor
<1>3. ASSUME NEW i \in Instances, IsHeld(i)'
      PROVE  IsNode(i) \/ IsMonitor(i) \/ IsHeld(i) \/ JustRented(i)
  <2>1. ASSUME NEW u \in Terminals \ {t},
               i \in RangeOf(cmd'[u].todo) \cup cmd'[u].listed
        PROVE  IsHeld(i)
    BY <2>1 DEF Same, IsHeld
  <2>2. CASE i \in RangeOf(cmd'[t].todo) \cup cmd'[t].listed
    BY <2>2 DEF Names
  <2>3. QED
    BY <1>3, <2>1, <2>2 DEF IsHeld
<1>4. Rented'
  <2>1. ASSUME NEW i \in Instances, IsNode(i)' \/ IsMonitor(i)' \/ IsHeld(i)'
        PROVE  power'[i] # "none"
    BY <2>1, <1>1, <1>2, <1>3 DEF Rented, Steady, JustRented
  <2>2. QED
    BY <2>1 DEF Rented, Steady
<1>5. RolesApart'
  <2>1. ASSUME NEW i \in Instances, IsNode(i)', IsMonitor(i)'
        PROVE  FALSE
    BY <2>1, <1>1, <1>2 DEF RolesApart, Rented, JustRented
  <2>2. QED
    BY <2>1 DEF RolesApart
<1>6. ServiceKnown'
  <2>1. ASSUME NEW u \in Terminals, NEW i \in ToRecord(cmd'[u])
        PROVE  service'[i] = cmd'[u].service
    <3>1. i \in Instances
      BY ToRecordTyped DEF CmdOK
    <3>2. CASE i \in ToRecord(cmd[u]) /\ cmd'[u].service = cmd[u].service
      <4>1. IsNode(i) /\ service[i] = cmd[u].service
        BY <3>2 DEF IsNode, ServiceKnown
      <4>2. QED
        BY <3>1, <3>2, <4>1 DEF Rented, Steady
    <3>3. CASE u = t
      BY <3>2, <3>3 DEF Names
    <3>4. CASE u # t
      BY <3>2, <3>4, SameNames DEF Same
    <3>5. QED
      BY <3>3, <3>4
  <2>2. QED
    BY <2>1 DEF ServiceKnown
<1>7. QED
  BY <1>4, <1>5, <1>6

LEMMA SetGood ==
    ASSUME Good, NEW t \in Terminals, NEW new \in Commands, WellFormed(new),
           cmd' = [cmd EXCEPT ![t] = new], DataOK', Steady, Names(t, new)
    PROVE  Good'
<1>1. CmdOK'
  BY SetTyped, TypeParts DEF Good
<1>2. cmd'[t] = new /\ \A u \in Terminals \ {t} : Same(cmd'[u], cmd[u])
  BY TypeParts DEF Good, CmdOK, Same
<1>3. Recordable'
  BY <1>1, <1>2, Frame DEF Good
<1>4. TypeOK'
  BY <1>1 DEF TypeOK, DataOK, CmdOK
<1>5. QED
  BY <1>3, <1>4 DEF Good

LEMMA IdleNames == \A t \in Terminals : Names(t, Idle)
BY IdleTyped, EmptyRange DEF Names

LEMMA FinishGood ==
    ASSUME Good, NEW t \in Terminals, Finish(t), DataOK', Steady
    PROVE  Good'
BY SetGood, IdleTyped, IdleNames DEF Finish

(* A command that names no more than it did. *)
LEMMA FewerNames ==
    ASSUME Good, NEW t \in Terminals, NEW new \in Commands,
           new.service = cmd[t].service,
           ToRecord(new) \subseteq ToRecord(cmd[t]),
           new.existing = cmd[t].existing, new.monitor = cmd[t].monitor,
           RangeOf(new.todo) \subseteq RangeOf(cmd[t].todo),
           new.listed \subseteq cmd[t].listed
    PROVE  Names(t, new)
BY DEF Names, IsMonitor, IsHeld

LEMMA StaysSteady ==
    ASSUME Good, UNCHANGED <<provider, entry>>
    PROVE  Steady
<1>1. \A c \in Clusters : \A i \in RangeOf(entry'[c].nodes) : IsNode(i)
  BY DEF IsNode
<1>2. \A c \in Clusters : entry'[c].monitor # None => IsMonitor(entry'[c].monitor)
  BY DEF IsMonitor
<1>3. \A i \in Instances : power[i] # "none" =>
            power'[i] # "none" /\ service'[i] = service[i]
  BY DEF provider
<1>4. \A i \in Instances : power'[i] # "none" => service'[i] \in Services
  BY DEF provider, Good, Recordable, Rented
<1>5. QED
  BY <1>1, <1>2, <1>3, <1>4 DEF Steady

(* Only pc changes. *)
LEMMA GotoGood ==
    ASSUME Good, NEW t \in Terminals, NEW p \in Pcs \ {"idle", "node"},
           Running(t), cmd' = [cmd EXCEPT ![t].pc = p],
           cmd[t].pc \notin {"stop", "refresh"},
           cmd[t].separate /\ p \notin {"rent", "monitor"} => cmd[t].monitor # None,
           p = "monitorconfig" => cmd[t].separate,
           DataOK', Steady
    PROVE  Good'
<1> DEFINE new == [cmd[t] EXCEPT !.pc = p]
<1>1. cmd[t] \in Commands /\ WellFormed(cmd[t])
  BY TypeParts DEF Good, CmdOK
<1>2. /\ new \in Commands /\ new.pc = p
      /\ new.cluster = cmd[t].cluster /\ new.service = cmd[t].service
      /\ new.made = cmd[t].made /\ new.todo = cmd[t].todo
      /\ new.listed = cmd[t].listed /\ new.existing = cmd[t].existing
      /\ new.monitor = cmd[t].monitor /\ new.separate = cmd[t].separate
  BY <1>1 DEF Commands
<1>3. cmd' = [cmd EXCEPT ![t] = new]
  OBVIOUS
<1> HIDE DEF new
<1>4. WellFormed(new)
  BY <1>1, <1>2 DEF WellFormed, Running
<1>5. ToRecord(new) \subseteq ToRecord(cmd[t])
  BY <1>2 DEF ToRecord
<1>6. QED
  BY <1>2, <1>3, <1>4, <1>5, FewerNames, SetGood

LEMMA BeginGood ==
    ASSUME Good, NEW t \in Terminals, NEW c \in Clusters, NEW r \in Commands,
           WellFormed([r EXCEPT !.cluster = c]), Begin(t, c, r), Names(t, r),
           UNCHANGED <<provider, nodeDir, entry, inventory>>
    PROVE  Good'
<1> DEFINE others == {u \in Terminals \ {t} : Running(u)}
           new == [r EXCEPT !.cluster = c, !.alone = others = {}]
<1>1. cmd' = [u \in Terminals |->
                IF u = t THEN new
                ELSE IF u \in others THEN [cmd[u] EXCEPT !.alone = FALSE]
                ELSE cmd[u]]
  BY DEF Begin
<1>2. cmd \in [Terminals -> Commands] /\ \A u \in Terminals : WellFormed(cmd[u])
  BY DEF Good, TypeOK
<1>3. /\ new \in Commands /\ Same(new, r) /\ new.cluster = c
      /\ new.separate = r.separate
  BY DEF Commands, Same
<1>4. WellFormed(new)
  <2> DEFINE s == [r EXCEPT !.cluster = c]
  <2>1. s.cluster = c /\ s.pc = r.pc /\ s.service = r.service /\ s.made = r.made
        /\ s.todo = r.todo /\ s.existing = r.existing /\ s.monitor = r.monitor
        /\ s.separate = r.separate
    BY DEF Commands
  <2>2. WellFormed(s)
    OBVIOUS
  <2> HIDE DEF s, new
  <2>3. QED
    BY <1>3, <2>1, <2>2 DEF WellFormed, Same
<1> HIDE DEF new, others
<1>5. ASSUME NEW u \in Terminals \ {t}
      PROVE  cmd'[u] \in Commands /\ WellFormed(cmd'[u]) /\ Same(cmd'[u], cmd[u])
  <2> DEFINE s == [cmd[u] EXCEPT !.alone = FALSE]
  <2>1. /\ s \in Commands /\ Same(s, cmd[u])
        /\ s.cluster = cmd[u].cluster /\ s.separate = cmd[u].separate
    BY <1>2 DEF Commands, Same
  <2>2. cmd'[u] = s \/ cmd'[u] = cmd[u]
    BY <1>1
  <2> HIDE DEF s
  <2>3. WellFormed(s)
    BY <1>2, <2>1 DEF WellFormed, Same
  <2>4. QED
    BY <1>2, <2>1, <2>2, <2>3 DEF Same
<1>6. cmd'[t] = new
  BY <1>1
<1>7. CmdOK'
  BY <1>1, <1>3, <1>4, <1>5, <1>6 DEF CmdOK
<1>8. DataOK'
  BY TypeParts DEF Good, DataOK, provider
<1>9. Names(t, cmd'[t])
  <2>1. ToRecord(new) = ToRecord(r)
    BY <1>3, SameNames
  <2>2. QED
    BY <1>3, <1>6, <2>1 DEF Names, Same
<1>10. Recordable'
  BY <1>5, <1>7, <1>8, <1>9, StaysSteady, Frame DEF Good
<1>11. QED
  BY <1>7, <1>8, <1>10 DEF Good, TypeOK, DataOK, CmdOK

-----------------------------------------------------------------------------
(* The actions.                                                            *)

LEMMA BeginCreateGood ==
    ASSUME Good, NEW t \in Terminals, NEW c \in Clusters, BeginCreate(t, c)
    PROVE  Good'
<1>1. PICK p \in Plans, o \in Options, sep \in BOOLEAN :
        Begin(t, c, [Idle EXCEPT
            !.pc = "rent", !.plan = p, !.service = o.service,
            !.static = o.static, !.devnet = o.devnet,
            !.existing = entry[c].monitor,
            !.separate = sep \/ entry[c].monitor # None])
  BY DEF BeginCreate
<1> DEFINE r == [Idle EXCEPT
            !.pc = "rent", !.plan = p, !.service = o.service,
            !.static = o.static, !.devnet = o.devnet,
            !.existing = entry[c].monitor,
            !.separate = sep \/ entry[c].monitor # None]
<1>2. /\ entry[c].monitor \in Instances \cup {None} /\ p \in Seq(Nat \ {0})
      /\ o \in [service : Services, static : BOOLEAN, devnet : BOOLEAN]
  BY NodeAssumption DEF Good, TypeOK
<1>3. /\ r.pc = "rent" /\ r.service = o.service /\ r.made = {} /\ r.todo = <<>>
      /\ r.listed = {} /\ r.existing = entry[c].monitor /\ r.monitor = None
      /\ r.separate = (sep \/ entry[c].monitor # None)
      /\ r.cluster = None /\ r.plan = p
  BY DEF Idle
<1>4. r \in Commands
  BY <1>2, IdleTyped, ZenonT(60) DEF Commands, Pcs
<1>5. [r EXCEPT !.cluster = c].cluster = c
  BY DEF Idle
<1>6. WellFormed([r EXCEPT !.cluster = c])
  BY <1>2 DEF Idle, WellFormed
<1> HIDE DEF r
<1>7. Names(t, r)
  BY <1>3, EmptyRange DEF Names, ToRecord, Ids, IsMonitor
<1>8. Begin(t, c, r)
  BY <1>1 DEF r
<1>9. QED
  BY <1>4, <1>6, <1>7, <1>8, BeginGood DEF BeginCreate

LEMMA ListedNamed ==
    ASSUME Good, NEW c \in Clusters
    PROVE  /\ Listed(entry[c]) \subseteq Instances
           /\ \A i \in Listed(entry[c]) : IsNode(i) \/ IsMonitor(i)
           /\ NodesToStop(c) \in Seq(Instances)
           /\ RangeOf(NodesToStop(c)) = Listed(entry[c])
<1>1. entry[c].nodes \in Seq(Instances) /\ entry[c].monitor \in Instances \cup {None}
  BY DEF Good, TypeOK
<1>2. NodesToStop(c) \in Seq(Instances) /\ RangeOf(NodesToStop(c)) = Listed(entry[c])
  <2>1. CASE entry[c].monitor = None
    BY <1>1, <2>1 DEF NodesToStop, Listed
  <2>2. CASE entry[c].monitor # None
    <3>1. NodesToStop(c) = Append(entry[c].nodes, entry[c].monitor)
      BY <1>1, <2>2 DEF NodesToStop
    <3>2. QED
      BY <1>1, <2>2, <3>1, AppendInRange DEF Listed
  <2>3. QED
    BY <2>1, <2>2
<1>3. \A i \in Listed(entry[c]) : IsNode(i) \/ IsMonitor(i)
  BY DEF Listed, IsNode, IsMonitor
<1>4. QED
  BY <1>1, <1>2, <1>3, RangeTyped DEF Listed

LEMMA BeginStopGood ==
    ASSUME Good, NEW t \in Terminals, NEW c \in Clusters, BeginStop(t, c)
    PROVE  Good'
<1> DEFINE r == [Idle EXCEPT !.pc = "stop", !.todo = NodesToStop(c),
                             !.listed = Listed(entry[c])]
<1>1. /\ r.pc = "stop" /\ r.made = {} /\ r.todo = NodesToStop(c)
      /\ r.listed = Listed(entry[c]) /\ r.existing = None /\ r.monitor = None
  BY DEF Idle
<1>2. r \in Commands
  BY IdleTyped, ListedNamed DEF Commands, Pcs
<1>3. WellFormed([r EXCEPT !.cluster = c])
  BY DEF Idle, WellFormed
<1>4. Begin(t, c, r)
  BY DEF BeginStop
<1> HIDE DEF r
<1>5. Names(t, r)
  BY <1>1, ListedNamed DEF Names, ToRecord, Ids
<1>6. QED
  BY <1>2, <1>3, <1>4, <1>5, BeginGood DEF BeginStop

LEMMA BeginRefreshGood ==
    ASSUME Good, NEW t \in Terminals, NEW c \in Clusters, BeginRefresh(t, c)
    PROVE  Good'
<1> DEFINE dynamic == {i \in RangeOf(entry[c].nodes) : ~nodeDir[i].static}
           r == [Idle EXCEPT !.pc = "refresh", !.listed = dynamic]
<1>1. /\ r.pc = "refresh" /\ r.made = {} /\ r.todo = <<>>
      /\ r.listed = dynamic /\ r.existing = None /\ r.monitor = None
  BY DEF Idle
<1>2. dynamic \subseteq Instances
  BY RangeTyped DEF Good, TypeOK
<1>3. r \in Commands
  BY <1>2, IdleTyped DEF Commands, Pcs
<1>4. WellFormed([r EXCEPT !.cluster = c])
  BY DEF Idle, WellFormed
<1>5. Begin(t, c, r)
  BY DEF BeginRefresh
<1>6. \A i \in dynamic : IsNode(i)
  BY DEF IsNode
<1> HIDE DEF r, dynamic
<1>7. Names(t, r)
  BY <1>1, <1>6, EmptyRange DEF Names, ToRecord, Ids
<1>8. QED
  BY <1>3, <1>4, <1>5, <1>7, BeginGood DEF BeginRefresh

LEMMA BatchTyped ==
    ASSUME NEW plan \in Seq(Nat \ {0}), NEW made \in Batches(plan)
    PROVE  /\ made \in SUBSET Seq(Instances)
           /\ Ids(made) \subseteq Fresh
           /\ \A region \in made : region # <<>>
<1>1. PICK r : /\ r \in [DOMAIN plan -> UNION {[1..n -> Fresh] : n \in RangeOf(plan)}]
               /\ made = {r[k] : k \in DOMAIN plan}
  BY DEF Batches
<1>2. ASSUME NEW region \in made
      PROVE  region \in Seq(Instances) /\ RangeOf(region) \subseteq Fresh /\ region # <<>>
  <2>1. PICK n \in RangeOf(plan) : region \in [1..n -> Fresh]
    BY <1>1, <1>2
  <2>2. n \in Nat \ {0}
    BY <2>1, RangeTyped
  <2>3. region \in Seq(Fresh) /\ Len(region) = n
    BY <2>1, <2>2
  <2>4. QED
    BY <2>2, <2>3, RangeTyped DEF Fresh
<1>3. QED
  BY <1>2 DEF Ids

(* The command of a terminal, for the actions that read it. *)
LEMMA CommandTyped ==
    ASSUME Good, NEW t \in Terminals
    PROVE  cmd[t] \in Commands /\ WellFormed(cmd[t]) /\ cmd \in [Terminals -> Commands]
BY DEF Good, TypeOK

LEMMA SwitchSteady ==
    ASSUME Good, NEW t \in Terminals, NEW on, on \subseteq Fresh, Switch(t, on),
           UNCHANGED entry, cmd[t].service \in Services
    PROVE  /\ Steady
           /\ \A i \in on : i \in Instances /\ JustRented(i)
                            /\ service'[i] = cmd[t].service
           /\ service' \in [Instances -> Services \cup {"none"}]
           /\ power' \in [Instances -> {"none", "running", "stopped"}]
<1>1. /\ service \in [Instances -> Services \cup {"none"}]
      /\ power \in [Instances -> {"none", "running", "stopped"}]
  BY DEF Good, TypeOK
<1>2. ASSUME NEW i \in Instances
      PROVE  /\ i \in on => power'[i] = "running" /\ service'[i] = cmd[t].service
             /\ i \notin on => power'[i] = power[i] /\ service'[i] = service[i]
  BY DEF Switch
<1>3. \A i \in on : i \in Instances /\ power[i] = "none"
  BY DEF Fresh
<1>4. /\ \A i \in Instances : power[i] # "none" =>
            power'[i] # "none" /\ service'[i] = service[i]
      /\ \A i \in Instances : power'[i] # "none" => service'[i] \in Services
  BY <1>2, <1>3 DEF Good, Recordable, Rented
<1>5. Steady
  BY <1>4 DEF Steady, IsNode, IsMonitor
<1>6. QED
  BY <1>1, <1>2, <1>3, <1>5 DEF JustRented, Switch

LEMMA RentNodesGood ==
    ASSUME Good, NEW t \in Terminals, RentNodes(t)
    PROVE  Good'
<1>1. PICK made \in Batches(cmd[t].plan) :
        /\ Rent(t, Ids(made))
        /\ cmd' = [cmd EXCEPT ![t].made = made, ![t].listed = Ids(made),
                              ![t].plan = <<>>, ![t].pc = "monitor"]
  BY DEF RentNodes
<1> DEFINE new == [cmd[t] EXCEPT !.made = made, !.listed = Ids(made),
                                 !.plan = <<>>, !.pc = "monitor"]
<1>2. /\ made \in SUBSET Seq(Instances) /\ Ids(made) \subseteq Fresh
      /\ \A region \in made : region # <<>>
  BY CommandTyped, BatchTyped DEF Commands
<1>3. cmd[t].service \in Services /\ cmd[t].pc = "rent"
  BY CommandTyped DEF RentNodes, At, WellFormed
<1>4. Ids(made) \subseteq Instances
  BY <1>2 DEF Fresh
<1>5. /\ new \in Commands
      /\ new.pc = "monitor" /\ new.made = made /\ new.listed = Ids(made)
      /\ new.todo = cmd[t].todo /\ new.existing = cmd[t].existing
      /\ new.monitor = cmd[t].monitor /\ new.service = cmd[t].service
      /\ new.separate = cmd[t].separate /\ new.cluster = cmd[t].cluster
  <2>1. cmd[t] \in Commands /\ <<>> \in Seq(Nat \ {0}) /\ "monitor" \in Pcs
    BY CommandTyped DEF Pcs
  <2>2. Ids(made) \in SUBSET Instances
    BY <1>4
  <2>3. new \in Commands
    BY <1>2, <2>1, <2>2 DEF Commands
  <2>4. QED
    BY <2>1, <2>3 DEF Commands
<1>6. cmd' = [cmd EXCEPT ![t] = new]
  BY <1>1
<1> HIDE DEF new
<1>7. WellFormed(new)
  BY <1>2, <1>3, <1>5, CommandTyped DEF WellFormed
<1>8. Switch(t, Ids(made)) /\ address' \in {address, address \cup Ids(made)}
  BY <1>1 DEF Rent
<1>9. /\ Steady
      /\ \A i \in Ids(made) : i \in Instances /\ JustRented(i)
                              /\ service'[i] = cmd[t].service
      /\ service' \in [Instances -> Services \cup {"none"}]
      /\ power' \in [Instances -> {"none", "running", "stopped"}]
  BY <1>2, <1>3, <1>8, SwitchSteady DEF RentNodes
<1>10. DataOK'
  BY <1>4, <1>8, <1>9, TypeParts DEF RentNodes, Good, DataOK
<1>11. ToRecord(new) = Ids(made)
  BY <1>5 DEF ToRecord
<1>12. Names(t, new)
  <2>1. \A i \in {new.existing, new.monitor} \ {None} : IsMonitor(i)
    BY <1>5 DEF IsMonitor
  <2>2. \A i \in RangeOf(new.todo) : IsHeld(i)
    BY <1>5 DEF IsHeld
  <2>3. QED
    BY <1>5, <1>9, <1>11, <2>1, <2>2 DEF Names
<1>13. QED
  BY <1>5, <1>6, <1>7, <1>9, <1>10, <1>12, SetGood

LEMMA RentMonitorGood ==
    ASSUME Good, NEW t \in Terminals, RentMonitor(t)
    PROVE  Good'
<1>1. PICK m \in Fresh :
        /\ Rent(t, {m})
        /\ cmd' = [cmd EXCEPT ![t].monitor = m, ![t].pc = "query"]
  BY DEF RentMonitor
<1> DEFINE new == [cmd[t] EXCEPT !.monitor = m, !.pc = "query"]
<1>2. m \in Instances /\ m # None
  BY NodeAssumption DEF Fresh
<1>3. cmd[t].service \in Services /\ cmd[t].pc = "monitor"
  BY CommandTyped DEF RentMonitor, At, WellFormed
<1>4. /\ new \in Commands
      /\ new.pc = "query" /\ new.made = cmd[t].made /\ new.listed = cmd[t].listed
      /\ new.todo = cmd[t].todo /\ new.existing = cmd[t].existing
      /\ new.monitor = m /\ new.service = cmd[t].service
      /\ new.separate = cmd[t].separate /\ new.cluster = cmd[t].cluster
  BY <1>2, CommandTyped, ZenonT(60) DEF Commands, Pcs
<1>5. cmd' = [cmd EXCEPT ![t] = new]
  BY <1>1
<1> HIDE DEF new
<1>6. WellFormed(new)
  BY <1>2, <1>3, <1>4, CommandTyped DEF WellFormed
<1>7. Switch(t, {m}) /\ address' \in {address, address \cup {m}}
  BY <1>1 DEF Rent
<1>8. /\ Steady /\ JustRented(m)
      /\ service' \in [Instances -> Services \cup {"none"}]
      /\ power' \in [Instances -> {"none", "running", "stopped"}]
  BY <1>3, <1>7, SwitchSteady DEF RentMonitor
<1>9. DataOK'
  BY <1>2, <1>7, <1>8, TypeParts DEF RentMonitor, Good, DataOK
<1>10. ToRecord(new) \subseteq ToRecord(cmd[t])
  BY <1>4 DEF ToRecord
<1>11. Names(t, new)
  <2>1. m \notin ToRecord(cmd[t])
    BY <1>2, <1>8 DEF JustRented, Good, Recordable, Rented, IsNode
  <2>2. new.existing # None => IsMonitor(new.existing)
    BY <1>4 DEF IsMonitor
  <2>3. \A i \in RangeOf(new.todo) \cup new.listed : IsHeld(i)
    BY <1>4 DEF IsHeld
  <2>4. QED
    BY <1>2, <1>4, <1>8, <1>10, <2>1, <2>2, <2>3 DEF Names
<1>12. QED
  BY <1>4, <1>5, <1>6, <1>8, <1>9, <1>11, SetGood

LEMMA PartlyRentedGood ==
    ASSUME Good, NEW t \in Terminals, NEW is, is \subseteq Fresh,
           cmd[t].service \in Services, PartlyRented(t, is), Finish(t),
           UNCHANGED <<nodeDir, entry, inventory>>
    PROVE  Good'
<1>1. PICK on \in SUBSET is, held \in SUBSET is :
        Switch(t, on) /\ address' = address \cup held
  BY DEF PartlyRented
<1>2. /\ Steady
      /\ service' \in [Instances -> Services \cup {"none"}]
      /\ power' \in [Instances -> {"none", "running", "stopped"}]
  BY <1>1, SwitchSteady
<1>3. DataOK'
  BY <1>1, <1>2, TypeParts DEF Good, DataOK, Fresh
<1>4. QED
  BY <1>2, <1>3, FinishGood

LEMMA RentFailsGood ==
    ASSUME Good, NEW t \in Terminals, RentNodesFails(t) \/ RentMonitorFails(t)
    PROVE  Good'
<1>1. cmd[t].service \in Services
  BY CommandTyped DEF RentNodesFails, RentMonitorFails, At, WellFormed
<1>2. CASE RentNodesFails(t)
  <2>1. PICK made \in Batches(cmd[t].plan) : PartlyRented(t, Ids(made))
    BY <1>2 DEF RentNodesFails
  <2>2. Ids(made) \subseteq Fresh
    BY CommandTyped, BatchTyped DEF Commands
  <2>3. QED
    BY <1>1, <1>2, <2>1, <2>2, PartlyRentedGood DEF RentNodesFails
<1>3. CASE RentMonitorFails(t)
  <2>1. PICK m \in Fresh : PartlyRented(t, {m})
    BY <1>3 DEF RentMonitorFails
  <2>2. QED
    BY <1>1, <1>3, <2>1, PartlyRentedGood DEF RentMonitorFails
<1>4. QED
  BY <1>2, <1>3

LEMMA QuietSteady ==
    ASSUME Good, UNCHANGED <<provider, nodeDir, entry, inventory>>
    PROVE  DataOK' /\ Steady
BY StaysSteady, TypeParts DEF Good, DataOK, provider

LEMMA MonitorChoiceGood ==
    ASSUME Good, NEW t \in Terminals, UseExistingMonitor(t) \/ NoMonitor(t)
    PROVE  Good'
<1>1. cmd[t] \in Commands /\ WellFormed(cmd[t]) /\ At(t, "monitor")
  BY CommandTyped DEF UseExistingMonitor, NoMonitor
<1>2. DataOK' /\ Steady
  BY QuietSteady DEF UseExistingMonitor, NoMonitor
<1>3. CASE NoMonitor(t)
  <2>1. /\ Running(t) /\ cmd[t].pc \notin {"stop", "refresh"}
        /\ "query" \in Pcs \ {"idle", "node"}
    BY <1>1 DEF At, Running, Pcs
  <2>2. cmd' = [cmd EXCEPT ![t].pc = "query"] /\ ~cmd[t].separate
    BY <1>3 DEF NoMonitor
  <2>3. QED
    BY <1>2, <2>1, <2>2, GotoGood
<1>4. CASE UseExistingMonitor(t) /\ Finish(t)
  BY <1>2, <1>4, FinishGood
<1>5. CASE /\ UseExistingMonitor(t)
           /\ cmd' = [cmd EXCEPT ![t].monitor = cmd[t].existing, ![t].pc = "query"]
  <2> DEFINE new == [cmd[t] EXCEPT !.monitor = cmd[t].existing, !.pc = "query"]
  <2>1. /\ new \in Commands
        /\ new.pc = "query" /\ new.made = cmd[t].made /\ new.listed = cmd[t].listed
        /\ new.todo = cmd[t].todo /\ new.existing = cmd[t].existing
        /\ new.monitor = cmd[t].existing /\ new.service = cmd[t].service
        /\ new.separate = cmd[t].separate /\ new.cluster = cmd[t].cluster
    BY <1>1 DEF Commands, Pcs
  <2>2. cmd' = [cmd EXCEPT ![t] = new]
    BY <1>5
  <2> HIDE DEF new
  <2>3. cmd[t].existing # None
    BY <1>5 DEF UseExistingMonitor
  <2>4. WellFormed(new)
    BY <1>1, <2>1, <2>3 DEF WellFormed, At
  <2>5. ToRecord(new) \subseteq ToRecord(cmd[t])
    BY <2>1 DEF ToRecord
  <2>6. \A i \in {new.existing, new.monitor} \ {None} : IsMonitor(i)
    BY <2>1 DEF IsMonitor
  <2>7. \A i \in RangeOf(new.todo) \cup new.listed : IsHeld(i)
    BY <2>1 DEF IsHeld
  <2>8. Names(t, new)
    BY <2>1, <2>5, <2>6, <2>7 DEF Names
  <2>9. QED
    BY <1>2, <2>1, <2>2, <2>4, <2>8, SetGood
<1>6. QED
  BY <1>3, <1>4, <1>5 DEF UseExistingMonitor

LEMMA TakeRegionGood ==
    ASSUME Good, NEW t \in Terminals, TakeRegion(t)
    PROVE  Good'
<1>1. cmd[t] \in Commands /\ WellFormed(cmd[t]) /\ cmd[t].pc = "region"
  BY CommandTyped DEF TakeRegion, At
<1>2. DataOK' /\ Steady
  BY QuietSteady DEF TakeRegion
<1>3. ASSUME NEW r \in cmd[t].made,
             cmd' = [cmd EXCEPT ![t].todo = r, ![t].made = @ \ {r}, ![t].pc = "node"]
      PROVE  Good'
  <2> DEFINE new == [cmd[t] EXCEPT !.todo = r, !.made = @ \ {r}, !.pc = "node"]
  <2>1. r \in Seq(Instances) /\ r # <<>> /\ cmd[t].made \in SUBSET Seq(Instances)
    BY <1>1 DEF Commands, WellFormed
  <2>2. /\ new \in Commands
        /\ new.pc = "node" /\ new.made = cmd[t].made \ {r}
        /\ new.listed = cmd[t].listed
        /\ new.todo = r /\ new.existing = cmd[t].existing
        /\ new.monitor = cmd[t].monitor /\ new.service = cmd[t].service
        /\ new.separate = cmd[t].separate /\ new.cluster = cmd[t].cluster
    BY <1>1, <2>1 DEF Commands, Pcs
  <2>3. cmd' = [cmd EXCEPT ![t] = new]
    BY <1>3
  <2> HIDE DEF new
  <2>4. WellFormed(new)
    BY <1>1, <2>1, <2>2 DEF WellFormed
  <2>5. ToRecord(new) \subseteq ToRecord(cmd[t])
    BY <2>2 DEF ToRecord, Ids
  <2>6. \A i \in RangeOf(new.todo) : IsNode(i)
    BY <2>2 DEF IsNode, ToRecord, Ids
  <2>7. \A i \in {new.existing, new.monitor} \ {None} : IsMonitor(i)
    BY <2>2 DEF IsMonitor
  <2>8. \A i \in new.listed : IsHeld(i)
    BY <2>2 DEF IsHeld
  <2>9. Names(t, new)
    BY <2>2, <2>5, <2>6, <2>7, <2>8 DEF Names
  <2>10. QED
    BY <1>2, <2>2, <2>3, <2>4, <2>9, SetGood
<1>4. CASE cmd' = [cmd EXCEPT ![t].pc = "inventory"]
  BY <1>1, <1>2, <1>4, GotoGood DEF Running, Pcs, WellFormed
<1>5. QED
  BY <1>3, <1>4 DEF TakeRegion

(* The configs that a command writes. *)
LEMMA ConfigTyped ==
    ASSUME Good, NEW t \in Terminals, cmd[t].service \in Services
    PROVE  NodeConfigOf(t) \in Config /\ MonitorConfigOf(t) \in Config
BY CommandTyped DEF NodeConfigOf, MonitorConfigOf, Config, Commands

LEMMA RecordNodeGood ==
    ASSUME Good, NEW t \in Terminals, RecordNode(t)
    PROVE  Good'
<1> DEFINE i == Head(cmd[t].todo)
           p == IF Len(cmd[t].todo) > 1 THEN "node"
                ELSE IF cmd[t].separate THEN "monitorconfig" ELSE "region"
           new == [cmd[t] EXCEPT !.todo = Tail(@), !.pc = p]
<1>1. cmd[t] \in Commands /\ WellFormed(cmd[t]) /\ cmd[t].pc = "node"
  BY CommandTyped DEF RecordNode, At
<1>2. /\ cmd[t].todo \in Seq(Instances) /\ cmd[t].todo # <<>>
      /\ cmd[t].service \in Services
  BY <1>1 DEF Commands, WellFormed
<1>3. /\ i \in Instances /\ i \in RangeOf(cmd[t].todo)
      /\ Tail(cmd[t].todo) \in Seq(Instances)
      /\ RangeOf(Tail(cmd[t].todo)) \subseteq RangeOf(cmd[t].todo)
      /\ Len(cmd[t].todo) > 1 => Tail(cmd[t].todo) # <<>>
  BY <1>2, HeadInRange, TailInRange
<1>4. /\ nodeDir' = [nodeDir EXCEPT ![i] = NodeConfigOf(t)]
      /\ entry' = [entry EXCEPT ![C(t)] = AddNode(@, i)]
      /\ cmd' = [cmd EXCEPT ![t] = new]
      /\ UNCHANGED <<provider, inventory>>
  BY DEF RecordNode
<1>5. p \in {"node", "monitorconfig", "region"}
  OBVIOUS
<1>6. /\ new \in Commands
      /\ new.pc = p /\ new.made = cmd[t].made /\ new.listed = cmd[t].listed
      /\ new.todo = Tail(cmd[t].todo) /\ new.existing = cmd[t].existing
      /\ new.monitor = cmd[t].monitor /\ new.service = cmd[t].service
      /\ new.separate = cmd[t].separate /\ new.cluster = cmd[t].cluster
  <2> HIDE DEF p
  <2>1. QED
    BY <1>1, <1>3, <1>5 DEF Commands, Pcs
<1>7. WellFormed(new)
  <2> HIDE DEF new
  <2>1. (p = "node" => Len(cmd[t].todo) > 1) /\ (p = "monitorconfig" => cmd[t].separate)
    OBVIOUS
  <2> HIDE DEF p
  <2>2. QED
    BY <1>1, <1>3, <1>5, <1>6, <2>1 DEF WellFormed
<1> HIDE DEF new, p, i
<1>8. IsNode(i)
  BY <1>1, <1>3 DEF IsNode, ToRecord
<1>9. ASSUME NEW c \in Clusters
      PROVE  /\ entry'[c] \in [there : BOOLEAN, nodes : Seq(Instances),
                               monitor : Instances \cup {None}]
             /\ RangeOf(entry'[c].nodes) \subseteq RangeOf(entry[c].nodes) \cup {i}
             /\ entry'[c].monitor \in {entry[c].monitor, None}
  <2>1. entry[c].nodes \in Seq(Instances)
    BY DEF Good, TypeOK
  <2>2. entry'[c] = entry[c] \/ entry'[c] = AddNode(entry[c], i)
    BY <1>4 DEF Good, TypeOK
  <2>3. CASE entry'[c] = entry[c]
    BY <2>3 DEF Good, TypeOK
  <2>4. CASE entry'[c] = AddNode(entry[c], i)
    BY <1>3, <2>1, <2>4, AppendInRange DEF AddNode, Entry
  <2>5. QED
    BY <2>2, <2>3, <2>4
<1>10. DataOK'
  <2>1. DOMAIN entry' = Clusters /\ entry' = [c \in Clusters |-> entry'[c]]
    BY <1>4 DEF Good, TypeOK
  <2>2. QED
    BY <1>2, <1>3, <1>4, <1>9, <2>1, ConfigTyped, TypeParts
    DEF Good, DataOK, provider
<1>11. Steady
  <2>1. \A c \in Clusters : \A j \in RangeOf(entry'[c].nodes) : IsNode(j)
    BY <1>8, <1>9 DEF IsNode
  <2>2. \A c \in Clusters : entry'[c].monitor # None => IsMonitor(entry'[c].monitor)
    BY <1>9 DEF IsMonitor
  <2>3. QED
    BY <1>4, <2>1, <2>2 DEF Steady, provider, Good, Recordable, Rented
<1>12. ToRecord(new) \subseteq ToRecord(cmd[t])
  BY <1>1, <1>3, <1>6 DEF ToRecord
<1>13. Names(t, new)
  BY <1>3, <1>6, <1>12, FewerNames
<1>14. QED
  BY <1>4, <1>6, <1>7, <1>10, <1>11, <1>13, SetGood

(* A step that leaves instances alone and adds nothing to what the         *)
(* clusters config names.                                                  *)
LEMMA EntriesSteady ==
    ASSUME Good, UNCHANGED provider,
           \A c \in Clusters : RangeOf(entry'[c].nodes) \subseteq RangeOf(entry[c].nodes),
           \A c \in Clusters : entry'[c].monitor # None => IsMonitor(entry'[c].monitor)
    PROVE  Steady
BY DEF Steady, provider, Good, Recordable, Rented, IsNode

LEMMA EntryTyped ==
    ASSUME Good, NEW d, NEW e \in [there : BOOLEAN, nodes : Seq(Instances),
                                   monitor : Instances \cup {None}],
           entry' = [entry EXCEPT ![d] = e]
    PROVE  /\ entry' \in [Clusters -> [there : BOOLEAN, nodes : Seq(Instances),
                                       monitor : Instances \cup {None}]]
           /\ \A c \in Clusters : entry'[c] = entry[c] \/ (c = d /\ entry'[c] = e)
BY DEF Good, TypeOK

LEMMA NoEntryTyped ==
    /\ NoEntry \in [there : BOOLEAN, nodes : Seq(Instances),
                    monitor : Instances \cup {None}]
    /\ RangeOf(NoEntry.nodes) = {} /\ NoEntry.monitor = None
BY EmptyRange DEF NoEntry

LEMMA QueryGood ==
    ASSUME Good, NEW t \in Terminals, QueryAddresses(t)
    PROVE  Good'
<1>1. DataOK' /\ Steady
  BY QuietSteady DEF QueryAddresses
<1>2. CASE Finish(t)
  BY <1>1, <1>2, FinishGood
<1>3. CASE cmd' = [cmd EXCEPT ![t].pc = "region"]
  <2>1. /\ cmd[t].pc = "query" /\ Running(t)
        /\ cmd[t].separate => cmd[t].monitor # None
    BY CommandTyped DEF QueryAddresses, At, Running, WellFormed
  <2>2. "region" \in Pcs \ {"idle", "node"}
    BY DEF Pcs
  <2>3. QED
    BY <1>1, <1>3, <2>1, <2>2, GotoGood
<1>4. QED
  BY <1>2, <1>3 DEF QueryAddresses

LEMMA RecordMonitorGood ==
    ASSUME Good, NEW t \in Terminals, RecordMonitor(t)
    PROVE  Good'
<1> DEFINE m == cmd[t].monitor
           e == AddMonitor(entry[C(t)], m)
<1>1. /\ cmd[t] \in Commands /\ WellFormed(cmd[t])
      /\ cmd[t].pc = "monitorconfig"
  BY CommandTyped DEF RecordMonitor, At
<1>2. /\ m \in Instances /\ cmd[t].service \in Services /\ m # None
      /\ C(t) \in Clusters
  BY <1>1 DEF Commands, WellFormed, C
<1>3. /\ nodeDir' = [nodeDir EXCEPT ![m] = MonitorConfigOf(t)]
      /\ entry' = [entry EXCEPT ![C(t)] = e]
      /\ UNCHANGED <<provider, inventory>>
  BY DEF RecordMonitor
<1>4. /\ e \in [there : BOOLEAN, nodes : Seq(Instances),
                monitor : Instances \cup {None}]
      /\ e.nodes = entry[C(t)].nodes /\ e.monitor = m
  BY <1>2 DEF AddMonitor, Entry, Good, TypeOK
<1>5. IsMonitor(m)
  BY DEF IsMonitor
<1> HIDE DEF m, e
<1>6. DataOK'
  BY <1>2, <1>3, <1>4, EntryTyped, ConfigTyped, TypeParts DEF Good, DataOK, provider
<1>7. Steady
  <2>1. ASSUME NEW c \in Clusters
        PROVE  /\ RangeOf(entry'[c].nodes) \subseteq RangeOf(entry[c].nodes)
               /\ entry'[c].monitor # None => IsMonitor(entry'[c].monitor)
    <3>1. entry'[c] = entry[c] \/ (c = C(t) /\ entry'[c] = e)
      BY <1>3, <1>4, EntryTyped
    <3>2. QED
      BY <1>4, <1>5, <3>1 DEF IsMonitor
  <2>2. QED
    BY <1>3, <2>1, EntriesSteady
<1>8. /\ Running(t) /\ cmd' = [cmd EXCEPT ![t].pc = "region"]
      /\ cmd[t].separate => cmd[t].monitor # None
  BY <1>1 DEF RecordMonitor, Running, WellFormed
<1>9. "region" \in Pcs \ {"idle", "node"} /\ cmd[t].pc \notin {"stop", "refresh"}
  BY <1>1 DEF Pcs
<1>10. QED
  BY <1>6, <1>7, <1>8, <1>9, GotoGood

LEMMA RecordFailsGood ==
    ASSUME Good, NEW t \in Terminals, RecordFails(t)
    PROVE  Good'
<1>1. cmd[t] \in Commands /\ WellFormed(cmd[t])
  BY CommandTyped
<1>2. cmd[t].service \in Services
  BY <1>1 DEF RecordFails, At, WellFormed
<1>3. nodeDir' \in [Instances -> Config \cup {NoDir}]
  BY <1>2, ConfigTyped DEF RecordFails, Good, TypeOK
<1>4. DataOK' /\ Steady
  BY <1>3, StaysSteady, TypeParts DEF RecordFails, Good, DataOK, provider
<1>5. QED
  BY <1>4, FinishGood DEF RecordFails

LEMMA WriteInventoryGood ==
    ASSUME Good, NEW t \in Terminals, WriteInventory(t)
    PROVE  Good'
<1>1. /\ cmd[t] \in Commands /\ WellFormed(cmd[t]) /\ cmd[t].pc = "inventory"
  BY CommandTyped DEF WriteInventory, At
<1>2. /\ cmd[t].listed \in SUBSET Instances
      /\ NewMonitor(t) => cmd[t].monitor \in Instances
  BY <1>1 DEF Commands, WellFormed, NewMonitor
<1>3. inventory' \in [Clusters -> [hosts : SUBSET Instances,
                                   monitors : SUBSET Instances]]
  <2>1. inventory \in [Clusters -> [hosts : SUBSET Instances,
                                    monitors : SUBSET Instances]]
    BY DEF Good, TypeOK
  <2>2. CASE NewMonitor(t)
    BY <1>2, <2>1, <2>2 DEF WriteInventory
  <2>3. CASE ~NewMonitor(t)
    BY <1>2, <2>1, <2>3 DEF WriteInventory
  <2>4. QED
    BY <2>2, <2>3
<1>4. DataOK' /\ Steady
  BY <1>3, StaysSteady, TypeParts DEF WriteInventory, Good, DataOK, provider
<1>5. /\ Running(t) /\ cmd' = [cmd EXCEPT ![t].pc = "hosts"]
      /\ cmd[t].separate => cmd[t].monitor # None
  BY <1>1 DEF WriteInventory, Running, WellFormed
<1>6. "hosts" \in Pcs \ {"idle", "node"} /\ cmd[t].pc \notin {"stop", "refresh"}
  BY <1>1 DEF Pcs
<1>7. QED
  BY <1>4, <1>5, <1>6, GotoGood

LEMMA SetupGood ==
    ASSUME Good, NEW t \in Terminals,
           SetupHosts(t) \/ ConfigureDevnet(t) \/ EndCreate(t)
    PROVE  Good'
<1>1. DataOK' /\ Steady
  BY QuietSteady DEF SetupHosts, ConfigureDevnet, EndCreate
<1>2. CASE Finish(t)
  BY <1>1, <1>2, FinishGood
<1>3. ASSUME NEW p \in {"devnet", "created", "devnetconfig"},
             cmd[t].pc \in {"hosts", "devnet"}, cmd' = [cmd EXCEPT ![t].pc = p]
      PROVE  Good'
  <2>1. /\ Running(t) /\ cmd[t].pc \notin {"stop", "refresh"}
        /\ cmd[t].separate => cmd[t].monitor # None
    BY <1>3, CommandTyped DEF Running, WellFormed
  <2>2. p \in Pcs \ {"idle", "node"} /\ p # "monitorconfig"
    BY DEF Pcs
  <2>3. QED
    BY <1>1, <1>3, <2>1, <2>2, GotoGood
<1>4. CASE SetupHosts(t)
  BY <1>2, <1>3, <1>4 DEF SetupHosts, At
<1>5. CASE ConfigureDevnet(t)
  BY <1>2, <1>3, <1>5 DEF ConfigureDevnet, At
<1>6. QED
  BY <1>2, <1>4, <1>5 DEF EndCreate

LEMMA SaveDevnetGood ==
    ASSUME Good, NEW t \in Terminals, SaveDevnet(t)
    PROVE  Good'
<1> DEFINE e == DevnetEntry(entry[C(t)])
<1>1. /\ cmd[t] \in Commands /\ WellFormed(cmd[t]) /\ cmd[t].pc = "devnetconfig"
  BY CommandTyped DEF SaveDevnet, At
<1>2. C(t) \in Clusters
  BY <1>1 DEF WellFormed, C
<1>3. /\ entry' = [entry EXCEPT ![C(t)] = e]
      /\ UNCHANGED <<provider, nodeDir, inventory>>
  BY DEF SaveDevnet
<1>4. /\ e \in [there : BOOLEAN, nodes : Seq(Instances),
                monitor : Instances \cup {None}]
      /\ e.nodes = entry[C(t)].nodes /\ e.monitor = None
  BY <1>2 DEF DevnetEntry, Entry, Good, TypeOK
<1> HIDE DEF e
<1>5. DataOK'
  BY <1>3, <1>4, EntryTyped, TypeParts DEF Good, DataOK, provider
<1>6. Steady
  <2>1. ASSUME NEW c \in Clusters
        PROVE  /\ RangeOf(entry'[c].nodes) \subseteq RangeOf(entry[c].nodes)
               /\ entry'[c].monitor # None => IsMonitor(entry'[c].monitor)
    <3>1. entry'[c] = entry[c] \/ (c = C(t) /\ entry'[c] = e)
      BY <1>3, <1>4, EntryTyped
    <3>2. QED
      BY <1>4, <3>1 DEF IsMonitor
  <2>2. QED
    BY <1>3, <2>1, EntriesSteady
<1>7. /\ Running(t) /\ cmd' = [cmd EXCEPT ![t].pc = "created"]
      /\ cmd[t].separate => cmd[t].monitor # None
  BY <1>1 DEF SaveDevnet, Running, WellFormed
<1>8. "created" \in Pcs \ {"idle", "node"} /\ cmd[t].pc \notin {"stop", "refresh"}
  BY <1>1 DEF Pcs
<1>9. QED
  BY <1>5, <1>6, <1>7, <1>8, GotoGood

(* The next node of a stop, with or without an error. *)
LEMMA NextNodeGood ==
    ASSUME Good, NEW t \in Terminals, Stopping(t), NextNode(t) \/ NodeError(t),
           DataOK', Steady
    PROVE  Good'
<1>1. /\ cmd[t] \in Commands /\ WellFormed(cmd[t]) /\ cmd[t].pc = "stop"
      /\ cmd[t].todo \in Seq(Instances) /\ cmd[t].todo # <<>>
  BY CommandTyped DEF Commands, Stopping, At
<1>2. /\ Tail(cmd[t].todo) \in Seq(Instances)
      /\ RangeOf(Tail(cmd[t].todo)) \subseteq RangeOf(cmd[t].todo)
  BY <1>1, TailInRange
<1>3. ASSUME NEW f \in BOOLEAN,
             cmd' = [cmd EXCEPT ![t] = [cmd[t] EXCEPT !.todo = Tail(cmd[t].todo),
                                                      !.failed = f]]
      PROVE  Good'
  <2> DEFINE new == [cmd[t] EXCEPT !.todo = Tail(cmd[t].todo), !.failed = f]
  <2>1. /\ new \in Commands
        /\ new.pc = "stop" /\ new.made = cmd[t].made /\ new.listed = cmd[t].listed
        /\ new.todo = Tail(cmd[t].todo) /\ new.existing = cmd[t].existing
        /\ new.monitor = cmd[t].monitor /\ new.service = cmd[t].service
        /\ new.separate = cmd[t].separate /\ new.cluster = cmd[t].cluster
    BY <1>1, <1>2 DEF Commands
  <2>2. cmd' = [cmd EXCEPT ![t] = new]
    BY <1>3
  <2> HIDE DEF new
  <2>3. WellFormed(new)
    BY <1>1, <2>1 DEF WellFormed
  <2>4. ToRecord(new) \subseteq ToRecord(cmd[t])
    BY <2>1 DEF ToRecord
  <2>5. Names(t, new)
    BY <1>2, <2>1, <2>4, FewerNames
  <2>6. QED
    BY <2>1, <2>2, <2>3, <2>5, SetGood
<1>4. CASE NextNode(t)
  <2>1. cmd[t].failed \in BOOLEAN
    BY <1>1 DEF Commands
  <2>2. [cmd[t] EXCEPT !.todo = Tail(cmd[t].todo)]
            = [cmd[t] EXCEPT !.todo = Tail(cmd[t].todo), !.failed = cmd[t].failed]
    BY <1>1 DEF Commands
  <2>3. cmd' = [cmd EXCEPT ![t] = [cmd[t] EXCEPT !.todo = Tail(cmd[t].todo)]]
    BY <1>4 DEF NextNode
  <2>4. QED
    BY <1>3, <2>1, <2>2, <2>3
<1>5. CASE NodeError(t)
  <2>1. cmd' = [cmd EXCEPT ![t] = [cmd[t] EXCEPT !.todo = Tail(cmd[t].todo),
                                                 !.failed = TRUE]]
    BY <1>5 DEF NodeError
  <2>2. QED
    BY <1>3, <2>1
<1>6. QED
  BY <1>4, <1>5

(* What a stop does to one node. *)
LEMMA StoppedSteady ==
    ASSUME Good, NEW t \in Terminals, Stopping(t),
           power' \in {power, [power EXCEPT ![Node(t)] = "stopped"]},
           address' \subseteq address,
           nodeDir' \in {nodeDir, [nodeDir EXCEPT ![Node(t)] = NoDir]},
           UNCHANGED <<service, entry, inventory>>
    PROVE  DataOK' /\ Steady
<1>1. cmd[t].todo \in Seq(Instances) /\ cmd[t].todo # <<>>
  BY CommandTyped DEF Commands, Stopping
<1>2. Node(t) \in Instances /\ Node(t) \in RangeOf(cmd[t].todo)
  BY <1>1, HeadInRange DEF Node
<1>3. power[Node(t)] # "none"
  BY <1>2 DEF Good, Recordable, Rented, IsHeld
<1> HIDE DEF Node
<1>4. DataOK'
  BY <1>2, TypeParts DEF Good, DataOK
<1>5. \A i \in Instances :
        /\ power[i] # "none" => power'[i] # "none" /\ service'[i] = service[i]
        /\ power'[i] # "none" => power[i] # "none"
  BY <1>2, <1>3 DEF Good, TypeOK
<1>6. \A i \in Instances : power'[i] # "none" => service'[i] \in Services
  BY <1>5 DEF Good, Recordable, Rented
<1>7. Steady
  BY <1>5, <1>6 DEF Steady, IsNode, IsMonitor
<1>8. QED
  BY <1>4, <1>7

LEMMA StopGood ==
    ASSUME Good, NEW t \in Terminals, Stop(t)
    PROVE  Good'
<1>1. CASE EndStop(t)
  <2>1. inventory' \in [Clusters -> [hosts : SUBSET Instances,
                                     monitors : SUBSET Instances]]
    BY <1>1, SMTT(30) DEF EndStop, Good, TypeOK
  <2>2. UNCHANGED entry \/ entry' = [entry EXCEPT ![C(t)] = NoEntry]
    BY <1>1 DEF EndStop
  <2>3. entry' \in [Clusters -> [there : BOOLEAN, nodes : Seq(Instances),
                                 monitor : Instances \cup {None}]]
    BY <2>2, EntryTyped, NoEntryTyped DEF Good, TypeOK
  <2>4. DataOK'
    BY <1>1, <2>1, <2>3, TypeParts DEF EndStop, Good, DataOK, provider
  <2>5. ASSUME NEW c \in Clusters
        PROVE  /\ RangeOf(entry'[c].nodes) \subseteq RangeOf(entry[c].nodes)
               /\ entry'[c].monitor # None => IsMonitor(entry'[c].monitor)
    <3>1. entry'[c] = entry[c] \/ entry'[c] = NoEntry
      BY <2>2, EntryTyped, NoEntryTyped
    <3>2. QED
      BY <3>1, NoEntryTyped DEF IsMonitor
  <2>6. Steady
    BY <1>1, <2>5, EntriesSteady DEF EndStop
  <2>7. QED
    BY <1>1, <2>4, <2>6, FinishGood DEF EndStop
<1>2. ASSUME Stopping(t), NextNode(t) \/ NodeError(t) \/ Finish(t),
             power' \in {power, [power EXCEPT ![Node(t)] = "stopped"]},
             address' \subseteq address,
             nodeDir' \in {nodeDir, [nodeDir EXCEPT ![Node(t)] = NoDir]},
             UNCHANGED <<service, entry, inventory>>
      PROVE  Good'
  BY <1>2, StoppedSteady, NextNodeGood, FinishGood
<1>3. CASE StopUnknown(t) \/ StopCallFails(t) \/ CredentialsExpire(t)
  BY <1>2, <1>3 DEF StopUnknown, StopCallFails, CredentialsExpire, provider
<1>4. CASE StopNode(t)
  BY <1>2, <1>4 DEF StopNode, ReleaseOf
<1>5. CASE ReleaseFails(t)
  BY <1>2, <1>5 DEF ReleaseFails
<1>6. CASE AlreadyStopped(t)
  BY <1>2, <1>6 DEF AlreadyStopped, provider
<1>7. QED
  BY <1>1, <1>3, <1>4, <1>5, <1>6 DEF Stop

LEMMA RefreshGood ==
    ASSUME Good, NEW t \in Terminals, WriteRefreshed(t)
    PROVE  Good'
<1> DEFINE config(i) == [there |-> TRUE, service |-> service[i],
                         static |-> FALSE, ip |-> TRUE]
<1>1. PICK i \in cmd[t].listed :
        /\ nodeDir' = [nodeDir EXCEPT ![i] = config(i)]
        /\ IF cmd[t].listed = {i} THEN Finish(t)
           ELSE cmd' = [cmd EXCEPT ![t].listed = @ \ {i}]
  BY DEF WriteRefreshed
<1>2. /\ cmd[t] \in Commands /\ WellFormed(cmd[t]) /\ cmd[t].pc = "refresh"
      /\ i \in Instances
  BY CommandTyped DEF WriteRefreshed, At, Commands
<1>3. service[i] \in Services
  BY <1>1, <1>2 DEF Good, Recordable, Rented, IsHeld
<1>4. config(i) \in Config
  BY <1>3 DEF Config
<1> HIDE DEF config
<1>5. DataOK' /\ Steady
  BY <1>1, <1>4, StaysSteady, TypeParts DEF WriteRefreshed, Good, DataOK, provider
<1>6. CASE Finish(t)
  BY <1>5, <1>6, FinishGood
<1>7. CASE cmd' = [cmd EXCEPT ![t].listed = @ \ {i}]
  <2> DEFINE new == [cmd[t] EXCEPT !.listed = @ \ {i}]
  <2>1. /\ new \in Commands
        /\ new.pc = "refresh" /\ new.made = cmd[t].made
        /\ new.listed = cmd[t].listed \ {i}
        /\ new.todo = cmd[t].todo /\ new.existing = cmd[t].existing
        /\ new.monitor = cmd[t].monitor /\ new.service = cmd[t].service
        /\ new.separate = cmd[t].separate /\ new.cluster = cmd[t].cluster
    BY <1>2 DEF Commands
  <2>2. cmd' = [cmd EXCEPT ![t] = new]
    BY <1>7
  <2> HIDE DEF new
  <2>3. WellFormed(new)
    BY <1>2, <2>1 DEF WellFormed
  <2>4. ToRecord(new) \subseteq ToRecord(cmd[t])
    BY <2>1 DEF ToRecord
  <2>5. Names(t, new)
    BY <2>1, <2>4, FewerNames
  <2>6. QED
    BY <1>5, <2>1, <2>2, <2>3, <2>5, SetGood
<1>8. QED
  BY <1>1, <1>6, <1>7

LEMMA InstanceStopsGood ==
    ASSUME Good, NEW i \in Instances, InstanceStops(i)
    PROVE  Good'
<1>1. /\ power' = [power EXCEPT ![i] = "stopped"] /\ power[i] = "running"
      /\ UNCHANGED <<service, address, nodeDir, entry, inventory, cmd>>
  BY DEF InstanceStops
<1>2. \A j \in Instances : power[j] # "none" <=> power'[j] # "none"
  BY <1>1 DEF Good, TypeOK
<1>3. TypeOK'
  BY <1>1 DEF Good, TypeOK
<1>4. \A j : (IsNode(j)' <=> IsNode(j)) /\ (IsMonitor(j)' <=> IsMonitor(j))
             /\ (IsHeld(j)' <=> IsHeld(j))
  BY <1>1 DEF IsNode, IsMonitor, IsHeld
<1>5. Recordable'
  BY <1>1, <1>2, <1>4 DEF Good, Recordable, Rented, RolesApart, ServiceKnown
<1>6. QED
  BY <1>3, <1>5 DEF Good

LEMMA NextGood ==
    ASSUME Good, [Next]_vars
    PROVE  Good'
<1>1. CASE UNCHANGED vars
  BY <1>1 DEF vars, Good, TypeOK, Recordable, Rented, RolesApart, ServiceKnown,
              IsNode, IsMonitor, IsHeld
<1>2. ASSUME NEW t \in Terminals, NEW c \in Clusters,
             BeginCreate(t, c) \/ BeginStop(t, c) \/ BeginRefresh(t, c)
      PROVE  Good'
  BY <1>2, BeginCreateGood, BeginStopGood, BeginRefreshGood
<1>3. ASSUME NEW t \in Terminals, Create(t)
      PROVE  Good'
  BY <1>3, RentNodesGood, RentFailsGood, RentMonitorGood, MonitorChoiceGood,
     QueryGood, TakeRegionGood, RecordNodeGood, RecordMonitorGood, RecordFailsGood,
     WriteInventoryGood, SetupGood, SaveDevnetGood
  DEF Create
<1>4. ASSUME NEW t \in Terminals, RefreshFails(t) \/ Crash(t)
      PROVE  Good'
  BY <1>4, QuietSteady, FinishGood DEF RefreshFails, Crash
<1>5. QED
  BY <1>1, <1>2, <1>3, <1>4, StopGood, RefreshGood, InstanceStopsGood DEF Next

LEMMA InitGood == Init => Good /\ ListedCanBeStopped
<1> SUFFICES ASSUME Init
             PROVE  Good /\ ListedCanBeStopped
  OBVIOUS
<1>1. TypeOK
  BY IdleTyped, NoEntryTyped DEF Init, TypeOK
<1>2. \A c \in Clusters : entry[c] = NoEntry /\ Listed(entry[c]) = {}
  BY NoEntryTyped DEF Init, Listed
<1>3. \A t \in Terminals : cmd[t] = Idle
  BY DEF Init
<1>4. ASSUME NEW i \in Instances
      PROVE  ~IsNode(i) /\ ~IsMonitor(i) /\ ~IsHeld(i)
  BY <1>2, <1>3, NodeAssumption, NoEntryTyped, IdleTyped, EmptyRange
  DEF IsNode, IsMonitor, IsHeld
<1>5. Recordable
  BY <1>3, <1>4, IdleTyped DEF Init, Recordable, Rented, RolesApart, ServiceKnown
<1>6. QED
  BY <1>1, <1>2, <1>5 DEF Good, ListedCanBeStopped

(* Every variable of NodeCluster keeps its type, and every command is one  *)
(* that the code of node create, stop and refresh-ips can be executing:    *)
(* in particular, createClusterNodeConfig never records a monitoring       *)
(* instance that does not exist.                                           *)
THEOREM TypeCorrect == Spec => []TypeOK
<1>1. Init => Good
  BY InitGood
<1>2. Good /\ [Next]_vars => Good'
  BY NextGood
<1>3. Good => TypeOK
  BY DEF Good
<1>4. QED
  BY <1>1, <1>2, <1>3, PTL DEF Spec

-----------------------------------------------------------------------------
(* What is listed can be stopped.                                          *)

(* The config of a running instance is settled by the step, or the step    *)
(* neither changes it nor lists the instance anew.                         *)
Settled(i) ==
    \/ /\ nodeDir'[i].there
       /\ \/ nodeDir'[i].service = service'[i]
          \/ \A c \in Clusters : i \notin RangeOf(entry'[c].nodes)
    \/ /\ power[i] = "running"
       /\ nodeDir'[i] = nodeDir[i] /\ service'[i] = service[i]
       /\ \A c \in Clusters :
            /\ i \in RangeOf(entry'[c].nodes) => i \in RangeOf(entry[c].nodes)
            /\ i \in Listed(entry'[c]) => i \in Listed(entry[c])
    \/ \A c \in Clusters : i \notin Listed(entry'[c])

LEMMA SettledStoppable ==
    ASSUME ListedCanBeStopped, Good',
           \A i \in Instances : power'[i] = "running" => Settled(i)
    PROVE  ListedCanBeStopped'
<1>1. SUFFICES ASSUME NEW c \in Clusters, NEW i \in Listed(entry'[c]),
                      power'[i] = "running"
               PROVE  /\ nodeDir'[i].there
                      /\ i \in RangeOf(entry'[c].nodes) =>
                            nodeDir'[i].service = service'[i]
  BY DEF ListedCanBeStopped, HasDir, Reaches
<1>2. i \in Instances
  BY <1>1, RangeTyped DEF Listed, Good, TypeOK
<1>3. CASE /\ nodeDir'[i].there
           /\ \/ nodeDir'[i].service = service'[i]
              \/ i \notin RangeOf(entry'[c].nodes)
  BY <1>3
<1>4. CASE /\ power[i] = "running"
           /\ nodeDir'[i] = nodeDir[i] /\ service'[i] = service[i]
           /\ i \in RangeOf(entry'[c].nodes) => i \in RangeOf(entry[c].nodes)
           /\ i \in Listed(entry'[c]) => i \in Listed(entry[c])
  BY <1>1, <1>4 DEF ListedCanBeStopped, HasDir, Reaches
<1>5. QED
  BY <1>1, <1>2, <1>3, <1>4 DEF Settled

(* A step that lists nothing and touches no config of what runs. *)
LEMMA ShrinkingStoppable ==
    ASSUME ListedCanBeStopped, Good',
           \A i \in Instances : power'[i] = "running" =>
                power[i] = "running" /\ nodeDir'[i] = nodeDir[i] /\ service'[i] = service[i],
           \A c \in Clusters : RangeOf(entry'[c].nodes) \subseteq RangeOf(entry[c].nodes)
                               /\ Listed(entry'[c]) \subseteq Listed(entry[c])
    PROVE  ListedCanBeStopped'
BY SettledStoppable DEF Settled

LEMMA SwitchStoppable ==
    ASSUME Good, ListedCanBeStopped, Good', NEW t \in Terminals, NEW on,
           on \subseteq Fresh, Switch(t, on), UNCHANGED <<nodeDir, entry>>
    PROVE  ListedCanBeStopped'
<1>1. SUFFICES ASSUME NEW i \in Instances, power'[i] = "running"
               PROVE  Settled(i)
  BY SettledStoppable
<1>2. CASE i \notin on
  BY <1>1, <1>2 DEF Settled, Switch
<1>3. CASE i \in on
  <2>1. power[i] = "none"
    BY <1>3 DEF Fresh
  <2>2. ~IsNode(i) /\ ~IsMonitor(i)
    BY <2>1 DEF Good, Recordable, Rented
  <2>3. QED
    BY <2>2 DEF Settled, Listed, IsNode, IsMonitor
<1>4. QED
  BY <1>2, <1>3

(* The config of an instance is written, with its service if it is a node. *)
LEMMA WrittenStoppable ==
    ASSUME Good, ListedCanBeStopped, Good', NEW i \in Instances, NEW config,
           config.there,
           \/ config.service = service[i]
           \/ \A c \in Clusters : i \notin RangeOf(entry'[c].nodes),
           nodeDir' = [nodeDir EXCEPT ![i] = config], UNCHANGED provider,
           \A c \in Clusters :
                /\ RangeOf(entry'[c].nodes) \subseteq RangeOf(entry[c].nodes) \cup {i}
                /\ Listed(entry'[c]) \subseteq Listed(entry[c]) \cup {i}
    PROVE  ListedCanBeStopped'
<1>1. SUFFICES ASSUME NEW j \in Instances, power'[j] = "running"
               PROVE  Settled(j)
  BY SettledStoppable
<1>2. nodeDir \in [Instances -> Config \cup {NoDir}]
  BY DEF Good, TypeOK
<1>3. CASE j = i
  BY <1>2, <1>3 DEF Settled, provider
<1>4. CASE j # i
  BY <1>1, <1>2, <1>4 DEF Settled, provider
<1>5. QED
  BY <1>3, <1>4

LEMMA RecordStoppable ==
    ASSUME Good, ListedCanBeStopped, Good', NEW t \in Terminals,
           RecordNode(t) \/ RecordMonitor(t) \/ RecordFails(t)
    PROVE  ListedCanBeStopped'
<1> DEFINE i == Head(cmd[t].todo)
           m == cmd[t].monitor
<1>1. cmd[t] \in Commands /\ WellFormed(cmd[t])
  BY CommandTyped
<1>2. /\ NodeConfigOf(t).there /\ NodeConfigOf(t).service = cmd[t].service
      /\ MonitorConfigOf(t).there
  BY DEF NodeConfigOf, MonitorConfigOf
<1>3. ASSUME At(t, "node")
      PROVE  i \in Instances /\ service[i] = cmd[t].service
  <2>1. cmd[t].todo \in Seq(Instances) /\ cmd[t].todo # <<>>
    BY <1>1, <1>3 DEF Commands, WellFormed, At
  <2>2. i \in Instances /\ i \in ToRecord(cmd[t])
    BY <1>3, <2>1, HeadInRange DEF ToRecord, At
  <2>3. QED
    BY <2>2 DEF Good, Recordable, ServiceKnown
<1>4. ASSUME At(t, "monitorconfig")
      PROVE  m \in Instances /\ \A c \in Clusters : m \notin RangeOf(entry[c].nodes)
  <2>1. m \in Instances
    BY <1>1, <1>4 DEF Commands, WellFormed, At
  <2>2. IsMonitor(m)
    BY DEF IsMonitor
  <2>3. ~IsNode(m)
    BY <2>1, <2>2 DEF Good, Recordable, RolesApart
  <2>4. QED
    BY <2>1, <2>3 DEF IsNode
<1>5. CASE RecordNode(t)
  <2>1. /\ entry' = [entry EXCEPT ![C(t)] = AddNode(entry[C(t)], i)]
        /\ nodeDir' = [nodeDir EXCEPT ![i] = NodeConfigOf(t)]
        /\ UNCHANGED provider /\ i \in Instances /\ service[i] = cmd[t].service
    BY <1>3, <1>5 DEF RecordNode
  <2> HIDE DEF i
  <2>2. ASSUME NEW c \in Clusters
        PROVE  /\ RangeOf(entry'[c].nodes) \subseteq RangeOf(entry[c].nodes) \cup {i}
               /\ Listed(entry'[c]) \subseteq Listed(entry[c]) \cup {i}
    <3>1. entry'[c] = entry[c] \/ entry'[c] = AddNode(entry[c], i)
      BY <2>1 DEF Good, TypeOK
    <3>2. entry[c].nodes \in Seq(Instances)
      BY DEF Good, TypeOK
    <3>3. /\ AddNode(entry[c], i).nodes = Append(entry[c].nodes, i)
          /\ AddNode(entry[c], i).monitor = None
      BY DEF AddNode, Entry
    <3>4. RangeOf(Append(entry[c].nodes, i)) = RangeOf(entry[c].nodes) \cup {i}
      BY <2>1, <3>2, AppendInRange
    <3>5. QED
      BY <3>1, <3>3, <3>4 DEF Listed
  <2>3. QED
    BY <1>2, <2>1, <2>2, WrittenStoppable
<1>6. CASE RecordMonitor(t)
  <2>1. /\ entry' = [entry EXCEPT ![C(t)] = AddMonitor(entry[C(t)], m)]
        /\ nodeDir' = [nodeDir EXCEPT ![m] = MonitorConfigOf(t)]
        /\ UNCHANGED provider /\ m \in Instances
        /\ \A c \in Clusters : m \notin RangeOf(entry[c].nodes)
    BY <1>4, <1>6 DEF RecordMonitor
  <2> HIDE DEF m
  <2>2. ASSUME NEW c \in Clusters
        PROVE  /\ entry'[c].nodes = entry[c].nodes
               /\ Listed(entry'[c]) \subseteq Listed(entry[c]) \cup {m}
    <3>1. entry'[c] = entry[c] \/ entry'[c] = AddMonitor(entry[c], m)
      BY <2>1 DEF Good, TypeOK
    <3>2. /\ AddMonitor(entry[c], m).nodes = entry[c].nodes
          /\ AddMonitor(entry[c], m).monitor = m
      BY DEF AddMonitor, Entry
    <3>3. QED
      BY <3>1, <3>2 DEF Listed
  <2>3. QED
    BY <1>2, <2>1, <2>2, WrittenStoppable
<1>7. CASE RecordFails(t)
  <2>1. UNCHANGED provider /\ UNCHANGED entry
    BY <1>7 DEF RecordFails
  <2>2. CASE At(t, "node") /\ nodeDir' = [nodeDir EXCEPT ![i] = NodeConfigOf(t)]
    <3>1. i \in Instances /\ service[i] = cmd[t].service
      BY <1>3, <2>2
    <3> HIDE DEF i
    <3>2. QED
      BY <1>2, <2>1, <2>2, <3>1, WrittenStoppable
  <2>3. CASE /\ At(t, "monitorconfig")
             /\ nodeDir' = [nodeDir EXCEPT ![m] = MonitorConfigOf(t)]
    <3>1. m \in Instances /\ \A c \in Clusters : m \notin RangeOf(entry'[c].nodes)
      BY <1>4, <2>1, <2>3
    <3> HIDE DEF m
    <3>2. QED
      BY <1>2, <2>1, <2>3, <3>1, WrittenStoppable
  <2>4. CASE nodeDir' = nodeDir
    BY <2>1, <2>4, ShrinkingStoppable DEF provider
  <2>5. QED
    BY <1>7, <2>2, <2>3, <2>4 DEF RecordFails
<1>8. QED
  BY <1>5, <1>6, <1>7

LEMMA QuietStoppable ==
    ASSUME ListedCanBeStopped, Good', UNCHANGED <<provider, nodeDir, entry>>
    PROVE  ListedCanBeStopped'
BY ShrinkingStoppable DEF provider

LEMMA RentStoppable ==
    ASSUME Good, ListedCanBeStopped, Good', NEW t \in Terminals,
           \/ RentNodes(t) \/ RentNodesFails(t)
           \/ RentMonitor(t) \/ RentMonitorFails(t)
    PROVE  ListedCanBeStopped'
<1>1. \A made \in Batches(cmd[t].plan) : Ids(made) \subseteq Fresh
  BY CommandTyped, BatchTyped DEF Commands
<1>2. \E on : on \subseteq Fresh /\ Switch(t, on)
  <2>1. CASE RentNodes(t)
    BY <1>1, <2>1 DEF RentNodes, Rent
  <2>2. CASE RentNodesFails(t)
    BY <1>1, <2>2 DEF RentNodesFails, PartlyRented
  <2>3. CASE RentMonitor(t)
    BY <2>3 DEF RentMonitor, Rent
  <2>4. CASE RentMonitorFails(t)
    <3>1. PICK m \in Fresh : PartlyRented(t, {m})
      BY <2>4 DEF RentMonitorFails
    <3>2. PICK on \in SUBSET {m} : Switch(t, on)
      BY <3>1 DEF PartlyRented
    <3>3. QED
      BY <3>2
  <2>5. QED
    BY <2>1, <2>2, <2>3, <2>4
<1>3. UNCHANGED <<nodeDir, entry>>
  BY DEF RentNodes, RentNodesFails, RentMonitor, RentMonitorFails
<1>4. QED
  BY <1>2, <1>3, SwitchStoppable

LEMMA CreateStoppable ==
    ASSUME Good, ListedCanBeStopped, Good', NEW t \in Terminals, Create(t)
    PROVE  ListedCanBeStopped'
<1>1. CASE SaveDevnet(t)
  <2>1. /\ entry' = [entry EXCEPT ![C(t)] = DevnetEntry(entry[C(t)])]
        /\ UNCHANGED <<provider, nodeDir>>
    BY <1>1 DEF SaveDevnet
  <2>2. ASSUME NEW c \in Clusters
        PROVE  /\ RangeOf(entry'[c].nodes) \subseteq RangeOf(entry[c].nodes)
               /\ Listed(entry'[c]) \subseteq Listed(entry[c])
    <3>1. entry'[c] = entry[c] \/ entry'[c] = DevnetEntry(entry[c])
      BY <2>1 DEF Good, TypeOK
    <3>2. QED
      BY <3>1 DEF DevnetEntry, Entry, Listed
  <2>3. QED
    BY <2>1, <2>2, ShrinkingStoppable DEF provider
<1>2. CASE \/ UseExistingMonitor(t) \/ NoMonitor(t) \/ QueryAddresses(t)
           \/ TakeRegion(t) \/ WriteInventory(t)
           \/ SetupHosts(t) \/ ConfigureDevnet(t) \/ EndCreate(t)
  BY <1>2, QuietStoppable
  DEF UseExistingMonitor, NoMonitor, QueryAddresses, TakeRegion, WriteInventory,
      SetupHosts, ConfigureDevnet, EndCreate
<1>3. QED
  BY <1>1, <1>2, RentStoppable, RecordStoppable DEF Create

(* The config goes, if at all, when its instance is down. *)
LEMMA StopStoppable ==
    ASSUME Good, ListedCanBeStopped, Good', NEW t \in Terminals, Stop(t)
    PROVE  ListedCanBeStopped'
<1>1. CASE StopUnknown(t) \/ StopCallFails(t) \/ CredentialsExpire(t)
  BY <1>1, QuietStoppable DEF StopUnknown, StopCallFails, CredentialsExpire
<1>2. CASE StopNode(t) \/ ReleaseFails(t) \/ AlreadyStopped(t)
  <2>1. /\ \/ power' = [power EXCEPT ![Node(t)] = "stopped"]
           \/ power' = power /\ power[Node(t)] # "running"
        /\ nodeDir' \in {nodeDir, [nodeDir EXCEPT ![Node(t)] = NoDir]}
        /\ UNCHANGED <<service, entry>>
    BY <1>2 DEF StopNode, ReleaseFails, AlreadyStopped, provider
  <2> HIDE DEF Node
  <2>2. ASSUME NEW i \in Instances, power'[i] = "running"
        PROVE  /\ power[i] = "running" /\ nodeDir'[i] = nodeDir[i]
               /\ service'[i] = service[i]
    BY <2>1, <2>2 DEF Good, TypeOK
  <2>3. QED
    BY <2>1, <2>2, ShrinkingStoppable
<1>3. CASE EndStop(t)
  <2>1. /\ UNCHANGED entry \/ entry' = [entry EXCEPT ![C(t)] = NoEntry]
        /\ UNCHANGED <<provider, nodeDir>>
    BY <1>3 DEF EndStop
  <2>2. ASSUME NEW c \in Clusters
        PROVE  /\ RangeOf(entry'[c].nodes) \subseteq RangeOf(entry[c].nodes)
               /\ Listed(entry'[c]) \subseteq Listed(entry[c])
    <3>1. entry'[c] = entry[c] \/ entry'[c] = NoEntry
      BY <2>1, EntryTyped, NoEntryTyped
    <3>2. QED
      BY <3>1, NoEntryTyped DEF Listed
  <2>3. QED
    BY <2>1, <2>2, ShrinkingStoppable DEF provider
<1>4. QED
  BY <1>1, <1>2, <1>3 DEF Stop

LEMMA RefreshStoppable ==
    ASSUME Good, ListedCanBeStopped, Good', NEW t \in Terminals, WriteRefreshed(t)
    PROVE  ListedCanBeStopped'
<1> DEFINE config(i) == [there |-> TRUE, service |-> service[i],
                         static |-> FALSE, ip |-> TRUE]
<1>1. PICK i \in cmd[t].listed : nodeDir' = [nodeDir EXCEPT ![i] = config(i)]
  BY DEF WriteRefreshed
<1>2. i \in Instances /\ config(i).there /\ config(i).service = service[i]
  BY CommandTyped DEF Commands
<1>3. UNCHANGED <<provider, entry>>
  BY DEF WriteRefreshed
<1> HIDE DEF config
<1>4. QED
  BY <1>1, <1>2, <1>3, WrittenStoppable

LEMMA NextStoppable ==
    ASSUME Good, ListedCanBeStopped, [Next]_vars, Good'
    PROVE  ListedCanBeStopped'
<1>1. CASE UNCHANGED vars
  BY <1>1, QuietStoppable DEF vars, provider
<1>2. ASSUME NEW t \in Terminals, NEW c \in Clusters,
             BeginCreate(t, c) \/ BeginStop(t, c) \/ BeginRefresh(t, c)
      PROVE  ListedCanBeStopped'
  BY <1>2, QuietStoppable DEF BeginCreate, BeginStop, BeginRefresh
<1>3. ASSUME NEW t \in Terminals, RefreshFails(t) \/ Crash(t)
      PROVE  ListedCanBeStopped'
  BY <1>3, QuietStoppable DEF RefreshFails, Crash
<1>4. ASSUME NEW i \in Instances, InstanceStops(i)
      PROVE  ListedCanBeStopped'
  <2>1. /\ power' = [power EXCEPT ![i] = "stopped"]
        /\ UNCHANGED <<service, nodeDir, entry>>
    BY <1>4 DEF InstanceStops
  <2>2. \A j \in Instances : power'[j] = "running" => power[j] = "running"
    BY <2>1 DEF Good, TypeOK
  <2>3. QED
    BY <2>1, <2>2, ShrinkingStoppable
<1>5. QED
  BY <1>1, <1>2, <1>3, <1>4, CreateStoppable, StopStoppable, RefreshStoppable
  DEF Next

(* Whatever the commands of several terminals do, and wherever they fail   *)
(* or are interrupted: the config of a running instance that the clusters  *)
(* config lists is on disk, and names the instance's service if it is a    *)
(* node's, so that `node stop` can stop it.                                *)
THEOREM ListedStoppable == Spec => []ListedCanBeStopped
<1>1. Init => Good /\ ListedCanBeStopped
  BY InitGood
<1>2. Good /\ ListedCanBeStopped /\ [Next]_vars => (Good /\ ListedCanBeStopped)'
  BY NextGood, NextStoppable
<1>3. QED
  BY <1>1, <1>2, PTL DEF Spec

-----------------------------------------------------------------------------
(* A directory goes away when its instance does not run any more.          *)

(* What a step does to the directories: it fills one, or it removes that   *)
(* of an instance that does not run.                                       *)
DirStep ==
    \A i \in Instances : HasDir(i) /\ ~HasDir(i)' =>
        /\ power'[i] # "running"
        /\ nodeDir[i].service = "gcp" /\ nodeDir[i].static => i \notin address'

LEMMA FilledDir ==
    ASSUME Good, NEW i \in Instances, NEW d, d.there, nodeDir' = [nodeDir EXCEPT ![i] = d]
    PROVE  DirStep
BY DEF Good, TypeOK, DirStep, HasDir

LEMMA SameDirs ==
    ASSUME UNCHANGED nodeDir
    PROVE  DirStep
BY DEF DirStep, HasDir

LEMMA StopDirs ==
    ASSUME Good, NEW t \in Terminals, Stop(t)
    PROVE  DirStep
<1> DEFINE n == Node(t)
<1>1. CASE StopUnknown(t) \/ ReleaseFails(t) \/ StopCallFails(t) \/ CredentialsExpire(t)
           \/ EndStop(t) \/ UNCHANGED nodeDir
  BY <1>1, SameDirs DEF StopUnknown, ReleaseFails, StopCallFails, CredentialsExpire, EndStop
<1>2. CASE StopNode(t) /\ ~UNCHANGED nodeDir
  <2>1. /\ power' = [power EXCEPT ![n] = "stopped"] /\ address' = ReleaseOf(n)
        /\ nodeDir' = [nodeDir EXCEPT ![n] = NoDir]
    BY <1>2 DEF StopNode
  <2> HIDE DEF n
  <2>2. ASSUME NEW i \in Instances, HasDir(i), ~HasDir(i)'
        PROVE  i = n /\ power'[i] = "stopped"
    BY <2>1, <2>2 DEF Good, TypeOK, HasDir
  <2>3. nodeDir[n].static => n \notin address'
    BY <2>1 DEF ReleaseOf
  <2>4. QED
    BY <2>2, <2>3 DEF DirStep
<1>3. CASE AlreadyStopped(t) /\ ~UNCHANGED nodeDir
  <2>1. /\ UNCHANGED power /\ power[n] # "running" /\ Reaches(n) /\ service[n] = "aws"
        /\ nodeDir' = [nodeDir EXCEPT ![n] = NoDir]
    BY <1>3 DEF AlreadyStopped, provider
  <2> HIDE DEF n
  <2>2. ASSUME NEW i \in Instances, HasDir(i), ~HasDir(i)'
        PROVE  i = n
    BY <2>1, <2>2 DEF Good, TypeOK, HasDir
  <2>3. QED
    BY <2>1, <2>2 DEF DirStep, Reaches
<1>4. QED
  BY <1>1, <1>2, <1>3 DEF Stop

LEMMA CreateDirs ==
    ASSUME Good, NEW t \in Terminals, Create(t)
    PROVE  DirStep
<1>1. cmd[t] \in Commands /\ WellFormed(cmd[t])
  BY CommandTyped
<1>2. At(t, "node") => Head(cmd[t].todo) \in Instances
  BY <1>1, HeadInRange DEF WellFormed, Commands, At
<1>3. At(t, "monitorconfig") => cmd[t].monitor \in Instances
  BY <1>1 DEF WellFormed, Commands, At
<1>4. NodeConfigOf(t).there /\ MonitorConfigOf(t).there
  BY DEF NodeConfigOf, MonitorConfigOf
<1>5. CASE \/ RentNodes(t) \/ RentNodesFails(t) \/ RentMonitor(t) \/ RentMonitorFails(t)
           \/ UseExistingMonitor(t) \/ NoMonitor(t) \/ QueryAddresses(t) \/ TakeRegion(t)
           \/ WriteInventory(t) \/ SetupHosts(t) \/ ConfigureDevnet(t) \/ SaveDevnet(t)
           \/ EndCreate(t)
  BY <1>5, SameDirs
  DEF RentNodes, RentNodesFails, RentMonitor, RentMonitorFails, UseExistingMonitor,
      NoMonitor, QueryAddresses, TakeRegion, WriteInventory, SetupHosts,
      ConfigureDevnet, SaveDevnet, EndCreate
<1>6. CASE RecordNode(t) \/ RecordMonitor(t) \/ RecordFails(t)
  <2>1. \/ UNCHANGED nodeDir
        \/ At(t, "node") /\ nodeDir' = [nodeDir EXCEPT ![Head(cmd[t].todo)] = NodeConfigOf(t)]
        \/ At(t, "monitorconfig")
           /\ nodeDir' = [nodeDir EXCEPT ![cmd[t].monitor] = MonitorConfigOf(t)]
    BY <1>6 DEF RecordNode, RecordMonitor, RecordFails
  <2>2. QED
    BY <1>2, <1>3, <1>4, <2>1, SameDirs, FilledDir
<1>7. QED
  BY <1>5, <1>6 DEF Create

LEMMA NextDirs ==
    ASSUME Good, [Next]_vars
    PROVE  DirStep
<1>1. CASE UNCHANGED vars
  BY <1>1, SameDirs DEF vars
<1>2. ASSUME NEW t \in Terminals, NEW c \in Clusters,
             BeginCreate(t, c) \/ BeginStop(t, c) \/ BeginRefresh(t, c)
      PROVE  DirStep
  BY <1>2, SameDirs DEF BeginCreate, BeginStop, BeginRefresh
<1>3. ASSUME NEW t \in Terminals, RefreshFails(t) \/ Crash(t)
      PROVE  DirStep
  BY <1>3, SameDirs DEF RefreshFails, Crash
<1>4. ASSUME NEW t \in Terminals, WriteRefreshed(t)
      PROVE  DirStep
  <2> DEFINE config(i) == [there |-> TRUE, service |-> service[i],
                           static |-> FALSE, ip |-> TRUE]
  <2>1. PICK i \in cmd[t].listed : nodeDir' = [nodeDir EXCEPT ![i] = config(i)]
    BY <1>4 DEF WriteRefreshed
  <2>2. i \in Instances /\ config(i).there
    BY CommandTyped DEF Commands
  <2> HIDE DEF config
  <2>3. QED
    BY <2>1, <2>2, FilledDir
<1>5. ASSUME NEW i \in Instances, InstanceStops(i)
      PROVE  DirStep
  BY <1>5, SameDirs DEF InstanceStops
<1>6. QED
  BY <1>1, <1>2, <1>3, <1>4, <1>5, CreateDirs, StopDirs DEF Next

(* The directory of a node, with the only copy of its staking key and what *)
(* `node stop` needs to know, is removed only when its instance does not   *)
(* run any more, and on GCP only when its static address is released.      *)
THEOREM DirsOutliveInstances == Spec => DirGoneOnlyWhenReleased
<1>1. Good /\ [Next]_vars => DirStep
  BY NextDirs
<1>2. Init => Good
  BY InitGood
<1>3. Good /\ [Next]_vars => Good'
  BY NextGood
<1>4. DirStep => \A i \in Instances : HasDir(i) /\ ~HasDir(i)' =>
            /\ power'[i] # "running"
            /\ nodeDir[i].service = "gcp" /\ nodeDir[i].static => i \notin address'
  BY DEF DirStep
<1>5. QED
  BY <1>1, <1>2, <1>3, <1>4, PTL DEF Spec, DirGoneOnlyWhenReleased

-----------------------------------------------------------------------------
(* What a command that runs alone may rely on.                             *)

(* Nobody else runs beside a command that is alone.                        *)
Solo ==
    \A t \in Terminals : cmd[t].alone =>
        Running(t) /\ \A u \in Terminals \ {t} : ~Running(u)

(* A `node stop` that has met no error has stopped what it does not still  *)
(* have to stop, and alone it stops what the clusters config lists.        *)
StopsAll(t) ==
    At(t, "stop") =>
        /\ ~cmd[t].failed =>
            \A i \in cmd[t].listed : i \in RangeOf(cmd[t].todo) \/ power[i] # "running"
        /\ cmd[t].alone => cmd[t].listed = Listed(entry[C(t)])

(* What a `node create` has rented it has recorded or still has to record, *)
SettingUp == {"hosts", "devnet", "devnetconfig", "created"}
Recording == {"region", "node", "monitorconfig"}
Creating == {"monitor", "query", "inventory"} \cup Recording \cup SettingUp

Recorded(t, i) ==
    /\ HasDir(i) /\ nodeDir[i].static = cmd[t].static
    /\ i \in RangeOf(entry[C(t)].nodes)

NodesKept(t) ==
    cmd[t].pc \in Creating =>
        \A i \in cmd[t].listed : i \in ToRecord(cmd[t]) \/ Recorded(t, i)

(* nothing is left to record when the hosts are set up,                    *)
HostsKept(t) ==
    /\ cmd[t].pc \in SettingUp \cup {"inventory"} => cmd[t].made = {}
    /\ cmd[t].pc \in SettingUp => cmd[t].listed \subseteq inventory[C(t)].hosts

(* and the monitoring instance is recorded after the last of the nodes.    *)
RegionsDone(r) == r.pc = "region" /\ r.made = {}

MonitorKept(t) ==
    /\ cmd[t].pc = "rent" => cmd[t].plan # <<>>
    /\ cmd[t].pc \in {"monitor", "query"} => cmd[t].made # {}
    /\ cmd[t].pc \in {"devnet", "devnetconfig"} => cmd[t].devnet
    /\ cmd[t].separate /\ (RegionsDone(cmd[t]) \/ cmd[t].pc \in SettingUp \cup {"inventory"}) =>
        /\ HasDir(cmd[t].monitor)
        /\ \/ cmd[t].pc = "created" /\ cmd[t].devnet
           \/ entry[C(t)].monitor = cmd[t].monitor

Keeps(t) == NodesKept(t) /\ HostsKept(t) /\ MonitorKept(t)

WholeOf(t) == StopsAll(t) /\ (cmd[t].alone => Keeps(t))
Whole == Solo /\ \A t \in Terminals : WholeOf(t)

-----------------------------------------------------------------------------
(* What the others do.                                                     *)

(* An instance that went down stays down.                                  *)
StaysDown ==
    \A i \in Instances : power[i] \notin {"none", "running"} => power'[i] # "running"

(* A command of which only alone changes, in a step that changes no file   *)
(* if it is still alone.                                                   *)
LEMMA PassiveWhole ==
    ASSUME Good, NEW t \in Terminals, WholeOf(t), StaysDown,
           cmd'[t] \in {cmd[t], [cmd[t] EXCEPT !.alone = FALSE]},
           cmd'[t].alone => UNCHANGED <<nodeDir, entry, inventory>>
    PROVE  WholeOf(t)'
<1>1. cmd[t] \in Commands
  BY CommandTyped
<1>2. /\ cmd'[t].pc = cmd[t].pc /\ cmd'[t].failed = cmd[t].failed
      /\ cmd'[t].listed = cmd[t].listed /\ cmd'[t].todo = cmd[t].todo
      /\ cmd'[t].cluster = cmd[t].cluster /\ cmd'[t].alone \in {cmd[t].alone, FALSE}
  BY <1>1 DEF Commands
<1>3. ASSUME NEW i \in cmd[t].listed
      PROVE  i \in Instances /\ power[i] # "none"
  BY <1>1 DEF Good, Recordable, Rented, IsHeld, Commands
<1>4. StopsAll(t)'
  <2>1. ASSUME At(t, "stop"), ~cmd[t].failed, NEW i \in cmd[t].listed
        PROVE  i \in RangeOf(cmd[t].todo) \/ power'[i] # "running"
    BY <1>3, <2>1 DEF WholeOf, StopsAll, StaysDown
  <2>2. ASSUME At(t, "stop"), cmd'[t].alone
        PROVE  cmd[t].listed = Listed(entry'[cmd[t].cluster])
    BY <1>2, <2>2 DEF WholeOf, StopsAll, C
  <2>3. QED
    BY <1>2, <2>1, <2>2 DEF StopsAll, At, C
<1>5. ASSUME cmd'[t].alone
      PROVE  Keeps(t)'
  <2>1. cmd'[t] = cmd[t] /\ UNCHANGED <<nodeDir, entry, inventory>> /\ Keeps(t)
    BY <1>1, <1>5 DEF WholeOf, Commands
  <2>2. QED
    BY <2>1 DEF Keeps, NodesKept, HostsKept, MonitorKept, Recorded, HasDir, C
<1>6. QED
  BY <1>4, <1>5 DEF WholeOf

(* A step of one command: the others wait, and it gets no company.         *)
Alone(t) ==
    /\ Running(t)
    /\ \A u \in Terminals \ {t} : cmd'[u] = cmd[u]
    /\ cmd'[t].alone => cmd[t].alone /\ cmd'[t].pc # "idle"

LEMMA OneWhole ==
    ASSUME Good, Whole, NEW t \in Terminals, Alone(t), StaysDown, WholeOf(t)'
    PROVE  Whole'
<1>1. Solo'
  BY DEF Whole, Solo, Alone, Running
<1>2. ASSUME NEW u \in Terminals, u # t
      PROVE  WholeOf(u)'
  <2>1. cmd'[u] = cmd[u] /\ ~cmd[u].alone
    BY <1>2 DEF Alone, Whole, Solo
  <2>2. QED
    BY <2>1, PassiveWhole DEF Whole
<1>3. QED
  BY <1>1, <1>2 DEF Whole

(* A new command: those that run are not alone any more.                   *)
LEMMA BeginWhole ==
    ASSUME Good, Whole, NEW t \in Terminals, NEW c \in Clusters, NEW r \in Commands,
           r.pc # "idle", ~Running(t), Begin(t, c, r),
           UNCHANGED <<provider, nodeDir, entry, inventory>>,
           r.pc = "stop" => /\ r.listed = Listed(entry[c])
                            /\ \A i \in r.listed : i \in RangeOf(r.todo),
           r.pc = "rent" => r.plan # <<>>, r.pc \in {"rent", "stop", "refresh"}
    PROVE  Whole'
<1> DEFINE others == {u \in Terminals \ {t} : Running(u)}
           new == [r EXCEPT !.cluster = c, !.alone = others = {}]
<1>1. cmd \in [Terminals -> Commands]
  BY DEF Good, TypeOK
<1>2. cmd'[t] = new
  BY DEF Begin
<1>3. /\ new.pc = r.pc /\ new.listed = r.listed /\ new.todo = r.todo /\ new.cluster = c
      /\ new.plan = r.plan /\ new.alone = (others = {})
  BY DEF Commands
<1>4. ASSUME NEW u \in Terminals, u # t
      PROVE  cmd'[u] = IF Running(u) THEN [cmd[u] EXCEPT !.alone = FALSE] ELSE cmd[u]
  BY <1>4 DEF Begin
<1>5. ASSUME NEW u \in Terminals, u # t
      PROVE  cmd'[u].pc = cmd[u].pc /\ ~cmd'[u].alone
  <2>1. cmd[u] \in Commands /\ (cmd[u].alone => Running(u))
    BY <1>1 DEF Whole, Solo
  <2>2. CASE Running(u)
    BY <1>4, <1>5, <2>1, <2>2 DEF Commands
  <2>3. CASE ~Running(u)
    BY <1>4, <1>5, <2>1, <2>3
  <2>4. QED
    BY <2>2, <2>3
<1>6. Solo'
  <2>1. others # {} \/ \A u \in Terminals \ {t} : ~Running(u)
    OBVIOUS
  <2> HIDE DEF new, others
  <2>2. QED
    BY <1>2, <1>3, <1>5, <2>1 DEF Solo, Running
<1>7. ASSUME NEW u \in Terminals, u # t
      PROVE  WholeOf(u)'
  <2>1. cmd'[u] \in {cmd[u], [cmd[u] EXCEPT !.alone = FALSE]} /\ ~cmd'[u].alone
    BY <1>4, <1>5, <1>7
  <2>2. StaysDown
    BY DEF StaysDown, provider
  <2>3. QED
    BY <2>1, <2>2, PassiveWhole DEF Whole
<1> HIDE DEF new, others
<1>8. StopsAll(t)'
  BY <1>2, <1>3 DEF StopsAll, At, C
<1>9. Keeps(t)'
  BY <1>2, <1>3
  DEF Keeps, NodesKept, HostsKept, MonitorKept, RegionsDone, Creating, Recording, SettingUp
<1>10. QED
  BY <1>6, <1>7, <1>8, <1>9 DEF Whole, WholeOf

-----------------------------------------------------------------------------
(* The steps of a command.                                                 *)

LEMMA FinishWhole ==
    ASSUME Good, Whole, NEW t \in Terminals, Running(t), Finish(t), StaysDown
    PROVE  Whole'
<1>1. cmd'[t] = Idle /\ \A u \in Terminals \ {t} : cmd'[u] = cmd[u]
  BY CommandTyped DEF Finish
<1>2. ~Idle.alone /\ Idle.pc = "idle"
  BY DEF Idle
<1>3. Alone(t) /\ WholeOf(t)'
  BY <1>1, <1>2 DEF Alone, WholeOf, StopsAll, At
<1>4. QED
  BY <1>3, OneWhole

(* The command of a terminal becomes new, and keeps what it may rely on.   *)
LEMMA SetWhole ==
    ASSUME Good, Whole, NEW t \in Terminals, Running(t), NEW new \in Commands,
           cmd' = [cmd EXCEPT ![t] = new], new.pc # "idle", new.alone = cmd[t].alone,
           StaysDown, StopsAll(t)', cmd[t].alone => Keeps(t)'
    PROVE  Whole'
<1>1. cmd'[t] = new /\ \A u \in Terminals \ {t} : cmd'[u] = cmd[u]
  BY CommandTyped
<1>2. Alone(t)
  BY <1>1 DEF Alone
<1>3. WholeOf(t)'
  BY <1>1 DEF WholeOf
<1>4. QED
  BY <1>2, <1>3, OneWhole

(* What a `node create` was asked for, and what it rented.                 *)
SameTask(r, s) ==
    /\ r.cluster = s.cluster /\ r.static = s.static /\ r.devnet = s.devnet
    /\ r.separate = s.separate /\ r.listed = s.listed /\ r.alone = s.alone

LEMMA StepWhole ==
    ASSUME Good, Whole, NEW t \in Terminals, Running(t), NEW new \in Commands,
           cmd' = [cmd EXCEPT ![t] = new], new.pc \notin {"idle", "stop"},
           new.alone = cmd[t].alone, UNCHANGED power,
           cmd[t].alone => Keeps(t)'
    PROVE  Whole'
<1>1. cmd'[t] = new
  BY CommandTyped
<1>2. StopsAll(t)'
  BY <1>1 DEF StopsAll, At
<1>3. StaysDown
  BY DEF StaysDown
<1>4. QED
  BY <1>2, <1>3, SetWhole

(* Only pc changes. *)
LEMMA GotoTask ==
    ASSUME Good, NEW t \in Terminals, NEW p \in Pcs, cmd' = [cmd EXCEPT ![t].pc = p]
    PROVE  /\ [cmd[t] EXCEPT !.pc = p] \in Commands
           /\ cmd' = [cmd EXCEPT ![t] = [cmd[t] EXCEPT !.pc = p]]
           /\ SameTask(cmd'[t], cmd[t]) /\ cmd'[t].pc = p
           /\ [cmd[t] EXCEPT !.pc = p].pc = p
           /\ [cmd[t] EXCEPT !.pc = p].alone = cmd[t].alone
           /\ cmd'[t].made = cmd[t].made /\ cmd'[t].todo = cmd[t].todo
           /\ cmd'[t].monitor = cmd[t].monitor
<1>1. cmd[t] \in Commands /\ cmd \in [Terminals -> Commands]
  BY CommandTyped
<1>2. cmd'[t] = [cmd[t] EXCEPT !.pc = p]
  BY <1>1
<1>3. [cmd[t] EXCEPT !.pc = p] \in Commands
  BY <1>1 DEF Commands
<1>4. QED
  BY <1>1, <1>2, <1>3 DEF SameTask, Commands

LEMMA BatchNotEmpty ==
    ASSUME NEW plan \in Seq(Nat \ {0}), plan # <<>>, NEW made \in Batches(plan)
    PROVE  made # {}
<1>1. PICK r \in [DOMAIN plan -> UNION {[1..n -> Fresh] : n \in RangeOf(plan)}] :
        made = {r[k] : k \in DOMAIN plan}
  BY DEF Batches
<1>2. 1 \in DOMAIN plan
  OBVIOUS
<1>3. QED
  BY <1>1, <1>2

LEMMA SwitchDown ==
    ASSUME NEW t, NEW on, on \subseteq Fresh, Switch(t, on)
    PROVE  StaysDown
BY DEF StaysDown, Switch, Fresh

LEMMA RentNodesWhole ==
    ASSUME Good, Whole, NEW t \in Terminals, RentNodes(t)
    PROVE  Whole'
<1>1. PICK made \in Batches(cmd[t].plan) :
        /\ Rent(t, Ids(made))
        /\ cmd' = [cmd EXCEPT ![t].made = made, ![t].listed = Ids(made),
                              ![t].plan = <<>>, ![t].pc = "monitor"]
  BY DEF RentNodes
<1> DEFINE new == [cmd[t] EXCEPT !.made = made, !.listed = Ids(made),
                                 !.plan = <<>>, !.pc = "monitor"]
<1>2. cmd[t] \in Commands /\ cmd[t].pc = "rent" /\ cmd[t].plan \in Seq(Nat \ {0})
  BY CommandTyped DEF RentNodes, At, Commands
<1>3. made \in SUBSET Seq(Instances) /\ Ids(made) \subseteq Fresh
  BY <1>2, BatchTyped
<1>4. /\ new \in Commands /\ new.pc = "monitor" /\ new.alone = cmd[t].alone
      /\ new.made = made /\ new.listed = Ids(made)
  <2>1. Ids(made) \in SUBSET Instances /\ <<>> \in Seq(Nat \ {0}) /\ "monitor" \in Pcs
    BY <1>3 DEF Fresh, Pcs
  <2>2. QED
    BY <1>2, <1>3, <2>1 DEF Commands
<1>5. cmd' = [cmd EXCEPT ![t] = new]
  BY <1>1
<1> HIDE DEF new
<1>6. cmd'[t] = new
  BY <1>5, CommandTyped
<1>7. StaysDown
  BY <1>1, <1>3, SwitchDown DEF Rent
<1>8. ASSUME cmd[t].alone
      PROVE  Keeps(t)'
  <2>1. made # {}
    BY <1>2, <1>8, BatchNotEmpty DEF Whole, WholeOf, Keeps, MonitorKept
  <2>2. Ids(made) = ToRecord(new)
    BY <1>4 DEF ToRecord
  <2>3. QED
    BY <1>4, <1>6, <2>1, <2>2
    DEF Keeps, NodesKept, HostsKept, MonitorKept, RegionsDone, SettingUp
<1>9. StopsAll(t)'
  BY <1>4, <1>6 DEF StopsAll, At
<1>10. QED
  BY <1>2, <1>4, <1>5, <1>7, <1>8, <1>9, SetWhole DEF Running

LEMMA RentFailsWhole ==
    ASSUME Good, Whole, NEW t \in Terminals, RentNodesFails(t) \/ RentMonitorFails(t)
    PROVE  Whole'
<1>1. Running(t) /\ Finish(t)
  BY DEF RentNodesFails, RentMonitorFails, Running, At
<1>2. \E on : on \subseteq Fresh /\ Switch(t, on)
  <2>1. CASE RentNodesFails(t)
    <3>1. PICK made \in Batches(cmd[t].plan) : PartlyRented(t, Ids(made))
      BY <2>1 DEF RentNodesFails
    <3>2. Ids(made) \subseteq Fresh
      BY CommandTyped, BatchTyped DEF Commands
    <3>3. QED
      BY <3>1, <3>2 DEF PartlyRented
  <2>2. CASE RentMonitorFails(t)
    <3>1. PICK m \in Fresh : PartlyRented(t, {m})
      BY <2>2 DEF RentMonitorFails
    <3>2. PICK on \in SUBSET {m} : Switch(t, on)
      BY <3>1 DEF PartlyRented
    <3>3. QED
      BY <3>2
  <2>3. QED
    BY <2>1, <2>2
<1>3. StaysDown
  BY <1>2, SwitchDown
<1>4. QED
  BY <1>1, <1>3, FinishWhole

(* The monitoring instance is chosen, the nodes are still to be recorded.  *)
LEMMA ChosenWhole ==
    ASSUME Good, Whole, NEW t \in Terminals, At(t, "monitor"),
           NEW m \in Instances \cup {None},
           cmd' = [cmd EXCEPT ![t].monitor = m, ![t].pc = "query"],
           StaysDown, UNCHANGED <<nodeDir, entry, inventory>>
    PROVE  Whole'
<1> DEFINE new == [cmd[t] EXCEPT !.monitor = m, !.pc = "query"]
<1>1. cmd[t] \in Commands /\ cmd[t].pc = "monitor"
  BY CommandTyped DEF At
<1>2. /\ new \in Commands /\ new.pc = "query" /\ SameTask(new, cmd[t])
      /\ new.made = cmd[t].made
  BY <1>1 DEF Commands, Pcs, SameTask
<1>3. cmd' = [cmd EXCEPT ![t] = new]
  OBVIOUS
<1> HIDE DEF new
<1>4. cmd'[t] = new
  BY <1>3, CommandTyped
<1>5. ASSUME cmd[t].alone
      PROVE  Keeps(t)'
  <2>1. NodesKept(t) /\ MonitorKept(t)
    BY <1>5 DEF Whole, WholeOf, Keeps
  <2>2. ToRecord(new) = ToRecord(cmd[t])
    BY <1>1, <1>2 DEF ToRecord
  <2>3. NodesKept(t)'
    BY <1>1, <1>2, <1>4, <2>1, <2>2 DEF NodesKept, Creating, Recorded, HasDir, SameTask, C
  <2>4. QED
    BY <1>1, <1>2, <1>4, <2>1, <2>3
    DEF Keeps, HostsKept, MonitorKept, RegionsDone, SettingUp
<1>6. StopsAll(t)'
  BY <1>2, <1>4 DEF StopsAll, At
<1>7. QED
  BY <1>1, <1>2, <1>3, <1>5, <1>6, SetWhole DEF Running, SameTask

LEMMA MonitorWhole ==
    ASSUME Good, Whole, NEW t \in Terminals,
           RentMonitor(t) \/ UseExistingMonitor(t) \/ NoMonitor(t)
    PROVE  Whole'
<1>1. /\ cmd[t] \in Commands /\ At(t, "monitor") /\ cmd \in [Terminals -> Commands]
      /\ UNCHANGED <<nodeDir, entry, inventory>>
  BY CommandTyped DEF RentMonitor, UseExistingMonitor, NoMonitor
<1>2. CASE RentMonitor(t)
  <2>1. PICK m \in Fresh :
            /\ Rent(t, {m})
            /\ cmd' = [cmd EXCEPT ![t].monitor = m, ![t].pc = "query"]
    BY <1>2 DEF RentMonitor
  <2>2. StaysDown /\ m \in Instances
    BY <2>1, SwitchDown DEF Rent, Fresh
  <2>3. QED
    BY <1>1, <2>1, <2>2, ChosenWhole
<1>3. CASE UseExistingMonitor(t) \/ NoMonitor(t)
  <2>1. StaysDown
    BY <1>3 DEF UseExistingMonitor, NoMonitor, StaysDown, provider
  <2>2. CASE Finish(t)
    BY <1>1, <2>1, <2>2, FinishWhole DEF Running, At
  <2>3. CASE cmd' = [cmd EXCEPT ![t].monitor = cmd[t].existing, ![t].pc = "query"]
    <3>1. cmd[t].existing \in Instances \cup {None}
      BY <1>1 DEF Commands
    <3>2. QED
      BY <1>1, <2>1, <2>3, <3>1, ChosenWhole
  <2>4. CASE cmd' = [cmd EXCEPT ![t].pc = "query"]
    <3>1. cmd[t].monitor \in Instances \cup {None}
      BY <1>1 DEF Commands
    <3>2. [cmd[t] EXCEPT !.pc = "query"]
            = [cmd[t] EXCEPT !.monitor = cmd[t].monitor, !.pc = "query"]
      BY <1>1 DEF Commands
    <3>3. cmd' = [cmd EXCEPT ![t].monitor = cmd[t].monitor, ![t].pc = "query"]
      BY <1>1, <2>4, <3>2
    <3>4. QED
      BY <1>1, <2>1, <3>1, <3>3, ChosenWhole
  <2>5. QED
    BY <1>3, <2>2, <2>3, <2>4 DEF UseExistingMonitor, NoMonitor
<1>4. QED
  BY <1>2, <1>3

LEMMA QueryWhole ==
    ASSUME Good, Whole, NEW t \in Terminals, QueryAddresses(t)
    PROVE  Whole'
<1>1. Running(t) /\ cmd[t].pc = "query" /\ UNCHANGED <<provider, nodeDir, entry, inventory>>
  BY DEF QueryAddresses, At, Running
<1>2. UNCHANGED power
  BY <1>1 DEF provider
<1>3. CASE Finish(t)
  BY <1>1, <1>2, <1>3, FinishWhole DEF StaysDown
<1>4. CASE cmd' = [cmd EXCEPT ![t].pc = "region"]
  <2>1. "region" \in Pcs
    BY DEF Pcs
  <2>2. ASSUME cmd[t].alone
        PROVE  Keeps(t)'
    <3>1. NodesKept(t) /\ MonitorKept(t)
      BY <2>2 DEF Whole, WholeOf, Keeps
    <3>2. ToRecord(cmd'[t]) = ToRecord(cmd[t])
      BY <1>1, <1>4, <2>1, GotoTask DEF ToRecord
    <3>3. NodesKept(t)'
      BY <1>1, <1>4, <2>1, <3>1, <3>2, GotoTask
      DEF NodesKept, Creating, Recorded, HasDir, SameTask, C
    <3>4. QED
      BY <1>1, <1>4, <2>1, <3>1, <3>3, GotoTask
      DEF Keeps, HostsKept, MonitorKept, RegionsDone, SettingUp
  <2>3. QED
    BY <1>1, <1>2, <1>4, <2>1, <2>2, GotoTask, StepWhole
<1>5. QED
  BY <1>3, <1>4 DEF QueryAddresses

LEMMA TakeRegionWhole ==
    ASSUME Good, Whole, NEW t \in Terminals, TakeRegion(t)
    PROVE  Whole'
<1>1. /\ Running(t) /\ cmd[t] \in Commands /\ WellFormed(cmd[t]) /\ cmd[t].pc = "region"
      /\ UNCHANGED <<nodeDir, entry, inventory>> /\ UNCHANGED power
  BY CommandTyped DEF TakeRegion, At, Running, provider
<1>2. cmd[t].alone => NodesKept(t) /\ MonitorKept(t)
  BY DEF Whole, WholeOf, Keeps
<1>3. ASSUME NEW r \in cmd[t].made,
             cmd' = [cmd EXCEPT ![t].todo = r, ![t].made = @ \ {r}, ![t].pc = "node"]
      PROVE  Whole'
  <2> DEFINE new == [cmd[t] EXCEPT !.todo = r, !.made = @ \ {r}, !.pc = "node"]
  <2>1. r \in Seq(Instances) /\ cmd[t].made \in SUBSET Seq(Instances)
    BY <1>1 DEF Commands
  <2>2. /\ new \in Commands /\ SameTask(new, cmd[t])
        /\ new.pc = "node" /\ new.made = cmd[t].made \ {r} /\ new.todo = r
    BY <1>1, <2>1 DEF Commands, Pcs, SameTask
  <2>3. cmd' = [cmd EXCEPT ![t] = new]
    BY <1>3
  <2> HIDE DEF new
  <2>4. cmd'[t] = new
    BY <2>3, CommandTyped
  <2>5. ToRecord(new) = ToRecord(cmd[t])
    BY <1>1, <2>2 DEF ToRecord, Ids
  <2>6. ASSUME cmd[t].alone
        PROVE  Keeps(t)'
    <3>1. NodesKept(t)'
      BY <1>1, <1>2, <2>2, <2>4, <2>5, <2>6
      DEF NodesKept, Creating, Recording, Recorded, HasDir, SameTask, C
    <3>2. QED
      BY <2>2, <2>4, <3>1 DEF Keeps, HostsKept, MonitorKept, RegionsDone, SettingUp
  <2>7. QED
    BY <1>1, <2>2, <2>3, <2>6, StepWhole DEF SameTask
<1>4. CASE cmd[t].made = {} /\ cmd' = [cmd EXCEPT ![t].pc = "inventory"]
  <2>1. "inventory" \in Pcs
    BY DEF Pcs
  <2>2. ASSUME cmd[t].alone
        PROVE  Keeps(t)'
    <3>1. ToRecord(cmd'[t]) = ToRecord(cmd[t])
      BY <1>1, <1>4, <2>1, GotoTask DEF ToRecord
    <3>2. NodesKept(t)'
      BY <1>1, <1>2, <1>4, <2>1, <2>2, <3>1, GotoTask
      DEF NodesKept, Creating, Recording, Recorded, HasDir, SameTask, C
    <3>3. HostsKept(t)'
      BY <1>4, <2>1, GotoTask DEF HostsKept, SettingUp
    <3>4. MonitorKept(t)'
      BY <1>1, <1>2, <1>4, <2>1, <2>2, GotoTask
      DEF MonitorKept, RegionsDone, HasDir, SameTask, C
    <3>5. QED
      BY <3>2, <3>3, <3>4 DEF Keeps
  <2>3. QED
    BY <1>1, <1>4, <2>1, <2>2, GotoTask, StepWhole
<1>5. QED
  BY <1>3, <1>4 DEF TakeRegion

LEMMA TailOfOne ==
    ASSUME NEW S, NEW s \in Seq(S), s # <<>>
    PROVE  /\ RangeOf(s) = {Head(s)} \cup RangeOf(Tail(s))
           /\ ~(Len(s) > 1) => RangeOf(Tail(s)) = {}
<1>1. /\ Tail(s) \in Seq(S) /\ Len(s) \in Nat \ {0} /\ Len(Tail(s)) = Len(s) - 1
      /\ Head(s) = s[1] /\ \A k \in 1..Len(Tail(s)) : Tail(s)[k] = s[k + 1]
  OBVIOUS
<1>2. ASSUME NEW k \in 1..Len(s), k # 1
      PROVE  k - 1 \in 1..Len(Tail(s)) /\ s[k] = Tail(s)[k - 1]
  BY <1>1, <1>2
<1>3. RangeOf(s) \subseteq {Head(s)} \cup RangeOf(Tail(s))
  BY <1>1, <1>2 DEF RangeOf
<1>4. {Head(s)} \cup RangeOf(Tail(s)) \subseteq RangeOf(s)
  BY HeadInRange, TailInRange
<1>5. ~(Len(s) > 1) => Len(Tail(s)) = 0
  BY <1>1
<1>6. ~(Len(s) > 1) => RangeOf(Tail(s)) = {}
  BY <1>5 DEF RangeOf
<1>7. QED
  BY <1>3, <1>4, <1>6

LEMMA RecordNodeWhole ==
    ASSUME Good, Whole, NEW t \in Terminals, RecordNode(t)
    PROVE  Whole'
<1> DEFINE i == Head(cmd[t].todo)
           p == IF Len(cmd[t].todo) > 1 THEN "node"
                ELSE IF cmd[t].separate THEN "monitorconfig" ELSE "region"
           new == [cmd[t] EXCEPT !.todo = Tail(@), !.pc = p]
<1>1. /\ cmd[t] \in Commands /\ WellFormed(cmd[t]) /\ cmd[t].pc = "node" /\ Running(t)
      /\ C(t) \in Clusters
  BY CommandTyped DEF RecordNode, At, Running, WellFormed, C
<1>2. cmd[t].todo \in Seq(Instances) /\ cmd[t].todo # <<>>
  BY <1>1 DEF Commands, WellFormed
<1>3. /\ i \in Instances /\ Tail(cmd[t].todo) \in Seq(Instances)
      /\ RangeOf(cmd[t].todo) = {i} \cup RangeOf(Tail(cmd[t].todo))
      /\ p # "node" => RangeOf(Tail(cmd[t].todo)) = {}
  BY <1>2, HeadInRange, TailInRange, TailOfOne
<1>4. /\ nodeDir' = [nodeDir EXCEPT ![i] = NodeConfigOf(t)]
      /\ entry' = [entry EXCEPT ![C(t)] = AddNode(entry[C(t)], i)]
      /\ cmd' = [cmd EXCEPT ![t] = new]
      /\ UNCHANGED inventory /\ UNCHANGED power
  BY DEF RecordNode, provider
<1>5. p \in {"node", "monitorconfig", "region"} /\ (p = "region" => ~cmd[t].separate)
  OBVIOUS
<1>6. /\ new \in Commands /\ SameTask(new, cmd[t]) /\ new.pc = p
      /\ new.made = cmd[t].made /\ new.todo = Tail(cmd[t].todo)
  <2> HIDE DEF p
  <2>1. QED
    BY <1>1, <1>3, <1>5 DEF Commands, Pcs, SameTask
<1> HIDE DEF new, p, i
<1>7. cmd'[t] = new
  BY <1>4, CommandTyped
<1>8. nodeDir'[i].there /\ nodeDir'[i].static = cmd[t].static
  BY <1>3, <1>4 DEF Good, TypeOK, NodeConfigOf
<1>9. RangeOf(entry'[C(t)].nodes) = RangeOf(entry[C(t)].nodes) \cup {i}
  <2>1. entry[C(t)].nodes \in Seq(Instances)
    BY <1>1 DEF Good, TypeOK
  <2>2. entry'[C(t)].nodes = Append(entry[C(t)].nodes, i)
    BY <1>1, <1>4 DEF Good, TypeOK, AddNode, Entry
  <2>3. QED
    BY <1>3, <2>1, <2>2, AppendInRange
<1>10. ASSUME NEW j \in cmd[t].listed, Recorded(t, j) \/ j = i
       PROVE  Recorded(t, j)'
  <2>1. j \in Instances /\ (j # i => nodeDir'[j] = nodeDir[j])
    BY <1>1, <1>4 DEF Commands, Good, TypeOK
  <2>2. QED
    BY <1>6, <1>7, <1>8, <1>9, <1>10, <2>1 DEF Recorded, HasDir, SameTask, C
<1>11. ASSUME cmd[t].alone
       PROVE  Keeps(t)'
  <2>1. NodesKept(t)
    BY <1>11 DEF Whole, WholeOf, Keeps
  <2>2. ASSUME NEW j \in cmd[t].listed, j \in ToRecord(cmd[t]), j # i
        PROVE  j \in ToRecord(new)
    BY <1>1, <1>3, <1>6, <2>2 DEF ToRecord
  <2>3. NodesKept(t)'
    BY <1>1, <1>6, <1>7, <1>10, <2>1, <2>2 DEF NodesKept, Creating, Recording, SameTask
  <2>4. QED
    BY <1>5, <1>6, <1>7, <2>3
    DEF Keeps, HostsKept, MonitorKept, RegionsDone, SettingUp, SameTask
<1>12. QED
  BY <1>1, <1>4, <1>5, <1>6, <1>11, StepWhole DEF SameTask

LEMMA RecordMonitorWhole ==
    ASSUME Good, Whole, NEW t \in Terminals, RecordMonitor(t)
    PROVE  Whole'
<1> DEFINE m == cmd[t].monitor
<1>1. /\ cmd[t] \in Commands /\ WellFormed(cmd[t]) /\ cmd[t].pc = "monitorconfig"
      /\ Running(t) /\ C(t) \in Clusters
  BY CommandTyped DEF RecordMonitor, At, Running, WellFormed, C
<1>2. m \in Instances /\ \A c \in Clusters : m \notin RangeOf(entry[c].nodes)
  <2>1. m \in Instances
    BY <1>1 DEF Commands, WellFormed
  <2>2. QED
    BY <2>1 DEF IsMonitor, IsNode, Good, Recordable, RolesApart
<1>3. /\ nodeDir' = [nodeDir EXCEPT ![m] = MonitorConfigOf(t)]
      /\ entry' = [entry EXCEPT ![C(t)] = AddMonitor(entry[C(t)], m)]
      /\ cmd' = [cmd EXCEPT ![t].pc = "region"]
      /\ UNCHANGED power
  BY DEF RecordMonitor, provider
<1>4. "region" \in Pcs
  BY DEF Pcs
<1>5. /\ SameTask(cmd'[t], cmd[t]) /\ cmd'[t].pc = "region"
      /\ cmd'[t].made = cmd[t].made /\ cmd'[t].monitor = m
  BY <1>3, <1>4, GotoTask
<1>6. ASSUME cmd[t].alone
      PROVE  Keeps(t)'
  <2>1. NodesKept(t)
    BY <1>6 DEF Whole, WholeOf, Keeps
  <2> HIDE DEF m
  <2>2. nodeDir'[m].there
    BY <1>2, <1>3 DEF Good, TypeOK, MonitorConfigOf
  <2>3. entry'[C(t)].nodes = entry[C(t)].nodes /\ entry'[C(t)].monitor = m
    BY <1>1, <1>3 DEF Good, TypeOK, AddMonitor, Entry
  <2>4. ASSUME NEW j \in cmd[t].listed, Recorded(t, j)
        PROVE  Recorded(t, j)'
    <3>1. j # m
      BY <1>1, <1>2, <2>4 DEF Recorded
    <3>2. nodeDir'[j] = nodeDir[j]
      BY <1>1, <1>3, <3>1 DEF Commands, Good, TypeOK
    <3>3. QED
      BY <1>5, <2>3, <2>4, <3>2 DEF Recorded, HasDir, SameTask, C
  <2>5. ToRecord(cmd'[t]) = ToRecord(cmd[t])
    BY <1>1, <1>5 DEF ToRecord
  <2>6. NodesKept(t)'
    BY <1>1, <1>5, <2>1, <2>4, <2>5 DEF NodesKept, Creating, Recording, SameTask
  <2>7. MonitorKept(t)'
    BY <1>5, <2>2, <2>3 DEF MonitorKept, HasDir, SameTask, C
  <2>8. QED
    BY <1>5, <2>6, <2>7 DEF Keeps, HostsKept, SettingUp
<1>7. QED
  BY <1>1, <1>3, <1>4, <1>6, GotoTask, StepWhole

LEMMA RecordFailsWhole ==
    ASSUME Good, Whole, NEW t \in Terminals, RecordFails(t)
    PROVE  Whole'
<1>1. Running(t) /\ Finish(t) /\ StaysDown
  BY DEF RecordFails, Running, At, StaysDown, provider
<1>2. QED
  BY <1>1, FinishWhole

(* The hosts are set up once everything is recorded.                       *)
LEMMA SetupKept ==
    ASSUME Good, NEW t \in Terminals, cmd[t].pc \in SettingUp \cup {"inventory"}, Keeps(t),
           NEW p \in SettingUp, cmd' = [cmd EXCEPT ![t].pc = p], UNCHANGED nodeDir,
           \A c \in Clusters : entry'[c].nodes = entry[c].nodes,
           cmd[t].listed \subseteq inventory'[C(t)].hosts,
           p \in {"devnet", "devnetconfig"} => cmd[t].devnet,
           (p = "created" /\ cmd[t].devnet) \/ (cmd[t].pc # "created" /\ UNCHANGED entry)
    PROVE  Keeps(t)'
<1>1. p \in Pcs /\ p \notin {"rent", "monitor", "query", "region", "node"}
  BY DEF Pcs, SettingUp
<1>2. /\ SameTask(cmd'[t], cmd[t]) /\ cmd'[t].pc = p /\ cmd'[t].made = cmd[t].made
      /\ cmd'[t].todo = cmd[t].todo /\ cmd'[t].monitor = cmd[t].monitor
  BY <1>1, GotoTask
<1>3. C(t) \in Clusters /\ cmd[t].made = {} /\ cmd[t].pc # "node"
  BY CommandTyped DEF SettingUp, WellFormed, C, Keeps, HostsKept
<1>4. NodesKept(t)'
  <2>1. ToRecord(cmd'[t]) = ToRecord(cmd[t])
    BY <1>1, <1>2, <1>3 DEF ToRecord
  <2>2. \A j : Recorded(t, j) => Recorded(t, j)'
    BY <1>2, <1>3 DEF Recorded, HasDir, SameTask, C
  <2>3. QED
    BY <1>2, <2>1, <2>2 DEF Keeps, NodesKept, Creating, SameTask
<1>5. HostsKept(t)'
  BY <1>2, <1>3 DEF HostsKept, SameTask, C
<1>6. MonitorKept(t)'
  BY <1>1, <1>2 DEF MonitorKept, RegionsDone, Keeps, HasDir, SameTask, C
<1>7. QED
  BY <1>4, <1>5, <1>6 DEF Keeps

LEMMA SetupWhole ==
    ASSUME Good, Whole, NEW t \in Terminals,
           \/ WriteInventory(t) \/ SetupHosts(t) \/ ConfigureDevnet(t)
           \/ SaveDevnet(t) \/ EndCreate(t)
    PROVE  Whole'
<1>1. /\ Running(t) /\ UNCHANGED power /\ UNCHANGED nodeDir
      /\ cmd[t].pc \in SettingUp \cup {"inventory"}
  BY DEF WriteInventory, SetupHosts, ConfigureDevnet, SaveDevnet, EndCreate, provider,
         SettingUp, Running, At
<1>2. cmd[t].alone => Keeps(t)
  BY DEF Whole, WholeOf
<1>3. C(t) \in Clusters
  BY <1>1, CommandTyped DEF Running, WellFormed, C
<1>4. CASE Finish(t)
  BY <1>1, <1>4, FinishWhole DEF StaysDown
<1>5. ASSUME NEW p \in SettingUp, cmd' = [cmd EXCEPT ![t].pc = p],
             cmd[t].alone => Keeps(t)'
      PROVE  Whole'
  <2>1. p \in Pcs /\ p \notin {"idle", "stop"}
    BY DEF Pcs, SettingUp
  <2>2. QED
    BY <1>1, <1>5, <2>1, GotoTask, StepWhole, ZenonT(60)
<1>6. CASE WriteInventory(t)
  <2>1. /\ cmd' = [cmd EXCEPT ![t].pc = "hosts"] /\ UNCHANGED entry
        /\ cmd[t].pc = "inventory" /\ "hosts" \in SettingUp
    BY <1>6 DEF WriteInventory, At, SettingUp
  <2>2. cmd[t].listed \subseteq inventory'[C(t)].hosts
    BY <1>3, <1>6 DEF WriteInventory, Good, TypeOK
  <2>3. cmd[t].alone => Keeps(t)'
    BY <1>1, <1>2, <2>1, <2>2, SetupKept
  <2>4. QED
    BY <1>5, <2>1, <2>3
<1>7. CASE (SetupHosts(t) \/ ConfigureDevnet(t)) /\ ~Finish(t)
  <2>1. PICK p \in SettingUp :
            /\ cmd' = [cmd EXCEPT ![t].pc = p]
            /\ p \in {"devnet", "devnetconfig"} =>
                  cmd[t].devnet \/ cmd[t].pc = "devnet"
    BY <1>7 DEF SetupHosts, ConfigureDevnet, At, SettingUp
  <2>2. cmd[t].pc \in {"hosts", "devnet"} /\ UNCHANGED <<entry, inventory>>
    BY <1>7 DEF SetupHosts, ConfigureDevnet, At
  <2>3. ASSUME cmd[t].alone
        PROVE  Keeps(t)'
    <3>1. Keeps(t) /\ (cmd[t].pc = "devnet" => cmd[t].devnet)
      BY <1>2, <2>3 DEF Keeps, MonitorKept
    <3>2. cmd[t].listed \subseteq inventory'[C(t)].hosts
      BY <2>2, <3>1 DEF Keeps, HostsKept, SettingUp
    <3>3. QED
      BY <1>1, <2>1, <2>2, <3>1, <3>2, SetupKept
  <2>4. QED
    BY <1>5, <2>1, <2>3
<1>8. CASE SaveDevnet(t)
  <2>1. /\ cmd' = [cmd EXCEPT ![t].pc = "created"] /\ UNCHANGED inventory
        /\ cmd[t].pc = "devnetconfig" /\ "created" \in SettingUp
        /\ entry' = [entry EXCEPT ![C(t)] = DevnetEntry(entry[C(t)])]
    BY <1>8 DEF SaveDevnet, At, SettingUp
  <2>2. \A c \in Clusters : entry'[c].nodes = entry[c].nodes
    BY <2>1 DEF Good, TypeOK, DevnetEntry, Entry
  <2>3. ASSUME cmd[t].alone
        PROVE  Keeps(t)'
    <3>1. Keeps(t) /\ cmd[t].devnet
      BY <1>2, <2>1, <2>3 DEF Keeps, MonitorKept
    <3>2. cmd[t].listed \subseteq inventory'[C(t)].hosts
      BY <2>1, <3>1 DEF Keeps, HostsKept, SettingUp
    <3>3. QED
      BY <1>1, <2>1, <2>2, <3>1, <3>2, SetupKept
  <2>4. QED
    BY <1>5, <2>1, <2>3
<1>9. CASE EndCreate(t)
  BY <1>4, <1>9 DEF EndCreate
<1>10. QED
  BY <1>4, <1>6, <1>7, <1>8, <1>9

LEMMA CreateWhole ==
    ASSUME Good, Whole, NEW t \in Terminals, Create(t)
    PROVE  Whole'
BY RentNodesWhole, RentFailsWhole, MonitorWhole, QueryWhole, TakeRegionWhole,
   RecordNodeWhole, RecordMonitorWhole, RecordFailsWhole, SetupWhole
DEF Create

(* A `node stop` goes on to the next node, with an error or with this one  *)
(* down.                                                                   *)
LEMMA NextNodeWhole ==
    ASSUME Good, Whole, NEW t \in Terminals, Stopping(t),
           NodeError(t) \/ (NextNode(t) /\ power'[Node(t)] # "running"),
           StaysDown, UNCHANGED entry
    PROVE  Whole'
<1>1. /\ cmd[t] \in Commands /\ cmd[t].pc = "stop" /\ Running(t)
      /\ cmd[t].todo \in Seq(Instances) /\ cmd[t].todo # <<>> /\ cmd[t].failed \in BOOLEAN
  BY CommandTyped DEF Commands, Stopping, At, Running
<1>2. /\ Tail(cmd[t].todo) \in Seq(Instances)
      /\ RangeOf(cmd[t].todo) = {Node(t)} \cup RangeOf(Tail(cmd[t].todo))
  BY <1>1, TailInRange, TailOfOne DEF Node
<1>3. StopsAll(t)
  BY DEF Whole, WholeOf
<1>4. ASSUME NEW f \in BOOLEAN, f \/ (f = cmd[t].failed /\ power'[Node(t)] # "running"),
             cmd' = [cmd EXCEPT ![t] = [cmd[t] EXCEPT !.todo = Tail(cmd[t].todo),
                                                      !.failed = f]]
      PROVE  Whole'
  <2> DEFINE new == [cmd[t] EXCEPT !.todo = Tail(cmd[t].todo), !.failed = f]
  <2>1. /\ new \in Commands /\ SameTask(new, cmd[t]) /\ new.pc = "stop"
        /\ new.todo = Tail(cmd[t].todo) /\ new.failed = f
    BY <1>1, <1>2 DEF Commands, SameTask
  <2>2. cmd' = [cmd EXCEPT ![t] = new]
    BY <1>4
  <2> HIDE DEF new
  <2>3. cmd'[t] = new
    BY <2>2, CommandTyped
  <2>4. ASSUME ~f, NEW i \in cmd[t].listed
        PROVE  i \in RangeOf(Tail(cmd[t].todo)) \/ power'[i] # "running"
    <3>1. i \in RangeOf(cmd[t].todo) \/ power[i] # "running"
      BY <1>1, <1>3, <1>4, <2>4 DEF StopsAll, At
    <3>2. i \in Instances /\ power[i] # "none"
      BY <1>1 DEF Commands, Good, Recordable, Rented, IsHeld
    <3>3. QED
      BY <1>2, <1>4, <2>4, <3>1, <3>2 DEF StaysDown
  <2>5. StopsAll(t)'
    <3>1. cmd[t].alone => cmd[t].listed = Listed(entry'[C(t)])
      BY <1>1, <1>3 DEF StopsAll, At
    <3>2. QED
      BY <2>1, <2>3, <2>4, <3>1 DEF StopsAll, At, SameTask, C
  <2>6. Keeps(t)'
    BY <2>1, <2>3
    DEF Keeps, NodesKept, HostsKept, MonitorKept, RegionsDone, Creating, Recording, SettingUp
  <2>7. QED
    BY <1>1, <2>1, <2>2, <2>5, <2>6, SetWhole DEF SameTask
<1>5. CASE NextNode(t) /\ power'[Node(t)] # "running"
  <2>1. [cmd[t] EXCEPT !.todo = Tail(cmd[t].todo)]
            = [cmd[t] EXCEPT !.todo = Tail(cmd[t].todo), !.failed = cmd[t].failed]
    BY <1>1 DEF Commands
  <2>2. cmd' = [cmd EXCEPT ![t] = [cmd[t] EXCEPT !.todo = Tail(cmd[t].todo)]]
    BY <1>5 DEF NextNode
  <2>3. QED
    BY <1>1, <1>4, <1>5, <2>1, <2>2
<1>6. CASE NodeError(t)
  <2>1. cmd' = [cmd EXCEPT ![t] = [cmd[t] EXCEPT !.todo = Tail(cmd[t].todo),
                                                 !.failed = TRUE]]
    BY <1>6 DEF NodeError
  <2>2. QED
    BY <1>4, <2>1
<1>7. QED
  BY <1>5, <1>6

LEMMA StopWhole ==
    ASSUME Good, Whole, NEW t \in Terminals, Stop(t)
    PROVE  Whole'
<1> DEFINE n == Node(t)
<1>1. Running(t) /\ (~EndStop(t) => Stopping(t))
  BY DEF Stop, StopUnknown, StopNode, ReleaseFails, StopCallFails, AlreadyStopped,
         CredentialsExpire, EndStop, Stopping, At, Running
<1>2. Stopping(t) => n \in Instances
  BY CommandTyped, HeadInRange DEF Commands, Stopping, Node
<1>3. CASE StopUnknown(t) \/ StopCallFails(t) \/ CredentialsExpire(t) \/ EndStop(t)
  <2>1. /\ StaysDown
        /\ Finish(t) \/ (Stopping(t) /\ NodeError(t) /\ UNCHANGED entry)
    BY <1>3
    DEF StopUnknown, StopCallFails, CredentialsExpire, EndStop, StaysDown, provider
  <2>2. QED
    BY <1>1, <2>1, FinishWhole, NextNodeWhole
<1>4. CASE StopNode(t) \/ ReleaseFails(t)
  <2>1. /\ power' = [power EXCEPT ![n] = "stopped"] /\ UNCHANGED entry /\ Stopping(t)
        /\ Finish(t) \/ NextNode(t) \/ NodeError(t)
    BY <1>4 DEF StopNode, ReleaseFails
  <2> HIDE DEF n
  <2>2. StaysDown /\ power'[n] # "running"
    BY <1>2, <2>1 DEF StaysDown, Good, TypeOK
  <2>3. QED
    BY <1>1, <2>1, <2>2, FinishWhole, NextNodeWhole DEF n
<1>5. CASE AlreadyStopped(t)
  <2>1. /\ UNCHANGED <<power, entry>> /\ power[n] # "running" /\ Stopping(t)
        /\ NextNode(t) \/ NodeError(t)
    BY <1>5 DEF AlreadyStopped, provider
  <2>2. QED
    BY <2>1, NextNodeWhole DEF StaysDown
<1>6. QED
  BY <1>3, <1>4, <1>5 DEF Stop

LEMMA RefreshWhole ==
    ASSUME Good, Whole, NEW t \in Terminals, WriteRefreshed(t)
    PROVE  Whole'
<1>1. PICK i \in cmd[t].listed :
        Finish(t) \/ cmd' = [cmd EXCEPT ![t].listed = @ \ {i}]
  BY DEF WriteRefreshed
<1>2. cmd[t] \in Commands /\ cmd[t].pc = "refresh" /\ Running(t) /\ UNCHANGED power
  BY CommandTyped DEF WriteRefreshed, At, Running, provider
<1>3. CASE Finish(t)
  BY <1>2, <1>3, FinishWhole DEF StaysDown
<1>4. CASE cmd' = [cmd EXCEPT ![t].listed = @ \ {i}]
  <2> DEFINE new == [cmd[t] EXCEPT !.listed = @ \ {i}]
  <2>1. new \in Commands /\ new.pc = "refresh" /\ new.alone = cmd[t].alone
    BY <1>2 DEF Commands
  <2>2. cmd' = [cmd EXCEPT ![t] = new]
    BY <1>4
  <2> HIDE DEF new
  <2>3. Keeps(t)'
    BY <2>1, <2>2, CommandTyped
    DEF Keeps, NodesKept, HostsKept, MonitorKept, RegionsDone, Creating, Recording, SettingUp
  <2>4. QED
    BY <1>2, <2>1, <2>2, <2>3, StepWhole
<1>5. QED
  BY <1>1, <1>3, <1>4

-----------------------------------------------------------------------------
(* New commands, and what happens beside them.                             *)

LEMMA BeginCreateWhole ==
    ASSUME Good, Whole, NEW t \in Terminals, NEW c \in Clusters, BeginCreate(t, c)
    PROVE  Whole'
<1>1. PICK p \in Plans, o \in Options, sep \in BOOLEAN :
        Begin(t, c, [Idle EXCEPT
            !.pc = "rent", !.plan = p, !.service = o.service,
            !.static = o.static, !.devnet = o.devnet,
            !.existing = entry[c].monitor,
            !.separate = sep \/ entry[c].monitor # None])
  BY DEF BeginCreate
<1> DEFINE r == [Idle EXCEPT
            !.pc = "rent", !.plan = p, !.service = o.service,
            !.static = o.static, !.devnet = o.devnet,
            !.existing = entry[c].monitor,
            !.separate = sep \/ entry[c].monitor # None]
<1>2. /\ entry[c].monitor \in Instances \cup {None} /\ p \in Seq(Nat \ {0}) /\ p # <<>>
      /\ o \in [service : Services, static : BOOLEAN, devnet : BOOLEAN]
  BY NodeAssumption DEF Good, TypeOK
<1>3. r.pc = "rent" /\ r.plan = p
  BY DEF Idle
<1>4. r \in Commands
  BY <1>2, IdleTyped, ZenonT(60) DEF Commands, Pcs
<1>5. Begin(t, c, r)
  BY <1>1
<1> HIDE DEF r
<1>6. QED
  BY <1>2, <1>3, <1>4, <1>5, BeginWhole DEF BeginCreate

LEMMA BeginStopWhole ==
    ASSUME Good, Whole, NEW t \in Terminals, NEW c \in Clusters, BeginStop(t, c)
    PROVE  Whole'
<1> DEFINE r == [Idle EXCEPT !.pc = "stop", !.todo = NodesToStop(c),
                             !.listed = Listed(entry[c])]
<1>1. r.pc = "stop" /\ r.todo = NodesToStop(c) /\ r.listed = Listed(entry[c])
  BY DEF Idle
<1>2. r \in Commands
  BY IdleTyped, ListedNamed DEF Commands, Pcs
<1>3. Begin(t, c, r)
  BY DEF BeginStop
<1> HIDE DEF r
<1>4. QED
  BY <1>1, <1>2, <1>3, ListedNamed, BeginWhole DEF BeginStop

LEMMA BeginRefreshWhole ==
    ASSUME Good, Whole, NEW t \in Terminals, NEW c \in Clusters, BeginRefresh(t, c)
    PROVE  Whole'
<1> DEFINE dynamic == {i \in RangeOf(entry[c].nodes) : ~nodeDir[i].static}
           r == [Idle EXCEPT !.pc = "refresh", !.listed = dynamic]
<1>1. r.pc = "refresh"
  BY DEF Idle
<1>2. dynamic \subseteq Instances
  BY RangeTyped DEF Good, TypeOK
<1>3. r \in Commands
  BY <1>2, IdleTyped DEF Commands, Pcs
<1>4. Begin(t, c, r)
  BY DEF BeginRefresh
<1> HIDE DEF r, dynamic
<1>5. QED
  BY <1>1, <1>3, <1>4, BeginWhole DEF BeginRefresh

(* Nothing happens, or an instance goes down.                              *)
LEMMA QuietWhole ==
    ASSUME Good, Whole, StaysDown, UNCHANGED <<nodeDir, entry, inventory, cmd>>
    PROVE  Whole'
<1>1. \A t \in Terminals : WholeOf(t)'
  BY PassiveWhole DEF Whole
<1>2. Solo'
  BY DEF Whole, Solo, Running
<1>3. QED
  BY <1>1, <1>2 DEF Whole

LEMMA NextWhole ==
    ASSUME Good, Whole, [Next]_vars
    PROVE  Whole'
<1>1. CASE UNCHANGED vars
  BY <1>1, QuietWhole DEF vars, StaysDown
<1>2. ASSUME NEW t \in Terminals, NEW c \in Clusters,
             BeginCreate(t, c) \/ BeginStop(t, c) \/ BeginRefresh(t, c)
      PROVE  Whole'
  BY <1>2, BeginCreateWhole, BeginStopWhole, BeginRefreshWhole
<1>3. ASSUME NEW t \in Terminals, RefreshFails(t) \/ Crash(t)
      PROVE  Whole'
  <2>1. Running(t) /\ Finish(t) /\ StaysDown
    BY <1>3 DEF RefreshFails, Crash, Running, At, StaysDown, provider
  <2>2. QED
    BY <2>1, FinishWhole
<1>4. ASSUME NEW i \in Instances, InstanceStops(i)
      PROVE  Whole'
  <2>1. StaysDown
    BY <1>4 DEF InstanceStops, StaysDown, Good, TypeOK
  <2>2. QED
    BY <1>4, <2>1, QuietWhole DEF InstanceStops
<1>5. QED
  BY <1>1, <1>2, <1>3, <1>4, CreateWhole, StopWhole, RefreshWhole DEF Next

LEMMA InitWhole == Init => Whole
<1>1. Init => \A t \in Terminals : cmd[t].pc = "idle" /\ ~cmd[t].alone
  BY DEF Init, Idle
<1>2. QED
  BY <1>1 DEF Whole, Solo, WholeOf, StopsAll, At

(* A `node create` that gets to its end alone has written down everything  *)
(* it rented: createClusterNodeConfig goes through every region although   *)
(* each node it adds clears the monitoring instance, and records that      *)
(* instance after the last one.                                            *)
THEOREM CreateRecordsAll == Spec => []CreateRecordsEverything
<1>1. Init => Good /\ Whole
  BY InitGood, InitWhole
<1>2. Good /\ Whole /\ [Next]_vars => (Good /\ Whole)'
  BY NextGood, NextWhole
<1>3. Good /\ Whole => CreateRecordsEverything
  <2>1. SUFFICES ASSUME Good, Whole, NEW t \in Terminals, At(t, "created"), cmd[t].alone
                 PROVE  /\ \A i \in cmd[t].listed :
                            /\ HasDir(i) /\ nodeDir[i].static = cmd[t].static
                            /\ i \in RangeOf(entry[C(t)].nodes)
                            /\ i \in inventory[C(t)].hosts
                        /\ cmd[t].separate =>
                            /\ HasDir(cmd[t].monitor)
                            /\ ~cmd[t].devnet => entry[C(t)].monitor = cmd[t].monitor
    BY DEF CreateRecordsEverything
  <2>2. Keeps(t) /\ cmd[t].pc = "created" /\ "created" \in SettingUp
    BY <2>1 DEF Whole, WholeOf, At, SettingUp
  <2>3. cmd[t].made = {} /\ cmd[t].listed \subseteq inventory[C(t)].hosts
    BY <2>2 DEF Keeps, HostsKept
  <2>4. ToRecord(cmd[t]) = {}
    BY <2>2, <2>3 DEF ToRecord, Ids
  <2>5. QED
    BY <2>2, <2>3, <2>4 DEF Keeps, NodesKept, MonitorKept, Recorded, Creating
<1>4. QED
  BY <1>1, <1>2, <1>3, PTL DEF Spec

-----------------------------------------------------------------------------
(* The end of a `node stop`.                                               *)

(* Only the end of a stop without errors takes an entry away.              *)
LEMMA EntryGone ==
    ASSUME Good, [Next]_vars, NEW t \in Terminals, At(t, "stop"), ~Running(t)',
           Known(C(t)), ~entry'[C(t)].there
    PROVE  EndStop(t) /\ ~cmd[t].failed
<1>1. Running(t) /\ cmd[t].pc = "stop" /\ cmd'[t].pc = "idle" /\ ~UNCHANGED entry
  BY DEF At, Running, Known
<1>2. ASSUME NEW u \in Terminals, NEW c \in Clusters,
             BeginCreate(u, c) \/ BeginStop(u, c) \/ BeginRefresh(u, c)
      PROVE  FALSE
  BY <1>1, <1>2 DEF BeginCreate, BeginStop, BeginRefresh
<1>3. ASSUME NEW u \in Terminals, Create(u)
      PROVE  FALSE
  <2>1. u # t
    BY <1>1, <1>3
    DEF Create, RentNodes, RentNodesFails, RentMonitor, RentMonitorFails,
        UseExistingMonitor, NoMonitor, QueryAddresses, TakeRegion, RecordNode,
        RecordMonitor, RecordFails, WriteInventory, SetupHosts, ConfigureDevnet,
        SaveDevnet, EndCreate, At
  <2>2. RecordNode(u) \/ RecordMonitor(u) \/ SaveDevnet(u)
    BY <1>1, <1>3
    DEF Create, RentNodes, RentNodesFails, RentMonitor, RentMonitorFails,
        UseExistingMonitor, NoMonitor, QueryAddresses, TakeRegion,
        RecordFails, WriteInventory, SetupHosts, ConfigureDevnet, EndCreate
  <2>3. cmd'[t] = cmd[t]
    BY <2>1, <2>2, CommandTyped DEF RecordNode, RecordMonitor, SaveDevnet
  <2>4. QED
    BY <1>1, <2>3
<1>4. ASSUME NEW u \in Terminals, Stop(u)
      PROVE  EndStop(u) /\ u = t /\ ~cmd[t].failed
  <2>1. EndStop(u) /\ ~cmd[u].failed
    BY <1>1, <1>4 DEF Stop, StopUnknown, StopNode, ReleaseFails, StopCallFails,
                      AlreadyStopped, CredentialsExpire, EndStop
  <2>2. u # t => cmd'[t] = cmd[t]
    BY <2>1, CommandTyped DEF EndStop, Finish
  <2>3. QED
    BY <1>1, <2>1, <2>2
<1>5. ASSUME NEW u \in Terminals, WriteRefreshed(u) \/ RefreshFails(u) \/ Crash(u)
      PROVE  FALSE
  BY <1>1, <1>5 DEF WriteRefreshed, RefreshFails, Crash
<1>6. ASSUME NEW i \in Instances, InstanceStops(i)
      PROVE  FALSE
  BY <1>1, <1>6 DEF InstanceStops
<1>7. Next
  BY <1>1 DEF vars
<1>8. QED
  BY <1>2, <1>3, <1>4, <1>5, <1>6, <1>7 DEF Next

(* What a `node stop` that removes a cluster has seen to be down.          *)
Down ==
    \A t \in Terminals :
        At(t, "stop") /\ ~Running(t)' /\ Known(C(t)) /\ ~entry'[C(t)].there =>
            /\ \A i \in cmd[t].listed : power[i] # "running"
            /\ cmd[t].alone => \A i \in Listed(entry[C(t)]) : power[i] # "running"

(* stopNodes counts the nodes it could not stop, and removes the cluster   *)
(* only if there is none: then no instance runs that the clusters config   *)
(* listed when it began, and, without a command beside it, none that it    *)
(* lists when it is removed.                                               *)
THEOREM StoppedBeforeRemoved == Spec => RemovedOnlyWhenStopped
<1>1. Init => Good /\ Whole
  BY InitGood, InitWhole
<1>2. Good /\ Whole /\ [Next]_vars => (Good /\ Whole)'
  BY NextGood, NextWhole
<1>3. Good /\ Whole /\ [Next]_vars => Down
  <2>1. SUFFICES ASSUME Good, Whole, [Next]_vars, NEW t \in Terminals,
                        At(t, "stop"), ~Running(t)', Known(C(t)), ~entry'[C(t)].there
                 PROVE  /\ \A i \in cmd[t].listed : power[i] # "running"
                        /\ cmd[t].alone =>
                              \A i \in Listed(entry[C(t)]) : power[i] # "running"
    BY DEF Down
  <2>2. cmd[t].todo = <<>> /\ ~cmd[t].failed
    BY <2>1, EntryGone DEF EndStop
  <2>3. RangeOf(cmd[t].todo) = {}
    BY <2>2, EmptyRange
  <2>4. QED
    BY <2>1, <2>2, <2>3 DEF Whole, WholeOf, StopsAll
<1>4. Down => \A t \in Terminals :
        At(t, "stop") /\ ~Running(t)' /\ Known(C(t)) /\ ~entry'[C(t)].there =>
            /\ \A i \in cmd[t].listed : power[i] # "running"
            /\ cmd[t].alone => \A i \in Listed(entry[C(t)]) : power[i] # "running"
  BY DEF Down
<1>5. QED
  BY <1>1, <1>2, <1>3, <1>4, PTL DEF Spec, RemovedOnlyWhenStopped

=============================================================================
