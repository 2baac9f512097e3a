---------------------------- MODULE NetworkPromise ----------------------------
(***************************************************************************)
(* What the README of the repository promises about local networks and     *)
(* their snapshots ("Snapshots usage for local networks"), with no backend, *)
(* no plugins, no sidecars and no commands: a running network, the saved   *)
(* snapshots, and the few ways either may change.                          *)
(***************************************************************************)
EXTENDS Integers, Sequences

CONSTANTS Names, Snapshots, Default, NumSubnets, MaxChains

VARIABLES
    running,   \* the running network: is it up, and its blockchains
    saved,     \* the snapshots: is it there, and its blockchains
    wiping     \* a clean is shutting the network down

pvars == <<running, saved, wiping>>

Off == [up |-> FALSE, chains |-> <<>>]
None == [there |-> FALSE, chains |-> <<>>]
BootstrapImage == [there |-> TRUE, chains |-> <<>>]

UsedIds ==
    {running.chains[i].id : i \in 1..Len(running.chains)}
    \cup UNION {{saved[s].chains[i].id : i \in 1..Len(saved[s].chains)}
                : s \in Snapshots}

PInit ==
    /\ running = Off
    /\ saved = [s \in Snapshots |-> None]
    /\ wiping = FALSE

(* "First call of network start or subnet deploy will initialize default   *)
(* snapshot from the bootstrap snapshot."                                  *)
Provide ==
    /\ ~saved[Default].there
    /\ saved' = [saved EXCEPT ![Default] = BootstrapImage]
    /\ UNCHANGED <<running, wiping>>

(* "network start or subnet deploy will recover that state." *)
Load(s) ==
    /\ ~running.up
    /\ saved[s].there
    /\ running' = [up |-> TRUE, chains |-> saved[s].chains]
    /\ UNCHANGED <<saved, wiping>>

(* "Subsequent calls to subnet deploy do not change the snapshot, only the *)
(* running network."                                                       *)
Extend(n) ==
    /\ running.up
    /\ \A i \in 1..Len(running.chains) : running.chains[i].name # n
    /\ \E i \in (1..MaxChains) \ UsedIds :
        running' = [running EXCEPT !.chains =
            Append(@, [name |-> n,
                       sub |-> (Len(running.chains) % NumSubnets) + 1,
                       id |-> i])]
    /\ UNCHANGED <<saved, wiping>>

(* "network stop persist the running network" into the snapshot it names. *)
Persist(s) ==
    /\ running.up
    /\ saved' = [saved EXCEPT ![s] = [there |-> TRUE, chains |-> running.chains]]
    /\ UNCHANGED <<running, wiping>>

(* "The local network will run until calling network stop, network clean": *)
(* outside a clean it goes down only when some snapshot holds its state.   *)
Halt ==
    /\ running.up
    /\ wiping \/ \E s \in Snapshots :
        saved[s] = [there |-> TRUE, chains |-> running.chains]
    /\ running' = Off
    /\ UNCHANGED <<saved, wiping>>

(* "network clean copy again the bootstrap snapshot into the default       *)
(* snapshot, doing a reset of the state"; it "does not change custom       *)
(* snapshots", and the network is down when it is over.                    *)
Wipe ==
    /\ ~wiping
    /\ wiping' = TRUE
    /\ saved' = [saved EXCEPT ![Default] = BootstrapImage]
    /\ UNCHANGED running

Wiped ==
    /\ wiping
    /\ ~running.up
    /\ wiping' = FALSE
    /\ UNCHANGED <<running, saved>>

PNext ==
    \/ Provide \/ Halt \/ Wipe \/ Wiped
    \/ \E s \in Snapshots : Load(s) \/ Persist(s)
    \/ \E n \in Names : Extend(n)

Promise == PInit /\ [][PNext]_pvars

=============================================================================
