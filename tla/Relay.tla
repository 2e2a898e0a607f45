-------------------------------- MODULE Relay --------------------------------
(***************************************************************************)
(* What the fluff pool and its peers promise the network (spec §4-§5),     *)
(* with the pool's indexes, references and queue abstracted away: a       *)
(* transaction enters the pool waiting for fluff, fluffed or already     *)
(* outdated; it may be fluffed once and retired at any time, and never    *)
(* comes back; every peer gets a fluffed transaction exactly once while  *)
(* it is fluffed.                                                          *)
(***************************************************************************)
EXTENDS Naturals

CONSTANTS
    Txs,     \* transactions
    Peers    \* connected peers

VARIABLES
    phase,   \* "Free", "Waiting", "Fluffed" or "Retired"
    copies   \* how many copies of each transaction each peer has received

avars == <<phase, copies>>

Phases == {"Free", "Waiting", "Fluffed", "Retired"}

InPool == {x \in Txs : phase[x] # "Free"}

Init ==
    /\ phase = [x \in Txs |-> "Free"]
    /\ copies = [p \in Peers |-> [x \in Txs |-> 0]]

(* A transaction enters the pool. *)
Admit(x) ==
    /\ phase[x] = "Free"
    /\ phase' \in {[phase EXCEPT ![x] = s] : s \in Phases \ {"Free"}}
    /\ UNCHANGED copies

(* A waiting transaction is fluffed. *)
Fluff(x) ==
    /\ phase[x] = "Waiting"
    /\ phase' = [phase EXCEPT ![x] = "Fluffed"]
    /\ UNCHANGED copies

(* Transactions of the pool are outdated or removed, several at once.    *)
Retire(S) ==
    /\ S # {} /\ S \subseteq InPool
    /\ phase' = [x \in Txs |-> IF x \in S THEN "Retired" ELSE phase[x]]
    /\ UNCHANGED copies

(* A peer receives a fluffed transaction it has not received. *)
Deliver(p, x) ==
    /\ phase[x] = "Fluffed" /\ copies[p][x] = 0
    /\ copies' = [copies EXCEPT ![p][x] = 1]
    /\ UNCHANGED phase

Next ==
    \/ \E x \in Txs : Admit(x) \/ Fluff(x)
    \/ \E S \in SUBSET Txs : Retire(S)
    \/ \E p \in Peers, x \in Txs : Deliver(p, x)

SafetySpec == Init /\ [][Next]_avars

(* A fluffed transaction that a peer has not received stays deliverable  *)
(* until it is delivered or retired; delivery cannot be put off forever. *)
Spec == SafetySpec /\ \A p \in Peers, x \in Txs : WF_avars(Deliver(p, x))

=============================================================================
