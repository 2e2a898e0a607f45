------------------------------ MODULE Dependent ------------------------------
(***************************************************************************)
(* TxPool::Dependent (src/node/txpool.h, lines 179-224): the pool of      *)
(* chained (dependent) transactions.  Every element hangs under a parent  *)
(* element of the pool, or is a root, and carries the cumulative fee,     *)
(* size and depth of the chain from its root down to itself.  m_pBest     *)
(* points to the element whose chain is the best to include.              *)
(*                                                                         *)
(* The BVM charge is summed like the size and is left out.  The context   *)
(* hash index (m_setContexts) serves the caller's lookup of a parent and  *)
(* changes nothing the properties tell apart.                              *)
(***************************************************************************)
EXTENDS Naturals, FiniteSets

CONSTANTS
    DElems,   \* identities of Dependent::Element objects
    Keys,     \* conflict keys (Transaction::KeyType)
    Fees,     \* fees a transaction may pay on its own
    Sizes,    \* sizes a transaction may have on its own
    None      \* the null Element* (a root's parent, an empty m_pBest)

ASSUME DependentAssumption ==
    /\ IsFiniteSet(DElems)
    /\ None \notin DElems /\ None \notin Keys
    /\ Fees \subseteq Nat /\ Sizes \subseteq Nat \ {0}

VARIABLES
    dst,     \* "Free", "Live" or "Gone"
    parent,  \* m_pParent
    key,     \* m_Tx's key in m_setTxs
    fee,     \* cumulative m_Fee
    size,    \* cumulative m_Size
    depth,   \* cumulative m_Depth
    best     \* m_pBest

vars == <<dst, parent, key, fee, size, depth, best>>

-----------------------------------------------------------------------------
Live == {x \in DElems : dst[x] = "Live"}

(* The live children of p; for p = None, the roots. *)
Children(p) == {y \in Live : parent[y] = p}

(* Up[n][x]: the n-th ancestor of x along m_pParent, None past the root. *)
Up[n \in Nat] ==
    [x \in DElems \cup {None} |->
        IF n = 0 \/ x = None THEN x ELSE Up[n - 1][parent[x]]]

(* x and its ancestors: the chain a block must include to include x. *)
PathOf(x) == {Up[n][x] : n \in 0..Cardinality(DElems)} \ {None}

(* The cumulative values of an element, as ShouldUpdateBest sees them. *)
Cum(x) == [fee |-> fee[x], size |-> size[x], depth |-> depth[x]]

(* The selection priority: higher fee per byte, then the shallower chain, *)
(* then the higher cumulative fee.                                        *)
Better(a, b) ==
    \/ a.fee * b.size > b.fee * a.size
    \/ /\ a.fee * b.size = b.fee * a.size
       /\ \/ a.depth < b.depth
          \/ a.depth = b.depth /\ a.fee > b.fee

(* A faulty policy that compares the fee per byte only. *)
ShouldUpdateBestNoTie(c) ==
    best = None \/ c.fee * Cum(best).size > Cum(best).fee * c.size

(* ShouldUpdateBest: the candidate replaces m_pBest when there is none or *)
(* it is strictly better.                                                 *)
ShouldUpdateBest(c) == best = None \/ Better(c, Cum(best))

(* The DanglingParent check: a parent must be null or in the pool. *)
ParentInPool(pp) == pp = None \/ pp \in Live

(* What a new element inherits: the parent's cumulative values, or zero *)
(* for a root.                                                           *)
Inherit(pp) ==
    IF pp = None THEN [fee |-> 0, size |-> 0, depth |-> 0] ELSE Cum(pp)

(* The conflict-key collision AddValidTx refuses: the key is spent on the *)
(* chain of the parent, or by a sibling under the same parent.            *)
Conflict(k, pp) == \E y \in PathOf(pp) \cup Children(pp) : key[y] = k

-----------------------------------------------------------------------------
Init ==
    /\ dst = [x \in DElems |-> "Free"]
    /\ parent = [x \in DElems |-> None]
    /\ key = [x \in DElems |-> None]
    /\ fee = [x \in DElems |-> 0]
    /\ size = [x \in DElems |-> 0]
    /\ depth = [x \in DElems |-> 0]
    /\ best = None

(* AddValidTx(tx, ctx, key, hvCtx, pParent): refused when the parent is  *)
(* not in the pool (DanglingParent) or on a conflict; otherwise a new     *)
(* element with the parent's cumulative values plus its own, inserted in  *)
(* m_setTxs, and m_pBest updated by ShouldUpdateBest.                     *)
AddValidTx(x, k, f, s, pp) ==
    LET c == [fee   |-> f + Inherit(pp).fee,
              size  |-> s + Inherit(pp).size,
              depth |-> 1 + Inherit(pp).depth]
    IN
    /\ dst[x] = "Free"
    /\ ParentInPool(pp)
    /\ ~Conflict(k, pp)
    /\ dst' = [dst EXCEPT ![x] = "Live"]
    /\ parent' = [parent EXCEPT ![x] = pp]
    /\ key' = [key EXCEPT ![x] = k]
    /\ fee' = [fee EXCEPT ![x] = c.fee]
    /\ size' = [size EXCEPT ![x] = c.size]
    /\ depth' = [depth EXCEPT ![x] = c.depth]
    /\ best' = IF ShouldUpdateBest(c) THEN x ELSE best

(* Clear(): every element leaves both indexes and is freed; m_pBest is   *)
(* reset.                                                                 *)
Clear ==
    /\ Live # {}
    /\ dst' = [x \in DElems |-> IF x \in Live THEN "Gone" ELSE dst[x]]
    /\ best' = None
    /\ UNCHANGED <<parent, key, fee, size, depth>>

Next ==
    \/ \E x \in DElems, k \in Keys, f \in Fees, s \in Sizes,
          pp \in DElems \cup {None} : AddValidTx(x, k, f, s, pp)
    \/ Clear

Spec == Init /\ [][Next]_vars

-----------------------------------------------------------------------------
(* Every variable holds a value of its kind. *)
TypeOK ==
    /\ dst \in [DElems -> {"Free", "Live", "Gone"}]
    /\ parent \in [DElems -> DElems \cup {None}]
    /\ key \in [DElems -> Keys \cup {None}]
    /\ fee \in [DElems -> Nat] /\ size \in [DElems -> Nat]
    /\ depth \in [DElems -> Nat]
    /\ best \in DElems \cup {None}

(* m_pBest is null exactly when the pool is empty, and otherwise points  *)
(* to an element of the pool that no other element beats, after any      *)
(* sequence of insertions, each compared against m_pBest alone, and      *)
(* Clear.                                                                *)
BestIsMaximal ==
    /\ best = None <=> Live = {}
    /\ best # None => /\ best \in Live
                      /\ \A y \in Live : ~Better(Cum(y), Cum(best))

=============================================================================
