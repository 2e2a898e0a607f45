--------------------------- MODULE DependentProofs ---------------------------
(***************************************************************************)
(* Proofs about TxPool::Dependent for every finite set of elements, keys, *)
(* fees and positive sizes: type correctness, and                         *)
(* that m_pBest always points to an element no other element beats,     *)
(* although each insertion compares the newcomer with m_pBest alone.      *)
(* It rests on the selection priority being transitive, which needs      *)
(* every cumulative size to be positive, and so on every parent being in  *)
(* the pool when a child inherits from it.                                *)
(***************************************************************************)
EXTENDS Dependent, TLAPS

(* No dangling m_pParent: the parent of every element in the pool is in  *)
(* the pool too.                                                          *)
ParentsLive ==
    \A x \in Live : parent[x] = None \/ parent[x] \in Live

(* The cumulative records ShouldUpdateBest compares. *)
CumRec == [fee : Nat, size : Nat \ {0}, depth : Nat]

(* Every element in the pool has a positive cumulative size. *)
PositiveSizes == \A x \in Live : Cum(x) \in CumRec

(* The cumulative record AddValidTx computes for a new element. *)
NewCum(f, s, pp) ==
    [fee   |-> f + Inherit(pp).fee,
     size  |-> s + Inherit(pp).size,
     depth |-> 1 + Inherit(pp).depth]

IInv == TypeOK /\ ParentsLive /\ PositiveSizes /\ BestIsMaximal

-----------------------------------------------------------------------------
(* Fee per byte, compared by cross-multiplication, is transitive over    *)
(* positive sizes.                                                        *)
LEMMA CrossTrans ==
    ASSUME NEW fa \in Nat, NEW sa \in Nat \ {0},
           NEW fb \in Nat, NEW sb \in Nat \ {0},
           NEW fc \in Nat, NEW sc \in Nat \ {0}
    PROVE  /\ fa * sb > fb * sa /\ fb * sc >= fc * sb => fa * sc > fc * sa
           /\ fa * sb >= fb * sa /\ fb * sc > fc * sb => fa * sc > fc * sa
           /\ fa * sb = fb * sa /\ fb * sc = fc * sb => fa * sc = fc * sa
<1>1. fa * sb > fb * sa /\ fb * sc >= fc * sb => fa * sc > fc * sa
    <2> SUFFICES ASSUME fa * sb > fb * sa, fb * sc >= fc * sb
                 PROVE  fa * sc > fc * sa
        OBVIOUS
    <2>1. fa * sb * sc > fb * sa * sc
        OBVIOUS
    <2>2. fb * sc * sa >= fc * sb * sa
        OBVIOUS
    <2>3. fa * sc * sb > fc * sa * sb
        BY <2>1, <2>2
    <2>4. QED
        BY <2>3
<1>2. fa * sb >= fb * sa /\ fb * sc > fc * sb => fa * sc > fc * sa
    <2> SUFFICES ASSUME fa * sb >= fb * sa, fb * sc > fc * sb
                 PROVE  fa * sc > fc * sa
        OBVIOUS
    <2>1. fa * sb * sc >= fb * sa * sc
        OBVIOUS
    <2>2. fb * sc * sa > fc * sb * sa
        OBVIOUS
    <2>3. fa * sc * sb > fc * sa * sb
        BY <2>1, <2>2
    <2>4. QED
        BY <2>3
<1>3. fa * sb = fb * sa /\ fb * sc = fc * sb => fa * sc = fc * sa
    <2> SUFFICES ASSUME fa * sb = fb * sa, fb * sc = fc * sb
                 PROVE  fa * sc = fc * sa
        OBVIOUS
    <2>1. fa * sc * sb = fc * sa * sb
        OBVIOUS
    <2>2. QED
        BY <2>1
<1>4. QED
    BY <1>1, <1>2, <1>3

(* The selection priority is a strict order on cumulative records. *)
LEMMA BetterOrder ==
    ASSUME NEW a \in CumRec, NEW b \in CumRec, NEW c \in CumRec
    PROVE  /\ ~Better(a, a)
           /\ Better(a, b) /\ Better(b, c) => Better(a, c)
<1>1. ~Better(a, a)
    BY DEF Better, CumRec
<1>2. ASSUME Better(a, b), Better(b, c) PROVE Better(a, c)
    <2>1. /\ a.fee \in Nat /\ a.size \in Nat \ {0}
          /\ b.fee \in Nat /\ b.size \in Nat \ {0}
          /\ c.fee \in Nat /\ c.size \in Nat \ {0}
          /\ a.depth \in Nat /\ b.depth \in Nat /\ c.depth \in Nat
        BY DEF CumRec
    <2>2. CASE a.fee * b.size > b.fee * a.size
        <3>1. b.fee * c.size >= c.fee * b.size
            BY <1>2, <2>1 DEF Better
        <3>2. QED
            BY <2>1, <2>2, <3>1, CrossTrans DEF Better
    <2>3. CASE a.fee * b.size = b.fee * a.size
        <3>1. CASE b.fee * c.size > c.fee * b.size
            BY <2>1, <2>3, <3>1, CrossTrans DEF Better
        <3>2. CASE b.fee * c.size = c.fee * b.size
            <4>1. a.fee * c.size = c.fee * a.size
                <5> DEFINE fa == a.fee  sa == a.size  fb == b.fee  sb == b.size
                           fc == c.fee  sc == c.size
                <5>1. /\ fa \in Nat /\ sa \in Nat \ {0}
                      /\ fb \in Nat /\ sb \in Nat \ {0}
                      /\ fc \in Nat /\ sc \in Nat \ {0}
                      /\ fa * sb = fb * sa /\ fb * sc = fc * sb
                    BY <2>1, <2>3, <3>2
                <5> HIDE DEF fa, sa, fb, sb, fc, sc
                <5>2. fa * sc = fc * sa
                    BY <5>1, CrossTrans
                <5>3. QED
                    BY <5>2 DEF fa, sa, fc, sc
            <4>2. QED
                BY <1>2, <2>1, <2>3, <3>2, <4>1 DEF Better
        <3>3. QED
            BY <1>2, <2>1, <3>1, <3>2 DEF Better
    <2>4. QED
        BY <1>2, <2>1, <2>2, <2>3 DEF Better
<1>3. QED
    BY <1>1, <1>2

-----------------------------------------------------------------------------
(* AddValidTx preserves IInv. *)
LEMMA AddValidTxIInv ==
    ASSUME IInv, NEW x \in DElems, NEW k \in Keys, NEW f \in Fees,
           NEW s \in Sizes, NEW pp \in DElems \cup {None},
           AddValidTx(x, k, f, s, pp)
    PROVE  IInv'
<1> DEFINE c == NewCum(f, s, pp)
<1>1. /\ dst[x] = "Free" /\ ParentInPool(pp) /\ x \notin Live
      /\ Live' = Live \cup {x}
      /\ best' = IF ShouldUpdateBest(c) THEN x ELSE best
    BY DEF AddValidTx, NewCum, Live, IInv, TypeOK
<1>2. c \in CumRec
    <2>1. Inherit(pp) \in [fee : Nat, size : Nat, depth : Nat]
        BY <1>1 DEF ParentInPool, Inherit, Cum, IInv, TypeOK, PositiveSizes,
                    CumRec
    <2>2. QED
        BY <2>1, DependentAssumption DEF NewCum, CumRec
<1>3. /\ Cum(x)' = c
      /\ \A y \in Live : Cum(y)' = Cum(y)
    BY <1>1 DEF AddValidTx, NewCum, Cum, IInv, TypeOK
<1>4. TypeOK'
    BY <1>2, DependentAssumption DEF AddValidTx, NewCum, IInv, TypeOK, CumRec
<1>5. ParentsLive'
    BY <1>1 DEF AddValidTx, ParentsLive, ParentInPool, IInv, TypeOK
<1>6. PositiveSizes'
    BY <1>1, <1>2, <1>3 DEF PositiveSizes, IInv
<1>7. BestIsMaximal'
    <2>1. CASE ShouldUpdateBest(c)
        <3>1. best' = x
            BY <1>1, <2>1
        <3>2. ASSUME NEW y \in Live' PROVE ~Better(Cum(y)', Cum(x)')
            <4>1. CASE y = x
                BY <4>1, <1>2, <1>3, BetterOrder
            <4>2. CASE y # x
                <5>1. y \in Live /\ best # None
                    BY <4>2, <1>1 DEF IInv, BestIsMaximal
                <5>2. Better(c, Cum(best)) /\ ~Better(Cum(y), Cum(best))
                      /\ best \in Live
                    BY <2>1, <5>1 DEF ShouldUpdateBest, IInv, BestIsMaximal
                <5>3. Cum(y) \in CumRec /\ Cum(best) \in CumRec
                    BY <5>1, <5>2 DEF IInv, PositiveSizes
                <5>4. ~Better(Cum(y), c)
                    BY <5>2, <5>3, <1>2, BetterOrder
                <5>5. QED
                    BY <5>1, <5>4, <1>3
            <4>3. QED
                BY <4>1, <4>2
        <3>3. QED
            BY <3>1, <3>2, <1>1, DependentAssumption DEF BestIsMaximal
    <2>2. CASE ~ShouldUpdateBest(c)
        <3>1. best' = best /\ best # None /\ best \in Live
              /\ ~Better(c, Cum(best))
            BY <1>1, <2>2 DEF ShouldUpdateBest, IInv, BestIsMaximal
        <3>2. ASSUME NEW y \in Live' PROVE ~Better(Cum(y)', Cum(best)')
            BY <3>1, <1>1, <1>3 DEF IInv, BestIsMaximal
        <3>3. QED
            BY <3>1, <3>2, <1>1 DEF BestIsMaximal
    <2>3. QED
        BY <2>1, <2>2
<1>8. QED
    BY <1>4, <1>5, <1>6, <1>7 DEF IInv

(* Clear preserves IInv: the pool is empty and m_pBest null. *)
LEMMA ClearIInv ==
    ASSUME IInv, Clear
    PROVE  IInv'
<1>1. Live' = {} /\ best' = None
    BY DEF Clear, Live, IInv, TypeOK
<1>2. TypeOK'
    BY DEF Clear, IInv, TypeOK
<1>3. QED
    BY <1>1, <1>2 DEF IInv, ParentsLive, PositiveSizes, BestIsMaximal

(* A stuttering step leaves IInv unchanged. *)
LEMMA StutterIInv ==
    ASSUME IInv, UNCHANGED vars
    PROVE  IInv'
BY DEF vars, IInv, TypeOK, ParentsLive, PositiveSizes, BestIsMaximal, Live,
       Cum

(* The empty pool satisfies IInv. *)
LEMMA InitIInv == Init => IInv
BY DEF Init, IInv, TypeOK, ParentsLive, PositiveSizes, BestIsMaximal, Live

-----------------------------------------------------------------------------
(* Every reachable state of the dependent pool satisfies IInv, whatever  *)
(* sequence of insertions and Clear calls led to it.                     *)
THEOREM DependentInvariant == Spec => []IInv
<1>1. Init => IInv
    BY InitIInv
<1>2. IInv /\ [Next]_vars => IInv'
    <2> SUFFICES ASSUME IInv, [Next]_vars PROVE IInv'
        OBVIOUS
    <2>1. CASE \E x \in DElems, k \in Keys, f \in Fees, s \in Sizes,
                  pp \in DElems \cup {None} : AddValidTx(x, k, f, s, pp)
        BY <2>1, AddValidTxIInv
    <2>2. CASE Clear
        BY <2>2, ClearIInv
    <2>3. CASE UNCHANGED vars
        BY <2>3, StutterIInv
    <2>4. QED
        BY <2>1, <2>2, <2>3 DEF Next
<1>3. QED
    BY <1>1, <1>2, PTL DEF Spec

(* m_pBest is always null exactly on an empty pool and otherwise an     *)
(* element no element of the pool beats.                                 *)
THEOREM BestAlwaysMaximal == Spec => []BestIsMaximal
BY DependentInvariant, PTL DEF IInv

=============================================================================
