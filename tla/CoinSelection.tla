---------------------------- MODULE CoinSelection ----------------------------
(***************************************************************************)
(* CoinsSelectionInfo::Calculate (src/wallet/core/common_utils.cpp,       *)
(* lines 37-174): the wallet's choice of coins and fees for a payment of  *)
(* m_requestedSum in asset m_assetID (0 for Beam).  The asset, if any, is *)
(* selected first; then Beams for the fee (and, for a Beam payment, the   *)
(* amount).  When the Beam selection leaves change, the change output     *)
(* raises the minimal fee, and the selection is retried with the higher  *)
(* fee.                                                                    *)
(*                                                                         *)
(* walletDB->selectCoins2 is not in the repository: each of its calls is  *)
(* any subset of the wallet's coins of the asset with at most             *)
(* nMaxShielded shielded ones, so the properties hold whatever coins it   *)
(* picks.  Amount is uint64_t: every sum is taken modulo 2^AmountBits.    *)
(***************************************************************************)
EXTENDS Naturals, FiniteSets, FiniteSetsExt

CONSTANTS
    AmountBits,        \* width of Amount (64 in the code)
    Coins,             \* the wallet's coins
    Value,             \* Coin::m_ID.m_Value / ShieldedCoin::m_CoinID.m_Value
    AssetOf,           \* the coin's asset id, 0 for Beam
    ShieldedCoins,     \* the coins that are ShieldedCoin
    MaxIns,            \* Rules::get().Shielded.MaxIns
    Fs,                \* Transaction::FeeSettings: [kernel, output,
                       \*   shieldedOutputTotal, shieldedInputTotal,
                       \*   defaultStd, defaultShieldedOut]
    Requests,          \* the sums a caller may request
    ExplicitFees,      \* the explicit fees a caller may preset
    AssetIDs,          \* the asset ids a caller may pay in
    MaxCalls           \* bound on the calls of Calculate

ASSUME CoinSelectionAssumption ==
    /\ AmountBits \in Nat \ {0}
    /\ IsFiniteSet(Coins) /\ ShieldedCoins \subseteq Coins
    /\ Value \in [Coins -> Nat] /\ AssetOf \in [Coins -> Nat]
    /\ MaxIns \in Nat /\ MaxCalls \in Nat
    /\ Fs \in [{"kernel", "output", "shieldedOutputTotal",
                "shieldedInputTotal", "defaultStd", "defaultShieldedOut"}
               -> Nat]
    /\ Requests \subseteq Nat /\ ExplicitFees \subseteq Nat
    /\ 0 \in AssetIDs /\ AssetIDs \subseteq Nat

(* The fee of a kernel and three outputs (the payment, plain or         *)
(* shielded, an asset change and a Beam change) under the chain's        *)
(* Transaction::FeeSettings is itself an Amount.                         *)
ASSUME FeesFit ==
    /\ 2 ^ AmountBits \in Nat
    /\ Fs.kernel + Fs.shieldedOutputTotal + 2 * Fs.output < 2 ^ AmountBits
    /\ Fs.kernel + 3 * Fs.output < 2 ^ AmountBits

(* The sum of the values of any set of the wallet's coins is a natural   *)
(* (FoldsTheorems' MapThenFoldSetType, for + over Nat).                  *)
ASSUME SelectionSumsNat ==
    \A S \in SUBSET Coins : MapThenSumSet(LAMBDA c : Value[c], S) \in Nat

VARIABLES
    info,    \* the CoinsSelectionInfo members
    push,    \* history: isPushTx of the last call
    calls    \* the number of calls of Calculate so far

vars == <<info, push, calls>>

-----------------------------------------------------------------------------
(* Amount arithmetic: uint64_t wraps. *)
Add(a, b) == (a + b) % (2 ^ AmountBits)
Sub(a, b) == (a - b) % (2 ^ AmountBits)

(* std::setmax(a, b): a becomes b when b is larger. *)
SetMax(a, b) == IF b > a THEN b ELSE a

(* nMaxShielded: half of MaxIns is left for Beam inputs when paying in an *)
(* asset.                                                                  *)
MaxShielded(aid) == IF aid # 0 THEN MaxIns \div 2 ELSE MaxIns

(* CalcCoinSelectionInfo2(h, walletDB, requestedSum, aid, fee, feesInvol): *)
(* the possible results of one selection, as the sum of the selected coins *)
(* and the involuntary fee of their shielded inputs.                       *)
Selections(aid) ==
    { [sum   |-> MapThenSumSet(LAMBDA c : Value[c], S) % (2 ^ AmountBits),
       invol |-> (Fs.shieldedInputTotal * Cardinality(S \cap ShieldedCoins))
                     % (2 ^ AmountBits)] :
      S \in { S \in SUBSET {c \in Coins : AssetOf[c] = aid} :
                 Cardinality(S \cap ShieldedCoins) <= MaxShielded(aid) } }

Init ==
    /\ info \in [requestedSum : Requests, assetID : AssetIDs,
                 explicitFee : ExplicitFees,
                 minimalExplicitFee : {0}, minimalRawFee : {0},
                 isEnought : {FALSE}, involuntaryFee : {0},
                 changeAsset : {0}, changeBeam : {0},
                 selectedSumAsset : {0}, selectedSumBeam : {0}]
    /\ push = FALSE
    /\ calls = 0

(* A faulty Calculate that never retries after adding the change output. *)
RetryNever(change, expl, minExpl) == FALSE

(* The retry of lines 124-137: a change output is necessary and the      *)
(* explicit fee no longer covers the minimal fee.                        *)
Retry(change, expl, minExpl) == change /\ expl < minExpl

(* A faulty Calculate that checks the Beam selection against the amount  *)
(* without the involuntary fee of its own shielded inputs.               *)
BeamNeedNoInvol(val, invol2) == val

(* Lines 140-141: the shielded inputs of the Beam selection add their    *)
(* involuntary fee to what the selection must cover.                     *)
BeamNeed(val, invol2) == Add(val, invol2)

(* Calculate(h, walletDB, isPushTx), with sa the asset selection and sb1, *)
(* sb2 the first Beam selection and its retry.                            *)
Calculate(isPush, sa, sb1, sb2) ==
    LET aid      == info.assetID
        req      == info.requestedSum
        raw0     == Add(Fs.kernel, IF isPush THEN Fs.shieldedOutputTotal
                                             ELSE Fs.output)
        minExpl0 == IF isPush THEN Fs.defaultShieldedOut ELSE Fs.defaultStd
        \* lines 96-113: the asset selection and its change output
        changeA  == aid # 0 /\ sa.sum > req
        raw1     == IF changeA THEN Add(raw0, Fs.output) ELSE raw0
        invol1   == IF aid # 0 THEN sa.invol ELSE 0
        val0     == IF aid # 0 THEN 0 ELSE req
        \* lines 115-117
        minExpl1 == SetMax(minExpl0, raw1)
        expl1    == SetMax(info.explicitFee, minExpl1)
        val1     == Add(val0, Add(expl1, invol1))
        \* lines 122-138: the Beam selection, and the retry with the fee of
        \* a change output
        change1  == sb1.sum > Add(val1, sb1.invol)
        raw2     == IF change1 THEN Add(raw1, Fs.output) ELSE raw1
        minExpl2 == IF change1 THEN SetMax(minExpl1, raw2) ELSE minExpl1
        retry    == Retry(change1, expl1, minExpl2)
        val2     == IF retry THEN Add(val1, Sub(minExpl2, expl1)) ELSE val1
        sb       == IF retry THEN sb2 ELSE sb1
        \* lines 140-156
        val3     == BeamNeed(val2, sb.invol)
        changeB  == IF sb.sum > val3 THEN Sub(sb.sum, val3) ELSE 0
    IN
    /\ calls < MaxCalls
    /\ info' = [info EXCEPT
                  !.minimalRawFee      = raw2,
                  !.minimalExplicitFee = minExpl2,
                  !.explicitFee        = IF retry THEN minExpl2 ELSE expl1,
                  !.involuntaryFee     = Add(invol1, sb.invol),
                  !.isEnought          = ~(aid # 0 /\ sa.sum < req)
                                         /\ sb.sum >= val3,
                  !.changeBeam         = changeB,
                  !.selectedSumBeam    = sb.sum,
                  !.selectedSumAsset   = IF aid # 0 THEN sa.sum ELSE sb.sum,
                  !.changeAsset        =
                      IF aid = 0 THEN changeB
                      ELSE IF changeA THEN Sub(sa.sum, req) ELSE 0]
    /\ push' = isPush
    /\ calls' = calls + 1

Next ==
    \E isPush \in BOOLEAN,
       sa \in IF info.assetID # 0 THEN Selections(info.assetID)
             ELSE {[sum |-> 0, invol |-> 0]},
       sb1, sb2 \in Selections(0) :
        Calculate(isPush, sa, sb1, sb2)

Spec == Init /\ [][Next]_vars

-----------------------------------------------------------------------------
(* get_TotalFee *)
TotalFee == Add(info.explicitFee, info.involuntaryFee)

(* A faulty get_NettoValue that subtracts the Beam fee from an asset     *)
(* payment too.                                                           *)
NettoValueAlways ==
    LET val == Sub(info.selectedSumAsset, info.changeAsset)
    IN  IF val > TotalFee THEN Sub(val, TotalFee) ELSE 0

(* get_NettoValue: what the selection pays, net of change and, for a     *)
(* Beam payment, of the fee.                                              *)
NettoValue ==
    LET val == Sub(info.selectedSumAsset, info.changeAsset)
    IN  IF info.assetID # 0 THEN val
        ELSE IF val > TotalFee THEN Sub(val, TotalFee) ELSE 0

-----------------------------------------------------------------------------
(* Every member holds a value of its kind. *)
TypeOK ==
    /\ info \in [requestedSum : Nat, assetID : Nat, explicitFee : Nat,
                 minimalExplicitFee : Nat, minimalRawFee : Nat,
                 isEnought : BOOLEAN, involuntaryFee : Nat,
                 changeAsset : Nat, changeBeam : Nat,
                 selectedSumAsset : Nat, selectedSumBeam : Nat]
    /\ push \in BOOLEAN /\ calls \in 0..MaxCalls

(* The value balance of a selection reported enough, in exact integers:  *)
(* the Beams selected pay the amount (for a Beam payment), the explicit  *)
(* fee, the involuntary fees of the shielded inputs of both selections   *)
(* and the change, and the asset selected pays the amount and its change; *)
(* across the retry with a different selection and repeated calls.       *)
ValueConserved ==
    info.isEnought =>
        /\ info.selectedSumBeam =
               (IF info.assetID = 0 THEN info.requestedSum ELSE 0)
               + info.explicitFee + info.involuntaryFee + info.changeBeam
        /\ info.assetID # 0 =>
               info.selectedSumAsset = info.requestedSum + info.changeAsset

(* The explicit fee of a selection reported enough pays for the kernel   *)
(* and every output the transaction will have: the payment (plain or     *)
(* shielded), an asset change and a Beam change output, although the    *)
(* Beam change is known only after the first selection.                   *)
FeeCoversOutputs ==
    info.isEnought =>
        info.explicitFee >=
            Fs.kernel
            + (IF push THEN Fs.shieldedOutputTotal ELSE Fs.output)
            + (IF info.assetID # 0 /\ info.changeAsset > 0
                   THEN Fs.output ELSE 0)
            + (IF info.changeBeam > 0 THEN Fs.output ELSE 0)

(* get_NettoValue of a selection reported enough is the requested sum:   *)
(* the net of change and fees is what the receiver gets.                  *)
NettoExact == info.isEnought => NettoValue = info.requestedSum

=============================================================================
