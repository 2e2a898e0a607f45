------------------------- MODULE CoinSelectionProofs -------------------------
(***************************************************************************)
(* Proofs about CoinsSelectionInfo::Calculate (CoinSelection.tla) for    *)
(* every Amount width, every set of coins and every fee schedule whose   *)
(* fee for a kernel and three outputs is an Amount (FeesFit).  Each call *)
(* recomputes every fee from the request alone, so the properties follow *)
(* from one call, given the shape of the members it reads.               *)
(***************************************************************************)
EXTENDS CoinSelection, FiniteSetTheorems, TLAPS

(* The members Calculate reads are numbers, and the last call's kind a  *)
(* Boolean.                                                               *)
InfoOK ==
    /\ DOMAIN info = {"requestedSum", "assetID", "explicitFee",
                      "minimalExplicitFee", "minimalRawFee", "isEnought",
                      "involuntaryFee", "changeAsset", "changeBeam",
                      "selectedSumAsset", "selectedSumBeam"}
    /\ info.requestedSum \in Nat /\ info.assetID \in Nat
    /\ info.explicitFee \in Nat
    /\ push \in BOOLEAN

(* An Amount sum that fits is not reduced. *)
LEMMA AddExact ==
  ASSUME NEW a \in Nat, NEW b \in Nat, a + b < 2 ^ AmountBits
  PROVE  Add(a, b) = a + b
  BY FeesFit DEF Add

(* Amount arithmetic stays within Amount. *)
LEMMA AmountRange ==
  /\ 2 ^ AmountBits \in Nat /\ 2 ^ AmountBits > 0
  /\ \A a, b \in Int : /\ Add(a, b) \in 0..(2 ^ AmountBits - 1)
                       /\ Sub(a, b) \in 0..(2 ^ AmountBits - 1)
<1>1. 2 ^ AmountBits \in Nat /\ 2 ^ AmountBits > 0
  BY FeesFit, CoinSelectionAssumption
<1>2. QED
  BY <1>1 DEF Add, Sub

(* What selectCoins2 may return is an Amount and an Amount of fees. *)
LEMMA SelectionAmount ==
  ASSUME NEW aid, NEW x \in Selections(aid)
  PROVE  x.sum \in 0..(2 ^ AmountBits - 1) /\ x.invol \in 0..(2 ^ AmountBits - 1)
<1> DEFINE sumOf(T) == MapThenSumSet(LAMBDA c : Value[c], T)
<1>1. PICK S \in SUBSET {c \in Coins : AssetOf[c] = aid} :
        x = [sum   |-> sumOf(S) % (2 ^ AmountBits),
             invol |-> (Fs.shieldedInputTotal * Cardinality(S \cap ShieldedCoins))
                         % (2 ^ AmountBits)]
  BY DEF Selections
<1> HIDE DEF sumOf
<1>2. sumOf(S) \in Nat
  BY SelectionSumsNat DEF sumOf
<1>3. Cardinality(S \cap ShieldedCoins) \in Nat
  <2>1. IsFiniteSet(S)
    BY CoinSelectionAssumption, FS_Subset
  <2>2. QED
    BY <2>1, FS_Intersection, FS_CardinalityType
<1>4. Fs.shieldedInputTotal \in Nat
  BY CoinSelectionAssumption
<1>5. 2 ^ AmountBits \in Nat /\ 2 ^ AmountBits > 0
  BY AmountRange
<1>6. x.sum = sumOf(S) % (2 ^ AmountBits)
  BY <1>1
<1>7. x.invol = (Fs.shieldedInputTotal * Cardinality(S \cap ShieldedCoins))
                  % (2 ^ AmountBits)
  BY <1>1
<1>8. QED
  BY <1>2, <1>3, <1>4, <1>5, <1>6, <1>7

-----------------------------------------------------------------------------
(* The values Calculate computes on its way, by name, as its LET defines *)
(* them.                                                                  *)
Calc(isPush, sa, sb1, sb2) ==
    LET aid      == info.assetID
        req      == info.requestedSum
        pay      == IF isPush THEN Fs.shieldedOutputTotal ELSE Fs.output
        raw0     == Add(Fs.kernel, pay)
        minExpl0 == IF isPush THEN Fs.defaultShieldedOut ELSE Fs.defaultStd
        changeA  == aid # 0 /\ sa.sum > req
        raw1     == IF changeA THEN Add(raw0, Fs.output) ELSE raw0
        invol1   == IF aid # 0 THEN sa.invol ELSE 0
        val0     == IF aid # 0 THEN 0 ELSE req
        minExpl1 == SetMax(minExpl0, raw1)
        expl1    == SetMax(info.explicitFee, minExpl1)
        val1     == Add(val0, Add(expl1, invol1))
        change1  == sb1.sum > Add(val1, sb1.invol)
        raw2     == IF change1 THEN Add(raw1, Fs.output) ELSE raw1
        minExpl2 == IF change1 THEN SetMax(minExpl1, raw2) ELSE minExpl1
        retry    == Retry(change1, expl1, minExpl2)
        val2     == IF retry THEN Add(val1, Sub(minExpl2, expl1)) ELSE val1
        sb       == IF retry THEN sb2 ELSE sb1
        val3     == BeamNeed(val2, sb.invol)
        changeB  == IF sb.sum > val3 THEN Sub(sb.sum, val3) ELSE 0
    IN  [pay |-> pay, raw0 |-> raw0, minExpl0 |-> minExpl0,
         changeA |-> changeA, raw1 |-> raw1, invol1 |-> invol1, val0 |-> val0,
         minExpl1 |-> minExpl1, expl1 |-> expl1, val1 |-> val1,
         change1 |-> change1, raw2 |-> raw2, minExpl2 |-> minExpl2,
         retry |-> retry, val2 |-> val2, sb |-> sb, val3 |-> val3,
         changeB |-> changeB]

(* A call of Calculate, in terms of the values it computes: the members *)
(* it sets, one by one, and those it leaves.                              *)
LEMMA CalcStep ==
  ASSUME InfoOK, NEW isPush, NEW sa, NEW sb1, NEW sb2,
         Calculate(isPush, sa, sb1, sb2),
         NEW v, v = Calc(isPush, sa, sb1, sb2)
  PROVE  /\ DOMAIN info' = DOMAIN info
         /\ info'.requestedSum = info.requestedSum
         /\ info'.assetID = info.assetID
         /\ info'.minimalRawFee = v.raw2
         /\ info'.minimalExplicitFee = v.minExpl2
         /\ info'.explicitFee = IF v.retry THEN v.minExpl2 ELSE v.expl1
         /\ info'.involuntaryFee = Add(v.invol1, v.sb.invol)
         /\ info'.isEnought =
              (~(info.assetID # 0 /\ sa.sum < info.requestedSum)
               /\ v.sb.sum >= v.val3)
         /\ info'.changeBeam = v.changeB
         /\ info'.selectedSumBeam = v.sb.sum
         /\ info'.selectedSumAsset = IF info.assetID # 0 THEN sa.sum
                                                         ELSE v.sb.sum
         /\ info'.changeAsset = IF info.assetID = 0 THEN v.changeB
                                ELSE IF v.changeA
                                     THEN Sub(sa.sum, info.requestedSum) ELSE 0
         /\ push' = isPush
         /\ calls < MaxCalls /\ calls' = calls + 1
<1>1. DOMAIN info' = DOMAIN info
  BY ZenonT(40) DEF Calculate, Calc, InfoOK
<1>2. info'.requestedSum = info.requestedSum
  BY ZenonT(40) DEF Calculate, Calc, InfoOK
<1>3. info'.assetID = info.assetID
  BY ZenonT(40) DEF Calculate, Calc, InfoOK
<1>4. info'.minimalRawFee = v.raw2
  BY ZenonT(40) DEF Calculate, Calc, InfoOK
<1>5. info'.minimalExplicitFee = v.minExpl2
  BY ZenonT(40) DEF Calculate, Calc, InfoOK
<1>6. info'.explicitFee = IF v.retry THEN v.minExpl2 ELSE v.expl1
  BY ZenonT(40) DEF Calculate, Calc, InfoOK
<1>7. info'.involuntaryFee = Add(v.invol1, v.sb.invol)
  BY ZenonT(40) DEF Calculate, Calc, InfoOK
<1>8. info'.selectedSumBeam = v.sb.sum
  BY ZenonT(40) DEF Calculate, Calc, InfoOK
<1>9. info'.selectedSumAsset = IF info.assetID # 0 THEN sa.sum ELSE v.sb.sum
  BY ZenonT(40) DEF Calculate, Calc, InfoOK
<1>10. push' = isPush /\ calls < MaxCalls /\ calls' = calls + 1
  BY ZenonT(40) DEF Calculate, Calc, InfoOK
<1>11. info'.isEnought =
        (~(info.assetID # 0 /\ sa.sum < info.requestedSum) /\ v.sb.sum >= v.val3)
  BY ZenonT(60) DEF Calculate, Calc, InfoOK
<1>12. info'.changeBeam = v.changeB
  BY ZenonT(60) DEF Calculate, Calc, InfoOK
<1>13. info'.changeAsset = IF info.assetID = 0 THEN v.changeB
                          ELSE IF v.changeA
                               THEN Sub(sa.sum, info.requestedSum) ELSE 0
  BY ZenonT(60) DEF Calculate, Calc, InfoOK
<1>14. QED
  BY <1>1, <1>2, <1>3, <1>4, <1>5, <1>6, <1>7, <1>8, <1>9, <1>10, <1>11, <1>12, <1>13, Zenon

(* How each value is computed from the ones before it. *)
LEMMA CalcEqs ==
  ASSUME NEW isPush, NEW sa, NEW sb1, NEW sb2,
         NEW v, v = Calc(isPush, sa, sb1, sb2)
  PROVE  /\ v.pay = IF isPush THEN Fs.shieldedOutputTotal ELSE Fs.output
         /\ v.raw0 = Add(Fs.kernel, v.pay)
         /\ v.minExpl0 = IF isPush THEN Fs.defaultShieldedOut ELSE Fs.defaultStd
         /\ v.changeA = (info.assetID # 0 /\ sa.sum > info.requestedSum)
         /\ v.raw1 = IF v.changeA THEN Add(v.raw0, Fs.output) ELSE v.raw0
         /\ v.invol1 = IF info.assetID # 0 THEN sa.invol ELSE 0
         /\ v.val0 = IF info.assetID # 0 THEN 0 ELSE info.requestedSum
         /\ v.minExpl1 = SetMax(v.minExpl0, v.raw1)
         /\ v.expl1 = SetMax(info.explicitFee, v.minExpl1)
         /\ v.val1 = Add(v.val0, Add(v.expl1, v.invol1))
         /\ v.change1 = (sb1.sum > Add(v.val1, sb1.invol))
         /\ v.raw2 = IF v.change1 THEN Add(v.raw1, Fs.output) ELSE v.raw1
         /\ v.minExpl2 = IF v.change1 THEN SetMax(v.minExpl1, v.raw2)
                                      ELSE v.minExpl1
         /\ v.retry = (v.change1 /\ v.expl1 < v.minExpl2)
         /\ v.val2 = IF v.retry THEN Add(v.val1, Sub(v.minExpl2, v.expl1))
                                ELSE v.val1
         /\ v.sb = IF v.retry THEN sb2 ELSE sb1
         /\ v.val3 = Add(v.val2, v.sb.invol)
         /\ v.changeB = IF v.sb.sum > v.val3 THEN Sub(v.sb.sum, v.val3) ELSE 0
<1>1. v.pay = IF isPush THEN Fs.shieldedOutputTotal ELSE Fs.output
  BY ZenonT(30) DEF Calc, Retry, BeamNeed
<1>2. v.raw0 = Add(Fs.kernel, v.pay)
  BY ZenonT(30) DEF Calc, Retry, BeamNeed
<1>3. v.minExpl0 = IF isPush THEN Fs.defaultShieldedOut ELSE Fs.defaultStd
  BY ZenonT(30) DEF Calc, Retry, BeamNeed
<1>4. v.changeA = (info.assetID # 0 /\ sa.sum > info.requestedSum)
  BY ZenonT(30) DEF Calc, Retry, BeamNeed
<1>5. v.raw1 = IF v.changeA THEN Add(v.raw0, Fs.output) ELSE v.raw0
  BY ZenonT(30) DEF Calc, Retry, BeamNeed
<1>6. v.invol1 = IF info.assetID # 0 THEN sa.invol ELSE 0
  BY ZenonT(30) DEF Calc, Retry, BeamNeed
<1>7. v.val0 = IF info.assetID # 0 THEN 0 ELSE info.requestedSum
  BY ZenonT(30) DEF Calc, Retry, BeamNeed
<1>8. v.minExpl1 = SetMax(v.minExpl0, v.raw1)
  BY ZenonT(30) DEF Calc, Retry, BeamNeed
<1>9. v.expl1 = SetMax(info.explicitFee, v.minExpl1)
  BY ZenonT(30) DEF Calc, Retry, BeamNeed
<1>10. v.val1 = Add(v.val0, Add(v.expl1, v.invol1))
  BY ZenonT(30) DEF Calc, Retry, BeamNeed
<1>11. v.change1 = (sb1.sum > Add(v.val1, sb1.invol))
  BY ZenonT(30) DEF Calc, Retry, BeamNeed
<1>12. v.raw2 = IF v.change1 THEN Add(v.raw1, Fs.output) ELSE v.raw1
  BY ZenonT(30) DEF Calc, Retry, BeamNeed
<1>13. v.minExpl2 = IF v.change1 THEN SetMax(v.minExpl1, v.raw2) ELSE v.minExpl1
  BY ZenonT(30) DEF Calc, Retry, BeamNeed
<1>14. v.retry = (v.change1 /\ v.expl1 < v.minExpl2)
  BY ZenonT(30) DEF Calc, Retry, BeamNeed
<1>15. v.val2 = IF v.retry THEN Add(v.val1, Sub(v.minExpl2, v.expl1)) ELSE v.val1
  BY ZenonT(30) DEF Calc, Retry, BeamNeed
<1>16. v.sb = IF v.retry THEN sb2 ELSE sb1
  BY ZenonT(30) DEF Calc, Retry, BeamNeed
<1>17. v.val3 = Add(v.val2, v.sb.invol)
  BY ZenonT(30) DEF Calc, Retry, BeamNeed
<1>18. v.changeB = IF v.sb.sum > v.val3 THEN Sub(v.sb.sum, v.val3) ELSE 0
  BY ZenonT(90) DEF Calc, Retry, BeamNeed
<1>19. QED
  BY <1>1, <1>2, <1>3, <1>4, <1>5, <1>6, <1>7, <1>8, <1>9, <1>10, <1>11, <1>12, <1>13, <1>14, <1>15, <1>16, <1>17, <1>18

(* Under FeesFit the raw fees never wrap: the minimal raw fee after the  *)
(* asset selection and after the Beam selection is the exact fee of the  *)
(* kernel, the payment and each change output found so far.             *)
LEMMA RawFees ==
  ASSUME NEW isPush \in BOOLEAN, NEW sa, NEW sb1, NEW sb2,
         NEW v, v = Calc(isPush, sa, sb1, sb2)
  PROVE  /\ v.pay \in Nat /\ v.minExpl0 \in Nat
         /\ v.raw1 = Fs.kernel + v.pay + (IF v.changeA THEN Fs.output ELSE 0)
         /\ v.raw2 = v.raw1 + (IF v.change1 THEN Fs.output ELSE 0)
         /\ v.raw2 <= Fs.kernel + v.pay + 2 * Fs.output
<1>1. /\ Fs.kernel \in Nat /\ Fs.output \in Nat /\ Fs.shieldedOutputTotal \in Nat
      /\ Fs.defaultStd \in Nat /\ Fs.defaultShieldedOut \in Nat
  BY CoinSelectionAssumption
<1>2. /\ v.pay = IF isPush THEN Fs.shieldedOutputTotal ELSE Fs.output
      /\ v.minExpl0 = IF isPush THEN Fs.defaultShieldedOut ELSE Fs.defaultStd
      /\ v.raw0 = Add(Fs.kernel, v.pay)
      /\ v.raw1 = IF v.changeA THEN Add(v.raw0, Fs.output) ELSE v.raw0
      /\ v.raw2 = IF v.change1 THEN Add(v.raw1, Fs.output) ELSE v.raw1
  BY CalcEqs
<1>9. /\ v.changeA = (info.assetID # 0 /\ sa.sum > info.requestedSum)
      /\ v.change1 = (sb1.sum > Add(v.val1, sb1.invol))
  BY CalcEqs
<1>8. v.changeA \in BOOLEAN /\ v.change1 \in BOOLEAN
  BY <1>9
<1>3. /\ v.pay \in Nat /\ v.minExpl0 \in Nat
      /\ Fs.kernel + v.pay + 2 * Fs.output < 2 ^ AmountBits
  BY <1>1, <1>2, FeesFit
<1>4. v.raw0 = Fs.kernel + v.pay
  <2>1. Fs.kernel + v.pay \in 0..(2 ^ AmountBits - 1)
    BY <1>1, <1>3, FeesFit
  <2>2. QED
    BY <1>2, <2>1, FeesFit DEF Add
<1>5. v.raw1 = Fs.kernel + v.pay + (IF v.changeA THEN Fs.output ELSE 0)
  <2>1. Fs.kernel + v.pay + Fs.output \in 0..(2 ^ AmountBits - 1)
    BY <1>1, <1>3, FeesFit
  <2>2. Add(v.raw0, Fs.output) = Fs.kernel + v.pay + Fs.output
    BY <1>4, <2>1, FeesFit DEF Add
  <2>3. QED
    BY <1>1, <1>2, <1>3, <1>4, <1>8, <2>2
<1>6. v.raw2 = v.raw1 + (IF v.change1 THEN Fs.output ELSE 0)
  <2>1. v.raw1 + Fs.output \in 0..(2 ^ AmountBits - 1)
    BY <1>1, <1>3, <1>5, FeesFit
  <2>2. Add(v.raw1, Fs.output) = v.raw1 + Fs.output
    BY <1>5, <2>1, FeesFit DEF Add
  <2>3. QED
    BY <1>1, <1>2, <1>3, <1>5, <1>8, <2>2
<1>7. QED
  BY <1>1, <1>3, <1>5, <1>6

(* The explicit fee a call sets is at least the minimal raw fee, and is  *)
(* at most the largest of the fee preset, the default and that raw fee.  *)
LEMMA ExplicitFee ==
  ASSUME NEW isPush \in BOOLEAN, NEW sa, NEW sb1, NEW sb2,
         NEW v, v = Calc(isPush, sa, sb1, sb2), info.explicitFee \in Nat
  PROVE  LET e == IF v.retry THEN v.minExpl2 ELSE v.expl1
         IN  /\ e \in Nat /\ e >= v.raw2 /\ e >= info.explicitFee
             /\ v.expl1 \in Nat /\ v.expl1 <= e
             /\ \A b \in Nat : /\ info.explicitFee <= b /\ v.minExpl0 <= b
                               /\ v.raw2 <= b
                               => e <= b
<1>1. /\ v.raw1 \in Nat /\ v.raw2 \in Nat /\ v.raw2 >= v.raw1
      /\ v.pay \in Nat /\ v.minExpl0 \in Nat
  BY RawFees, CoinSelectionAssumption
<1>2. /\ v.minExpl1 \in Nat /\ v.minExpl1 >= v.raw1 /\ v.minExpl1 >= v.minExpl0
      /\ \A b \in Nat : v.minExpl0 <= b /\ v.raw1 <= b => v.minExpl1 <= b
  BY <1>1, CalcEqs DEF SetMax
<1>3. /\ v.expl1 \in Nat /\ v.expl1 >= v.minExpl1
      /\ v.expl1 >= info.explicitFee
      /\ \A b \in Nat : info.explicitFee <= b /\ v.minExpl1 <= b => v.expl1 <= b
  BY <1>2, CalcEqs DEF SetMax
<1>4. /\ v.minExpl2 \in Nat /\ v.minExpl2 >= v.minExpl1
      /\ (v.change1 => v.minExpl2 >= v.raw2)
      /\ (~v.change1 => v.raw2 = v.raw1)
      /\ \A b \in Nat : v.minExpl1 <= b /\ v.raw2 <= b => v.minExpl2 <= b
  BY <1>1, <1>2, RawFees, CalcEqs DEF SetMax
<1>5. v.retry => v.minExpl2 > v.expl1 /\ v.change1
  BY CalcEqs
<1>6. ~v.retry /\ v.change1 => v.expl1 >= v.minExpl2
  BY <1>3, <1>4, CalcEqs
<1>7. QED
  BY <1>1, <1>2, <1>3, <1>4, <1>5, <1>6

(* The minimal raw fee of a call is the exact fee of the kernel, the     *)
(* payment and each change output, and the explicit fee set covers it.  *)
LEMMA CalculateFee ==
  ASSUME InfoOK, NEW isPush \in BOOLEAN, NEW sa, NEW sb1, NEW sb2,
         Calculate(isPush, sa, sb1, sb2)
  PROVE  InfoOK' /\ FeeCoversOutputs'
<1> DEFINE v == Calc(isPush, sa, sb1, sb2)
           e == IF v.retry THEN v.minExpl2 ELSE v.expl1
<1>0. v = Calc(isPush, sa, sb1, sb2) /\ e = IF v.retry THEN v.minExpl2 ELSE v.expl1
  BY DEF v, e
<1> HIDE DEF v, e
<1>1. /\ info'.explicitFee = e
      /\ info'.changeBeam = v.changeB
      /\ info'.changeAsset = IF info.assetID = 0 THEN v.changeB
                             ELSE IF v.changeA
                                  THEN Sub(sa.sum, info.requestedSum) ELSE 0
      /\ info'.assetID = info.assetID /\ info'.requestedSum = info.requestedSum
      /\ DOMAIN info' = DOMAIN info
      /\ push' = isPush
  BY <1>0, CalcStep
<1>2. e \in Nat /\ e >= v.raw2
  <2>1. info.explicitFee \in Nat
    BY DEF InfoOK
  <2>2. QED
    BY <1>0, <2>1, ExplicitFee
<1>3. v.changeB > 0 => v.change1
  <2>1. /\ v.sb = IF v.retry THEN sb2 ELSE sb1
        /\ v.val3 = Add(v.val2, v.sb.invol)
        /\ v.val2 = IF v.retry THEN Add(v.val1, Sub(v.minExpl2, v.expl1))
                                ELSE v.val1
        /\ v.changeB = IF v.sb.sum > v.val3 THEN Sub(v.sb.sum, v.val3) ELSE 0
        /\ v.retry = (v.change1 /\ v.expl1 < v.minExpl2)
        /\ v.change1 = (sb1.sum > Add(v.val1, sb1.invol))
    BY <1>0, CalcEqs
  <2>2. v.changeB > 0 => v.sb.sum > v.val3
    BY <2>1
  <2>3. QED
    BY <2>1, <2>2, Zenon
<1>4. /\ v.raw2 = v.raw1 + (IF v.change1 THEN Fs.output ELSE 0)
      /\ v.raw1 = Fs.kernel + v.pay + (IF v.changeA THEN Fs.output ELSE 0)
      /\ v.pay \in Nat
  BY <1>0, RawFees
<1>5. /\ v.pay = IF isPush THEN Fs.shieldedOutputTotal ELSE Fs.output
      /\ v.changeA = (info.assetID # 0 /\ sa.sum > info.requestedSum)
      /\ v.change1 = (sb1.sum > Add(v.val1, sb1.invol))
  BY <1>0, CalcEqs
<1>6. InfoOK'
  BY <1>1, <1>2 DEF InfoOK
<1>7. /\ info'.assetID # 0 /\ info'.changeAsset > 0 => v.changeA
      /\ info'.changeBeam > 0 => v.change1
  <2>1. info.assetID # 0 /\ ~v.changeA => info'.changeAsset = 0
    BY <1>1, Zenon
  <2>2. info'.changeBeam > 0 => v.change1
    BY <1>1, <1>3, Zenon
  <2>3. QED
    BY <1>1, <1>5, <2>1, <2>2
<1>8. info'.explicitFee >=
          Fs.kernel
          + (IF push' THEN Fs.shieldedOutputTotal ELSE Fs.output)
          + (IF info'.assetID # 0 /\ info'.changeAsset > 0
                 THEN Fs.output ELSE 0)
          + (IF info'.changeBeam > 0 THEN Fs.output ELSE 0)
  <2>1. v.changeA \in BOOLEAN /\ v.change1 \in BOOLEAN
    BY <1>5
  <2>2. Fs.kernel \in Nat /\ Fs.output \in Nat
    BY CoinSelectionAssumption
  <2>3. QED
    BY <1>1, <1>2, <1>4, <1>5, <1>7, <2>1, <2>2
<1>9. QED
  BY <1>6, <1>8 DEF FeeCoversOutputs

-----------------------------------------------------------------------------
(* Amounts that do not wrap.  eb bounds every explicit fee a call can    *)
(* set: the fees a caller presets, the defaults, and the raw fee of a    *)
(* kernel, the payment and two change outputs.                           *)
FeeBound(eb) ==
    /\ \A f \in ExplicitFees : f <= eb
    /\ Fs.defaultStd <= eb /\ Fs.defaultShieldedOut <= eb
    /\ Fs.kernel + Fs.shieldedOutputTotal + 2 * Fs.output <= eb
    /\ Fs.kernel + 3 * Fs.output <= eb

(* What a Beam selection must cover, the request (for a Beam payment), a *)
(* fee up to eb and the involuntary fees of both selections, is an       *)
(* Amount.                                                                 *)
NoWrap(eb) ==
    /\ \A r \in Requests, y \in Selections(0) :
          r + eb + y.invol < 2 ^ AmountBits
    /\ \A aid \in AssetIDs \ {0} :
          \A x \in Selections(aid), y \in Selections(0) :
             eb + x.invol + y.invol < 2 ^ AmountBits

(* The asset selections Next offers: none for a Beam payment. *)
AssetSel == IF info.assetID # 0 THEN Selections(info.assetID)
            ELSE {[sum |-> 0, invol |-> 0]}

(* When nothing wraps, the amount the Beam selection must cover is the   *)
(* request (for a Beam payment), the explicit fee set, and the           *)
(* involuntary fees of both selections, in exact integers.              *)
LEMMA CalcValue ==
  ASSUME NEW eb \in Nat, FeeBound(eb), NoWrap(eb),
         info.requestedSum \in Requests, info.assetID \in AssetIDs,
         info.explicitFee \in Nat, info.explicitFee <= eb,
         NEW isPush \in BOOLEAN, NEW sa \in AssetSel,
         NEW sb1 \in Selections(0), NEW sb2 \in Selections(0),
         NEW v, v = Calc(isPush, sa, sb1, sb2)
  PROVE  LET e == IF v.retry THEN v.minExpl2 ELSE v.expl1
         IN  /\ e \in Nat /\ e <= eb
             /\ v.sb \in Selections(0)
             /\ v.invol1 \in Nat /\ v.val0 \in Nat
             /\ v.val3 = v.val0 + e + v.invol1 + v.sb.invol
             /\ v.val3 < 2 ^ AmountBits
             /\ Add(v.invol1, v.sb.invol) = v.invol1 + v.sb.invol
<1> DEFINE M == 2 ^ AmountBits
           e == IF v.retry THEN v.minExpl2 ELSE v.expl1
<1>0. e = IF v.retry THEN v.minExpl2 ELSE v.expl1
  BY DEF e
<1> HIDE DEF e
<1>1. M \in Nat /\ M > 0
  BY AmountRange
<1>2. /\ v.pay = IF isPush THEN Fs.shieldedOutputTotal ELSE Fs.output
      /\ v.minExpl0 = IF isPush THEN Fs.defaultShieldedOut ELSE Fs.defaultStd
      /\ v.invol1 = IF info.assetID # 0 THEN sa.invol ELSE 0
      /\ v.val0 = IF info.assetID # 0 THEN 0 ELSE info.requestedSum
      /\ v.val1 = Add(v.val0, Add(v.expl1, v.invol1))
      /\ v.val3 = Add(v.val2, v.sb.invol)
  BY CalcEqs
(* The retry, and what it changes. *)
<1>3. /\ v.retry = (v.change1 /\ v.expl1 < v.minExpl2)
      /\ v.change1 = (sb1.sum > Add(v.val1, sb1.invol))
  BY CalcEqs
<1>4. v.retry \in BOOLEAN /\ (v.retry => v.expl1 < v.minExpl2)
  BY <1>3, Zenon
<1>5. /\ v.val2 = IF v.retry THEN Add(v.val1, Sub(v.minExpl2, v.expl1))
                             ELSE v.val1
      /\ v.sb = IF v.retry THEN sb2 ELSE sb1
  BY CalcEqs
<1>6. /\ Fs.kernel \in Nat /\ Fs.output \in Nat /\ Fs.shieldedOutputTotal \in Nat
      /\ Fs.defaultStd \in Nat /\ Fs.defaultShieldedOut \in Nat
  BY CoinSelectionAssumption
(* The fee set is bounded by eb, and covers the first explicit fee. *)
<1>7. e \in Nat /\ e <= eb /\ v.expl1 \in Nat /\ v.expl1 <= e
  <2>1. v.raw2 <= Fs.kernel + v.pay + 2 * Fs.output /\ v.raw2 \in Nat
    BY RawFees, CoinSelectionAssumption
  <2>2. v.minExpl0 <= eb
    BY <1>2, <1>6 DEF FeeBound
  <2>3. v.raw2 <= eb
    BY <1>2, <1>6, <2>1 DEF FeeBound
  <2>4. QED
    BY <1>0, <2>2, <2>3, ExplicitFee
(* Both selections are Amounts of their kind. *)
<1>8. v.sb \in Selections(0) /\ v.sb.invol \in 0..(M - 1)
  <2>1. v.sb \in Selections(0)
    BY <1>4, <1>5
  <2>2. QED
    BY <2>1, SelectionAmount
<1>9. v.invol1 \in 0..(M - 1) /\ v.val0 \in Nat
  <2>1. info.assetID # 0 => v.invol1 \in 0..(M - 1) /\ v.val0 = 0
    <3>1. info.assetID # 0 => sa \in Selections(info.assetID)
      BY DEF AssetSel
    <3>2. QED
      BY <1>2, <3>1, SelectionAmount
  <2>2. info.assetID = 0 => v.invol1 = 0 /\ v.val0 = info.requestedSum
    BY <1>2
  <2>3. info.requestedSum \in Nat
    BY CoinSelectionAssumption
  <2>4. QED
    BY <1>1, <2>1, <2>2, <2>3
(* Everything the selection must cover is below 2^AmountBits. *)
<1>10. v.val0 + e + v.invol1 + v.sb.invol < M
  <2>1. info.assetID = 0 => info.requestedSum + eb + v.sb.invol < M
    BY <1>8 DEF NoWrap
  <2>2. info.assetID # 0 => eb + sa.invol + v.sb.invol < M
    <3>1. info.assetID # 0 => sa \in Selections(info.assetID)
      BY DEF AssetSel
    <3>2. QED
      BY <1>8, <3>1 DEF NoWrap
  <2>3. info.requestedSum \in Nat
    BY CoinSelectionAssumption
  <2>4. info.assetID = 0 => v.val0 + e + v.invol1 + v.sb.invol < M
    BY <1>1, <1>2, <1>7, <1>8, <2>1, <2>3
  <2>5. info.assetID # 0 => v.val0 + e + v.invol1 + v.sb.invol < M
    BY <1>1, <1>2, <1>7, <1>8, <1>9, <2>2
  <2>6. QED
    BY <2>4, <2>5
<1>11. v.val1 = v.val0 + v.expl1 + v.invol1
  <2>1. /\ v.expl1 + v.invol1 \in 0..(M - 1)
        /\ v.val0 + (v.expl1 + v.invol1) \in 0..(M - 1)
    BY <1>1, <1>7, <1>8, <1>9, <1>10
  <2>2. Add(v.expl1, v.invol1) = v.expl1 + v.invol1
    BY <1>1, <2>1 DEF Add
  <2>3. Add(v.val0, v.expl1 + v.invol1) = v.val0 + (v.expl1 + v.invol1)
    BY <1>1, <2>1 DEF Add
  <2>4. QED
    BY <1>2, <1>7, <1>9, <2>2, <2>3
<1>12. v.val2 = v.val0 + e + v.invol1
  <2>1. CASE v.retry
    <3>1. v.expl1 < v.minExpl2 /\ e = v.minExpl2
      BY <1>0, <1>4, <2>1
    <3>2. /\ v.minExpl2 - v.expl1 \in 0..(M - 1)
          /\ v.val1 + (v.minExpl2 - v.expl1) \in 0..(M - 1)
          /\ v.val1 + (v.minExpl2 - v.expl1) = v.val0 + e + v.invol1
      BY <1>1, <1>7, <1>8, <1>9, <1>10, <1>11, <3>1
    <3>3. Sub(v.minExpl2, v.expl1) = v.minExpl2 - v.expl1
      BY <1>1, <3>2 DEF Sub
    <3>4. Add(v.val1, v.minExpl2 - v.expl1) = v.val1 + (v.minExpl2 - v.expl1)
      BY <1>1, <3>2 DEF Add
    <3>5. QED
      BY <1>5, <2>1, <3>2, <3>3, <3>4
  <2>2. CASE ~v.retry
    BY <1>0, <1>5, <1>11, <2>2
  <2>3. QED
    BY <1>4, <2>1, <2>2
<1>13. v.val3 = v.val0 + e + v.invol1 + v.sb.invol
  <2>1. v.val2 + v.sb.invol \in 0..(M - 1)
    BY <1>1, <1>7, <1>8, <1>9, <1>10, <1>12
  <2>2. Add(v.val2, v.sb.invol) = v.val2 + v.sb.invol
    BY <1>1, <2>1 DEF Add
  <2>3. QED
    BY <1>2, <1>12, <2>2
<1>14. Add(v.invol1, v.sb.invol) = v.invol1 + v.sb.invol
  <2>1. v.invol1 + v.sb.invol \in 0..(M - 1)
    BY <1>1, <1>7, <1>8, <1>9, <1>10
  <2>2. QED
    BY <1>1, <2>1 DEF Add
<1>15. QED
  BY <1>0, <1>7, <1>8, <1>9, <1>10, <1>13, <1>14

(* When nothing wraps, a call keeps the explicit fee within eb, and a    *)
(* selection it reports enough balances: the Beams selected pay the      *)
(* request (for a Beam payment), the fees and the change, the asset      *)
(* selected pays the request and its change, and get_NettoValue is the   *)
(* request.                                                               *)
LEMMA CalculateValue ==
  ASSUME InfoOK, NEW eb \in Nat, FeeBound(eb), NoWrap(eb),
         info.requestedSum \in Requests, info.assetID \in AssetIDs,
         info.explicitFee <= eb,
         NEW isPush \in BOOLEAN, NEW sa \in AssetSel,
         NEW sb1 \in Selections(0), NEW sb2 \in Selections(0),
         Calculate(isPush, sa, sb1, sb2)
  PROVE  /\ info'.explicitFee <= eb
         /\ ValueConserved'
         /\ NettoExact'
<1> DEFINE v == Calc(isPush, sa, sb1, sb2)
           e == IF v.retry THEN v.minExpl2 ELSE v.expl1
           M == 2 ^ AmountBits
           req == info.requestedSum
<1>0. v = Calc(isPush, sa, sb1, sb2) /\ e = IF v.retry THEN v.minExpl2 ELSE v.expl1
  BY DEF v, e
<1> HIDE DEF v, e
<1>1. /\ info'.explicitFee = e
      /\ info'.involuntaryFee = Add(v.invol1, v.sb.invol)
      /\ info'.selectedSumBeam = v.sb.sum
      /\ info'.selectedSumAsset = IF info.assetID # 0 THEN sa.sum ELSE v.sb.sum
      /\ info'.changeBeam = v.changeB
      /\ info'.changeAsset = IF info.assetID = 0 THEN v.changeB
                             ELSE IF v.changeA THEN Sub(sa.sum, req) ELSE 0
      /\ info'.assetID = info.assetID /\ info'.requestedSum = req
  BY <1>0, CalcStep
<1>2. info'.isEnought = (~(info.assetID # 0 /\ sa.sum < req) /\ v.sb.sum >= v.val3)
  BY <1>0, CalcStep
<1>3. /\ e \in Nat /\ e <= eb
      /\ v.sb \in Selections(0)
      /\ v.invol1 \in Nat /\ v.val0 \in Nat
      /\ v.val3 = v.val0 + e + v.invol1 + v.sb.invol
      /\ v.val3 < M
      /\ Add(v.invol1, v.sb.invol) = v.invol1 + v.sb.invol
  BY <1>0, CalcValue DEF InfoOK
<1>4. /\ M \in Nat /\ M > 0
      /\ v.sb.sum \in 0..(M - 1) /\ v.sb.invol \in 0..(M - 1)
      /\ req \in Nat
      /\ info.assetID # 0 => sa.sum \in 0..(M - 1)
  <2>1. info.assetID # 0 => sa \in Selections(info.assetID)
    BY DEF AssetSel
  <2>2. QED
    BY <1>3, <2>1, AmountRange, SelectionAmount, CoinSelectionAssumption
<1>5. /\ v.changeB = IF v.sb.sum > v.val3 THEN Sub(v.sb.sum, v.val3) ELSE 0
      /\ v.changeA = (info.assetID # 0 /\ sa.sum > req)
      /\ v.val0 = IF info.assetID # 0 THEN 0 ELSE req
  BY <1>0, CalcEqs
<1>6. v.changeA \in BOOLEAN
  BY <1>5
(* The Beam change is exact, and an Amount. *)
<1>7. /\ v.changeB \in 0..(M - 1)
      /\ v.sb.sum >= v.val3 => v.changeB = v.sb.sum - v.val3
  <2>1. v.sb.sum >= v.val3 => v.sb.sum - v.val3 \in 0..(M - 1)
    BY <1>3, <1>4
  <2>2. ASSUME v.sb.sum > v.val3
        PROVE  Sub(v.sb.sum, v.val3) = v.sb.sum - v.val3
    <3>1. v.sb.sum - v.val3 \in 0..(M - 1)
      BY <1>3, <1>4, <2>1, <2>2
    <3>2. QED
      BY <1>4, <3>1 DEF Sub
  <2>3. QED
    BY <1>3, <1>4, <1>5, <2>1, <2>2
(* The asset change is exact, and an Amount. *)
<1>8. /\ info'.changeAsset \in 0..(M - 1)
      /\ info.assetID # 0 /\ ~(sa.sum < req) =>
            info'.changeAsset = sa.sum - req
  <2>1. info.assetID # 0 /\ ~(sa.sum < req) => sa.sum - req \in 0..(M - 1)
    BY <1>4
  <2>2. ASSUME info.assetID # 0, ~(sa.sum < req)
        PROVE  Sub(sa.sum, req) = sa.sum - req
    <3>1. sa.sum - req \in 0..(M - 1)
      BY <2>1, <2>2
    <3>2. QED
      BY <1>4, <3>1 DEF Sub
  <2>3. ASSUME info.assetID # 0
        PROVE  Sub(sa.sum, req) \in 0..(M - 1)
    <3>1. sa.sum \in Int /\ req \in Int
      BY <1>4, <2>3
    <3>2. QED
      BY <3>1, AmountRange
  <2>4. info'.changeAsset \in 0..(M - 1)
    <3>1. CASE info.assetID = 0
      BY <1>1, <1>7, <3>1
    <3>2. CASE info.assetID # 0
      BY <1>1, <1>4, <1>6, <2>3, <3>2
    <3>3. QED
      BY <3>1, <3>2
  <2>5. ASSUME info.assetID # 0, ~(sa.sum < req)
        PROVE  info'.changeAsset = sa.sum - req
    <3>1. CASE v.changeA
      BY <1>1, <1>6, <2>2, <2>5, <3>1
    <3>2. CASE ~v.changeA
      <4>1. ~(sa.sum > req)
        BY <1>5, <2>5, <3>2, Zenon
      <4>2. QED
        BY <1>1, <1>4, <1>6, <2>5, <3>2, <4>1
    <3>3. QED
      BY <1>6, <3>1, <3>2
  <2>6. QED
    BY <2>4, <2>5
<1>9. info'.isEnought =>
        /\ v.sb.sum >= v.val3
        /\ info.assetID # 0 => ~(sa.sum < req)
  BY <1>2, Zenon
(* The two balances, under the conditions isEnought reports. *)
<1>10. v.sb.sum >= v.val3 =>
          info'.selectedSumBeam =
              (IF info'.assetID = 0 THEN info'.requestedSum ELSE 0)
              + info'.explicitFee + info'.involuntaryFee + info'.changeBeam
  BY <1>1, <1>3, <1>4, <1>5, <1>7
<1>11. info.assetID # 0 /\ ~(sa.sum < req) =>
          info'.selectedSumAsset = info'.requestedSum + info'.changeAsset
  BY <1>1, <1>4, <1>8
<1>12. ValueConserved'
  <2>1. info'.isEnought =>
          /\ info'.selectedSumBeam =
                 (IF info'.assetID = 0 THEN info'.requestedSum ELSE 0)
                 + info'.explicitFee + info'.involuntaryFee + info'.changeBeam
          /\ info'.assetID # 0 =>
                 info'.selectedSumAsset = info'.requestedSum + info'.changeAsset
    BY <1>1, <1>9, <1>10, <1>11, Zenon
  <2>2. QED
    BY <2>1 DEF ValueConserved
(* get_NettoValue, by the members of the new info. *)
<1>13. NettoExact'
  <2> DEFINE A  == info'.selectedSumAsset
             C  == info'.changeAsset
             TF == Add(info'.explicitFee, info'.involuntaryFee)
  <2>1. NettoValue' = IF info'.assetID # 0 THEN Sub(A, C)
                      ELSE IF Sub(A, C) > TF THEN Sub(Sub(A, C), TF) ELSE 0
    BY DEF NettoValue, TotalFee
  (* An asset payment nets its change. *)
  <2>2. info.assetID # 0 /\ ~(sa.sum < req) => Sub(A, C) = req
    <3>1. info.assetID # 0 /\ ~(sa.sum < req) =>
             A - C = req /\ req \in 0..(M - 1)
      BY <1>1, <1>4, <1>8, <1>11
    <3>2. QED
      BY <1>4, <3>1 DEF Sub
  (* A Beam payment nets its change and then the total fee. *)
  <2>3. TF = e + v.invol1 + v.sb.invol
    <3>1. e + (v.invol1 + v.sb.invol) \in 0..(M - 1)
      BY <1>3, <1>4
    <3>2. TF = Add(e, v.invol1 + v.sb.invol)
      BY <1>1, <1>3
    <3>3. Add(e, v.invol1 + v.sb.invol) = e + (v.invol1 + v.sb.invol)
      BY <1>4, <3>1 DEF Add
    <3>4. QED
      BY <1>3, <1>4, <3>2, <3>3
  <2>4. info.assetID = 0 /\ v.sb.sum >= v.val3 => Sub(A, C) = v.val3
    <3>1. info.assetID = 0 => A = v.sb.sum /\ C = v.changeB
      BY <1>1
    <3>2. v.sb.sum >= v.val3 =>
             v.sb.sum - v.changeB = v.val3 /\ v.val3 \in 0..(M - 1)
      BY <1>3, <1>4, <1>7
    <3>3. QED
      BY <1>4, <3>1, <3>2 DEF Sub
  <2>5. info.assetID = 0 => v.val3 = req + (e + v.invol1 + v.sb.invol)
    BY <1>3, <1>4, <1>5
  <2>6. info.assetID = 0 => Sub(v.val3, e + v.invol1 + v.sb.invol) = req
    <3>1. info.assetID = 0 =>
             v.val3 - (e + v.invol1 + v.sb.invol) = req /\ req \in 0..(M - 1)
      BY <1>3, <1>4, <2>5
    <3>2. QED
      BY <1>4, <3>1 DEF Sub
  <2>7. info.assetID = 0 /\ v.sb.sum >= v.val3 => NettoValue' = req
    BY <1>1, <1>3, <1>4, <2>1, <2>3, <2>4, <2>5, <2>6
  <2>8. info.assetID # 0 /\ ~(sa.sum < req) => NettoValue' = req
    BY <1>1, <2>1, <2>2
  <2>9. info'.isEnought => NettoValue' = info'.requestedSum
    BY <1>1, <1>9, <2>7, <2>8, Zenon
  <2>10. QED
    BY <2>9 DEF NettoExact
<1>14. QED
  BY <1>1, <1>3, <1>12, <1>13

-----------------------------------------------------------------------------
(* The inductive invariant: the shape of info, and the fee property.    *)
IInv == InfoOK /\ FeeCoversOutputs

(* The first state has a request and nothing selected. *)
LEMMA InitIInv == Init => IInv
<1> SUFFICES ASSUME Init PROVE IInv
  OBVIOUS
<1>1. InfoOK
  BY CoinSelectionAssumption DEF Init, InfoOK
<1>2. ~info.isEnought
  BY DEF Init
<1>3. QED
  BY <1>1, <1>2 DEF IInv, FeeCoversOutputs

(* Every step keeps IInv: a call to Calculate by CalculateFee, and a    *)
(* stutter trivially.                                                    *)
LEMMA NextIInv == IInv /\ [Next]_vars => IInv'
<1> SUFFICES ASSUME IInv, [Next]_vars PROVE IInv'
  OBVIOUS
<1>1. CASE Next
  <2>1. PICK isPush, sa, sb1, sb2 :
               isPush \in BOOLEAN /\ Calculate(isPush, sa, sb1, sb2)
    BY <1>1 DEF Next
  <2>2. QED
    BY <2>1, CalculateFee DEF IInv
<1>2. CASE UNCHANGED vars
  BY <1>2 DEF IInv, InfoOK, FeeCoversOutputs, vars
<1>3. QED
  BY <1>1, <1>2

(* The explicit fee of a selection reported enough covers the kernel,    *)
(* the payment output and each change output CoinsSelectionInfo::         *)
(* Calculate adds, for every request, explicit fee, coin set and fee       *)
(* schedule that satisfies FeesFit, and over any number of calls.          *)
THEOREM FeeCoversOutputsHolds == Spec => []FeeCoversOutputs
<1>1. IInv => FeeCoversOutputs
  BY DEF IInv
<1>2. QED
  BY InitIInv, NextIInv, <1>1, PTL DEF Spec

-----------------------------------------------------------------------------
(* The inductive invariant of the value properties: the shape of info,   *)
(* a request and asset a caller may give, an explicit fee within eb, and  *)
(* the two properties.                                                    *)
VInv(eb) ==
    /\ InfoOK
    /\ info.requestedSum \in Requests /\ info.assetID \in AssetIDs
    /\ info.explicitFee <= eb
    /\ ValueConserved /\ NettoExact

(* The first state has a preset fee within eb and nothing selected. *)
LEMMA InitVInv ==
  ASSUME NEW eb \in Nat, FeeBound(eb)
  PROVE  Init => VInv(eb)
<1> SUFFICES ASSUME Init PROVE VInv(eb)
  OBVIOUS
<1>1. InfoOK
  BY CoinSelectionAssumption DEF Init, InfoOK
<1>2. info.requestedSum \in Requests /\ info.assetID \in AssetIDs
      /\ info.explicitFee \in ExplicitFees
  BY DEF Init
<1>3. info.explicitFee <= eb
  BY <1>2 DEF FeeBound
<1>4. ~info.isEnought
  BY DEF Init
<1>5. QED
  BY <1>1, <1>2, <1>3, <1>4 DEF VInv, ValueConserved, NettoExact

(* Every step keeps VInv(eb): a call by CalculateFee and CalculateValue, *)
(* and a stutter trivially.                                               *)
LEMMA NextVInv ==
  ASSUME NEW eb \in Nat, FeeBound(eb), NoWrap(eb)
  PROVE  VInv(eb) /\ [Next]_vars => VInv(eb)'
<1> SUFFICES ASSUME VInv(eb), [Next]_vars PROVE VInv(eb)'
  OBVIOUS
<1>1. CASE Next
  <2>1. PICK isPush, sa, sb1, sb2 :
               /\ isPush \in BOOLEAN /\ sa \in AssetSel
               /\ sb1 \in Selections(0) /\ sb2 \in Selections(0)
               /\ Calculate(isPush, sa, sb1, sb2)
    BY <1>1 DEF Next, AssetSel
  <2>2. InfoOK'
    BY <2>1, CalculateFee DEF VInv
  <2>3. info'.requestedSum = info.requestedSum /\ info'.assetID = info.assetID
    BY <2>1, CalcStep DEF VInv
  <2>4. info'.explicitFee <= eb /\ ValueConserved' /\ NettoExact'
    BY <2>1, CalculateValue DEF VInv
  <2>5. QED
    BY <2>2, <2>3, <2>4 DEF VInv
<1>2. CASE UNCHANGED vars
  BY <1>2 DEF VInv, InfoOK, ValueConserved, NettoExact, NettoValue, TotalFee,
              vars
<1>3. QED
  BY <1>1, <1>2

(* The value balance CoinsSelectionInfo::Calculate reports is exact      *)
(* whenever no Amount wraps: a selection reported enough pays, in Beams, *)
(* the request (for a Beam payment), the explicit and involuntary fees   *)
(* and the change, and in the asset the request and its change; for     *)
(* every coin set, fee schedule and request bounded by FeeBound and      *)
(* NoWrap, across the retry and repeated calls.                         *)
THEOREM ValueConservedHolds ==
  ASSUME NEW eb \in Nat, FeeBound(eb), NoWrap(eb)
  PROVE  Spec => []ValueConserved
<1>1. Init => VInv(eb)
  BY InitVInv
<1>2. VInv(eb) /\ [Next]_vars => VInv(eb)'
  BY NextVInv
<1>3. VInv(eb) => ValueConserved
  BY DEF VInv
<1>4. QED
  BY <1>1, <1>2, <1>3, PTL DEF Spec

(* get_NettoValue of a selection reported enough is the request, under   *)
(* the same bounds: the receiver gets exactly what was asked for.        *)
THEOREM NettoExactHolds ==
  ASSUME NEW eb \in Nat, FeeBound(eb), NoWrap(eb)
  PROVE  Spec => []NettoExact
<1>1. Init => VInv(eb)
  BY InitVInv
<1>2. VInv(eb) /\ [Next]_vars => VInv(eb)'
  BY NextVInv
<1>3. VInv(eb) => NettoExact
  BY DEF VInv
<1>4. QED
  BY <1>1, <1>2, <1>3, PTL DEF Spec
====
