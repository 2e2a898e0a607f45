----------------------------- MODULE FluffProofs -----------------------------
(***************************************************************************)
(* Proofs about the Fluff pool, for every finite set of elements, keys and *)
(* peers.  The type invariant is not inductive on its own: Release         *)
(* decrements Send::m_Refs, and that stays a natural number only because   *)
(* every holder of a record is counted in it.  The inductive invariant     *)
(* IInv therefore carries the index invariant, the reference accounting   *)
(* and one fact about history: a record with references belongs to an     *)
(* element that has been Fluffed, so a record is never created twice.      *)
(***************************************************************************)
EXTENDS Fluff, FiniteSetTheorems, TLAPS

(* A Send record with references was created by an element that reached *)
(* Fluffed. *)
RecordHistory ==
    \A r \in Elems : refs[r] > 0 => st[r] \in {"Fluffed", "Outdated", "Gone"}

IInv == TypeOK /\ IndexesMatchState /\ RefsAccounted /\ RecordHistory

-----------------------------------------------------------------------------
(* The holders of a record form a finite set. *)
LEMMA HoldersFinite ==
    ASSUME NEW r
    PROVE  IsFiniteSet(Holders(r)) /\ Cardinality(Holders(r)) \in Nat
<1>1. Holders(r) \subseteq Peers
    BY DEF Holders
<1>2. QED
    BY <1>1, ConstAssumption, FS_Subset, FS_CardinalityType

(* Holders(r) only changes with the cursors. *)
LEMMA HoldersUnchanged ==
    ASSUME UNCHANGED cursor, NEW r
    PROVE  Holders(r)' = Holders(r)
BY DEF Holders

(* The step of SetState(x, f0, f) from the features of x's state to the *)
(* features of its new state s1 preserves IInv.  The hypotheses are what *)
(* AddValidTx, SetState and Delete guarantee: SendAndProfit is only     *)
(* gained by an element that never had it (Free or PreFluffed), and an  *)
(* element only becomes PreFluffed when it is created.                  *)
LEMMA DiffStep ==
    ASSUME IInv,
           NEW x \in Elems, NEW s1 \in States \cup {"Gone"},
           st[x] \in States \cup {"Free"},
           s1 = "Fluffed" => st[x] \in {"Free", "PreFluffed"},
           s1 = "PreFluffed" => st[x] = "Free",
           SetStateDiff(x, ElemFeatures(x),
                        IF s1 \in States THEN FeaturesOf(s1) ELSE {}),
           st' = [st EXCEPT ![x] = s1],
           key' \in [Elems -> Keys \cup {NoKey}],
           UNCHANGED <<cursor, sends>>
    PROVE  IInv'
<1> DEFINE f0 == ElemFeatures(x)
           f1 == IF s1 \in States THEN FeaturesOf(s1) ELSE {}
<1> USE DEF IInv
<1>1. /\ ElemFeatures(x)' = f1
      /\ \A y \in Elems \ {x} : ElemFeatures(y)' = ElemFeatures(y)
    BY DEF TypeOK, ElemFeatures
<1>2. /\ \A y \in Elems \ {x} : st'[y] = st[y]
      /\ st' \in [Elems -> States \cup {"Free", "Gone"}]
    BY DEF TypeOK
<1>3. \A y \in Elems :
        /\ y \in setTxs'    <=> "TxSet" \in ElemFeatures(y)'
        /\ y \in setProfit' <=> "SendAndProfit" \in ElemFeatures(y)'
        /\ y \in waitFluff' <=> "WaitFluff" \in ElemFeatures(y)'
        /\ y \in outdated'  <=> "Outdated" \in ElemFeatures(y)'
    BY <1>1 DEF SetStateDiff, Toggle, IndexesMatchState
<1>4. /\ setTxs' \subseteq Elems /\ setProfit' \subseteq Elems
      /\ waitFluff' \subseteq Elems /\ outdated' \subseteq Elems
    BY DEF SetStateDiff, Toggle, TypeOK
<1>6. CASE "SendAndProfit" \in f0 <=> "SendAndProfit" \in f1
    <2>1. UNCHANGED <<pSend, owner, refs, queue, seqNo, nseq>>
        BY <1>6 DEF SetStateDiff
    <2>2. TypeOK'
        BY <2>1, <1>2, <1>4 DEF TypeOK
    <2>3. IndexesMatchState'
        <3>1. \A y \in Elems : pSend'[y] <=> "SendAndProfit" \in ElemFeatures(y)'
            BY <2>1, <1>1, <1>6 DEF IndexesMatchState
        <3>2. QED
            BY <3>1, <1>3 DEF IndexesMatchState
    <2>4. RefsAccounted'
        BY <2>1, HoldersUnchanged DEF RefsAccounted
    <2>5. RecordHistory'
        <3>1. SUFFICES ASSUME refs[x] > 0 PROVE s1 \in {"Fluffed", "Outdated", "Gone"}
            BY <2>1, <1>2 DEF RecordHistory
        <3>2. st[x] \in {"Fluffed", "Outdated", "Gone"}
            BY <3>1 DEF RecordHistory
        <3>3. s1 # "PreFluffed"
            BY <3>2
        <3>4. QED
            BY <3>3 DEF States
    <2>6. QED
        BY <2>2, <2>3, <2>4, <2>5
<1>7. CASE "SendAndProfit" \in f1 /\ "SendAndProfit" \notin f0
    <2>1. /\ pSend' = [pSend EXCEPT ![x] = TRUE]
          /\ owner' = [owner EXCEPT ![x] = TRUE]
          /\ refs'  = [refs EXCEPT ![x] = 1]
          /\ queue' = queue \cup {x}
          /\ seqNo' = [seqNo EXCEPT ![x] = nseq]
          /\ nseq'  = nseq + 1
        BY <1>7 DEF SetStateDiff
    <2>2. s1 = "Fluffed"
        BY <1>7 DEF FeaturesOf, States
    <2>3. refs[x] = 0
        BY <2>2 DEF RecordHistory, TypeOK
    <2>4. ~owner[x] /\ Cardinality(Holders(x)) = 0
        <3>1. Cardinality(Holders(x)) \in Nat
            BY HoldersFinite
        <3>2. QED
            BY <2>3, <3>1 DEF RefsAccounted
    <2>5. TypeOK'
        BY <2>1, <1>2, <1>4 DEF TypeOK
    <2>6. IndexesMatchState'
        <3>1. \A y \in Elems : pSend'[y] <=> "SendAndProfit" \in ElemFeatures(y)'
            BY <2>1, <1>1, <1>7 DEF IndexesMatchState, TypeOK
        <3>2. QED
            BY <3>1, <1>3 DEF IndexesMatchState
    <2>7. RefsAccounted'
        <3> SUFFICES ASSUME NEW r \in Elems
                     PROVE  /\ refs'[r] = (IF owner'[r] THEN 1 ELSE 0)
                                          + Cardinality(Holders(r)')
                            /\ r \in queue' <=> refs'[r] > 0
                            /\ owner'[r] <=> pSend'[r]
            BY DEF RefsAccounted
        <3>1. Holders(r)' = Holders(r)
            BY HoldersUnchanged
        <3>2. CASE r = x
            BY <3>1, <3>2, <2>1, <2>4 DEF TypeOK
        <3>3. CASE r # x
            BY <3>1, <3>3, <2>1 DEF TypeOK, RefsAccounted
        <3>4. QED
            BY <3>2, <3>3
    <2>8. RecordHistory'
        BY <2>1, <2>2, <1>2 DEF RecordHistory, TypeOK
    <2>9. QED
        BY <2>5, <2>6, <2>7, <2>8
<1>8. CASE "SendAndProfit" \in f0 /\ "SendAndProfit" \notin f1
    <2>1. /\ pSend' = [pSend EXCEPT ![x] = FALSE]
          /\ owner' = [owner EXCEPT ![x] = FALSE]
          /\ refs'  = [refs EXCEPT ![x] = refs[x] - 1]
          /\ queue' = IF refs[x] = 1 THEN queue \ {x} ELSE queue
          /\ UNCHANGED <<seqNo, nseq>>
        BY <1>8 DEF SetStateDiff, ResetThis, RelRefs, RelQueue
    <2>2. pSend[x] /\ owner[x]
        <3>1. pSend[x]
            BY <1>8 DEF IndexesMatchState
        <3>2. QED
            BY <3>1 DEF RefsAccounted
    <2>3. refs[x] >= 1
        <3>1. Cardinality(Holders(x)) \in Nat
            BY HoldersFinite
        <3>2. QED
            BY <2>2, <3>1 DEF RefsAccounted
    <2>4. TypeOK'
        BY <2>1, <2>3, <1>2, <1>4 DEF TypeOK
    <2>5. IndexesMatchState'
        <3>1. \A y \in Elems : pSend'[y] <=> "SendAndProfit" \in ElemFeatures(y)'
            BY <2>1, <1>1, <1>8 DEF IndexesMatchState, TypeOK
        <3>2. QED
            BY <3>1, <1>3 DEF IndexesMatchState
    <2>6. RefsAccounted'
        <3> SUFFICES ASSUME NEW r \in Elems
                     PROVE  /\ refs'[r] = (IF owner'[r] THEN 1 ELSE 0)
                                          + Cardinality(Holders(r)')
                            /\ r \in queue' <=> refs'[r] > 0
                            /\ owner'[r] <=> pSend'[r]
            BY DEF RefsAccounted
        <3>1. Holders(r)' = Holders(r)
            BY HoldersUnchanged
        <3>2. CASE r = x
            <4>1. Cardinality(Holders(x)) \in Nat
                BY HoldersFinite
            <4>5. refs[x] = 1 + Cardinality(Holders(x))
                BY <2>2 DEF RefsAccounted
            <4>6. refs'[x] = refs[x] - 1
                BY <2>1 DEF TypeOK
            <4>2. refs'[x] = Cardinality(Holders(x)) /\ ~owner'[x] /\ ~pSend'[x]
                BY <2>1, <4>1, <4>5, <4>6 DEF TypeOK
            <4>3. x \in queue' <=> refs'[x] > 0
                BY <2>1, <2>3, <4>1 DEF TypeOK, RefsAccounted
            <4>4. QED
                BY <3>1, <3>2, <4>1, <4>2, <4>3
        <3>3. CASE r # x
            BY <3>1, <3>3, <2>1 DEF TypeOK, RefsAccounted
        <3>4. QED
            BY <3>2, <3>3
    <2>7. RecordHistory'
        <3>1. st[x] = "Fluffed"
            <4>1. st[x] \in States
                BY <1>8 DEF ElemFeatures
            <4>2. "SendAndProfit" \in FeaturesOf(st[x])
                BY <4>1, <1>8 DEF ElemFeatures
            <4>3. QED
                BY <4>1, <4>2 DEF FeaturesOf, States
        <3>2. s1 \in {"Outdated", "Gone"}
            BY <3>1, <1>8 DEF FeaturesOf, States
        <3>3. QED
            BY <2>1, <3>2, <1>2 DEF RecordHistory, TypeOK
    <2>8. QED
        BY <2>4, <2>5, <2>6, <2>7
<1>9. QED
    BY <1>6, <1>7, <1>8

LEMMA AddValidTxIInv ==
    ASSUME IInv, NEW x \in Elems, NEW k \in Keys, NEW s \in States,
           AddValidTx(x, k, s)
    PROVE  IInv'
<1>1. ElemFeatures(x) = {} /\ st[x] = "Free"
    BY DEF AddValidTx, ElemFeatures, States
<1>2. SetStateDiff(x, ElemFeatures(x), IF s \in States THEN FeaturesOf(s) ELSE {})
    BY <1>1 DEF AddValidTx
<1>3. key' \in [Elems -> Keys \cup {NoKey}]
    BY DEF AddValidTx, IInv, TypeOK
<1>4. QED
    BY <1>1, <1>2, <1>3, DiffStep DEF AddValidTx, States

LEMMA SetStateIInv ==
    ASSUME IInv, NEW x \in Elems, NEW s \in States, SetState(x, s)
    PROVE  IInv'
<1>1. st[x] \in States
    BY DEF SetState, Live
<1>2. SetStateDiff(x, ElemFeatures(x), IF s \in States THEN FeaturesOf(s) ELSE {})
    BY <1>1 DEF SetState, ElemFeatures
<1>3. /\ s = "Fluffed" => st[x] = "PreFluffed"
      /\ s # "PreFluffed"
    BY DEF SetState, Transitions
<1>4. key' \in [Elems -> Keys \cup {NoKey}]
    BY DEF SetState, IInv, TypeOK
<1>5. QED
    BY <1>1, <1>2, <1>3, <1>4, DiffStep DEF SetState

LEMMA DeleteIInv ==
    ASSUME IInv, NEW x \in Elems, Delete(x)
    PROVE  IInv'
<1>1. st[x] \in States
    BY DEF Delete, Live
<1>2. SetStateDiff(x, ElemFeatures(x), IF "Gone" \in States THEN FeaturesOf("Gone") ELSE {})
    BY <1>1 DEF Delete, ElemFeatures, States
<1>3. key' \in [Elems -> Keys \cup {NoKey}]
    BY DEF Delete, IInv, TypeOK
<1>4. QED
    BY <1>1, <1>2, <1>3, DiffStep DEF Delete

(* Clear() preserves IInv: each live element's send record loses the   *)
(* owner's reference, and leaves the queue when no peer holds it.       *)
LEMMA ClearIInv ==
    ASSUME IInv, Clear
    PROVE  IInv'
<1> DEFINE D == {x \in Live : pSend[x]}
<1> USE DEF IInv
<1>1. /\ \A y \in Elems : ElemFeatures(y)' = {}
      /\ st' \in [Elems -> States \cup {"Free", "Gone"}]
    BY DEF Clear, ElemFeatures, Live, States, TypeOK
<1>2. \A y \in Elems : y \in D <=> pSend[y] /\ owner[y]
    <2>1. \A y \in Elems : pSend[y] => y \in Live
        BY DEF IndexesMatchState, ElemFeatures, Live
    <2>2. QED
        BY <2>1 DEF RefsAccounted
<1>3. /\ pSend' = [y \in Elems |-> IF y \in D THEN FALSE ELSE pSend[y]]
      /\ owner' = [y \in Elems |-> IF y \in D THEN FALSE ELSE owner[y]]
      /\ refs' = [y \in Elems |-> IF y \in D THEN refs[y] - 1 ELSE refs[y]]
      /\ queue' = queue \ {r \in D : refs[r] = 1}
      /\ UNCHANGED <<key, cursor, sends, seqNo, nseq>>
      /\ setTxs' = {} /\ setProfit' = {} /\ waitFluff' = {} /\ outdated' = {}
    BY DEF Clear
<1>4. \A y \in D : refs[y] >= 1
    <2> SUFFICES ASSUME NEW y \in D PROVE refs[y] >= 1
        OBVIOUS
    <2>1. Cardinality(Holders(y)) \in Nat
        BY HoldersFinite
    <2>2. QED
        BY <1>2, <2>1 DEF RefsAccounted, Live
<1>5. TypeOK'
    <2>1. refs' \in [Elems -> Nat]
        BY <1>3, <1>4 DEF TypeOK
    <2>2. /\ pSend' \in [Elems -> BOOLEAN]
          /\ owner' \in [Elems -> BOOLEAN]
          /\ queue' \subseteq Elems
        BY <1>3 DEF TypeOK
    <2>3. QED
        BY <1>1, <1>3, <2>1, <2>2 DEF TypeOK
<1>6. IndexesMatchState'
    <2>1. \A y \in Elems : ~pSend'[y]
        BY <1>2, <1>3 DEF IndexesMatchState, ElemFeatures, Live
    <2>2. QED
        BY <1>1, <1>3, <2>1 DEF IndexesMatchState
<1>7. RefsAccounted'
    <2> SUFFICES ASSUME NEW r \in Elems
                 PROVE  /\ refs'[r] = (IF owner'[r] THEN 1 ELSE 0)
                                      + Cardinality(Holders(r)')
                        /\ r \in queue' <=> refs'[r] > 0
                        /\ owner'[r] <=> pSend'[r]
        BY DEF RefsAccounted
    <2>1. Holders(r)' = Holders(r) /\ Cardinality(Holders(r)) \in Nat
        BY <1>3, HoldersUnchanged, HoldersFinite
    <2>2. CASE r \in D
        <3>1. refs[r] = 1 + Cardinality(Holders(r))
            BY <2>2, <1>2 DEF RefsAccounted, Live
        <3>2. QED
            BY <2>1, <2>2, <3>1, <1>3 DEF RefsAccounted
    <2>3. CASE r \notin D
        BY <2>1, <2>3, <1>3 DEF RefsAccounted
    <2>4. QED
        BY <2>2, <2>3
<1>8. RecordHistory'
    BY <1>3, <1>4 DEF Clear, RecordHistory, TypeOK, Live, States
<1>9. QED
    BY <1>5, <1>6, <1>7, <1>8

(* The cursor of peer p moves from its record to record n. *)
LEMMA HoldersMove ==
    ASSUME TypeOK, NEW p \in Peers, NEW n \in Elems, NEW c, c = cursor[p],
           c # n, cursor' = [cursor EXCEPT ![p] = n]
    PROVE  /\ Holders(n)' = Holders(n) \cup {p}
           /\ p \notin Holders(n)
           /\ \A r \in Elems \ {n, c} : Holders(r)' = Holders(r)
           /\ Holders(c)' = Holders(c) \ {p}
           /\ p \in Holders(c)
<1>1. \A q \in Peers : cursor'[q] = IF q = p THEN n ELSE cursor[q]
    BY DEF TypeOK
<1>2. Holders(n)' = Holders(n) \cup {p}
    BY <1>1 DEF Holders
<1>3. \A r \in Elems \ {n, c} : Holders(r)' = Holders(r)
    BY <1>1 DEF Holders
<1>4. Holders(c)' = Holders(c) \ {p}
    BY <1>1 DEF Holders
<1>5. QED
    BY <1>2, <1>3, <1>4 DEF Holders

(* A peer's step PeerAdvance(p) preserves IInv: the reference moves with *)
(* the cursor, from the record it leaves to the record it reaches.       *)
LEMMA PeerAdvanceIInv ==
    ASSUME IInv, NEW p \in Peers, PeerAdvance(p)
    PROVE  IInv'
<1> USE DEF IInv
<1> DEFINE Inc(n) == [refs EXCEPT ![n] = @ + 1]
<1>0. PICK c : c = cursor[p]
    OBVIOUS
<1> USE <1>0
<1>1. PICK n \in Elems :
        /\ IsNextRecord(p, n)
        /\ cursor' = [cursor EXCEPT ![p] = n]
        /\ refs'  = IF c = NoRec THEN Inc(n) ELSE RelRefs(Inc(n), c)
        /\ queue' = IF c = NoRec THEN queue ELSE RelQueue(Inc(n), queue, c)
        /\ sends' = IF owner[n] THEN [sends EXCEPT ![p][n] = @ + 1] ELSE sends
        /\ UNCHANGED <<st, key, setTxs, setProfit, waitFluff, outdated, pSend,
                       owner, seqNo, nseq>>
    BY DEF PeerAdvance
<1>2. /\ n \in queue
      /\ refs[n] > 0
      /\ c # n
      /\ c # NoRec => c \in Elems
    <2>1. n \in queue /\ (c # NoRec => seqNo[n] > seqNo[c])
        BY <1>1 DEF IsNextRecord, Later
    <2>2. QED
        BY <2>1, ConstAssumption DEF RefsAccounted, TypeOK
<1>3. /\ Holders(n)' = Holders(n) \cup {p}
      /\ p \notin Holders(n)
      /\ \A r \in Elems \ {n, c} : Holders(r)' = Holders(r)
      /\ Holders(c)' = Holders(c) \ {p}
      /\ p \in Holders(c)
    BY <1>0, <1>1, <1>2, HoldersMove
<1>4. Cardinality(Holders(n)') = Cardinality(Holders(n)) + 1
    <2>1. IsFiniteSet(Holders(n))
        BY HoldersFinite
    <2>2. QED
        BY <1>3, <2>1, FS_AddElement
<1>5. ASSUME c # NoRec
      PROVE  /\ Cardinality(Holders(c)') = Cardinality(Holders(c)) - 1
             /\ Cardinality(Holders(c)) >= 1
    <2>1. IsFiniteSet(Holders(c)) /\ Cardinality(Holders(c)) \in Nat
        BY HoldersFinite
    <2>2. Cardinality(Holders(c) \ {p}) = Cardinality(Holders(c)) - 1
        BY <1>3, <1>5, <2>1, FS_RemoveElement
    <2>3. Cardinality(Holders(c) \ {p}) \in Nat
        BY <2>1, FS_Subset, FS_CardinalityType
    <2>4. QED
        BY <1>3, <1>5, <2>1, <2>2, <2>3
<1>6. /\ refs' \in [Elems -> Nat]
      /\ refs'[n] = refs[n] + 1
      /\ c # NoRec => refs'[c] = refs[c] - 1
      /\ \A r \in Elems \ {n, c} : refs'[r] = refs[r]
    <2>1. CASE c = NoRec
        BY <1>1, <2>1 DEF TypeOK
    <2>2. CASE c # NoRec
        <3>1. refs[c] >= 1
            BY <1>2, <1>5, <2>2, HoldersFinite DEF RefsAccounted
        <3>2. QED
            BY <1>1, <1>2, <2>2, <3>1 DEF RelRefs, TypeOK
    <2>3. QED
        BY <2>1, <2>2
<1>7. /\ \A r \in Elems \ {c} : r \in queue' <=> r \in queue
      /\ c # NoRec => (c \in queue' <=> refs[c] # 1)
      /\ queue' \subseteq Elems
    <2>1. c # NoRec => c \in queue
        BY <1>2, <1>5, HoldersFinite DEF RefsAccounted
    <2>2. QED
        BY <1>0, <1>1, <1>2, <2>1 DEF RelQueue, TypeOK
<1>8. TypeOK'
    <2>1. sends' \in [Peers -> [Elems -> Nat]]
        BY <1>1 DEF TypeOK
    <2>2. cursor' \in [Peers -> Elems \cup {NoRec}]
        BY <1>1 DEF TypeOK
    <2>3. QED
        BY <1>1, <1>6, <1>7, <2>1, <2>2 DEF TypeOK
<1>9. IndexesMatchState'
    BY <1>1 DEF IndexesMatchState, ElemFeatures
<1>10. RefsAccounted'
    <2> SUFFICES ASSUME NEW r \in Elems
                 PROVE  /\ refs'[r] = (IF owner'[r] THEN 1 ELSE 0)
                                      + Cardinality(Holders(r)')
                        /\ r \in queue' <=> refs'[r] > 0
                        /\ owner'[r] <=> pSend'[r]
        BY DEF RefsAccounted
    <2>1. /\ owner'[r] = owner[r] /\ pSend'[r] = pSend[r]
          /\ refs[r] = (IF owner[r] THEN 1 ELSE 0) + Cardinality(Holders(r))
          /\ r \in queue <=> refs[r] > 0
          /\ owner[r] <=> pSend[r]
          /\ Cardinality(Holders(r)) \in Nat
        BY <1>1, HoldersFinite DEF RefsAccounted
    <2>2. CASE r = n
        BY <2>1, <2>2, <1>2, <1>4, <1>6, <1>7
    <2>3. CASE r = c
        BY <2>1, <2>3, <1>2, <1>5, <1>6, <1>7, ConstAssumption
    <2>4. CASE r \notin {n, c}
        BY <2>1, <2>4, <1>3, <1>6, <1>7
    <2>5. QED
        BY <2>2, <2>3, <2>4
<1>11. RecordHistory'
    <2> SUFFICES ASSUME NEW r \in Elems, refs'[r] > 0
                 PROVE  st'[r] \in {"Fluffed", "Outdated", "Gone"}
        BY DEF RecordHistory
    <2>1. refs[r] > 0
        BY <1>2, <1>6, ConstAssumption DEF TypeOK
    <2>2. QED
        BY <1>1, <2>1 DEF RecordHistory
<1>12. QED
    BY <1>8, <1>9, <1>10, <1>11

(* The empty pool satisfies IInv. *)
LEMMA InitIInv == Init => IInv
<1> SUFFICES ASSUME Init PROVE IInv
    OBVIOUS
<1>1. TypeOK
    BY DEF Init, TypeOK
<1>2. IndexesMatchState
    BY DEF Init, IndexesMatchState, ElemFeatures, States
<1>3. RefsAccounted
    <2> SUFFICES ASSUME NEW r \in Elems
                 PROVE  refs[r] = (IF owner[r] THEN 1 ELSE 0)
                                  + Cardinality(Holders(r))
        BY DEF Init, RefsAccounted
    <2>1. Holders(r) = {}
        BY ConstAssumption DEF Init, Holders
    <2>2. QED
        BY <2>1, FS_EmptySet DEF Init
<1>4. RecordHistory
    BY DEF Init, RecordHistory
<1>5. QED
    BY <1>1, <1>2, <1>3, <1>4 DEF IInv

(* A stuttering step leaves IInv unchanged. *)
LEMMA StutterIInv ==
    ASSUME IInv, UNCHANGED vars
    PROVE  IInv'
<1>1. \A r : Holders(r)' = Holders(r)
    BY HoldersUnchanged DEF vars
<1>2. QED
    BY <1>1 DEF vars, IInv, TypeOK, IndexesMatchState, ElemFeatures,
                RefsAccounted, RecordHistory

-----------------------------------------------------------------------------
(* Every reachable state of the fluff pool satisfies IInv: whatever the  *)
(* interleaving of AddValidTx, SetState, Delete, Clear and the peers'    *)
(* cursor steps, the four feature indexes and the send record match each *)
(* element's state, and every send record counts exactly the owner and   *)
(* the peers that hold it, so it leaves the queue exactly when the last  *)
(* of them lets go.                                                      *)
THEOREM FluffInvariant == Spec => []IInv
<1>1. Init => IInv
    BY InitIInv
<1>2. IInv /\ [Next]_vars => IInv'
    <2> SUFFICES ASSUME IInv, [Next]_vars PROVE IInv'
        OBVIOUS
    <2>1. CASE \E x \in Elems, k \in Keys, s \in States : AddValidTx(x, k, s)
        BY <2>1, AddValidTxIInv
    <2>2. CASE \E x \in Elems, s \in States : SetState(x, s)
        BY <2>2, SetStateIInv
    <2>3. CASE \E x \in Elems : Delete(x)
        BY <2>3, DeleteIInv
    <2>4. CASE Clear
        BY <2>4, ClearIInv
    <2>5. CASE \E p \in Peers : PeerAdvance(p)
        BY <2>5, PeerAdvanceIInv
    <2>6. CASE UNCHANGED vars
        BY <2>6, StutterIInv
    <2>7. QED
        BY <2>1, <2>2, <2>3, <2>4, <2>5, <2>6 DEF Next
<1>3. QED
    BY <1>1, <1>2, PTL DEF Spec

(* Type correctness of the fluff pool, under every interleaving. *)
THEOREM TypeCorrect == Spec => []TypeOK
BY FluffInvariant, PTL DEF IInv

(* The feature indexes (m_setTxs, m_setProfit, m_lstWaitFluff,         *)
(* m_lstOutdated) and the send record always agree with the elements'  *)
(* states, after any sequence of SetState diffs.                        *)
THEOREM IndexesCorrect == Spec => []IndexesMatchState
BY FluffInvariant, PTL DEF IInv

(* The reference count of every send record equals the owner's          *)
(* reference plus the peers' cursors on it, and the record is on the    *)
(* send queue exactly while that count is positive.                     *)
THEOREM RefsCorrect == Spec => []RefsAccounted
BY FluffInvariant, PTL DEF IInv

-----------------------------------------------------------------------------
(* No two active (PreFluffed or Fluffed) elements share a conflict key.  *)
ActiveDistinct == \A x, y \in Active : x # y => key[x] # key[y]

(* A step that makes no element active and keeps the keys keeps the      *)
(* active elements' keys distinct.                                        *)
LEMMA ActiveShrinks ==
    ASSUME ActiveDistinct, Active' \subseteq Active, key' = key
    PROVE  ActiveDistinct'
BY DEF ActiveDistinct

(* Every step of the pool and its peers keeps ActiveDistinct: only        *)
(* AddValidTx makes an element active, and it refuses an active key.      *)
LEMMA ActiveDistinctStep ==
    ASSUME IInv, ActiveDistinct, [Next]_vars
    PROVE  ActiveDistinct'
<1> USE DEF IInv
<1>1. CASE \E x \in Elems, k \in Keys, s \in States : AddValidTx(x, k, s)
    <2>1. PICK x \in Elems, k \in Keys, s \in States : AddValidTx(x, k, s)
        BY <1>1
    <2>2. /\ x \notin Active
          /\ Active' = IF s = "Outdated" THEN Active ELSE Active \cup {x}
          /\ key' = [key EXCEPT ![x] = k]
        BY <2>1 DEF AddValidTx, Active, TypeOK, States
    <2>3. s # "Outdated" => \A y \in Active : key[y] # k
        BY <2>1 DEF AddValidTx
    <2>4. QED
        BY <2>2, <2>3 DEF ActiveDistinct, TypeOK
<1>2. CASE \E x \in Elems, s \in States : SetState(x, s)
    <2>1. PICK x \in Elems, s \in States : SetState(x, s)
        BY <1>2
    <2>2. Active' \subseteq Active /\ key' = key
        BY <2>1 DEF SetState, Transitions, Active, Live, TypeOK
    <2>3. QED
        BY <2>2, ActiveShrinks
<1>3. CASE \E x \in Elems : Delete(x)
    <2>1. PICK x \in Elems : Delete(x)
        BY <1>3
    <2>2. Active' \subseteq Active /\ key' = key
        BY <2>1 DEF Delete, Active, TypeOK
    <2>3. QED
        BY <2>2, ActiveShrinks
<1>4. CASE Clear
    <2>1. Active' \subseteq Active /\ key' = key
        BY <1>4 DEF Clear, Active, Live, States
    <2>2. QED
        BY <2>1, ActiveShrinks
<1>5. CASE \E p \in Peers : PeerAdvance(p)
    <2>1. Active' = Active /\ key' = key
        BY <1>5 DEF PeerAdvance, Active
    <2>2. QED
        BY <2>1, ActiveShrinks
<1>6. CASE UNCHANGED vars
    BY <1>6, ActiveShrinks DEF vars, Active
<1>7. QED
    BY <1>1, <1>2, <1>3, <1>4, <1>5, <1>6 DEF Next

(* Only Fluffed elements are mining candidates, so distinct active keys  *)
(* make m_setProfit conflict-free.                                        *)
LEMMA ProfitFromActive ==
    ASSUME IInv, ActiveDistinct
    PROVE  ProfitSetConflictFree
<1>1. setProfit \subseteq Active
    BY DEF IInv, IndexesMatchState, ElemFeatures, FeaturesOf, States, Active,
           TypeOK
<1>2. QED
    BY <1>1 DEF ActiveDistinct, ProfitSetConflictFree

(* m_setProfit never holds two transactions with the same conflict key,  *)
(* for any number of elements, keys and peers: AddValidTx refuses an     *)
(* active duplicate, and SetState(PreFluffed -> Fluffed), which checks   *)
(* no key, only promotes an element that was already active.             *)
THEOREM ProfitConflictFree == Spec => []ProfitSetConflictFree
<1>1. Init => ActiveDistinct
    BY DEF Init, ActiveDistinct, Active
<1>2. IInv /\ ActiveDistinct /\ [Next]_vars => ActiveDistinct'
    BY ActiveDistinctStep
<1>3. IInv /\ ActiveDistinct => ProfitSetConflictFree
    BY ProfitFromActive
<1>4. QED
    BY <1>1, <1>2, <1>3, FluffInvariant, PTL DEF Spec

=============================================================================
