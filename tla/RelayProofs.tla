----------------------------- MODULE RelayProofs -----------------------------
(***************************************************************************)
(* The fluff pool with its peers implements Relay (safety part), for every *)
(* finite set of elements, keys and peers, and no peer ever transmits a   *)
(* transaction twice.  Both rest on one more invariant, SendHistory: a    *)
(* peer has transmitted only records at or before its cursor in the       *)
(* queue's insertion order, each once, and only elements that have been  *)
(* Fluffed.  The next record a peer reaches is later than its cursor, so  *)
(* it has not been transmitted to that peer; and a record is numbered     *)
(* only when it is created, by an element that no peer has seen.         *)
(***************************************************************************)
EXTENDS FluffProofs

(* What each peer has transmitted lies behind its cursor, once each, and *)
(* belongs to an element that reached Fluffed.                            *)
SendHistory ==
    \A p \in Peers, x \in Elems :
        sends[p][x] > 0 =>
            /\ sends[p][x] = 1
            /\ cursor[p] \in Elems
            /\ seqNo[x] <= seqNo[cursor[p]]
            /\ st[x] \in {"Fluffed", "Outdated", "Gone"}

RInv == IInv /\ SendHistory

-----------------------------------------------------------------------------
(* A record under a peer's cursor belongs to an element that has been    *)
(* Fluffed: the cursor holds a reference on it.                           *)
LEMMA CursorHeld ==
    ASSUME IInv, NEW p \in Peers, cursor[p] # NoRec
    PROVE  /\ cursor[p] \in Elems
           /\ st[cursor[p]] \in {"Fluffed", "Outdated", "Gone"}
<1> DEFINE c == cursor[p]
<1>1. c \in Elems
    BY DEF IInv, TypeOK
<1>2. p \in Holders(c)
    BY DEF Holders
<1>3. IsFiniteSet(Holders(c)) /\ Cardinality(Holders(c)) \in Nat
    BY HoldersFinite
<1>4. Cardinality(Holders(c)) # 0
    BY <1>2, <1>3, FS_EmptySet
<1>5. refs[c] > 0
    BY <1>1, <1>3, <1>4 DEF IInv, RefsAccounted
<1>6. QED
    BY <1>1, <1>5 DEF IInv, RecordHistory

(* SetStateDiff(x, f0, f) renumbers only x, and only when x gains        *)
(* SendAndProfit.                                                         *)
LEMMA DiffSeqNo ==
    ASSUME TypeOK, NEW x \in Elems, NEW f0, NEW f, SetStateDiff(x, f0, f)
    PROVE  /\ \A y \in Elems \ {x} : seqNo'[y] = seqNo[y]
           /\ "SendAndProfit" \in f0 \/ "SendAndProfit" \notin f
              => seqNo'[x] = seqNo[x]
BY DEF SetStateDiff, TypeOK

(* A step that leaves the sends and the cursors alone, changes the state *)
(* and the number of one element x only, and keeps x Fluffed, Outdated  *)
(* or Gone, with its number, once it was, preserves SendHistory.         *)
LEMMA FrameSendHistory ==
    ASSUME RInv, NEW x \in Elems,
           UNCHANGED <<sends, cursor>>,
           \A y \in Elems \ {x} : st'[y] = st[y] /\ seqNo'[y] = seqNo[y],
           st[x] \in {"Fluffed", "Outdated", "Gone"} =>
               /\ st'[x] \in {"Fluffed", "Outdated", "Gone"}
               /\ seqNo'[x] = seqNo[x]
    PROVE  SendHistory'
<1> SUFFICES ASSUME NEW p \in Peers, NEW y \in Elems, sends'[p][y] > 0
             PROVE  /\ sends'[p][y] = 1
                    /\ cursor'[p] \in Elems
                    /\ seqNo'[y] <= seqNo'[cursor'[p]]
                    /\ st'[y] \in {"Fluffed", "Outdated", "Gone"}
    BY DEF SendHistory
<1>1. /\ sends[p][y] = 1
      /\ cursor[p] \in Elems
      /\ seqNo[y] <= seqNo[cursor[p]]
      /\ st[y] \in {"Fluffed", "Outdated", "Gone"}
    BY DEF RInv, SendHistory
<1>2. st[cursor[p]] \in {"Fluffed", "Outdated", "Gone"}
    BY <1>1, CursorHeld, ConstAssumption DEF RInv
<1>3. seqNo'[cursor[p]] = seqNo[cursor[p]] /\ seqNo'[y] = seqNo[y]
    BY <1>1, <1>2
<1>4. QED
    BY <1>1, <1>3

-----------------------------------------------------------------------------
LEMMA AddValidTxSendHistory ==
    ASSUME RInv, NEW x \in Elems, NEW k \in Keys, NEW s \in States,
           AddValidTx(x, k, s)
    PROVE  SendHistory'
<1>1. /\ st[x] = "Free" /\ st' = [st EXCEPT ![x] = s]
      /\ SetStateDiff(x, {}, FeaturesOf(s))
      /\ UNCHANGED <<sends, cursor>>
    BY DEF AddValidTx
<1>2. \A y \in Elems \ {x} : st'[y] = st[y] /\ seqNo'[y] = seqNo[y]
    BY <1>1, DiffSeqNo DEF RInv, IInv, TypeOK
<1>3. QED
    BY <1>1, <1>2, FrameSendHistory

LEMMA SetStateSendHistory ==
    ASSUME RInv, NEW x \in Elems, NEW s \in States, SetState(x, s)
    PROVE  SendHistory'
<1>1. /\ <<st[x], s>> \in Transitions /\ st' = [st EXCEPT ![x] = s]
      /\ SetStateDiff(x, FeaturesOf(st[x]), FeaturesOf(s))
      /\ UNCHANGED <<sends, cursor>>
    BY DEF SetState
<1>2. \A y \in Elems \ {x} : st'[y] = st[y] /\ seqNo'[y] = seqNo[y]
    BY <1>1, DiffSeqNo DEF RInv, IInv, TypeOK
<1>3. ASSUME st[x] \in {"Fluffed", "Outdated", "Gone"}
      PROVE  st'[x] \in {"Fluffed", "Outdated", "Gone"} /\ seqNo'[x] = seqNo[x]
    <2>1. s = "Outdated"
        BY <1>1, <1>3 DEF Transitions
    <2>2. "SendAndProfit" \notin FeaturesOf(s)
        BY <2>1 DEF FeaturesOf
    <2>3. QED
        BY <1>1, <2>1, <2>2, DiffSeqNo DEF RInv, IInv, TypeOK
<1>4. QED
    BY <1>1, <1>2, <1>3, FrameSendHistory

LEMMA DeleteSendHistory ==
    ASSUME RInv, NEW x \in Elems, Delete(x)
    PROVE  SendHistory'
<1>1. /\ st' = [st EXCEPT ![x] = "Gone"]
      /\ SetStateDiff(x, FeaturesOf(st[x]), {})
      /\ UNCHANGED <<sends, cursor>>
    BY DEF Delete
<1>2. \A y \in Elems \ {x} : st'[y] = st[y] /\ seqNo'[y] = seqNo[y]
    BY <1>1, DiffSeqNo DEF RInv, IInv, TypeOK
<1>3. st'[x] = "Gone" /\ seqNo'[x] = seqNo[x]
    BY <1>1, DiffSeqNo DEF RInv, IInv, TypeOK
<1>4. QED
    BY <1>1, <1>2, <1>3, FrameSendHistory

LEMMA ClearSendHistory ==
    ASSUME RInv, Clear
    PROVE  SendHistory'
BY DEF Clear, RInv, SendHistory, IInv, TypeOK, Live

(* The record a peer reaches next has not been transmitted to it, and is *)
(* transmitted only when its element is Fluffed.                          *)
LEMMA NextUnsent ==
    ASSUME RInv, NEW p \in Peers, NEW n \in Elems, IsNextRecord(p, n)
    PROVE  /\ sends[p][n] = 0
           /\ cursor[p] # NoRec => seqNo[n] > seqNo[cursor[p]]
           /\ owner[n] => st[n] = "Fluffed"
<1>1. cursor[p] # NoRec => seqNo[n] > seqNo[cursor[p]]
    BY DEF IsNextRecord, Later
<1>2. sends[p][n] \in Nat
    BY DEF RInv, IInv, TypeOK
<1>3. sends[p][n] = 0
    <2> SUFFICES ASSUME sends[p][n] > 0 PROVE FALSE
        BY <1>2
    <2>1. cursor[p] \in Elems /\ seqNo[n] <= seqNo[cursor[p]]
        BY DEF RInv, SendHistory
    <2>2. seqNo[n] \in Nat /\ seqNo[cursor[p]] \in Nat
        BY <2>1 DEF RInv, IInv, TypeOK
    <2>3. QED
        BY <1>1, <2>1, <2>2, ConstAssumption
<1>4. owner[n] => st[n] = "Fluffed"
    <2> SUFFICES ASSUME owner[n] PROVE st[n] = "Fluffed"
        OBVIOUS
    <2>1. "SendAndProfit" \in ElemFeatures(n)
        BY DEF RInv, IInv, RefsAccounted, IndexesMatchState
    <2>2. QED
        BY <2>1 DEF ElemFeatures, FeaturesOf, States
<1>5. QED
    BY <1>1, <1>3, <1>4

LEMMA PeerAdvanceSendHistory ==
    ASSUME RInv, NEW p \in Peers, PeerAdvance(p)
    PROVE  SendHistory'
<1>0. PICK c : c = cursor[p]
    OBVIOUS
<1>1. PICK n \in Elems :
        /\ IsNextRecord(p, n)
        /\ cursor' = [cursor EXCEPT ![p] = n]
        /\ sends' = IF owner[n] THEN [sends EXCEPT ![p][n] = @ + 1] ELSE sends
        /\ UNCHANGED <<st, seqNo>>
    BY DEF PeerAdvance
<1>2. /\ sends[p][n] = 0
      /\ c # NoRec => seqNo[n] > seqNo[c]
      /\ owner[n] => st[n] = "Fluffed"
    BY <1>0, <1>1, NextUnsent
<1>3. /\ sends \in [Peers -> [Elems -> Nat]]
      /\ cursor \in [Peers -> Elems \cup {NoRec}]
      /\ seqNo \in [Elems -> Nat]
    BY DEF RInv, IInv, TypeOK
<1> SUFFICES ASSUME NEW q \in Peers, NEW y \in Elems, sends'[q][y] > 0
             PROVE  /\ sends'[q][y] = 1
                    /\ cursor'[q] \in Elems
                    /\ seqNo'[y] <= seqNo'[cursor'[q]]
                    /\ st'[y] \in {"Fluffed", "Outdated", "Gone"}
    BY DEF SendHistory
<1>4. CASE q # p
    <2>1. sends'[q][y] = sends[q][y] /\ cursor'[q] = cursor[q]
        BY <1>1, <1>3, <1>4
    <2>2. QED
        BY <1>1, <2>1 DEF RInv, SendHistory
<1>5. CASE q = p /\ y = n /\ owner[n]
    <2>1. sends'[p][n] = 1 /\ cursor'[p] = n
        BY <1>1, <1>2, <1>3, <1>5
    <2>2. QED
        BY <1>1, <1>2, <1>3, <1>5, <2>1
<1>6. CASE q = p /\ ~(y = n /\ owner[n])
    <2>1. sends'[p][y] = sends[p][y] /\ cursor'[p] = n
        BY <1>1, <1>3, <1>6
    <2>2. /\ sends[p][y] = 1 /\ c \in Elems /\ seqNo[y] <= seqNo[c]
          /\ st[y] \in {"Fluffed", "Outdated", "Gone"}
        BY <1>0, <1>6, <2>1 DEF RInv, SendHistory
    <2>3. seqNo[y] <= seqNo[n]
        BY <1>2, <1>3, <2>2, ConstAssumption
    <2>4. QED
        BY <1>1, <1>6, <2>1, <2>2, <2>3
<1>7. QED
    BY <1>4, <1>5, <1>6

LEMMA InitRInv == Init => RInv
BY InitIInv DEF Init, RInv, SendHistory

LEMMA StutterRInv ==
    ASSUME RInv, UNCHANGED vars
    PROVE  RInv'
BY StutterIInv DEF RInv, SendHistory, vars

(* Every step of the pool and its peers preserves RInv. *)
LEMMA NextRInv ==
    ASSUME RInv, [Next]_vars
    PROVE  RInv'
<1>1. CASE \E x \in Elems, k \in Keys, s \in States : AddValidTx(x, k, s)
    BY <1>1, AddValidTxIInv, AddValidTxSendHistory DEF RInv
<1>2. CASE \E x \in Elems, s \in States : SetState(x, s)
    BY <1>2, SetStateIInv, SetStateSendHistory DEF RInv
<1>3. CASE \E x \in Elems : Delete(x)
    BY <1>3, DeleteIInv, DeleteSendHistory DEF RInv
<1>4. CASE Clear
    BY <1>4, ClearIInv, ClearSendHistory DEF RInv
<1>5. CASE \E p \in Peers : PeerAdvance(p)
    BY <1>5, PeerAdvanceIInv, PeerAdvanceSendHistory DEF RInv
<1>6. CASE UNCHANGED vars
    BY <1>6, StutterRInv
<1>7. QED
    BY <1>1, <1>2, <1>3, <1>4, <1>5, <1>6 DEF Next

(* Every reachable state satisfies RInv, under every interleaving of the *)
(* pool's operations and the peers' send tasks.                           *)
THEOREM RelayInvariant == Spec => []RInv
BY InitRInv, NextRInv, PTL DEF Spec

(* No peer ever transmits a transaction twice, although records ahead of *)
(* and behind its cursor are released and unlinked while it walks the    *)
(* FIFO send queue.                                                       *)
THEOREM NoDuplicateSendHolds == Spec => []NoDuplicateSend
<1>1. RInv => NoDuplicateSend
    BY DEF RInv, IInv, TypeOK, SendHistory, NoDuplicateSend
<1>2. QED
    BY <1>1, RelayInvariant, PTL

-----------------------------------------------------------------------------
(* The refinement: the abstract phase of every element, as a function.   *)
Ph == [y \in Elems |-> PhaseOf(y)]

(* A step that changes the state of x alone changes the phase of x alone. *)
LEMMA PhaseFrame ==
    ASSUME TypeOK, NEW x \in Elems, NEW v, st' = [st EXCEPT ![x] = v]
    PROVE  Ph' = [Ph EXCEPT ![x] = PhaseOf(x)']
BY DEF Ph, PhaseOf, TypeOK

(* AddValidTx admits a free element. *)
LEMMA AddValidTxRefines ==
    ASSUME RInv, NEW x \in Elems, NEW k \in Keys, NEW s \in States,
           AddValidTx(x, k, s)
    PROVE  R!Admit(x)
<1>1. Ph' = [Ph EXCEPT ![x] = PhaseOf(x)'] /\ st'[x] = s
    BY PhaseFrame DEF AddValidTx, RInv, IInv, TypeOK
<1>2. Ph[x] = "Free" /\ PhaseOf(x)' \in R!Phases \ {"Free"}
    BY <1>1 DEF AddValidTx, Ph, PhaseOf, States, R!Phases
<1>3. QED
    BY <1>1, <1>2 DEF AddValidTx, R!Admit, Ph

(* SetState fluffs a waiting element or retires an element. *)
LEMMA SetStateRefines ==
    ASSUME RInv, NEW x \in Elems, NEW s \in States, SetState(x, s)
    PROVE  R!Fluff(x) \/ R!Retire({x})
<1>1. Ph' = [Ph EXCEPT ![x] = PhaseOf(x)'] /\ st'[x] = s
    BY PhaseFrame DEF SetState, RInv, IInv, TypeOK
<1>2. CASE s = "Fluffed"
    <2>1. Ph[x] = "Waiting" /\ PhaseOf(x)' = "Fluffed"
        BY <1>1, <1>2 DEF SetState, Transitions, Ph, PhaseOf
    <2>2. QED
        BY <1>1, <2>1 DEF SetState, R!Fluff, Ph
<1>3. CASE s # "Fluffed"
    <2>1. Ph[x] # "Free" /\ PhaseOf(x)' = "Retired"
        BY <1>1, <1>3 DEF SetState, Transitions, Ph, PhaseOf, States
    <2>2. Ph' = [y \in Elems |-> IF y \in {x} THEN "Retired" ELSE Ph[y]]
        BY <1>1, <2>1 DEF Ph
    <2>3. QED
        BY <2>1, <2>2 DEF SetState, R!Retire, R!InPool, Ph
<1>4. QED
    BY <1>2, <1>3

(* Delete retires an element. *)
LEMMA DeleteRefines ==
    ASSUME RInv, NEW x \in Elems, Delete(x)
    PROVE  R!Retire({x})
<1>1. Ph' = [Ph EXCEPT ![x] = PhaseOf(x)'] /\ st'[x] = "Gone"
    BY PhaseFrame DEF Delete, RInv, IInv, TypeOK
<1>2. Ph[x] # "Free" /\ PhaseOf(x)' = "Retired"
    BY <1>1 DEF Delete, Live, Ph, PhaseOf, States
<1>3. Ph' = [y \in Elems |-> IF y \in {x} THEN "Retired" ELSE Ph[y]]
    BY <1>1, <1>2 DEF Ph
<1>4. QED
    BY <1>2, <1>3 DEF Delete, R!Retire, R!InPool, Ph

(* Clear retires the whole pool at once. *)
LEMMA ClearRefines ==
    ASSUME RInv, Clear
    PROVE  R!Retire(Live)
<1>1. Live # {} /\ Live \subseteq {y \in Elems : Ph[y] # "Free"}
    BY DEF Clear, Live, Ph, PhaseOf, States
<1>2. Ph' = [y \in Elems |-> IF y \in Live THEN "Retired" ELSE Ph[y]]
    BY DEF Clear, Live, Ph, PhaseOf, States, RInv, IInv, TypeOK
<1>3. QED
    BY <1>1, <1>2 DEF Clear, R!Retire, R!InPool, Ph

(* A peer step is a first delivery of a fluffed element when the record *)
(* still has its element, and a stutter otherwise.                       *)
LEMMA PeerAdvanceRefines ==
    ASSUME RInv, NEW p \in Peers, PeerAdvance(p)
    PROVE  (\E n \in Elems : R!Deliver(p, n)) \/ UNCHANGED <<Ph, sends>>
<1>1. PICK n \in Elems :
        /\ IsNextRecord(p, n)
        /\ sends' = IF owner[n] THEN [sends EXCEPT ![p][n] = @ + 1] ELSE sends
        /\ st' = st
    BY DEF PeerAdvance
<1>2. Ph' = Ph
    BY <1>1 DEF Ph, PhaseOf
<1>3. CASE owner[n]
    <2>1. sends[p][n] = 0 /\ st[n] = "Fluffed"
        BY <1>1, <1>3, NextUnsent
    <2>2. sends' = [sends EXCEPT ![p][n] = 1]
        BY <1>1, <1>3, <2>1
    <2>3. R!Deliver(p, n)
        BY <1>2, <2>1, <2>2 DEF R!Deliver, Ph, PhaseOf
    <2>4. QED
        BY <2>3
<1>4. CASE ~owner[n]
    BY <1>1, <1>2, <1>4
<1>5. QED
    BY <1>3, <1>4

(* Every step of the pool and its peers is a step of Relay or leaves the *)
(* phases and the copies unchanged.                                      *)
LEMMA NextRefines ==
    ASSUME RInv, [Next]_vars
    PROVE  [R!Next]_R!avars
<1>1. CASE \E x \in Elems, k \in Keys, s \in States : AddValidTx(x, k, s)
    BY <1>1, AddValidTxRefines DEF R!Next
<1>2. CASE \E x \in Elems, s \in States : SetState(x, s)
    <2>1. PICK x \in Elems : R!Fluff(x) \/ R!Retire({x})
        BY <1>2, SetStateRefines
    <2>2. {x} \in SUBSET Elems
        OBVIOUS
    <2>3. QED
        BY <2>1, <2>2 DEF R!Next
<1>3. CASE \E x \in Elems : Delete(x)
    <2>1. PICK x \in Elems : R!Retire({x})
        BY <1>3, DeleteRefines
    <2>2. QED
        BY <2>1 DEF R!Next
<1>4. CASE Clear
    <2>1. R!Retire(Live) /\ Live \in SUBSET Elems
        BY <1>4, ClearRefines DEF Live
    <2>2. QED
        BY <2>1 DEF R!Next
<1>5. CASE \E p \in Peers : PeerAdvance(p)
    <2>1. PICK p \in Peers : PeerAdvance(p)
        BY <1>5
    <2>2. (\E n \in Elems : R!Deliver(p, n)) \/ UNCHANGED <<Ph, sends>>
        BY <2>1, PeerAdvanceRefines
    <2>3. QED
        BY <2>2 DEF R!Next, R!avars, Ph
<1>6. CASE UNCHANGED vars
    BY <1>6 DEF vars, R!avars, PhaseOf
<1>7. QED
    BY <1>1, <1>2, <1>3, <1>4, <1>5, <1>6 DEF Next

(* The pool with its peers implements the safety part of Relay: from the *)
(* empty pool, every AddValidTx is an admission, every SetState a fluff *)
(* or a retirement, every Delete and Clear a retirement, and every peer   *)
(* transmission the first delivery of a fluffed transaction to that peer. *)
THEOREM FluffRefinesRelay == Spec => R!SafetySpec
<1>1. Init => R!Init
    BY DEF Init, R!Init, PhaseOf
<1>2. RInv /\ [Next]_vars => [R!Next]_R!avars
    BY NextRefines
<1>3. QED
    BY <1>1, <1>2, RelayInvariant, PTL DEF Spec, R!SafetySpec

-----------------------------------------------------------------------------
(* The step SentOnlyWhileFluffed allows: a transmission only of a        *)
(* Fluffed element.                                                       *)
SendStep ==
    \A p \in Peers, x \in Elems :
        sends'[p][x] > sends[p][x] => st[x] = "Fluffed"

(* Only a peer step transmits, and only the element of a record that     *)
(* still has its owner, which is Fluffed.                                 *)
LEMMA SendStepHolds ==
    ASSUME RInv, [Next]_vars
    PROVE  [SendStep]_vars
<1>0. sends' = sends \/ \E p \in Peers : PeerAdvance(p)
    <2>1. ASSUME NEW x \in Elems, NEW k \in Keys, NEW s \in States,
                 AddValidTx(x, k, s)
          PROVE  sends' = sends
        BY <2>1 DEF AddValidTx
    <2>2. ASSUME NEW x \in Elems, NEW s \in States, SetState(x, s)
          PROVE  sends' = sends
        BY <2>2 DEF SetState
    <2>3. ASSUME NEW x \in Elems, Delete(x)
          PROVE  sends' = sends
        BY <2>3 DEF Delete
    <2>4. Clear => sends' = sends
        BY DEF Clear
    <2>5. UNCHANGED vars => sends' = sends
        BY DEF vars
    <2>6. QED
        BY <2>1, <2>2, <2>3, <2>4, <2>5 DEF Next
<1>1. CASE sends' = sends
    BY <1>1 DEF SendStep, RInv, IInv, TypeOK
<1>2. CASE \E p \in Peers : PeerAdvance(p)
    <2>0. PICK p \in Peers : PeerAdvance(p)
        BY <1>2
    <2>1. PICK n \in Elems :
            /\ IsNextRecord(p, n)
            /\ sends' = IF owner[n] THEN [sends EXCEPT ![p][n] = @ + 1]
                                    ELSE sends
        BY <2>0 DEF PeerAdvance
    <2>2. owner[n] => st[n] = "Fluffed"
        BY <2>1, NextUnsent
    <2>3. ASSUME NEW q \in Peers, NEW y \in Elems,
                 sends'[q][y] > sends[q][y]
          PROVE  st[y] = "Fluffed"
        <3>1. owner[n] /\ q = p /\ y = n
            BY <2>1, <2>3 DEF RInv, IInv, TypeOK
        <3>2. QED
            BY <3>1, <2>2
    <2>4. QED
        BY <2>3 DEF SendStep
<1>3. QED
    BY <1>0, <1>1, <1>2

(* A peer transmits a transaction only while it is Fluffed: a record      *)
(* whose element was outdated or deleted no longer reaches it, for any   *)
(* number of elements and peers.                                          *)
THEOREM SentOnlyWhileFluffedHolds == Spec => SentOnlyWhileFluffed
<1>1. RInv /\ [Next]_vars => [SendStep]_vars
    BY SendStepHolds
<1>2. QED
    BY <1>1, RelayInvariant, PTL DEF Spec, SentOnlyWhileFluffed, SendStep

=============================================================================
