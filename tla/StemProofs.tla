----------------------------- MODULE StemProofs ------------------------------
(***************************************************************************)
(* Proofs about the stem pool's single io::Timer (Stem.tla): for every    *)
(* clock width, start time and delay set, the timer TxPool::Stem keeps    *)
(* armed expires exactly when the first element of m_setTime falls due,   *)
(* clock wrap-around included.                                            *)
(***************************************************************************)
EXTENDS Stem, TLAPS

(* Half of the clock range: a W-bit difference below it is a deadline    *)
(* ahead, at or above it a deadline passed.                              *)
Half == 2^(W-1)

(* get_NextTimeout's timeout for a deadline value v at clock n. *)
RemOf(v, n) ==
    LET dt == (v - n) % Wrap
    IN IF dt < Half THEN dt ELSE 0

(* m_setTime.begin() for an arbitrary assignment f of deadlines. *)
HeadOf(f, S) == CHOOSE h \in S : \A y \in S : ~(f[y] < f[h])

(* Every element linked in m_setTime is a live element. *)
TimedLive == \A x \in timeSet : sst[x] = "Live"

(* Every non-empty part of m_setTime has an element with the earliest   *)
(* deadline: what makes m_setTime.begin() well defined.                  *)
MinExists ==
    \A T \in SUBSET timeSet :
        T # {} => \E h \in T : \A y \in T : tval[h] <= tval[y]

(* Inside OnTimer the io::Timer is either stopped (Fire stopped it) or   *)
(* was re-armed by a forward that made its element the first one.       *)
CbTimer ==
    inCb => \/ timer = -1
            \/ /\ timeSet # {}
               /\ timer = Remaining(Head(timeSet))
               /\ timer > 0

(* The inductive invariant behind TimerTracksHead. *)
IInv == TypeOK /\ TimedLive /\ MinExists /\ TimerTracksHead /\ CbTimer

-----------------------------------------------------------------------------
(* The W-bit clock: Wrap is twice Half, and Half is positive. *)
LEMMA ClockWidth == Half \in Nat \ {0} /\ Wrap = 2 * Half
  BY ClockWidthFacts DEF Half, Wrap

(* A deadline d ahead of clock n, stored modulo 2^W, reads back as d.    *)
LEMMA AddBack ==
  ASSUME NEW n \in 0..(Wrap - 1), NEW d \in 1..(Half - 1)
  PROVE  (((n + d) % Wrap) - n) % Wrap = d
  BY ClockWidth

(* One tick of the clock takes one millisecond off a pending timeout,   *)
(* also when the clock wraps.                                            *)
LEMMA TickDown ==
  ASSUME NEW t \in 0..(Wrap - 1), NEW n \in 0..(Wrap - 1), NEW m,
         m = (n + 1) % Wrap, (t - n) % Wrap \in 1..(Half - 1)
  PROVE  (t - m) % Wrap = ((t - n) % Wrap) - 1
  BY ClockWidth

(* get_NextTimeout's timeout is a signed timeout below Half. *)
LEMMA RemRange ==
  ASSUME NEW v \in Int, NEW n \in Int
  PROVE  RemOf(v, n) \in 0..(Half - 1)
  BY ClockWidth DEF RemOf

(* The clock value modulo 2^W stays a W-bit value. *)
LEMMA ModRange ==
  ASSUME NEW v \in Int
  PROVE  v % Wrap \in 0..(Wrap - 1)
  BY ClockWidth

(* Remaining and Head are RemOf and HeadOf of the current state. *)
LEMMA RemainingIs ==
  ASSUME NEW x
  PROVE  /\ Remaining(x) = RemOf(tval[x], now)
         /\ Remaining(x)' = RemOf(tval'[x], now')
  BY DEF Remaining, RemOf, Half

LEMMA HeadIs ==
  ASSUME NEW S
  PROVE  /\ Head(S) = HeadOf(tval, S)
         /\ Head(S)' = HeadOf(tval', S)
  BY DEF Head, HeadOf, TimeLess

(* When S has an element with the earliest deadline, m_setTime.begin()  *)
(* is such an element.                                                   *)
LEMMA HeadIsMin ==
  ASSUME NEW f, NEW S, \A y \in S : f[y] \in Int,
         \E h \in S : \A y \in S : f[h] <= f[y]
  PROVE  /\ HeadOf(f, S) \in S
         /\ \A y \in S : f[HeadOf(f, S)] <= f[y]
  BY DEF HeadOf

(* An element with a deadline strictly before all others is the first.  *)
LEMMA HeadUnique ==
  ASSUME NEW f, NEW S, NEW x \in S, \A y \in S : f[y] \in Int,
         \A y \in S \ {x} : f[x] < f[y]
  PROVE  HeadOf(f, S) = x
  BY DEF HeadOf

(* With an earliest deadline in m_setTime, begin() is one, before and   *)
(* after a step.                                                         *)
LEMMA HeadMin ==
  ASSUME TypeOK, MinExists, timeSet # {}
  PROVE  /\ Head(timeSet) \in timeSet
         /\ \A y \in timeSet : tval[Head(timeSet)] <= tval[y]
<1>1. \E h \in timeSet : \A y \in timeSet : tval[h] <= tval[y]
  BY DEF MinExists
<1>2. \A y \in timeSet : tval[y] \in Int
  BY DEF TypeOK
<1>3. QED
  BY <1>1, <1>2, HeadIsMin, HeadIs

LEMMA HeadMinPrimed ==
  ASSUME TypeOK', MinExists', timeSet' # {}
  PROVE  (/\ Head(timeSet) \in timeSet
          /\ \A y \in timeSet : tval[Head(timeSet)] <= tval[y])'
<1>1. \E h \in timeSet' : \A y \in timeSet' : tval'[h] <= tval'[y]
  BY DEF MinExists
<1>2. \A y \in timeSet' : tval'[y] \in Int
  BY DEF TypeOK
<1>3. QED
  BY <1>1, <1>2, HeadIsMin DEF Head, HeadOf, TimeLess

-----------------------------------------------------------------------------
(* Init: no element, no timer. *)
LEMMA InitIInv == Init => IInv
<1> SUFFICES ASSUME Init PROVE IInv
  OBVIOUS
<1>1. now \in 0..(Wrap - 1)
  BY StemAssumption DEF Init, Wrap
<1>2. -1 \in -1..(2^(W-1) - 1)
  BY ClockWidth DEF Half
<1>3. tval \in [SElems -> 0..(Wrap - 1)]
  BY ClockWidth DEF Init
<1>4. elapsed \in 0..MaxElapsed
  BY StemAssumption DEF Init
<1>5. /\ sst \in [SElems -> {"Free", "Live", "Gone"}]
      /\ timeSet \subseteq SElems /\ aggr \subseteq SElems
      /\ inCb \in BOOLEAN
  BY DEF Init
<1>10. due \in [SElems -> Int]
  BY DEF Init
<1>9. timer \in -1..(2^(W-1) - 1)
  BY <1>2 DEF Init
<1>8. TypeOK
  BY <1>1, <1>3, <1>4, <1>5, <1>9, <1>10 DEF TypeOK
<1>6. MinExists
  BY DEF Init, MinExists
<1>7. QED
  BY <1>8, <1>6 DEF Init, IInv, TimedLive, TimerTracksHead, CbTimer

(* AddStem: the new element's SetTimer re-arms the timer exactly when   *)
(* it became the first element of m_setTime.                             *)
LEMMA AddStemIInv ==
  ASSUME IInv, NEW x \in SElems, NEW d \in Delays, AddStem(x, d)
  PROVE  IInv'
<1>0. /\ TypeOK /\ TimedLive /\ MinExists /\ TimerTracksHead /\ CbTimer
  BY DEF IInv
<1>1. d \in 1..(Half - 1)
  BY StemAssumption DEF Half
<1>2. x \notin timeSet
  BY <1>0 DEF AddStem, TimedLive
<1>3. /\ tval' = [tval EXCEPT ![x] = (now + d) % Wrap]
      /\ timeSet' = timeSet \cup {x}
      /\ ~inCb /\ inCb' = inCb /\ now' = now
      /\ timer' = IF \A y \in timeSet \ {x} : tval'[x] < tval[y]
                  THEN d ELSE timer
  BY DEF AddStem, SetTimer
<1>4. tval'[x] = (now + d) % Wrap /\ tval'[x] \in 0..(Wrap - 1)
  BY <1>0, <1>1, <1>3, ModRange DEF TypeOK
<1>5. \A y \in timeSet : tval'[y] = tval[y]
  BY <1>0, <1>2, <1>3 DEF TypeOK
<1>6. TypeOK'
  BY <1>0, <1>1, <1>3, <1>4, ClockWidth DEF AddStem, SetTimer, TypeOK, Half
<1>7. TimedLive'
  BY <1>0 DEF AddStem, SetTimer, TimedLive, TypeOK
<1>8. MinExists'
  <2> SUFFICES ASSUME NEW T \in SUBSET timeSet', T # {}
               PROVE  \E h \in T : \A y \in T : tval'[h] <= tval'[y]
    BY DEF MinExists
  <2>1. CASE x \notin T
    BY <2>1, <1>0, <1>3, <1>5 DEF MinExists
  <2>2. CASE x \in T /\ T \ {x} = {}
    BY <2>2, <1>4
  <2>3. CASE x \in T /\ T \ {x} # {}
    <3>1. PICK h \in T \ {x} : \A y \in T \ {x} : tval[h] <= tval[y]
      BY <2>3, <1>0, <1>3 DEF MinExists
    <3>2. QED
      BY <3>1, <2>3, <1>0, <1>3, <1>4, <1>5 DEF TypeOK
  <2>4. QED
    BY <2>1, <2>2, <2>3
<1>9. TimerTracksHead'
  <2>1. CASE \A y \in timeSet \ {x} : tval'[x] < tval[y]
    <3>1. Head(timeSet)' = x
      <4>1. \A y \in timeSet' \ {x} : tval'[x] < tval'[y]
        BY <2>1, <1>2, <1>3, <1>5
      <4>2. \A y \in timeSet' : tval'[y] \in Int
        BY <1>6 DEF TypeOK
      <4>3. QED
        BY <4>1, <4>2, <1>3, HeadUnique DEF Head, HeadOf, TimeLess
    <3>2. Remaining(x)' = d
      <4>1. (((now + d) % Wrap) - now) % Wrap = d
        BY <1>0, <1>1, AddBack DEF TypeOK
      <4>2. (tval'[x] - now') % Wrap = d
        BY <4>1, <1>3, <1>4
      <4>3. d < 2^(W-1)
        BY <1>1, ClockWidth DEF Half
      <4>4. QED
        BY <4>2, <4>3 DEF Remaining
    <3>3. QED
      BY <2>1, <3>1, <3>2, <1>3 DEF TimerTracksHead
  <2>2. CASE ~\A y \in timeSet \ {x} : tval'[x] < tval[y]
    <3>1. PICK z \in timeSet : tval[z] <= tval'[x]
      BY <2>2, <1>0, <1>4 DEF TypeOK
    <3>2. /\ Head(timeSet) \in timeSet
          /\ \A y \in timeSet : tval[Head(timeSet)] <= tval[y]
      BY <3>1, <1>0, HeadMin
    <3>3. /\ Head(timeSet)' \in timeSet'
          /\ \A y \in timeSet' : tval'[Head(timeSet)'] <= tval'[y]
      BY <1>3, <1>6, <1>8, HeadMinPrimed
    <3>4. tval'[Head(timeSet)'] = tval[Head(timeSet)]
      <4> DEFINE h0 == Head(timeSet)
                 h1 == Head(timeSet)'
      <4>1. tval'[h0] = tval[h0] /\ tval[h0] \in Int
        BY <3>2, <1>0, <1>5 DEF TypeOK
      <4>2. CASE h1 = x
        <5>1. tval'[x] <= tval'[h0]
          BY <4>2, <3>2, <3>3, <1>3
        <5>2. tval[h0] <= tval[z] /\ tval[z] \in Int
          BY <3>2, <1>0 DEF TypeOK
        <5>3. QED
          BY <5>1, <5>2, <4>1, <4>2, <3>1, <1>4
      <4>3. CASE h1 \in timeSet
        <5>1. tval'[h1] = tval[h1] /\ tval[h1] \in Int
          BY <4>3, <1>0, <1>5 DEF TypeOK
        <5>2. tval'[h1] <= tval'[h0]
          BY <3>2, <3>3, <1>3
        <5>3. tval[h0] <= tval[h1]
          BY <4>3, <3>2
        <5>4. QED
          BY <5>1, <5>2, <5>3, <4>1
      <4>4. QED
        BY <4>2, <4>3, <3>3, <1>3
    <3>5. (Remaining(Head(timeSet)))' = Remaining(Head(timeSet))
      BY <3>4, <1>3 DEF Remaining
    <3>6. QED
      BY <2>2, <3>1, <3>5, <1>0, <1>3 DEF TimerTracksHead
  <2>3. QED
    BY <2>1, <2>2
<1>10. CbTimer'
  BY <1>3 DEF CbTimer
<1>11. QED
  BY <1>6, <1>7, <1>8, <1>9, <1>10 DEF IInv

(* The same for any non-empty part of m_setTime. *)
LEMMA HeadMinSub ==
  ASSUME TypeOK, MinExists, NEW S \in SUBSET timeSet, S # {}
  PROVE  /\ Head(S) \in S
         /\ \A y \in S : tval[Head(S)] <= tval[y]
<1>1. \E h \in S : \A y \in S : tval[h] <= tval[y]
  BY DEF MinExists
<1>2. \A y \in S : tval[y] \in Int
  BY DEF TypeOK
<1>3. QED
  BY <1>1, <1>2, HeadIsMin, HeadIs

(* get_NextTimeout's timeout for the first element of a part of         *)
(* m_setTime is a timer value.                                           *)
LEMMA HeadRemRange ==
  ASSUME TypeOK, MinExists, NEW S \in SUBSET timeSet, S # {}
  PROVE  Remaining(Head(S)) \in 0..(Half - 1)
<1>1. Head(S) \in SElems
  BY HeadMinSub DEF TypeOK
<1>2. Remaining(Head(S)) = RemOf(tval[Head(S)], now)
  BY DEF Remaining, RemOf, Half
<1>3. QED
  BY <1>1, <1>2, RemRange DEF TypeOK

(* Taking x out of m_setTime outside OnTimer (Delete's DeleteRaw and    *)
(* the merge's deletion of src) and re-arming as RearmAfter does keeps   *)
(* the timer on the new first element.                                   *)
LEMMA RemoveTimed ==
  ASSUME IInv, NEW x \in SElems, ~inCb,
         timeSet' = timeSet \ {x},
         timer' = RearmAfter(x, timeSet \ {x}),
         tval' = tval, now' = now, inCb' = inCb
  PROVE  /\ timer' \in -1..(2^(W-1) - 1)
         /\ MinExists' /\ TimerTracksHead' /\ CbTimer'
<1>0. /\ TypeOK /\ MinExists /\ TimerTracksHead
  BY DEF IInv
<1>1. MinExists'
  BY <1>0 DEF MinExists
<1>3. ASSUME NEW S \in SUBSET timeSet, S # {}
      PROVE  /\ Remaining(Head(S)) \in 0..(Half - 1)
             /\ (Remaining(Head(S)))' = Remaining(Head(S))
  <2>1. Remaining(Head(S)) \in 0..(Half - 1)
    BY <1>3, <1>0, HeadRemRange
  <2>2. (Remaining(Head(S)))' = Remaining(Head(S))
    BY DEF Remaining, Head, TimeLess
  <2>3. QED
    BY <2>1, <2>2
<1>4. CASE x \notin timeSet
  <2>1. timeSet' = timeSet /\ timer' = timer
    BY <1>4 DEF RearmAfter
  <2>2. TimerTracksHead'
    BY <2>1, <1>0, <1>3 DEF TimerTracksHead, TypeOK
  <2>3. QED
    BY <2>1, <2>2, <1>0, <1>1, ClockWidth DEF TypeOK, CbTimer
<1>5. CASE x \in timeSet /\ x = Head(timeSet)
  <2>1. timer' = IF timeSet' = {} THEN -1 ELSE Remaining(Head(timeSet'))
    BY <1>5 DEF RearmAfter
  <2>2. TimerTracksHead'
    BY <2>1, <1>0, <1>3 DEF TimerTracksHead, TypeOK
  <2>3. timer' \in -1..(2^(W-1) - 1)
    <3>1. CASE timeSet' = {}
      BY <3>1, <2>1, ClockWidth DEF Half
    <3>2. CASE timeSet' # {}
      <4>1. Remaining(Head(timeSet')) \in 0..(Half - 1)
        BY <3>2, <1>3
      <4>2. QED
        BY <4>1, <3>2, <2>1, ClockWidth DEF Half
    <3>3. QED
      BY <3>1, <3>2
  <2>4. QED
    BY <2>2, <2>3, <1>1 DEF CbTimer
<1>6. CASE x \in timeSet /\ x # Head(timeSet)
  <2> DEFINE h0 == Head(timeSet)
  <2>1. timer' = timer
    BY <1>6 DEF RearmAfter
  <2>2. /\ h0 \in timeSet /\ \A y \in timeSet : tval[h0] <= tval[y]
    BY <1>6, <1>0, HeadMin
  <2>3. timeSet' # {} /\ timer = Remaining(h0)
    BY <1>6, <2>2, <1>0 DEF TimerTracksHead
  <2> DEFINE h1 == Head(timeSet \ {x})
  <2>4. h1 \in timeSet \ {x} /\ \A y \in timeSet \ {x} : tval[h1] <= tval[y]
    BY <2>3, <1>0, HeadMinSub
  <2>5. tval[h1] = tval[h0]
    BY <2>2, <2>4, <1>6, <1>0 DEF TypeOK
  <2>6. (Remaining(Head(timeSet)))' = Remaining(h0)
    BY <2>5 DEF Remaining, Head, TimeLess
  <2>7. timer' \in -1..(2^(W-1) - 1)
    BY <2>1, <1>0 DEF TypeOK
  <2>8. QED
    BY <2>1, <2>3, <2>6, <2>7, <1>1 DEF TimerTracksHead, CbTimer
<1>7. QED
  BY <1>4, <1>5, <1>6

(* Delete(x) outside OnTimer. *)
LEMMA DeleteIInv ==
  ASSUME IInv, NEW x \in SElems, Delete(x)
  PROVE  IInv'
<1>0. TypeOK /\ TimedLive
  BY DEF IInv
<1>1. /\ timer' \in -1..(2^(W-1) - 1)
      /\ MinExists' /\ TimerTracksHead' /\ CbTimer'
  BY RemoveTimed DEF Delete
<1>2. TypeOK'
  BY <1>0, <1>1 DEF Delete, TypeOK
<1>3. TimedLive'
  BY <1>0 DEF Delete, TimedLive, TypeOK
<1>4. QED
  BY <1>1, <1>2, <1>3 DEF IInv

(* TryMerge(trg, src): src leaves m_setTime as in Delete. *)
LEMMA TryMergeIInv ==
  ASSUME IInv, NEW trg \in SElems, NEW src \in SElems, TryMerge(trg, src)
  PROVE  IInv'
<1>0. TypeOK /\ TimedLive
  BY DEF IInv
<1>1. /\ timer' \in -1..(2^(W-1) - 1)
      /\ MinExists' /\ TimerTracksHead' /\ CbTimer'
  BY RemoveTimed DEF TryMerge
<1>2. TypeOK'
  BY <1>0, <1>1 DEF TryMerge, TypeOK
<1>3. TimedLive'
  BY <1>0 DEF TryMerge, TimedLive, TypeOK
<1>4. QED
  BY <1>1, <1>2, <1>3 DEF IInv

(* Clear(): everything deleted and the timer killed. *)
LEMMA ClearIInv ==
  ASSUME IInv, Clear
  PROVE  IInv'
<1>0. TypeOK
  BY DEF IInv
<1>1. TypeOK'
  BY <1>0, ClockWidth DEF Clear, TypeOK, Half
<1>2. QED
  BY <1>1 DEF Clear, IInv, TimedLive, MinExists, TimerTracksHead, CbTimer

(* The reactor stops the expired timer and enters OnTimer. *)
LEMMA FireIInv ==
  ASSUME IInv, Fire
  PROVE  IInv'
<1>0. TypeOK /\ TimedLive /\ MinExists
  BY DEF IInv
<1>1. TypeOK'
  BY <1>0, ClockWidth DEF Fire, TypeOK, Half
<1>2. QED
  BY <1>0, <1>1 DEF Fire, IInv, TimedLive, MinExists, TimerTracksHead, CbTimer

(* OnTimer finds m_setTime empty and returns with the timer stopped. *)
LEMMA OnTimerEmptyIInv ==
  ASSUME IInv, OnTimerEmpty
  PROVE  IInv'
<1>0. TypeOK /\ TimedLive /\ MinExists /\ CbTimer
  BY DEF IInv
<1>1. timer = -1
  BY <1>0 DEF OnTimerEmpty, CbTimer
<1>2. QED
  BY <1>0, <1>1
  DEF OnTimerEmpty, IInv, TypeOK, TimedLive, MinExists, TimerTracksHead, CbTimer

(* OnTimer re-arms the timer for a first element that is not due. *)
LEMMA OnTimerRearmIInv ==
  ASSUME IInv, OnTimerRearm
  PROVE  IInv'
<1>0. TypeOK /\ TimedLive /\ MinExists
  BY DEF IInv
<1>1. Remaining(Head(timeSet)) \in 0..(Half - 1)
  BY <1>0, HeadRemRange DEF OnTimerRearm
<1>5. timer' \in -1..(2^(W-1) - 1)
  BY <1>1, ClockWidth DEF OnTimerRearm, Half
<1>2. TypeOK'
  BY <1>0, <1>5 DEF OnTimerRearm, TypeOK
<1>3. TimerTracksHead'
  BY DEF OnTimerRearm, TimerTracksHead, Remaining, Head, TimeLess
<1>4. QED
  BY <1>0, <1>2, <1>3 DEF OnTimerRearm, IInv, TimedLive, MinExists, CbTimer

(* OnTimedOut fluffs the due first element inside OnTimer: the timer,   *)
(* stopped by Fire, stays stopped.                                       *)
LEMMA OnTimedOutFluffIInv ==
  ASSUME IInv, OnTimedOutFluff
  PROVE  IInv'
<1>0. /\ TypeOK /\ TimedLive /\ MinExists /\ CbTimer
  BY DEF IInv
<1> DEFINE h == Head(timeSet)
<1>1. inCb /\ timeSet # {} /\ Remaining(h) = 0
  BY DEF OnTimedOutFluff
<1>2. timer = -1
  BY <1>0, <1>1 DEF CbTimer
<1>3. TypeOK'
  BY <1>0, <1>2, ClockWidth DEF OnTimedOutFluff, TypeOK, Half
<1>4. TimedLive'
  BY <1>0 DEF OnTimedOutFluff, TimedLive, TypeOK
<1>5. MinExists'
  BY <1>0 DEF OnTimedOutFluff, MinExists
<1>6. QED
  BY <1>1, <1>2, <1>3, <1>4, <1>5
  DEF OnTimedOutFluff, IInv, TimerTracksHead, CbTimer

(* OnTimedOut forwards the due first element with a fresh timeout:      *)
(* SetTimer re-arms the stopped timer when it stays the first element.  *)
LEMMA OnTimedOutForwardIInv ==
  ASSUME IInv, NEW d \in Delays, OnTimedOutForward(d)
  PROVE  IInv'
<1>0. /\ TypeOK /\ TimedLive /\ MinExists /\ CbTimer
  BY DEF IInv
<1>1. inCb /\ timeSet # {} /\ Remaining(Head(timeSet)) = 0
  BY DEF OnTimedOutForward
<1>2. timer = -1
  BY <1>0, <1>1 DEF CbTimer
<1>3. PICK h \in timeSet : h = Head(timeSet)
  BY <1>0, <1>1, HeadMin
<1>4. d \in 1..(Half - 1)
  BY StemAssumption DEF Half
<1>5. /\ tval' = [tval EXCEPT ![h] = (now + d) % Wrap]
      /\ timeSet' = timeSet /\ inCb' /\ now' = now
      /\ timer' = IF \A y \in timeSet \ {h} : tval'[h] < tval[y]
                  THEN d ELSE timer
  BY <1>1, <1>3 DEF OnTimedOutForward
<1>6. tval'[h] = (now + d) % Wrap /\ tval'[h] \in 0..(Wrap - 1)
  BY <1>0, <1>3, <1>4, <1>5, ModRange DEF TypeOK
<1>7. \A y \in timeSet \ {h} : tval'[y] = tval[y]
  BY <1>0, <1>5 DEF TypeOK
<1>8. TypeOK'
  <2>1. timer' \in -1..(2^(W-1) - 1)
    BY <1>2, <1>4, <1>5, ClockWidth DEF Half
  <2>2. QED
    BY <2>1, <1>0, <1>3, <1>4, <1>5, <1>6 DEF OnTimedOutForward, TypeOK
<1>9. MinExists'
  <2> SUFFICES ASSUME NEW T \in SUBSET timeSet', T # {}
               PROVE  \E m \in T : \A y \in T : tval'[m] <= tval'[y]
    BY DEF MinExists
  <2>1. CASE h \notin T
    BY <2>1, <1>0, <1>5, <1>7 DEF MinExists
  <2>2. CASE h \in T /\ T \ {h} = {}
    BY <2>2, <1>6
  <2>3. CASE h \in T /\ T \ {h} # {}
    <3>1. PICK m \in T \ {h} : \A y \in T \ {h} : tval[m] <= tval[y]
      BY <2>3, <1>0, <1>5 DEF MinExists
    <3>2. QED
      BY <3>1, <2>3, <1>0, <1>5, <1>6, <1>7 DEF TypeOK
  <2>4. QED
    BY <2>1, <2>2, <2>3
<1>10. CbTimer'
  <2>1. CASE \A y \in timeSet \ {h} : tval'[h] < tval[y]
    <3>1. Head(timeSet)' = h
      <4>1. \A y \in timeSet' \ {h} : tval'[h] < tval'[y]
        BY <2>1, <1>5, <1>7
      <4>2. \A y \in timeSet' : tval'[y] \in Int
        BY <1>8 DEF TypeOK
      <4>3. h \in timeSet'
        BY <1>3, <1>5
      <4>4. QED
        BY <4>1, <4>2, <4>3, HeadUnique DEF Head, HeadOf, TimeLess
    <3>2. Remaining(h)' = d
      <4>1. (((now + d) % Wrap) - now) % Wrap = d
        BY <1>0, <1>4, AddBack DEF TypeOK
      <4>2. (tval'[h] - now') % Wrap = d
        BY <4>1, <1>5, <1>6
      <4>3. d < 2^(W-1)
        BY <1>4, ClockWidth DEF Half
      <4>4. QED
        BY <4>2, <4>3 DEF Remaining
    <3>3. QED
      BY <2>1, <3>1, <3>2, <1>1, <1>4, <1>5 DEF CbTimer
  <2>2. CASE ~\A y \in timeSet \ {h} : tval'[h] < tval[y]
    BY <2>2, <1>2, <1>5 DEF CbTimer
  <2>3. QED
    BY <2>1, <2>2
<1>11. QED
  BY <1>0, <1>5, <1>8, <1>9, <1>10
  DEF OnTimedOutForward, IInv, TimedLive, TimerTracksHead

(* A millisecond passes: the running timer and the first element's     *)
(* timeout count down together, across the wrap of the clock.           *)
LEMMA TickIInv ==
  ASSUME IInv, Tick
  PROVE  IInv'
<1>0. /\ TypeOK /\ TimedLive /\ MinExists /\ TimerTracksHead
  BY DEF IInv
<1>1. /\ ~inCb /\ timer # 0 /\ elapsed < MaxElapsed
      /\ now' = (now + 1) % Wrap
      /\ timer' = IF timer > 0 THEN timer - 1 ELSE timer
      /\ tval' = tval /\ timeSet' = timeSet /\ inCb' = inCb
  BY DEF Tick
<1>2. TypeOK'
  <2>1. now' \in 0..(Wrap - 1)
    BY <1>0, <1>1, ModRange DEF TypeOK
  <2>2. timer' \in -1..(2^(W-1) - 1)
    BY <1>0, <1>1, ClockWidth DEF TypeOK, Half
  <2>3. due' \in [SElems -> Int]
    BY <1>0 DEF Tick, TypeOK
  <2>4. elapsed' \in 0..MaxElapsed
    BY <1>0, <1>1, StemAssumption DEF Tick, TypeOK
  <2>5. QED
    BY <2>1, <2>2, <2>3, <2>4, <1>0 DEF Tick, TypeOK
<1>3. TimerTracksHead'
  <2>1. CASE timeSet = {}
    BY <2>1, <1>0, <1>1 DEF TimerTracksHead
  <2>2. CASE timeSet # {}
    <3>1. PICK h \in timeSet : h = Head(timeSet)
      BY <2>2, <1>0, HeadMin
    <3>2. timer = Remaining(h) /\ timer \in 0..(Half - 1)
      BY <2>2, <3>1, <1>0, <1>1, HeadRemRange DEF TimerTracksHead
    <3>3. (tval[h] - now) % Wrap \in 1..(Half - 1) /\ timer = (tval[h] - now) % Wrap
      BY <3>2, <1>1, ClockWidth DEF Remaining, Half
    <3>4. (tval[h] - now') % Wrap = ((tval[h] - now) % Wrap) - 1
      <4>1. tval[h] \in 0..(Wrap - 1) /\ now \in 0..(Wrap - 1)
        BY <3>1, <1>0 DEF TypeOK
      <4>2. (tval[h] - now) % Wrap \in 1..(Half - 1)
        BY <3>3
      <4>3. now' = (now + 1) % Wrap
        BY <1>1
      <4>4. QED
        BY <4>1, <4>2, <4>3, TickDown
    <3>5. Head(timeSet)' = h
      BY <3>1, <1>1 DEF Head, TimeLess
    <3>6. Remaining(h)' = ((tval[h] - now) % Wrap) - 1
      BY <3>3, <3>4, <1>1, ClockWidth DEF Remaining, Half
    <3>7. QED
      BY <2>2, <3>3, <3>5, <3>6, <1>1 DEF TimerTracksHead
  <2>3. QED
    BY <2>1, <2>2
<1>4. QED
  BY <1>0, <1>1, <1>2, <1>3 DEF Tick, IInv, TimedLive, MinExists, CbTimer

(* A stuttering step changes nothing IInv depends on. *)
LEMMA StutterIInv ==
  ASSUME IInv, UNCHANGED vars
  PROVE  IInv'
  BY DEF vars, IInv, TypeOK, TimedLive, MinExists, TimerTracksHead, CbTimer,
         Remaining, Head, TimeLess

LEMMA NextIInv == IInv /\ [Next]_vars => IInv'
<1> SUFFICES ASSUME IInv, [Next]_vars PROVE IInv'
  OBVIOUS
<1>1. ASSUME NEW x \in SElems, NEW d \in Delays, AddStem(x, d) PROVE IInv'
  BY <1>1, AddStemIInv
<1>2. ASSUME NEW x \in SElems, Delete(x) PROVE IInv'
  BY <1>2, DeleteIInv
<1>3. ASSUME NEW t \in SElems, NEW u \in SElems, TryMerge(t, u) PROVE IInv'
  BY <1>3, TryMergeIInv
<1>4. ASSUME NEW d \in Delays, OnTimedOutForward(d) PROVE IInv'
  BY <1>4, OnTimedOutForwardIInv
<1>5. QED
  BY <1>1, <1>2, <1>3, <1>4, ClearIInv, FireIInv, OnTimerEmptyIInv,
     OnTimerRearmIInv, OnTimedOutFluffIInv, TickIInv, StutterIInv DEF Next

-----------------------------------------------------------------------------
(* The stem pool's state keeps its types: in particular the io::Timer is *)
(* stopped (-1) or armed for less than half the clock range.             *)
THEOREM StemInvariant == Spec => []IInv
  BY InitIInv, NextIInv, PTL DEF Spec

THEOREM TypeCorrect == Spec => []TypeOK
  BY StemInvariant, PTL DEF IInv

(* TxPool::Stem's single-timer discipline: between reactor events the   *)
(* io::Timer runs exactly when m_setTime is non-empty and then expires   *)
(* when its first element falls due, for every clock width, start time  *)
(* (wrap-around included) and set of per-hop timeouts.                   *)
THEOREM TimerTracksHeadHolds == Spec => []TimerTracksHead
  BY StemInvariant, PTL DEF IInv

=============================================================================
