-------------------------------- MODULE Stem ---------------------------------
(***************************************************************************)
(* TxPool::Stem (src/node/txpool.h, lines 123-177): the Dandelion stem    *)
(* pool.  Each element has an absolute deadline m_Time.m_Value, a         *)
(* uint32_t millisecond count, and the pool keeps one io::Timer armed for *)
(* the first element of m_setTime, ordered by Time::operator<.  OnTimer   *)
(* walks the due elements and hands each to the owner's OnTimedOut, which *)
(* fluffs it (Delete) or forwards it and re-arms it (SetTimer).           *)
(*                                                                         *)
(* The clock is GetTime_ms() modulo 2^W: the width W keeps the wrap-around *)
(* of the uint32_t arithmetic reachable on a small instance.  The ghost   *)
(* due[x] counts the real ticks left until x's deadline.                  *)
(***************************************************************************)
EXTENDS Integers

CONSTANTS
    SElems,       \* identities of Stem::Element objects
    W,            \* width of the millisecond clock in bits (32 in the code)
    Delays,       \* the randomized per-hop timeouts the owner draws
    StartTimes,   \* clock values the node may start at
    MaxElapsed    \* bound on the ticks of a behaviour

Wrap == 2^W

ASSUME StemAssumption ==
    /\ W \in Nat \ {0}
    /\ Delays \subseteq 1..(2^(W-1) - 1)
    /\ StartTimes \subseteq 0..(2^W - 1)
    /\ MaxElapsed \in Nat

(* Two facts of arithmetic on the clock width, consequences of W > 0    *)
(* that TLC evaluates and the provers have no axioms of 2^n for.         *)
ASSUME ClockWidthFacts ==
    /\ 2^(W-1) \in Nat \ {0}
    /\ 2^W = 2 * 2^(W-1)

VARIABLES
    sst,      \* lifecycle of each element: "Free", "Live" or "Gone"
    tval,     \* m_Time.m_Value
    timeSet,  \* elements linked in m_setTime
    aggr,     \* elements linked in m_setProfit (InsertAggr / DeleteAggr)
    now,      \* GetTime_ms() modulo 2^W
    timer,    \* ticks left on the running m_pTimer, -1 when it is not running
    inCb,     \* OnTimer is running on the reactor
    due,      \* history: real ticks left until each element's deadline
    elapsed   \* ticks since the start, bounded by MaxElapsed

vars == <<sst, tval, timeSet, aggr, now, timer, inCb, due, elapsed>>

-----------------------------------------------------------------------------
(* Time::operator<: a plain comparison of the uint32_t values. *)
TimeLess(a, b) == tval[a] < tval[b]

(* m_setTime.begin(): a first element of the multiset. *)
Head(S) == CHOOSE h \in S : \A y \in S : ~TimeLess(y, h)

(* get_NextTimeout's timeout: the deadline minus the clock, as a signed   *)
(* difference of W-bit values; 0 when the deadline has passed.            *)
Remaining(x) ==
    LET dt == (tval[x] - now) % Wrap
    IN IF dt < 2^(W-1) THEN dt ELSE 0

(* A faulty SetTimer that restarts the io::Timer for every insertion.   *)
SetTimerAlways(d, x) ==
    /\ tval' = [tval EXCEPT ![x] = (now + d) % Wrap]
    /\ timeSet' = timeSet \cup {x}
    /\ due' = [due EXCEPT ![x] = d]
    /\ timer' = d

(* SetTimer(d, x): DeleteTimer(x), key x at now + d in W-bit arithmetic,  *)
(* insert it, and restart the io::Timer with d when x became the first   *)
(* element (a new element goes after the ones with an equal key).        *)
SetTimer(d, x) ==
    /\ tval' = [tval EXCEPT ![x] = (now + d) % Wrap]
    /\ timeSet' = timeSet \cup {x}
    /\ due' = [due EXCEPT ![x] = d]
    /\ timer' = IF \A y \in timeSet \ {x} : tval'[x] < tval[y]
                THEN d ELSE timer

(* A faulty Delete that never re-arms the timer. *)
RearmAfterNever(x, S) == timer

(* The timer after x left m_setTime: Delete re-arms for the new first    *)
(* element (or kills the timer) when x backed the armed timer.           *)
RearmAfter(x, S) ==
    IF x \in timeSet /\ x = Head(timeSet)
    THEN IF S = {} THEN -1 ELSE Remaining(Head(S))
    ELSE timer

-----------------------------------------------------------------------------
Init ==
    /\ sst = [x \in SElems |-> "Free"]
    /\ tval = [x \in SElems |-> 0]
    /\ timeSet = {}
    /\ aggr = {}
    /\ now \in StartTimes
    /\ timer = -1
    /\ inCb = FALSE
    /\ due = [x \in SElems |-> 0]
    /\ elapsed = 0

(* The owner accepts a stem transaction: a new element, InsertAggr, and  *)
(* SetTimer with a random timeout. *)
AddStem(x, d) ==
    /\ ~inCb
    /\ sst[x] = "Free"
    /\ sst' = [sst EXCEPT ![x] = "Live"]
    /\ aggr' = aggr \cup {x}
    /\ SetTimer(d, x)
    /\ UNCHANGED <<now, inCb, elapsed>>

(* Delete(x): DeleteRaw (out of m_setProfit and m_setTime, freed) and    *)
(* re-arm when x was the first element of m_setTime. *)
Delete(x) ==
    /\ ~inCb
    /\ sst[x] = "Live"
    /\ sst' = [sst EXCEPT ![x] = "Gone"]
    /\ aggr' = aggr \ {x}
    /\ timeSet' = timeSet \ {x}
    /\ timer' = RearmAfter(x, timeSet \ {x})
    /\ UNCHANGED <<tval, now, inCb, due, elapsed>>

(* TryMerge(trg, src) when ValidateTxContext accepts the merged          *)
(* transaction: trg keeps its place in m_setTime and takes the merged    *)
(* transaction, src is deleted.  A refused merge changes nothing.        *)
TryMerge(trg, src) ==
    /\ ~inCb
    /\ trg # src
    /\ {trg, src} \subseteq aggr
    /\ sst' = [sst EXCEPT ![src] = "Gone"]
    /\ aggr' = aggr \ {src}
    /\ timeSet' = timeSet \ {src}
    /\ timer' = RearmAfter(src, timeSet \ {src})
    /\ UNCHANGED <<tval, now, inCb, due, elapsed>>

(* Clear(): every element deleted, KillTimer. *)
Clear ==
    /\ ~inCb
    /\ \E x \in SElems : sst[x] = "Live"
    /\ sst' = [x \in SElems |-> IF sst[x] = "Live" THEN "Gone" ELSE sst[x]]
    /\ aggr' = {} /\ timeSet' = {}
    /\ timer' = -1
    /\ UNCHANGED <<tval, now, inCb, due, elapsed>>

(* The reactor runs the timer's callback once it expired. *)
Fire ==
    /\ ~inCb
    /\ timer = 0
    /\ inCb' = TRUE
    /\ timer' = -1
    /\ UNCHANGED <<sst, tval, timeSet, aggr, now, due, elapsed>>

(* One pass of OnTimer's loop: get_NextTimeout; stop when m_setTime is   *)
(* empty; re-arm and stop when the first element is not due; otherwise   *)
(* DeleteTimer it and call OnTimedOut, where the owner fluffs it         *)
(* (Delete) or forwards it with a fresh timeout (SetTimer).              *)
OnTimerEmpty ==
    /\ inCb /\ timeSet = {}
    /\ inCb' = FALSE
    /\ UNCHANGED <<sst, tval, timeSet, aggr, now, timer, due, elapsed>>

OnTimerRearm ==
    /\ inCb /\ timeSet # {}
    /\ Remaining(Head(timeSet)) > 0
    /\ timer' = Remaining(Head(timeSet))
    /\ inCb' = FALSE
    /\ UNCHANGED <<sst, tval, timeSet, aggr, now, due, elapsed>>

OnTimedOutFluff ==
    LET h == Head(timeSet) IN
    /\ inCb /\ timeSet # {}
    /\ Remaining(h) = 0
    /\ sst' = [sst EXCEPT ![h] = "Gone"]
    /\ aggr' = aggr \ {h}
    /\ timeSet' = timeSet \ {h}
    /\ UNCHANGED <<tval, now, timer, inCb, due, elapsed>>

OnTimedOutForward(d) ==
    LET h == Head(timeSet) IN
    /\ inCb /\ timeSet # {}
    /\ Remaining(h) = 0
    /\ tval' = [tval EXCEPT ![h] = (now + d) % Wrap]
    /\ due' = [due EXCEPT ![h] = d]
    /\ timer' = IF \A y \in timeSet \ {h} : tval'[h] < tval[y]
                THEN d ELSE timer
    /\ UNCHANGED <<sst, timeSet, aggr, now, inCb, elapsed>>

(* A faulty clock step that also counts down a timer that is not running. *)
TickStopped ==
    /\ ~inCb
    /\ timer # 0
    /\ elapsed < MaxElapsed
    /\ now' = (now + 1) % Wrap
    /\ timer' = timer - 1
    /\ due' = [x \in SElems |-> IF x \in timeSet THEN due[x] - 1 ELSE due[x]]
    /\ elapsed' = elapsed + 1
    /\ UNCHANGED <<sst, tval, timeSet, aggr, inCb>>

(* The clock advances one millisecond; an expired timer is served first. *)
Tick ==
    /\ ~inCb
    /\ timer # 0
    /\ elapsed < MaxElapsed
    /\ now' = (now + 1) % Wrap
    /\ timer' = IF timer > 0 THEN timer - 1 ELSE timer
    /\ due' = [x \in SElems |-> IF x \in timeSet THEN due[x] - 1 ELSE due[x]]
    /\ elapsed' = elapsed + 1
    /\ UNCHANGED <<sst, tval, timeSet, aggr, inCb>>

Next ==
    \/ \E x \in SElems, d \in Delays : AddStem(x, d)
    \/ \E x \in SElems : Delete(x)
    \/ \E t, s \in SElems : TryMerge(t, s)
    \/ Clear
    \/ Fire
    \/ OnTimerEmpty
    \/ OnTimerRearm
    \/ OnTimedOutFluff
    \/ \E d \in Delays : OnTimedOutForward(d)
    \/ Tick

Spec == Init /\ [][Next]_vars

-----------------------------------------------------------------------------
(* Every variable holds a value of its kind. *)
TypeOK ==
    /\ sst \in [SElems -> {"Free", "Live", "Gone"}]
    /\ tval \in [SElems -> 0..(Wrap - 1)]
    /\ timeSet \subseteq SElems /\ aggr \subseteq SElems
    /\ now \in 0..(Wrap - 1)
    /\ timer \in -1..(2^(W-1) - 1)
    /\ inCb \in BOOLEAN
    /\ due \in [SElems -> Int]
    /\ elapsed \in 0..MaxElapsed

(* The single-timer invariant: between reactor events, the io::Timer is  *)
(* running exactly when m_setTime is not empty, and then it expires when *)
(* the first element of m_setTime falls due, after any interleaving of   *)
(* insertions, deletions, merges and timer callbacks.                    *)
TimerTracksHead ==
    ~inCb => timer = IF timeSet = {} THEN -1 ELSE Remaining(Head(timeSet))

(* No stem transaction waits past its deadline: every element of         *)
(* m_setTime still has its deadline ahead of it or at the current        *)
(* millisecond, in real time rather than in the wrapping clock.          *)
TimelyTimeout ==
    \A x \in timeSet : due[x] >= 0

=============================================================================
