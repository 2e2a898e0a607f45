-------------------------------- MODULE Fluff --------------------------------
(***************************************************************************)
(* TxPool::Fluff (src/node/txpool.h, lines 45-121): the public mempool.   *)
(* Each element is in one of three states; the state fixes, through a     *)
(* feature vector, which of the pool's indexes hold the element.  An      *)
(* element entering the SendAndProfit feature gets a Send record that is  *)
(* appended to the FIFO send queue; peers walk that queue with a cursor   *)
(* that holds a reference on the record it points at, and a record leaves *)
(* the queue when its last reference is released.                         *)
(*                                                                         *)
(* Element identities are not reused: an element is "Free" before its    *)
(* AddValidTx and "Gone" after its Delete.  A Send record is named by the *)
(* element that created it (an element creates at most one), and the     *)
(* queue's insertion order is kept as a creation number seqNo.            *)
(***************************************************************************)
EXTENDS Naturals, FiniteSets

CONSTANTS
    Elems,      \* identities of Fluff::Element objects
    Keys,       \* conflict keys (Transaction::KeyType)
    Peers,      \* peers that drain the send queue
    NoRec,      \* a null Send* / cursor
    NoKey       \* key of an element not yet created

ASSUME ConstAssumption ==
    /\ IsFiniteSet(Elems) /\ IsFiniteSet(Peers)
    /\ NoRec \notin Elems
    /\ NoKey \notin Keys

VARIABLES
    st,         \* m_State of each element, or "Free" / "Gone"
    key,        \* m_Tx key of each element
    setTxs,     \* m_setTxs
    setProfit,  \* m_setProfit
    waitFluff,  \* m_lstWaitFluff
    outdated,   \* m_lstOutdated
    pSend,      \* m_pSend # nullptr
    owner,      \* Send::m_pThis # nullptr (it points to the creating element)
    refs,       \* Send::m_Refs
    queue,      \* records linked in m_SendQueue
    seqNo,      \* position of each record in m_SendQueue's insertion order
    nseq,       \* creation counter behind seqNo
    cursor,     \* the Send record each peer currently holds
    sends       \* history: how often each peer transmitted each element

vars == <<st, key, setTxs, setProfit, waitFluff, outdated, pSend, owner,
          refs, queue, seqNo, nseq, cursor, sends>>

-----------------------------------------------------------------------------
(* enum State *)
States == {"PreFluffed", "Fluffed", "Outdated"}

(* Features::get: the indexes an element in state s belongs to. *)
FeaturesOf(s) ==
    CASE s = "PreFluffed" -> {"TxSet", "WaitFluff"}
      [] s = "Fluffed"    -> {"SendAndProfit", "TxSet"}
      [] s = "Outdated"   -> {"TxSet", "Outdated"}

(* A faulty SetState that lets an Outdated element be fluffed again. *)
TransitionsResurrect ==
    {<<"PreFluffed", "Fluffed">>, <<"PreFluffed", "Outdated">>,
     <<"Fluffed", "Outdated">>, <<"Outdated", "Fluffed">>}

(* The transitions SetState performs; Outdated is absorbing. *)
Transitions == {<<"PreFluffed", "Fluffed">>, <<"PreFluffed", "Outdated">>,
                <<"Fluffed", "Outdated">>}

Live == {e \in Elems : st[e] \in States}

(* The features of an element; a free or deleted element has none. *)
ElemFeatures(x) == IF st[x] \in States THEN FeaturesOf(st[x]) ELSE {}

(* An element is active when it is not Outdated. *)
Active == {e \in Elems : st[e] \in {"PreFluffed", "Fluffed"}}

(* A faulty diff that links on a change but never unlinks. *)
ToggleNoUnlink(S, x, n, f0, f) ==
    IF (n \in f0) = (n \in f) THEN S ELSE S \cup {x}

(* SetStateHistIn / SetStateHistOut and the set cases of SetState(x, f0, *)
(* f): link or unlink x when feature n differs between f0 and f.          *)
Toggle(S, x, n, f0, f) ==
    IF (n \in f0) = (n \in f) THEN S
    ELSE IF n \in f THEN S \cup {x} ELSE S \ {x}

(* Release of record r by one holder, on the refs and queue it sees: the *)
(* record is unlinked when its last reference goes.                      *)
RelRefs(rf, r) == [rf EXCEPT ![r] = @ - 1]

(* A faulty Release that tests the count before decrementing it. *)
RelQueueLate(rf, q, r) == IF rf[r] = 0 THEN q \ {r} ELSE q

RelQueue(rf, q, r) == IF rf[r] = 1 THEN q \ {r} ELSE q

(* A faulty detach that leaves Send::m_pThis pointing to the element. *)
ResetThisSkipped(o, x) == o

(* Send::m_pThis = nullptr: the record no longer reaches its element. *)
ResetThis(o, x) == [o EXCEPT ![x] = FALSE]

(* SetState(x, f0, f): move x between the indexes by the difference of   *)
(* the feature vectors.  Gaining SendAndProfit creates a Send record     *)
(* with the owner's reference and appends it to the send queue; losing   *)
(* it clears m_pThis and releases the owner's reference.                  *)
SetStateDiff(x, f0, f) ==
    /\ setTxs'    = Toggle(setTxs, x, "TxSet", f0, f)
    /\ setProfit' = Toggle(setProfit, x, "SendAndProfit", f0, f)
    /\ waitFluff' = Toggle(waitFluff, x, "WaitFluff", f0, f)
    /\ outdated'  = Toggle(outdated, x, "Outdated", f0, f)
    /\ IF ("SendAndProfit" \in f0) = ("SendAndProfit" \in f)
         THEN UNCHANGED <<pSend, owner, refs, queue, seqNo, nseq>>
       ELSE IF "SendAndProfit" \in f
         THEN /\ pSend' = [pSend EXCEPT ![x] = TRUE]
              /\ owner' = [owner EXCEPT ![x] = TRUE]
              /\ refs'  = [refs EXCEPT ![x] = 1]
              /\ queue' = queue \cup {x}
              /\ seqNo' = [seqNo EXCEPT ![x] = nseq]
              /\ nseq'  = nseq + 1
         ELSE /\ pSend' = [pSend EXCEPT ![x] = FALSE]
              /\ owner' = ResetThis(owner, x)
              /\ refs'  = RelRefs(refs, x)
              /\ queue' = RelQueue(refs, queue, x)
              /\ UNCHANGED <<seqNo, nseq>>

-----------------------------------------------------------------------------
(* The constructor: every index and the send queue empty. *)
Init ==
    /\ st = [e \in Elems |-> "Free"]
    /\ key = [e \in Elems |-> NoKey]
    /\ setTxs = {} /\ setProfit = {} /\ waitFluff = {} /\ outdated = {}
    /\ pSend = [e \in Elems |-> FALSE]
    /\ owner = [e \in Elems |-> FALSE]
    /\ refs = [e \in Elems |-> 0]
    /\ queue = {}
    /\ seqNo = [e \in Elems |-> 0]
    /\ nseq = 0
    /\ cursor = [p \in Peers |-> NoRec]
    /\ sends = [p \in Peers |-> [e \in Elems |-> 0]]

(* AddValidTx(tx, stats, key, s): a new element in state s, linked into  *)
(* the indexes of Features::get(s).  An active element is refused when   *)
(* an active element with the same conflict key is present (Duplicate).  *)
AddValidTx(x, k, s) ==
    /\ st[x] = "Free"
    /\ s # "Outdated" => \A y \in Active : key[y] # k
    /\ st' = [st EXCEPT ![x] = s]
    /\ key' = [key EXCEPT ![x] = k]
    /\ SetStateDiff(x, {}, FeaturesOf(s))
    /\ UNCHANGED <<cursor, sends>>

(* SetState(x, s): a no-op when s is the current state (a stutter), and  *)
(* refused for a transition out of Outdated. *)
SetState(x, s) ==
    /\ x \in Live
    /\ <<st[x], s>> \in Transitions
    /\ SetStateDiff(x, FeaturesOf(st[x]), FeaturesOf(s))
    /\ st' = [st EXCEPT ![x] = s]
    /\ UNCHANGED <<key, cursor, sends>>

(* Delete(x): unlink x from the indexes of its state, release its Send   *)
(* record, free it. *)
Delete(x) ==
    /\ x \in Live
    /\ SetStateDiff(x, FeaturesOf(st[x]), {})
    /\ st' = [st EXCEPT ![x] = "Gone"]
    /\ UNCHANGED <<key, cursor, sends>>

(* A faulty Clear that releases a Send record for every element. *)
ClearAll ==
    /\ Live # {}
    /\ st' = [e \in Elems |-> IF e \in Live THEN "Gone" ELSE st[e]]
    /\ setTxs' = {} /\ setProfit' = {} /\ waitFluff' = {} /\ outdated' = {}
    /\ pSend' = [e \in Elems |-> IF e \in Live THEN FALSE ELSE pSend[e]]
    /\ owner' = [e \in Elems |-> IF e \in Live THEN FALSE ELSE owner[e]]
    /\ refs' = [e \in Elems |-> IF e \in Live THEN refs[e] - 1 ELSE refs[e]]
    /\ queue' = queue \ {r \in Live : refs[r] = 1}
    /\ UNCHANGED <<key, seqNo, nseq, cursor, sends>>

(* Clear(): Delete of every element, in one step of the owning loop. *)
Clear ==
    LET D == {x \in Live : pSend[x]} IN
    /\ Live # {}
    /\ st' = [e \in Elems |-> IF e \in Live THEN "Gone" ELSE st[e]]
    /\ setTxs' = {} /\ setProfit' = {} /\ waitFluff' = {} /\ outdated' = {}
    /\ pSend' = [e \in Elems |-> IF e \in D THEN FALSE ELSE pSend[e]]
    /\ owner' = [e \in Elems |-> IF e \in D THEN FALSE ELSE owner[e]]
    /\ refs' = [e \in Elems |-> IF e \in D THEN refs[e] - 1 ELSE refs[e]]
    /\ queue' = queue \ {r \in D : refs[r] = 1}
    /\ UNCHANGED <<key, seqNo, nseq, cursor, sends>>

(* Faulty cursor steps: one that may stay on its own record, one that    *)
(* takes a null cursor for the end of the queue.                         *)
LaterInclusive(p) ==
    {r \in queue : cursor[p] = NoRec \/ seqNo[r] >= seqNo[cursor[p]]}
LaterNoStart(p) ==
    {r \in queue : cursor[p] # NoRec /\ seqNo[r] > seqNo[cursor[p]]}

(* The record a peer moves to: the first record queued after its cursor, *)
(* or the queue's head when it holds none. *)
Later(p) == {r \in queue : cursor[p] = NoRec \/ seqNo[r] > seqNo[cursor[p]]}
IsNextRecord(p, n) == n \in Later(p) /\ \A q \in Later(p) : seqNo[n] <= seqNo[q]

(* A peer's send task: take a reference on the next record, release the *)
(* one it held (Release), and transmit the transaction when the record   *)
(* still has its element. *)
PeerAdvance(p) ==
    \E n \in Elems :
        LET c  == cursor[p]
            rf == [refs EXCEPT ![n] = @ + 1]
        IN
        /\ IsNextRecord(p, n)
        /\ cursor' = [cursor EXCEPT ![p] = n]
        /\ refs'  = IF c = NoRec THEN rf ELSE RelRefs(rf, c)
        /\ queue' = IF c = NoRec THEN queue ELSE RelQueue(rf, queue, c)
        /\ sends' = IF owner[n] THEN [sends EXCEPT ![p][n] = @ + 1] ELSE sends
        /\ UNCHANGED <<st, key, setTxs, setProfit, waitFluff, outdated, pSend,
                       owner, seqNo, nseq>>

Next ==
    \/ \E x \in Elems, k \in Keys, s \in States : AddValidTx(x, k, s)
    \/ \E x \in Elems, s \in States : SetState(x, s)
    \/ \E x \in Elems : Delete(x)
    \/ Clear
    \/ \E p \in Peers : PeerAdvance(p)

(* Peers keep draining the queue while their connection is up. *)
Fairness == \A p \in Peers : WF_vars(PeerAdvance(p))

Spec == Init /\ [][Next]_vars /\ Fairness

-----------------------------------------------------------------------------
(* Every variable holds a value of its kind. *)
TypeOK ==
    /\ st \in [Elems -> States \cup {"Free", "Gone"}]
    /\ key \in [Elems -> Keys \cup {NoKey}]
    /\ setTxs \subseteq Elems /\ setProfit \subseteq Elems
    /\ waitFluff \subseteq Elems /\ outdated \subseteq Elems
    /\ pSend \in [Elems -> BOOLEAN]
    /\ owner \in [Elems -> BOOLEAN]
    /\ refs \in [Elems -> Nat]
    /\ queue \subseteq Elems
    /\ seqNo \in [Elems -> Nat]
    /\ nseq \in Nat
    /\ cursor \in [Peers -> Elems \cup {NoRec}]
    /\ sends \in [Peers -> [Elems -> Nat]]

(* The Features invariant of Fluff::Element: after any sequence of        *)
(* AddValidTx, SetState, Delete and Clear, an element is in exactly the  *)
(* indexes Features::get(m_State) names and holds a Send record exactly  *)
(* while it has SendAndProfit; a freed element is in none and holds none. *)
IndexesMatchState ==
    \A x \in Elems :
        /\ x \in setTxs    <=> "TxSet" \in ElemFeatures(x)
        /\ x \in setProfit <=> "SendAndProfit" \in ElemFeatures(x)
        /\ x \in waitFluff <=> "WaitFluff" \in ElemFeatures(x)
        /\ x \in outdated  <=> "Outdated" \in ElemFeatures(x)
        /\ pSend[x]        <=> "SendAndProfit" \in ElemFeatures(x)

(* Send::m_Refs counts its holders: the element while m_pThis is set,   *)
(* and every peer whose cursor is on it.  A record is linked in the send *)
(* queue exactly while it has a holder: Release never frees a record a   *)
(* peer still walks from (no dangling cursor) and no record without a    *)
(* holder stays queued (no leak).                                         *)
Holders(r) == {p \in Peers : cursor[p] = r}
RefsAccounted ==
    \A r \in Elems :
        /\ refs[r] = (IF owner[r] THEN 1 ELSE 0) + Cardinality(Holders(r))
        /\ r \in queue <=> refs[r] > 0
        /\ owner[r] <=> pSend[r]

(* The mining candidates in m_setProfit never contain two transactions   *)
(* with the same conflict key (a double spend), whatever the order of    *)
(* AddValidTx and SetState calls.                                         *)
ProfitSetConflictFree ==
    \A x, y \in setProfit : x # y => key[x] # key[y]

(* Walking the FIFO send queue, a peer transmits each transaction at     *)
(* most once, even while records ahead of and behind its cursor are      *)
(* released and unlinked. *)
NoDuplicateSend ==
    \A p \in Peers, x \in Elems : sends[p][x] <= 1

(* A peer transmits only a transaction that is Fluffed at that moment:  *)
(* a record whose element was outdated or deleted no longer points to it *)
(* (m_pThis cleared), so no stale or freed element is sent. *)
SentOnlyWhileFluffed ==
    [][\A p \in Peers, x \in Elems :
          sends'[p][x] > sends[p][x] => st[x] = "Fluffed"]_vars

(* Every transaction that is Fluffed is eventually transmitted to every *)
(* peer, unless it stops being Fluffed first. *)
EventuallySent ==
    \A p \in Peers, x \in Elems :
        st[x] = "Fluffed" ~> (sends[p][x] > 0 \/ st[x] # "Fluffed")

-----------------------------------------------------------------------------
(* The refinement mapping to Relay: PreFluffed is waiting, Outdated and  *)
(* deleted elements are retired, and a peer's copies are its sends.      *)
PhaseOf(x) ==
    CASE st[x] = "Free"       -> "Free"
      [] st[x] = "PreFluffed" -> "Waiting"
      [] st[x] = "Fluffed"    -> "Fluffed"
      [] OTHER                -> "Retired"

R == INSTANCE Relay WITH Txs <- Elems,
                         phase <- [x \in Elems |-> PhaseOf(x)],
                         copies <- sends

(* The pool with its peers implements Relay: every AddValidTx, SetState, *)
(* Delete, Clear and peer step is an admission, a fluff, a retirement, a *)
(* first delivery of a fluffed transaction or a stutter, and under the   *)
(* peers' fairness every fluffed transaction reaches every peer.         *)
RelaySpec == R!Spec

=============================================================================
