------------------------- MODULE MirrorCoinAppProofs -------------------------
(***************************************************************************)
(* Proofs about the MirrorCoin application shader (MirrorCoinApp.tla),    *)
(* for every set of contracts, pipes, keys and incoming messages.  Each  *)
(* call of Method_1 only reads the chain and replaces the answer, so the  *)
(* properties follow from what the handler of the last call builds.       *)
(***************************************************************************)
EXTENDS MirrorCoinApp, TLAPS

(* Every branch of Method_1 answers through Respond with the call's own   *)
(* role and action, and leaves the chain alone.                           *)
LEMMA Method1Responds ==
  ASSUME NEW role, NEW act, Method1(role, act)
  PROVE  /\ \E c, s, ans : Respond(role, act, c, s, ans)
         /\ UNCHANGED chain
  BY DEF Method1

(* A call other than the user's receive_all makes ReceiveExact vacuous.   *)
LEMMA OtherCallExact ==
  ASSUME NEW role, NEW act, ~(role = "user" /\ act = "receive_all"),
         NEW c, NEW s, NEW ans, Respond(role, act, c, s, ans)
  PROVE  ReceiveExact'
  BY DEF Respond, ReceiveExact

(* The user's receive_all answers through On_user_receive_all.           *)
LEMMA ReceiveAllBranch ==
  ASSUME Method1("user", "receive_all")
  PROVE  \E cid \in Cids, s \in Starts, junk \in Garbage :
            Respond("user", "receive_all", cid, s,
                    OnUserReceiveAll(cid, s, junk))
  BY DEF Method1, Roles, Actions

(* When the contract and its pipe exist, On_user_receive_all reads the    *)
(* commission from the pipe and claims the messages that                  *)
(* IncomingWalker::MoveNext passes for this wallet's key.                 *)
LEMMA ReceiveAllExact ==
  ASSUME NEW cid \in Cids, NEW s \in Starts, NEW junk \in Garbage,
         Respond("user", "receive_all", cid, s, OnUserReceiveAll(cid, s, junk)),
         UNCHANGED chain
  PROVE  ReceiveExact'
<1> DEFINE g == global[cid]
<1>1. SUFFICES ASSUME g # None, pipe[g.pipeID] # None
               PROVE  out'.kernels =
                        {Kernel(cid, "Receive", <<m.cp, m.idx>>,
                                <<Fc(0, pipe[g.pipeID], 1),
                                  Fc(g.aid, m.amount, 0)>>, TRUE) :
                           m \in {m \in pipeMsgs[g.pipeID] :
                                     /\ m.cp >= s
                                     /\ m.sender = g.remote
                                     /\ m.receiver = cid
                                     /\ m.user = MyPk[cid]}}
  BY DEF Respond, ReceiveExact, chain
<1>2. Incoming(cid, MyPk[cid], s) =
        {m \in pipeMsgs[g.pipeID] :
            /\ m.cp >= s /\ m.sender = g.remote /\ m.receiver = cid
            /\ m.user = MyPk[cid]}
  BY MirrorCoinAppAssumption DEF Incoming, MoveNext
<1>3. OnUserReceiveAll(cid, s, junk).kernels =
        {Kernel(cid, "Receive", <<m.cp, m.idx>>,
                <<Fc(0, pipe[g.pipeID], 1), Fc(g.aid, m.amount, 0)>>, TRUE) :
            m \in Incoming(cid, MyPk[cid], s)}
  BY <1>1 DEF OnUserReceiveAll, Answer
<1>4. out' = OnUserReceiveAll(cid, s, junk)
  BY DEF Respond
<1>5. QED
  BY <1>2, <1>3, <1>4

-----------------------------------------------------------------------------
(* Every step keeps ReceiveExact: a stutter trivially, and a call because *)
(* the answer it leaves is either not a receive_all or built from the     *)
(* chain it read, which no call changes.                                  *)
LEMMA NextReceiveExact == ReceiveExact /\ [Next]_vars => ReceiveExact'
<1> SUFFICES ASSUME ReceiveExact, [Next]_vars PROVE ReceiveExact'
  OBVIOUS
<1>1. CASE Next
  <2>1. PICK role, act : Method1(role, act)
    BY <1>1 DEF Next
  <2>2. UNCHANGED chain
    BY <2>1, Method1Responds
  <2>3. CASE role = "user" /\ act = "receive_all"
    <3>1. PICK cid \in Cids, s \in Starts, junk \in Garbage :
            Respond("user", "receive_all", cid, s,
                    OnUserReceiveAll(cid, s, junk))
      BY <2>1, <2>3, ReceiveAllBranch
    <3>2. QED
      BY <2>2, <3>1, ReceiveAllExact
  <2>4. CASE ~(role = "user" /\ act = "receive_all")
    <3>1. PICK c, s, ans : Respond(role, act, c, s, ans)
      BY <2>1, Method1Responds
    <3>2. QED
      BY <2>4, <3>1, OtherCallExact
  <2>5. QED
    BY <2>3, <2>4
<1>2. CASE UNCHANGED vars
  BY <1>2 DEF vars, ReceiveExact
<1>3. QED
  BY <1>1, <1>2

(* receive_all claims exactly the messages of this wallet: whenever the   *)
(* last call was the user's receive_all on a contract whose Global and    *)
(* pipe state exist, On_user_receive_all asked the wallet to sign one     *)
(* Receive kernel per message of the pipe from iStartFrom on that the      *)
(* remote counterpart sent to this contract for this wallet's key, with    *)
(* the pipe's commission and the message's amount; for every chain state. *)
THEOREM ReceiveExactHolds == Spec => []ReceiveExact
<1>1. Init => ReceiveExact
  <2> DEFINE noCall == [role |-> "", action |-> "", cid |-> None, start |-> 0]
  <2>1. Init => last = noCall
    BY Zenon DEF Init
  <2>2. noCall.role = ""
    OBVIOUS
  <2> HIDE DEF noCall
  <2>3. QED
    BY <2>1, <2>2 DEF ReceiveExact
<1>2. QED
  BY <1>1, NextReceiveExact, PTL DEF Spec
=============================================================================
