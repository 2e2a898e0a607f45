---------------------------- MODULE MirrorCoinApp ----------------------------
(***************************************************************************)
(* The MirrorCoin application shader (src/bvm/Shaders/mirrorcoin/app.cpp): *)
(* Method_1 reads the role and action from the wallet's request, reads    *)
(* the contract state it needs, and answers with a document (errors,      *)
(* listed items) and the kernels the wallet is to sign.  Each call is one *)
(* step: the shader runs to completion and only reads the chain.          *)
(*                                                                         *)
(* The chain state the shader reads is chosen in Init and not changed:    *)
(* the MirrorCoin Global of every contract, the configuration of every    *)
(* pipe, and the pipe's incoming messages, keyed (checkpoint, index).     *)
(* A read of a missing Pipe::StateIn leaves the local uninitialized; its  *)
(* commission is any of Garbage.                                          *)
(***************************************************************************)
EXTENDS Naturals

CONSTANTS
    Cids,        \* ContractIDs
    Pipes,       \* ContractIDs of pipe contracts
    Keys,        \* PubKeys
    Zero,        \* the all-zero PubKey
    MyPk,        \* DerivePk(pk, &cid, sizeof(cid)) of this wallet
    AssetIDs,    \* asset ids
    Amounts,     \* amounts a request may carry
    MetaSizes,   \* DocGetText("metadata", nullptr, 0): buffer size
    Starts,      \* iStartFrom values
    Msgs,        \* the possible incoming pipe messages
    Commissions, \* Pipe m_Cfg.m_ComissionPerMsg values
    Garbage,     \* what an uninitialized m_ComissionPerMsg may hold
    DepositCA,   \* g_DepositCA
    None         \* an absent variable

ASSUME MirrorCoinAppAssumption ==
    /\ Zero \in Keys /\ MyPk \in [Cids -> Keys \ {Zero}]
    /\ Msgs \subseteq [cp : Nat, idx : Nat, sender : Cids, receiver : Cids,
                       user : Keys, amount : Nat]
    /\ None \notin Cids \cup Pipes \cup Keys

Roles == {"manager", "user"}

(* The actions of each role, as MirrorCoinRole_manager and             *)
(* MirrorCoinRole_user list them.                                        *)
Actions == [manager |-> {"create", "set_remote", "destroy", "view",
                         "view_params", "view_incoming"},
            user    |-> {"view_addr", "view_incoming", "send", "receive_all"}]

VARIABLES
    global,    \* Cid -> MirrorCoin::Global, or None
    pipe,      \* Pipe -> its m_Cfg.m_ComissionPerMsg, or None
    pipeMsgs,  \* Pipe -> its incoming messages
    out,       \* the answer of the last call: errors, items, kernels
    last       \* history: the role, action and arguments of the last call

vars == <<global, pipe, pipeMsgs, out, last>>

chain == <<global, pipe, pipeMsgs>>

-----------------------------------------------------------------------------
GlobalRec == [pipeID : Pipes, remote : Cids, aid : AssetIDs,
              isMirror : BOOLEAN]

(* Env::GenerateKernel(pCid, iMethod, args, funds, sigs): a kernel with   *)
(* its method and arguments, its funds changes and whether it is signed  *)
(* by the contract's key.                                                 *)
Kernel(cid, method, arg, funds, signed) ==
    [cid |-> cid, method |-> method, arg |-> arg, funds |-> funds,
     signed |-> signed]

Fc(aid, amount, consume) == [aid |-> aid, amount |-> amount, consume |-> consume]

(* The answer of a call. *)
Answer(errs, items, kernels) ==
    [errors |-> errs, items |-> items, kernels |-> kernels]

(* A faulty walker that does not check the message's receiver. *)
MoveNextNoReceiver(g, cid, pPk, m) ==
    /\ m.sender = g.remote
    /\ (pPk = None \/ m.user = pPk)

(* IncomingWalker::MoveNext's filter: a message sent by the remote        *)
(* counterpart to this contract, and, when a key is given, to that user.  *)
MoveNext(g, cid, pPk, m) ==
    /\ m.sender = g.remote /\ m.receiver = cid
    /\ (pPk = None \/ m.user = pPk)

(* IncomingWalker::Restart then MoveNext until the end: the messages of   *)
(* the contract's pipe from checkpoint iStartFrom on that pass the filter.*)
Incoming(cid, pPk, start) ==
    LET g == global[cid]
    IN  {m \in pipeMsgs[g.pipeID] : m.cp >= start /\ MoveNext(g, cid, pPk, m)}

Init ==
    /\ global \in [Cids -> GlobalRec \cup {None}]
    /\ pipe \in [Pipes -> Commissions \cup {None}]
    /\ pipeMsgs \in [Pipes -> SUBSET Msgs]
    /\ out = Answer({}, {}, {})
    /\ last = [role |-> "", action |-> "", cid |-> None, start |-> 0]

-----------------------------------------------------------------------------
(* GlobalPlus::get: the error when the contract has no Global. *)
GlobalErr(cid) == IF global[cid] = None THEN {"no global state"} ELSE {}

(* On_manager_create: a mirror needs non-empty metadata (its size counts  *)
(* the terminator) and locks the deposit; the metadata passed excludes    *)
(* the terminator.                                                        *)
OnManagerCreate(pipeID, aid, isMirror, nMeta) ==
    IF isMirror /\ nMeta < 2
    THEN Answer({"metadata should be non-empty"}, {}, {})
    ELSE Answer({}, {},
           {Kernel(None, "Create0",
                   [pipeID |-> pipeID, aid |-> aid,
                    metadataSize |-> IF isMirror THEN nMeta - 1 ELSE 0],
                   IF isMirror THEN <<Fc(0, DepositCA, 1)>> ELSE <<>>,
                   FALSE)})

(* On_manager_set_remote *)
OnManagerSetRemote(cid, cidRemote) ==
    Answer({}, {}, {Kernel(cid, "SetRemote", cidRemote, <<>>, FALSE)})

(* On_manager_destroy: method 1 of the contract. *)
OnManagerDestroy(cid) ==
    Answer({}, {}, {Kernel(cid, "Destroy", None, <<>>, FALSE)})

(* On_manager_view: EnumAndDumpContracts lists the MirrorCoin contracts. *)
OnManagerView == Answer({}, {c \in Cids : global[c] # None}, {})

(* On_manager_view_params *)
OnManagerViewParams(cid) ==
    Answer(GlobalErr(cid), IF global[cid] = None THEN {} ELSE {global[cid]}, {})

(* ViewIncoming(cid, pPk, iStartFrom): one item per incoming message; the *)
(* user is listed only when no key filters them.                          *)
ViewIncoming(cid, pPk, start) ==
    IF global[cid] = None THEN Answer(GlobalErr(cid), {}, {})
    ELSE Answer({},
           {[cp |-> m.cp, idx |-> m.idx, amount |-> m.amount,
             user |-> IF pPk = None THEN m.user ELSE None] :
                m \in Incoming(cid, pPk, start)},
           {})

(* On_manager_view_incoming: a zero key lists the messages of all users. *)
OnManagerViewIncoming(cid, pkUser, start) ==
    ViewIncoming(cid, IF pkUser = Zero THEN None ELSE pkUser, start)

(* On_user_view_addr: this wallet's key for the contract. *)
OnUserViewAddr(cid) == Answer({}, {MyPk[cid]}, {})

(* On_user_view_incoming: the messages to this wallet's key. *)
OnUserViewIncoming(cid, start) == ViewIncoming(cid, MyPk[cid], start)

(* On_user_send: pkDst zero sends to this wallet's own key on the other   *)
(* side; the contract consumes the amount in the contract's asset.        *)
OnUserSend(cid, pkDst, amount) ==
    IF global[cid] = None THEN Answer(GlobalErr(cid), {}, {})
    ELSE Answer({}, {},
           {Kernel(cid, "Send",
                   [user |-> IF pkDst = Zero THEN MyPk[cid] ELSE pkDst,
                    amount |-> amount],
                   <<Fc(global[cid].aid, amount, 1)>>, FALSE)})

(* On_user_receive_all: the pipe commission is read first; when the pipe  *)
(* state is missing, OnError is reported and the code goes on with the   *)
(* uninitialized commission junk.  Then one signed Receive kernel per     *)
(* incoming message to this wallet's key, paying the commission in Beam   *)
(* and receiving the amount in the contract's asset.                      *)
OnUserReceiveAll(cid, start, junk) ==
    IF global[cid] = None THEN Answer(GlobalErr(cid), {}, {})
    ELSE
    LET g    == global[cid]
        comm == IF pipe[g.pipeID] = None THEN junk ELSE pipe[g.pipeID]
        ms   == Incoming(cid, MyPk[cid], start)
    IN  Answer((IF pipe[g.pipeID] = None THEN {"no pipe state"} ELSE {})
                 \cup (IF ms = {} THEN {"no unspent funds"} ELSE {}),
               {},
               {Kernel(cid, "Receive", <<m.cp, m.idx>>,
                       <<Fc(0, comm, 1), Fc(g.aid, m.amount, 0)>>, TRUE) :
                    m \in ms})

(* The answer of a call and the call recorded. *)
Respond(role, act, cid, start, ans) ==
    /\ out' = ans
    /\ last' = [role |-> role, action |-> act, cid |-> cid, start |-> start]

(* Method_1: a missing role or action, an unknown role or an invalid      *)
(* action is an error; otherwise the handler of the action, with its      *)
(* parameters read from the request.                                      *)
Method1(role, act) ==
    /\ \/ role = "" /\ Respond(role, act, None, 0,
                                Answer({"Role not specified"}, {}, {}))
       \/ role # "" /\ act = "" /\ Respond(role, act, None, 0,
                                Answer({"Action not specified"}, {}, {}))
       \/ act # "" /\ role \notin Roles \cup {""} /\
              Respond(role, act, None, 0, Answer({"unknown Role"}, {}, {}))
       \/ role \in Roles /\ act \notin Actions[role] \cup {""} /\
              Respond(role, act, None, 0, Answer({"invalid Action"}, {}, {}))
       \/ role = "manager" /\ act = "create" /\
              \E p \in Pipes, aid \in AssetIDs, mir \in BOOLEAN,
                 n \in MetaSizes :
                  Respond(role, act, None, 0, OnManagerCreate(p, aid, mir, n))
       \/ role = "manager" /\ act = "set_remote" /\
              \E cid, rem \in Cids :
                  Respond(role, act, cid, 0, OnManagerSetRemote(cid, rem))
       \/ role = "manager" /\ act = "destroy" /\
              \E cid \in Cids :
                  Respond(role, act, cid, 0, OnManagerDestroy(cid))
       \/ role = "manager" /\ act = "view" /\
              Respond(role, act, None, 0, OnManagerView)
       \/ role = "manager" /\ act = "view_params" /\
              \E cid \in Cids :
                  Respond(role, act, cid, 0, OnManagerViewParams(cid))
       \/ role = "manager" /\ act = "view_incoming" /\
              \E cid \in Cids, pk \in Keys, s \in Starts :
                  Respond(role, act, cid, s, OnManagerViewIncoming(cid, pk, s))
       \/ role = "user" /\ act = "view_addr" /\
              \E cid \in Cids :
                  Respond(role, act, cid, 0, OnUserViewAddr(cid))
       \/ role = "user" /\ act = "view_incoming" /\
              \E cid \in Cids, s \in Starts :
                  Respond(role, act, cid, s, OnUserViewIncoming(cid, s))
       \/ role = "user" /\ act = "send" /\
              \E cid \in Cids, pk \in Keys, a \in Amounts :
                  Respond(role, act, cid, 0, OnUserSend(cid, pk, a))
       \/ role = "user" /\ act = "receive_all" /\
              \E cid \in Cids, s \in Starts, junk \in Garbage :
                  Respond(role, act, cid, s, OnUserReceiveAll(cid, s, junk))
    /\ UNCHANGED chain

Next ==
    \E role \in Roles \cup {"", "admin"},
       act \in Actions.manager \cup Actions.user \cup {"", "mint"} :
        Method1(role, act)

Spec == Init /\ [][Next]_vars

-----------------------------------------------------------------------------
(* receive_all claims exactly the messages of this wallet: when the       *)
(* contract and its pipe exist, its Receive kernels are one per message   *)
(* of the pipe from iStartFrom on that the remote counterpart sent to this *)
(* contract for this wallet's key, each paying the pipe's commission and  *)
(* receiving the message's amount in the contract's asset; no message of  *)
(* another user, contract or sender is claimed.                           *)
ReceiveExact ==
    LET cid == last.cid
        g   == global[cid]
    IN
    /\ last.role = "user" /\ last.action = "receive_all"
    /\ g # None /\ pipe[g.pipeID] # None
    => out.kernels =
         {Kernel(cid, "Receive", <<m.cp, m.idx>>,
                 <<Fc(0, pipe[g.pipeID], 1), Fc(g.aid, m.amount, 0)>>, TRUE) :
              m \in {m \in pipeMsgs[g.pipeID] :
                        /\ m.cp >= last.start
                        /\ m.sender = g.remote /\ m.receiver = cid
                        /\ m.user = MyPk[cid]}}

(* An answer that reports an error carries no kernel: every handler       *)
(* returns after OnError, so the wallet is never asked to sign a kernel   *)
(* built from state the shader could not read.                            *)
NoKernelOnError == out.errors # {} => out.kernels = {}

=============================================================================
