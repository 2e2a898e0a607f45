-------------------------------- MODULE ApiV61 --------------------------------
(***************************************************************************)
(* The request parsing and the status response of the wallet API v6.1    *)
(* (src/wallet/api/v6_1/v6_1_api_parse.cpp).  One API session belongs to  *)
(* a plain client or to an application (getAppId() non-empty); each step  *)
(* parses one request or builds one status response; req keeps the last  *)
(* request and resp its outcome: a parsed message or the                  *)
(* jsonrpc_exception thrown.                                               *)
(*                                                                         *)
(* JSON values are abstracted to what the parsers tell apart: a key's     *)
(* value is a Boolean, a number, an (empty or not) string or array, or    *)
(* Junk of another type.  getOptionalParam<T> is not in the repository;  *)
(* as the code uses it, it yields nothing for an absent key, the value    *)
(* for a present one of type T, and throws InvalidParams otherwise.  A    *)
(* decimal string made by std::to_string is represented by the number it *)
(* denotes, and AmountBig::get_Lo by the value modulo 2^AmountBits.        *)
(***************************************************************************)
EXTENDS Naturals, FiniteSets

CONSTANTS
    EvKeys,          \* the keys a subscription request may carry
    KeyRank,         \* their rank in std::map order (nlohmann::json objects)
    MaxKeys,         \* bound on the keys of one request
    Amounts,         \* values a Totals member may have
    AmountBits,      \* width of Amount (64 in the code)
    MaxAllowedInt,   \* kMaxAllowedInt, the largest integer a JSON client reads
    CreateTxDefault, \* InvokeContractV61::createTx before parsing
    Junk,            \* a JSON value of a type no parser accepts here
    Absent           \* a key missing from params

ASSUME ApiV61Assumption ==
    /\ IsFiniteSet(EvKeys) /\ KeyRank \in [EvKeys -> Nat]
    /\ \A a, b \in EvKeys : KeyRank[a] = KeyRank[b] => a = b
    /\ MaxKeys \in Nat /\ Amounts \subseteq Nat /\ AmountBits \in Nat \ {0}
    /\ MaxAllowedInt \in Nat /\ MaxAllowedInt < 2 ^ AmountBits
    /\ \A v \in Amounts : v < 2 ^ AmountBits
    /\ CreateTxDefault \in BOOLEAN
    /\ Absent \notin BOOLEAN

VARIABLES
    isApp,   \* !getAppId().empty()
    req,     \* the last request: its method and parameters
    resp     \* the last parsed message, response or error

vars == <<isApp, req, resp>>

-----------------------------------------------------------------------------
(* onParseEvSubUnsub: the events a client may (un)subscribe to, and those *)
(* an application may not.                                                 *)
Allowed == {"ev_sync_progress", "ev_system_state", "ev_assets_changed",
            "ev_addrs_changed", "ev_utxos_changed", "ev_txs_changed",
            "ev_connection_changed"}
AppDenied == {"ev_utxos_changed", "ev_assets_changed"}

Error(e) == [kind |-> "error", err |-> e]
Ok(m, msg) == [kind |-> "ok", method |-> m, msg |-> msg]

(* A faulty loop that only checks that each key is known. *)
OffendingNoApp(k) == k \notin Allowed

(* Lines 33-50: a key stops the loop when it is unknown, or when an      *)
(* application asks for a denied event.                                   *)
Offending(k) == k \notin Allowed \/ (isApp /\ k \in AppDenied)

(* getOptionalParam<bool>(params, k) once the values are known to be    *)
(* Booleans: the value, or nothing for an absent key.                      *)
ParamOf(params, k) == IF k \in DOMAIN params THEN params[k] ELSE Absent

(* Lines 60-68: the EvSubUnsub message, one member per event. *)
EvMessage(params) ==
    [syncProgress   |-> ParamOf(params, "ev_sync_progress"),
     systemState    |-> ParamOf(params, "ev_system_state"),
     assetChanged   |-> ParamOf(params, "ev_assets_changed"),
     addrsChanged   |-> ParamOf(params, "ev_addrs_changed"),
     utxosChanged   |-> ParamOf(params, "ev_utxos_changed"),
     txsChanged     |-> ParamOf(params, "ev_txs_changed"),
     connectChanged |-> ParamOf(params, "ev_connection_changed")]

(* Lines 19-71, on params, a function from the request's keys to values: *)
(* the keys are walked in map order and the first offending one throws;  *)
(* then at least one key must be known and every known one a Boolean.   *)
ParseEvSubUnsub(params) ==
    LET K   == DOMAIN params
        Bad == {k \in K : Offending(k)}
        fst == CHOOSE k \in Bad : \A j \in Bad : KeyRank[k] <= KeyRank[j]
    IN
    /\ req' = [method |-> "ev_subunsub", params |-> params]
    /\ resp' =
        IF Bad # {} THEN
            Error(IF fst \notin Allowed THEN "InvalidParamsJsonRpc"
                  ELSE "NotAllowedError")
        ELSE IF K = {} THEN Error("InvalidParamsJsonRpc")
        ELSE IF \E k \in K : params[k] \notin BOOLEAN
            THEN Error("InvalidParamsJsonRpc")
        ELSE Ok("ev_subunsub", EvMessage(params))

(* getOptionalParam<T>(params, name) on a value v, with ok the values of *)
(* type T: nothing, the value, or the exception.                          *)
Optional(v, ok) ==
    IF v = Absent THEN [thrown |-> FALSE, val |-> Absent]
    ELSE IF v \in ok THEN [thrown |-> FALSE, val |-> v]
    ELSE [thrown |-> TRUE, val |-> Absent]

(* onParseGetVersion takes no parameter; onParseWalletStatusV61 reads the *)
(* optional Boolean nz_totals.                                             *)
ParseWalletStatus(nz) ==
    /\ req' = [method |-> "wallet_status", params |-> nz]
    /\ resp' = IF Optional(nz, BOOLEAN).thrown THEN Error("InvalidParamsJsonRpc")
                ELSE Ok("wallet_status", Optional(nz, BOOLEAN).val)

(* Lines 259-299, on p, a record of the six optional parameters.  A      *)
(* non-empty contract array wins over contract_file (whose bytes are     *)
(* read from disk); an application may not create the transaction.       *)
ParseInvokeContract(p) ==
    LET contract == Optional(p.contract, {"bytes"})
        file     == Optional(p.contract_file, {"fname"})
        args     == Optional(p.args, {"str"})
        createTx == Optional(p.create_tx, BOOLEAN)
        priority == Optional(p.priority, {"uint32"})
        unique   == Optional(p.unique, {"uint32"})
        tx       == IF createTx.val = Absent THEN CreateTxDefault
                    ELSE createTx.val
    IN
    /\ req' = [method |-> "invoke_contract", params |-> p]
    /\ resp' =
        IF contract.thrown
           \/ (contract.val = Absent /\ file.thrown)
           \/ args.thrown \/ createTx.thrown
            THEN Error("InvalidParamsJsonRpc")
        ELSE IF isApp /\ tx THEN Error("NotAllowedError")
        ELSE IF priority.thrown \/ unique.thrown
            THEN Error("InvalidParamsJsonRpc")
        ELSE Ok("invoke_contract",
                [contract |-> IF contract.val # Absent THEN "bytes"
                              ELSE IF file.val # Absent THEN "file bytes"
                              ELSE Absent,
                 createTx |-> tx])

-----------------------------------------------------------------------------
(* AmountBig::get_Lo: the low Amount of a 128-bit sum. *)
Lo(v) == v % (2 ^ AmountBits)

(* A faulty guard that checks the regular part instead of the sum. *)
NumberFieldRegular(sum, reg) == IF reg <= MaxAllowedInt THEN {Lo(sum)} ELSE {}

(* Lines 161-164 and alike: a value is emitted as a JSON number only when *)
(* a client can read it exactly.                                          *)
NumberField(sum, reg) == IF sum <= MaxAllowedInt THEN {Lo(sum)} ELSE {}

(* One group of a Totals entry, lines 156-174 and alike: the sum of the  *)
(* regular and the shielded (mp) parts, and each part, as exact strings *)
(* and, where they fit, as numbers.  A field is a pair <<name, value>>   *)
(* and a name a pair <<g, suffix>>: "num" is the bare key g (a number),  *)
(* "str" the key g_str, "regular" the key g_regular, and so on.          *)
Group(g, reg, mp) ==
    LET sum == reg + mp IN
    {<<<<g, "str">>, sum>>, <<<<g, "regular_str">>, reg>>,
     <<<<g, "mp_str">>, mp>>}
    \cup {<<<<g, "num">>, v>> : v \in NumberField(sum, reg)}
    \cup {<<<<g, "regular">>, v>> : v \in NumberField(reg, reg)}
    \cup {<<<<g, "mp">>, v>> : v \in NumberField(mp, mp)}

(* Lines 149-255: the JSON object of one asset's Totals. *)
TotalsEntry(t) ==
    LET change == t.ReceivingChange
        locked == t.Maturing + t.MaturingShielded + t.ReceivingChange
    IN
    Group("available", t.Avail, t.AvailShielded)
    \cup Group("receiving", t.Incoming, t.IncomingShielded)
    \cup Group("sending", t.Outgoing, t.OutgoingShielded)
    \cup Group("maturing", t.Maturing, t.MaturingShielded)
    \cup {<<<<"change", "str">>, change>>}
    \cup {<<<<"change", "num">>, v>> : v \in NumberField(change, change)}
    \cup {<<<<"locked", "str">>, locked>>}
    \cup {<<<<"locked", "num">>, v>> : v \in NumberField(locked, locked)}

(* A faulty response that gives applications the balances too. *)
HideBalancesNever == FALSE

(* Lines 135-138: an application gets the chain state only. *)
HideBalances == isApp

(* getResponse(WalletStatusV61::Response), lines 118-257, for a wallet   *)
(* with the totals t of one asset (the loop over assets builds one entry *)
(* per asset from that asset's totals alone), or none.                   *)
WalletStatusResponse(t) ==
    /\ req' = [method |-> "get_response", params |-> t]
    /\ resp' = [kind |-> "status",
                balances |-> ~HideBalances,
                totals |-> IF HideBalances \/ t = Absent THEN {}
                           ELSE {TotalsEntry(t)}]

-----------------------------------------------------------------------------
TotalsMembers == {"Avail", "AvailShielded", "Incoming", "IncomingShielded",
                  "Outgoing", "OutgoingShielded", "Maturing",
                  "MaturingShielded", "ReceivingChange"}

(* Requests: subscription params with at most MaxKeys keys and values of *)
(* each kind; invoke params with each member absent, valid or invalid.    *)
EvParams ==
    UNION {[K -> {TRUE, FALSE, Junk}] :
           K \in {K \in SUBSET EvKeys : Cardinality(K) <= MaxKeys}}
InvokeParams ==
    [contract : {Absent, "bytes", "empty", Junk},
     contract_file : {Absent, "fname", ""},
     args : {Absent, "str", ""}, create_tx : {Absent, TRUE, FALSE, Junk},
     priority : {Absent, "uint32", Junk}, unique : {Absent, "uint32"}]

NoResp == [kind |-> "none"]

Init == isApp \in BOOLEAN /\ req = [method |-> "none"] /\ resp = NoResp

Next ==
    /\ \/ \E params \in EvParams : ParseEvSubUnsub(params)
       \/ \E nz \in {Absent, TRUE, FALSE, Junk} : ParseWalletStatus(nz)
       \/ \E p \in InvokeParams : ParseInvokeContract(p)
       \/ \E t \in [TotalsMembers -> Amounts] \cup {Absent} :
              WalletStatusResponse(t)
    /\ UNCHANGED isApp

Spec == Init /\ [][Next]_vars

-----------------------------------------------------------------------------
(* The value of field <<g, sfx>> of a Totals entry E. *)
FieldOf(E, g, sfx) == {f[2] : f \in {f \in E : f[1] = <<g, sfx>>}}

(* The exact string beside a number field. *)
StrOf(sfx) == CASE sfx = "num"     -> "str"
                [] sfx = "regular" -> "regular_str"
                [] OTHER           -> "mp_str"

(* In every status response a client reads exact values: every JSON      *)
(* number is at most kMaxAllowedInt and equals the exact string beside  *)
(* it, and where a group's total is a number it is the sum of its        *)
(* regular and shielded parts, both of them numbers too; although the    *)
(* sums are taken in 128 bits and the numbers are their low 64 bits.     *)
TotalsExact ==
    resp.kind = "status" =>
        \A E \in resp.totals :
            /\ \A f \in E : f[1][2] \in {"num", "regular", "mp"} =>
                   /\ f[2] <= MaxAllowedInt
                   /\ FieldOf(E, f[1][1], StrOf(f[1][2])) = {f[2]}
            /\ \A g \in {"available", "receiving", "sending", "maturing"} :
                   \A v \in FieldOf(E, g, "num") :
                       \E r \in FieldOf(E, g, "regular"),
                          m \in FieldOf(E, g, "mp") : v = r + m

(* The subscription check a client is promised: at least one key, every *)
(* key a known event with a Boolean value, and, for an application, no   *)
(* UTXO or asset event.                                                   *)
SubscriptionValid(P) ==
    /\ DOMAIN P # {} /\ DOMAIN P \subseteq Allowed
    /\ \A k \in DOMAIN P : P[k] \in BOOLEAN
    /\ isApp => DOMAIN P \cap AppDenied = {}

(* The event each member of EvSubUnsub is named for. *)
MemberEvent ==
    [syncProgress |-> "ev_sync_progress", systemState |-> "ev_system_state",
     assetChanged |-> "ev_assets_changed", addrsChanged |-> "ev_addrs_changed",
     utxosChanged |-> "ev_utxos_changed", txsChanged |-> "ev_txs_changed",
     connectChanged |-> "ev_connection_changed"]

(* onParseEvSubUnsub accepts a subscription request exactly when the     *)
(* reference check passes on its parameters (an unknown key beside known *)
(* ones, a non-Boolean value or a denied event refuses it), and then each *)
(* member of the message carries the value the request gave the event it *)
(* is named for, or nothing when the request did not name that event;    *)
(* besides, an application never learns the wallet's balances from a    *)
(* status response and never gets an invoke_contract that creates a       *)
(* transaction.                                                           *)
ParseExact ==
    /\ req.method = "ev_subunsub" =>
           /\ resp.kind = "ok" <=> SubscriptionValid(req.params)
           /\ resp.kind = "ok" =>
                  \A m \in DOMAIN MemberEvent :
                      resp.msg[m] = IF MemberEvent[m] \in DOMAIN req.params
                                    THEN req.params[MemberEvent[m]]
                                    ELSE Absent
    /\ resp.kind = "status" /\ isApp => ~resp.balances /\ resp.totals = {}
    /\ resp.kind = "ok" /\ resp.method = "invoke_contract" /\ isApp =>
           ~resp.msg.createTx

=============================================================================
