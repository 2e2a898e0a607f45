---------------------------- MODULE ApiV61Proofs -----------------------------
(***************************************************************************)
(* Proofs about the wallet API v6.1 parsers and status response          *)
(* (ApiV61.tla), for every set of event keys, every amount width and     *)
(* every kMaxAllowedInt.  Each step replaces the last outcome resp, so    *)
(* the properties follow from what each handler builds, given that the    *)
(* session's application flag never changes.                              *)
(***************************************************************************)
EXTENDS ApiV61, TLAPS

(* The session's flag is a Boolean. *)
AppFlag == isApp \in BOOLEAN

-----------------------------------------------------------------------------
(* onParseEvSubUnsub accepts a request exactly when the reference check  *)
(* passes on it, and its message copies each named event's value into   *)
(* the member named for that event.                                      *)
LEMMA EvSubUnsubExact ==
  ASSUME AppFlag, NEW params \in EvParams, ParseEvSubUnsub(params),
         isApp' = isApp
  PROVE  ParseExact'
<1> DEFINE K   == DOMAIN params
           Bad == {k \in K : Offending(k)}
<1>1. req'.method = "ev_subunsub" /\ req'.params = params
  BY DEF ParseEvSubUnsub
<1>2. resp'.kind # "status"
  BY DEF ParseEvSubUnsub, Error, Ok
<1>3. resp'.kind = "ok" => resp'.method = "ev_subunsub"
  BY DEF ParseEvSubUnsub, Error, Ok
<1>4. resp'.kind = "ok" <=>
        Bad = {} /\ K # {} /\ \A k \in K : params[k] \in BOOLEAN
  BY DEF ParseEvSubUnsub, Error, Ok
<1>5. Bad = {} <=> K \subseteq Allowed /\ (isApp => K \cap AppDenied = {})
  BY AppFlag DEF Offending, AppFlag
<1>6. resp'.kind = "ok" <=> SubscriptionValid(params)'
  BY <1>4, <1>5 DEF SubscriptionValid
<1>7. resp'.kind = "ok" => resp'.msg = EvMessage(params)
  BY DEF ParseEvSubUnsub, Error, Ok
<1>8. \A m \in DOMAIN MemberEvent :
        EvMessage(params)[m] = IF MemberEvent[m] \in K
                               THEN params[MemberEvent[m]] ELSE Absent
  BY DEF EvMessage, MemberEvent, ParamOf
<1>9. QED
  BY <1>1, <1>2, <1>3, <1>6, <1>7, <1>8 DEF ParseExact

(* onParseWalletStatusV61 yields an error or a wallet_status message. *)
LEMMA WalletStatusExact ==
  ASSUME NEW nz, ParseWalletStatus(nz)
  PROVE  ParseExact'
  BY DEF ParseWalletStatus, ParseExact, Error, Ok

(* onParseInvokeContractV61 never hands an application a transaction to *)
(* create: createTx, given or defaulted, is refused with NotAllowedError.*)
LEMMA InvokeContractExact ==
  ASSUME AppFlag, NEW p \in InvokeParams, ParseInvokeContract(p),
         isApp' = isApp
  PROVE  ParseExact'
<1> DEFINE createTx == Optional(p.create_tx, BOOLEAN)
           tx == IF createTx.val = Absent THEN CreateTxDefault ELSE createTx.val
<1>1. createTx.thrown = FALSE => tx \in BOOLEAN
  BY ApiV61Assumption DEF Optional
<1>2. resp'.kind = "ok" =>
         /\ resp'.method = "invoke_contract" /\ resp'.msg.createTx = tx
         /\ createTx.thrown = FALSE /\ ~(isApp /\ tx)
  BY DEF ParseInvokeContract, Error, Ok, Optional
<1>3. resp'.kind # "status" /\ req'.method = "invoke_contract"
  BY DEF ParseInvokeContract, Error, Ok
<1>4. QED
  BY <1>1, <1>2, <1>3 DEF ParseExact, AppFlag

(* getResponse(WalletStatusV61::Response) hides the balances and the    *)
(* totals from an application.                                           *)
LEMMA StatusResponseExact ==
  ASSUME AppFlag, NEW t, WalletStatusResponse(t), isApp' = isApp
  PROVE  ParseExact'
  BY DEF WalletStatusResponse, HideBalances, ParseExact, AppFlag

LEMMA InitParseExact == Init => AppFlag /\ ParseExact
  BY DEF Init, AppFlag, ParseExact, NoResp

LEMMA NextParseExact ==
  AppFlag /\ ParseExact /\ [Next]_vars => AppFlag' /\ ParseExact'
<1> SUFFICES ASSUME AppFlag, ParseExact, [Next]_vars
             PROVE  AppFlag' /\ ParseExact'
  OBVIOUS
<1>1. CASE UNCHANGED vars
  BY <1>1 DEF vars, AppFlag, ParseExact, SubscriptionValid
<1>2. CASE Next
  <2>1. isApp' = isApp
    BY <1>2 DEF Next
  <2>2. ParseExact'
    BY <1>2, <2>1, EvSubUnsubExact, WalletStatusExact, InvokeContractExact,
       StatusResponseExact DEF Next
  <2>3. QED
    BY <2>1, <2>2 DEF AppFlag
<1>3. QED
  BY <1>1, <1>2

-----------------------------------------------------------------------------
(* A subscription request is accepted exactly when it names at least    *)
(* one event, only known events, each with a Boolean value, and, from an *)
(* application, no UTXO or asset event; the accepted message carries in  *)
(* each member the value given to the event it is named for.  An        *)
(* application session never receives the wallet's balances or totals   *)
(* and never gets an invoke_contract that creates a transaction.          *)
THEOREM ParseExactHolds == Spec => []ParseExact
<1>1. Init => AppFlag /\ ParseExact
  BY InitParseExact
<1>2. QED
  BY <1>1, NextParseExact, PTL DEF Spec
-----------------------------------------------------------------------------
(* The change and locked members of a Totals entry: an exact string and, *)
(* where it fits, a number.                                               *)
SingleBlock(n, x) ==
    {<<<<n, "str">>, x>>} \cup {<<<<n, "num">>, v>> : v \in NumberField(x, x)}

(* TotalsExact for one Totals entry E. *)
EntryExact(E) ==
    /\ \A f \in E : f[1][2] \in {"num", "regular", "mp"} =>
           /\ f[2] <= MaxAllowedInt
           /\ FieldOf(E, f[1][1], StrOf(f[1][2])) = {f[2]}
    /\ \A g \in {"available", "receiving", "sending", "maturing"} :
           \A v \in FieldOf(E, g, "num") :
               \E r \in FieldOf(E, g, "regular"),
                  m \in FieldOf(E, g, "mp") : v = r + m

(* get_Lo of a sum that fits a client's integers is the sum itself: the *)
(* 128-bit sum and its low 64 bits agree below kMaxAllowedInt.           *)
LEMMA LoSmall ==
  ASSUME NEW x \in Nat, x <= MaxAllowedInt
  PROVE  Lo(x) = x
  BY ApiV61Assumption DEF Lo

(* A number field holds the exact value, when it is there at all. *)
LEMMA NumberFieldIs ==
  ASSUME NEW x \in Nat, NEW y
  PROVE  NumberField(x, y) = IF x <= MaxAllowedInt THEN {x} ELSE {}
  BY LoSmall DEF NumberField

(* The values of field <<g, sfx>> in a set of named fields. *)
LEMMA FieldOfMember ==
  ASSUME NEW E, \A f \in E : f = <<<<f[1][1], f[1][2]>>, f[2]>>,
         NEW g, NEW sfx, NEW v
  PROVE  v \in FieldOf(E, g, sfx) <=> <<<<g, sfx>>, v>> \in E
<1>1. ASSUME v \in FieldOf(E, g, sfx) PROVE <<<<g, sfx>>, v>> \in E
  <2>1. PICK f \in E : f[1] = <<g, sfx>> /\ f[2] = v
    BY <1>1 DEF FieldOf
  <2>2. QED
    BY <2>1
<1>2. ASSUME <<<<g, sfx>>, v>> \in E PROVE v \in FieldOf(E, g, sfx)
  <2>1. <<<<g, sfx>>, v>> \in {f \in E : f[1] = <<g, sfx>>}
    BY <1>2
  <2>2. QED
    BY <2>1 DEF FieldOf
<1>3. QED
  BY <1>1, <1>2

(* A member of a group is a field of that group, by name. *)
LEMMA GroupIn ==
  ASSUME NEW g, NEW reg, NEW shd, NEW x \in Group(g, reg, shd)
  PROVE  /\ x[1][1] = g
         /\ \/ x[1][2] = "str" /\ x[2] = reg + shd
            \/ x[1][2] = "regular_str" /\ x[2] = reg
            \/ x[1][2] = "mp_str" /\ x[2] = shd
            \/ x[1][2] = "num" /\ x[2] \in NumberField(reg + shd, reg)
            \/ x[1][2] = "regular" /\ x[2] \in NumberField(reg, reg)
            \/ x[1][2] = "mp" /\ x[2] \in NumberField(shd, shd)
<1>1. CASE x \in {<<<<g, "num">>, v>> : v \in NumberField(reg + shd, reg)}
  <2>1. PICK v \in NumberField(reg + shd, reg) : x = <<<<g, "num">>, v>>
    BY <1>1
  <2>2. QED
    BY <2>1
<1>2. CASE x \in {<<<<g, "regular">>, v>> : v \in NumberField(reg, reg)}
  <2>1. PICK v \in NumberField(reg, reg) : x = <<<<g, "regular">>, v>>
    BY <1>2
  <2>2. QED
    BY <2>1
<1>3. CASE x \in {<<<<g, "mp">>, v>> : v \in NumberField(shd, shd)}
  <2>1. PICK v \in NumberField(shd, shd) : x = <<<<g, "mp">>, v>>
    BY <1>3
  <2>2. QED
    BY <2>1
<1>4. CASE x \in {<<<<g, "str">>, reg + shd>>, <<<<g, "regular_str">>, reg>>,
                  <<<<g, "mp_str">>, shd>>}
  <2>1. CASE x = <<<<g, "str">>, reg + shd>>
    BY <2>1
  <2>2. CASE x = <<<<g, "regular_str">>, reg>>
    BY <2>2
  <2>3. CASE x = <<<<g, "mp_str">>, shd>>
    BY <2>3
  <2>4. QED
    BY <1>4, <2>1, <2>2, <2>3
<1>5. \/ x \in {<<<<g, "str">>, reg + shd>>, <<<<g, "regular_str">>, reg>>,
                  <<<<g, "mp_str">>, shd>>}
      \/ x \in {<<<<g, "num">>, v>> : v \in NumberField(reg + shd, reg)}
      \/ x \in {<<<<g, "regular">>, v>> : v \in NumberField(reg, reg)}
      \/ x \in {<<<<g, "mp">>, v>> : v \in NumberField(shd, shd)}
  BY DEF Group
<1>6. QED
  BY <1>1, <1>2, <1>3, <1>4, <1>5

(* Each field of a group, by name, belongs to it. *)
LEMMA GroupMember ==
  ASSUME NEW g, NEW reg, NEW shd, NEW b, NEW c,
         /\ \/ b = "str" /\ c = reg + shd
            \/ b = "regular_str" /\ c = reg
            \/ b = "mp_str" /\ c = shd
            \/ b = "num" /\ c \in NumberField(reg + shd, reg)
            \/ b = "regular" /\ c \in NumberField(reg, reg)
            \/ b = "mp" /\ c \in NumberField(shd, shd)
  PROVE  <<<<g, b>>, c>> \in Group(g, reg, shd)
  BY DEF Group

(* A field named after another group is not in this group. *)
LEMMA GroupOther ==
  ASSUME NEW g, NEW a, a # g, NEW reg, NEW shd, NEW sfx, NEW v
  PROVE  <<<<g, sfx>>, v>> \notin Group(a, reg, shd)
<1>1. SUFFICES ASSUME <<<<g, sfx>>, v>> \in Group(a, reg, shd) PROVE FALSE
  OBVIOUS
<1>2. \A x \in Group(a, reg, shd) : x[1][1] = a
  BY ONLY GroupIn
<1>3. <<<<g, sfx>>, v>>[1][1] = a
  BY <1>1, <1>2
<1>4. QED
  BY <1>3

(* The value of a field of a group, by its name. *)
LEMMA GroupValue ==
  ASSUME NEW g, NEW reg, NEW shd, NEW sfx, NEW v,
         <<<<g, sfx>>, v>> \in Group(g, reg, shd)
  PROVE  \/ sfx = "str" /\ v = reg + shd
         \/ sfx = "regular_str" /\ v = reg
         \/ sfx = "mp_str" /\ v = shd
         \/ sfx = "num" /\ v \in NumberField(reg + shd, reg)
         \/ sfx = "regular" /\ v \in NumberField(reg, reg)
         \/ sfx = "mp" /\ v \in NumberField(shd, shd)
<1>1. \A x \in Group(g, reg, shd) :
        \/ x[1][2] = "str" /\ x[2] = reg + shd
        \/ x[1][2] = "regular_str" /\ x[2] = reg
        \/ x[1][2] = "mp_str" /\ x[2] = shd
        \/ x[1][2] = "num" /\ x[2] \in NumberField(reg + shd, reg)
        \/ x[1][2] = "regular" /\ x[2] \in NumberField(reg, reg)
        \/ x[1][2] = "mp" /\ x[2] \in NumberField(shd, shd)
  BY ONLY GroupIn
<1>2. QED
  BY <1>1

(* Every member of a group is a named field. *)
LEMMA GroupShape ==
  ASSUME NEW g, NEW reg, NEW shd, NEW f \in Group(g, reg, shd)
  PROVE  f = <<<<f[1][1], f[1][2]>>, f[2]>>
<1>1. CASE f \in {<<<<g, "num">>, v>> : v \in NumberField(reg + shd, reg)}
  <2>1. PICK v \in NumberField(reg + shd, reg) : f = <<<<g, "num">>, v>>
    BY <1>1
  <2>2. QED
    BY <2>1
<1>2. CASE f \in {<<<<g, "regular">>, v>> : v \in NumberField(reg, reg)}
  <2>1. PICK v \in NumberField(reg, reg) : f = <<<<g, "regular">>, v>>
    BY <1>2
  <2>2. QED
    BY <2>1
<1>3. CASE f \in {<<<<g, "mp">>, v>> : v \in NumberField(shd, shd)}
  <2>1. PICK v \in NumberField(shd, shd) : f = <<<<g, "mp">>, v>>
    BY <1>3
  <2>2. QED
    BY <2>1
<1>4. CASE f \in {<<<<g, "str">>, reg + shd>>, <<<<g, "regular_str">>, reg>>,
                  <<<<g, "mp_str">>, shd>>}
  BY <1>4
<1>5. QED
  BY <1>1, <1>2, <1>3, <1>4 DEF Group

(* A member of the change or locked member, by name. *)
LEMMA SingleIn ==
  ASSUME NEW n, NEW y, NEW x \in SingleBlock(n, y)
  PROVE  /\ x[1][1] = n
         /\ \/ x[1][2] = "str" /\ x[2] = y
            \/ x[1][2] = "num" /\ x[2] \in NumberField(y, y)
<1>1. CASE x \in {<<<<n, "num">>, v>> : v \in NumberField(y, y)}
  <2>1. PICK v \in NumberField(y, y) : x = <<<<n, "num">>, v>>
    BY <1>1
  <2>2. QED
    BY <2>1
<1>2. CASE x = <<<<n, "str">>, y>>
  BY <1>2
<1>3. QED
  BY <1>1, <1>2 DEF SingleBlock

(* Each field of the change or locked member belongs to it. *)
LEMMA SingleMember ==
  ASSUME NEW n, NEW y, NEW b, NEW c,
         \/ b = "str" /\ c = y
         \/ b = "num" /\ c \in NumberField(y, y)
  PROVE  <<<<n, b>>, c>> \in SingleBlock(n, y)
  BY DEF SingleBlock

(* A field named after another member is not in this one. *)
LEMMA SingleOther ==
  ASSUME NEW g, NEW n, n # g, NEW y, NEW sfx, NEW v
  PROVE  <<<<g, sfx>>, v>> \notin SingleBlock(n, y)
<1>1. SUFFICES ASSUME <<<<g, sfx>>, v>> \in SingleBlock(n, y) PROVE FALSE
  OBVIOUS
<1>2. <<<<g, sfx>>, v>>[1][1] = n
  BY <1>1, SingleIn
<1>3. QED
  BY <1>2

(* The value of a field of the change or locked member, by its name. *)
LEMMA SingleValue ==
  ASSUME NEW n, NEW y, NEW sfx, NEW v, <<<<n, sfx>>, v>> \in SingleBlock(n, y)
  PROVE  \/ sfx = "str" /\ v = y
         \/ sfx = "num" /\ v \in NumberField(y, y)
<1>1. \A x \in SingleBlock(n, y) :
        \/ x[1][2] = "str" /\ x[2] = y
        \/ x[1][2] = "num" /\ x[2] \in NumberField(y, y)
  BY ONLY SingleIn
<1>2. QED
  BY <1>1

(* Every member of the change or locked member is a named field. *)
LEMMA SingleShape ==
  ASSUME NEW n, NEW y, NEW f \in SingleBlock(n, y)
  PROVE  f = <<<<f[1][1], f[1][2]>>, f[2]>>
<1>1. CASE f \in {<<<<n, "num">>, v>> : v \in NumberField(y, y)}
  <2>1. PICK v \in NumberField(y, y) : f = <<<<n, "num">>, v>>
    BY <1>1
  <2>2. QED
    BY <2>1
<1>2. CASE f = <<<<n, "str">>, y>>
  BY <1>2
<1>3. QED
  BY <1>1, <1>2 DEF SingleBlock

(* The regular and the shielded part of group g of the totals t, as     *)
(* TotalsEntry passes them to Group.                                      *)
GroupNames == {"available", "receiving", "sending", "maturing"}

RegOf(t, g) == CASE g = "available" -> t.Avail
                 [] g = "receiving" -> t.Incoming
                 [] g = "sending"   -> t.Outgoing
                 [] OTHER           -> t.Maturing

MpOf(t, g) == CASE g = "available" -> t.AvailShielded
                [] g = "receiving" -> t.IncomingShielded
                [] g = "sending"   -> t.OutgoingShielded
                [] OTHER           -> t.MaturingShielded

(* A Totals entry is its four groups and its change and locked members. *)
LEMMA EntryBlocks ==
  ASSUME NEW t
  PROVE  TotalsEntry(t) =
           Group("available", t.Avail, t.AvailShielded)
           \cup Group("receiving", t.Incoming, t.IncomingShielded)
           \cup Group("sending", t.Outgoing, t.OutgoingShielded)
           \cup Group("maturing", t.Maturing, t.MaturingShielded)
           \cup SingleBlock("change", t.ReceivingChange)
           \cup SingleBlock("locked", t.Maturing + t.MaturingShielded
                                      + t.ReceivingChange)
  BY DEF TotalsEntry, SingleBlock

(* Every member of a Totals entry is a named field. *)
LEMMA EntryShape ==
  ASSUME NEW t, NEW f \in TotalsEntry(t)
  PROVE  f = <<<<f[1][1], f[1][2]>>, f[2]>>
  BY EntryBlocks, GroupShape, SingleShape

(* The fields named after group g in a Totals entry are the fields of   *)
(* that group.                                                            *)
LEMMA GroupField ==
  ASSUME NEW t, NEW g \in GroupNames, NEW sfx, NEW v
  PROVE  v \in FieldOf(TotalsEntry(t), g, sfx) <=>
           \/ sfx = "str" /\ v = RegOf(t, g) + MpOf(t, g)
           \/ sfx = "regular_str" /\ v = RegOf(t, g)
           \/ sfx = "mp_str" /\ v = MpOf(t, g)
           \/ sfx = "num" /\ v \in NumberField(RegOf(t, g) + MpOf(t, g), RegOf(t, g))
           \/ sfx = "regular" /\ v \in NumberField(RegOf(t, g), RegOf(t, g))
           \/ sfx = "mp" /\ v \in NumberField(MpOf(t, g), MpOf(t, g))
<1> DEFINE R == RegOf(t, g)
           M == MpOf(t, g)
<1>1. v \in FieldOf(TotalsEntry(t), g, sfx) <=> <<<<g, sfx>>, v>> \in TotalsEntry(t)
  BY EntryShape, FieldOfMember
<1>2. <<<<g, sfx>>, v>> \in TotalsEntry(t) <=> <<<<g, sfx>>, v>> \in Group(g, R, M)
  <2>1. ASSUME NEW a \in GroupNames \ {g}, NEW reg, NEW shd
        PROVE  <<<<g, sfx>>, v>> \notin Group(a, reg, shd)
    BY GroupOther
  <2>2. ASSUME NEW n \in {"change", "locked"}, NEW y
        PROVE  <<<<g, sfx>>, v>> \notin SingleBlock(n, y)
    <3>1. n # g
      BY DEF GroupNames
    <3>2. QED
      BY <3>1, SingleOther
  <2>3. QED
    BY <2>1, <2>2, EntryBlocks DEF GroupNames, RegOf, MpOf
<1>3. ASSUME <<<<g, sfx>>, v>> \in Group(g, R, M)
      PROVE  \/ sfx = "str" /\ v = R + M
             \/ sfx = "regular_str" /\ v = R
             \/ sfx = "mp_str" /\ v = M
             \/ sfx = "num" /\ v \in NumberField(R + M, R)
             \/ sfx = "regular" /\ v \in NumberField(R, R)
             \/ sfx = "mp" /\ v \in NumberField(M, M)
  BY <1>3, GroupValue
<1>4. ASSUME \/ sfx = "str" /\ v = R + M
             \/ sfx = "regular_str" /\ v = R
             \/ sfx = "mp_str" /\ v = M
             \/ sfx = "num" /\ v \in NumberField(R + M, R)
             \/ sfx = "regular" /\ v \in NumberField(R, R)
             \/ sfx = "mp" /\ v \in NumberField(M, M)
      PROVE  <<<<g, sfx>>, v>> \in Group(g, R, M)
  BY <1>4, GroupMember
<1>5. QED
  BY <1>1, <1>2, <1>3, <1>4

(* The value of the change or locked member n of the totals t. *)
SingleOf(t, n) == IF n = "change" THEN t.ReceivingChange
                  ELSE t.Maturing + t.MaturingShielded + t.ReceivingChange

(* The fields named change or locked in a Totals entry are that member's. *)
LEMMA SingleField ==
  ASSUME NEW t, NEW n \in {"change", "locked"}, NEW sfx, NEW v
  PROVE  v \in FieldOf(TotalsEntry(t), n, sfx) <=>
           \/ sfx = "str" /\ v = SingleOf(t, n)
           \/ sfx = "num" /\ v \in NumberField(SingleOf(t, n), SingleOf(t, n))
<1> DEFINE Y == SingleOf(t, n)
<1>1. v \in FieldOf(TotalsEntry(t), n, sfx) <=> <<<<n, sfx>>, v>> \in TotalsEntry(t)
  BY EntryShape, FieldOfMember
<1>2. <<<<n, sfx>>, v>> \in TotalsEntry(t) <=> <<<<n, sfx>>, v>> \in SingleBlock(n, Y)
  <2>1. ASSUME NEW a \in GroupNames, NEW reg, NEW shd
        PROVE  <<<<n, sfx>>, v>> \notin Group(a, reg, shd)
    <3>1. a # n
      BY DEF GroupNames
    <3>2. QED
      BY <3>1, GroupOther
  <2>2. ASSUME NEW m \in {"change", "locked"} \ {n}, NEW y
        PROVE  <<<<n, sfx>>, v>> \notin SingleBlock(m, y)
    BY SingleOther
  <2>3. QED
    BY <2>1, <2>2, EntryBlocks DEF GroupNames, SingleOf
<1>3. ASSUME <<<<n, sfx>>, v>> \in SingleBlock(n, Y)
      PROVE  \/ sfx = "str" /\ v = Y
             \/ sfx = "num" /\ v \in NumberField(Y, Y)
  BY <1>3, SingleValue
<1>4. ASSUME \/ sfx = "str" /\ v = Y
             \/ sfx = "num" /\ v \in NumberField(Y, Y)
      PROVE  <<<<n, sfx>>, v>> \in SingleBlock(n, Y)
  BY <1>4, SingleMember
<1>5. QED
  BY <1>1, <1>2, <1>3, <1>4

(* Every field of a Totals entry is named after a group, change or locked. *)
LEMMA EntryNames ==
  ASSUME NEW t, NEW f \in TotalsEntry(t)
  PROVE  f[1][1] \in GroupNames \cup {"change", "locked"}
  BY EntryBlocks, GroupIn, SingleIn DEF GroupNames

(* The Totals entry of any totals is exact. *)
LEMMA EntryIsExact ==
  ASSUME NEW t \in [TotalsMembers -> Nat]
  PROVE  EntryExact(TotalsEntry(t))
<1> DEFINE E == TotalsEntry(t)
<1>1. ASSUME NEW f \in E, f[1][2] \in {"num", "regular", "mp"}
      PROVE  /\ f[2] <= MaxAllowedInt
             /\ FieldOf(E, f[1][1], StrOf(f[1][2])) = {f[2]}
  <2> DEFINE a == f[1][1]
             b == f[1][2]
             c == f[2]
  <2>1. c \in FieldOf(E, a, b)
    BY EntryShape, FieldOfMember
  <2>2. CASE a \in GroupNames
    <3> DEFINE R == RegOf(t, a)
               M == MpOf(t, a)
    <3>1. R \in Nat /\ M \in Nat
      BY <2>2 DEF RegOf, MpOf, GroupNames, TotalsMembers
    <3>2. CASE b = "num"
      <4>1. c \in NumberField(R + M, R)
        BY <2>1, <2>2, <3>2, GroupField
      <4>2. R + M <= MaxAllowedInt /\ c = R + M
        BY <3>1, <4>1, NumberFieldIs
      <4>3. \A w : w \in FieldOf(E, a, StrOf(b)) <=> w = R + M
        BY <2>2, <3>2, GroupField DEF StrOf
      <4>4. QED
        BY <4>2, <4>3
    <3>3. CASE b = "regular"
      <4>1. c \in NumberField(R, R)
        BY <2>1, <2>2, <3>3, GroupField
      <4>2. R <= MaxAllowedInt /\ c = R
        BY <3>1, <4>1, NumberFieldIs
      <4>3. \A w : w \in FieldOf(E, a, StrOf(b)) <=> w = R
        BY <2>2, <3>3, GroupField DEF StrOf
      <4>4. QED
        BY <4>2, <4>3
    <3>4. CASE b = "mp"
      <4>1. c \in NumberField(M, M)
        BY <2>1, <2>2, <3>4, GroupField
      <4>2. M <= MaxAllowedInt /\ c = M
        BY <3>1, <4>1, NumberFieldIs
      <4>3. \A w : w \in FieldOf(E, a, StrOf(b)) <=> w = M
        BY <2>2, <3>4, GroupField DEF StrOf
      <4>4. QED
        BY <4>2, <4>3
    <3>5. QED
      BY <1>1, <3>2, <3>3, <3>4
  <2>3. CASE a \in {"change", "locked"}
    <3> DEFINE Y == SingleOf(t, a)
    <3>1. Y \in Nat
      BY <2>3 DEF SingleOf, TotalsMembers
    <3>2. b = "num" /\ c \in NumberField(Y, Y)
      BY <1>1, <2>1, <2>3, SingleField
    <3>3. Y <= MaxAllowedInt /\ c = Y
      BY <3>1, <3>2, NumberFieldIs
    <3>4. \A w : w \in FieldOf(E, a, StrOf(b)) <=> w = Y
      BY <2>3, <3>2, SingleField DEF StrOf
    <3>5. QED
      BY <3>3, <3>4
  <2>4. QED
    BY <2>2, <2>3, EntryNames
<1>2. ASSUME NEW g \in GroupNames, NEW v \in FieldOf(E, g, "num")
      PROVE  \E r \in FieldOf(E, g, "regular"), m \in FieldOf(E, g, "mp") :
               v = r + m
  <2> DEFINE R == RegOf(t, g)
             M == MpOf(t, g)
  <2>1. R \in Nat /\ M \in Nat
    BY DEF RegOf, MpOf, GroupNames, TotalsMembers
  <2>2. v \in NumberField(R + M, R)
    BY GroupField
  <2>3. R + M <= MaxAllowedInt /\ v = R + M
    BY <2>1, <2>2, NumberFieldIs
  <2>4. R \in NumberField(R, R) /\ M \in NumberField(M, M)
    <3>1. R <= MaxAllowedInt /\ M <= MaxAllowedInt
      BY <2>1, <2>3, ApiV61Assumption
    <3>2. NumberField(R, R) = {R} /\ NumberField(M, M) = {M}
      BY <2>1, <3>1, NumberFieldIs
    <3>3. QED
      BY <3>2
  <2>5. R \in FieldOf(E, g, "regular") /\ M \in FieldOf(E, g, "mp")
    BY <1>2, <2>4, GroupField
  <2>6. QED
    BY <2>3, <2>4, <2>5
<1>3. QED
  BY <1>1, <1>2 DEF EntryExact, GroupNames

(* Only getResponse builds a status response, and each entry it builds *)
(* is the Totals entry of one asset's totals.                           *)
LEMMA NextTotalsExact ==
  TotalsExact /\ [Next]_vars => TotalsExact'
<1> SUFFICES ASSUME TotalsExact, [Next]_vars PROVE TotalsExact'
  OBVIOUS
<1>1. CASE UNCHANGED vars
  BY <1>1 DEF vars, TotalsExact
<1>2. CASE \E params \in EvParams : ParseEvSubUnsub(params)
  <2>1. resp'.kind # "status"
    BY <1>2 DEF ParseEvSubUnsub, Error, Ok
  <2>2. QED
    BY <2>1 DEF TotalsExact
<1>3. CASE \E nz \in {Absent, TRUE, FALSE, Junk} : ParseWalletStatus(nz)
  <2>1. resp'.kind # "status"
    BY <1>3 DEF ParseWalletStatus, Error, Ok
  <2>2. QED
    BY <2>1 DEF TotalsExact
<1>4. CASE \E p \in InvokeParams : ParseInvokeContract(p)
  <2>1. PICK p \in InvokeParams : ParseInvokeContract(p)
    BY <1>4
  <2>2. resp'.kind # "status"
    BY <2>1 DEF ParseInvokeContract, Error, Ok
  <2>3. QED
    BY <2>2 DEF TotalsExact
<1>5. CASE \E t \in [TotalsMembers -> Amounts] \cup {Absent} :
             WalletStatusResponse(t)
  <2>1. PICK t \in [TotalsMembers -> Amounts] \cup {Absent} :
               WalletStatusResponse(t)
    BY <1>5
  <2>2. CASE HideBalances \/ t = Absent
    <3>1. resp'.totals = {}
      BY <2>1, <2>2 DEF WalletStatusResponse
    <3>2. QED
      BY <3>1 DEF TotalsExact
  <2>3. CASE ~(HideBalances \/ t = Absent)
    <3>1. resp'.totals = {TotalsEntry(t)}
      BY <2>1, <2>3 DEF WalletStatusResponse
    <3>2. t \in [TotalsMembers -> Nat]
      BY <2>1, <2>3, ApiV61Assumption
    <3>3. EntryExact(TotalsEntry(t))
      BY <3>2, EntryIsExact
    <3>4. QED
      BY <3>1, <3>3 DEF TotalsExact, EntryExact
  <2>4. QED
    BY <2>2, <2>3
<1>6. QED
  BY <1>1, <1>2, <1>3, <1>4, <1>5 DEF Next

(* A status response tells a client only exact values: every JSON number *)
(* of a Totals entry is at most kMaxAllowedInt and equals the exact      *)
(* string beside it, and a group's total given as a number is the sum of *)
(* its regular and shielded parts, both given as numbers too, although    *)
(* getResponse sums in 128 bits and emits the low 64 bits.               *)
THEOREM TotalsExactHolds == Spec => []TotalsExact
<1>1. Init => TotalsExact
  BY DEF Init, TotalsExact, NoResp
<1>2. QED
  BY <1>1, NextTotalsExact, PTL DEF Spec

====
