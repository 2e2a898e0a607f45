# TLA+ models of the Beam node's transaction pool and wallet code

This directory holds TLA+ models of the parts of `src/` that have state or control to check:
- `TxPool`, the node's memory pool (`src/node/txpool.h`): the fluff pool with its peers' send tasks, the stem pool's timer, and the dependent pool;
- the wallet's coin selection (`src/wallet/core/common_utils.cpp`);
- the MirrorCoin application shader (`src/bvm/Shaders/mirrorcoin/app.cpp`);
- the wallet API v6.1 request parsing and status totals (`src/wallet/api/v6_1/v6_1_api_parse.cpp`).

TLC model-checks every module on small instances. TLAPS proves the main invariants of the fluff and dependent pools, and that the fluff pool implements an abstract relay specification, for every value of the constants. The rest of `src/` is listed with the reason it is left out in PROJECT.json (`components`) and under "Not modelled" below.

## Source basis

The repository holds only the header `src/node/txpool.h`; `txpool.cpp` is not part of it. From the header the pool models take:
- the data: states, containers, `Send::m_Refs`, `Time::m_Value` as `uint32_t`, the dependent element's cumulative fields;
- the inline code: `Time::operator<` (line 134), `Dependent::ShouldUpdateBest` and the destructors that call `Clear`, the defaults `m_Refs = 0` and `m_pSend = nullptr`;
- the declared operations.

The pool operation bodies follow `spec.md` §4–§5.
- In `PROJECT.json`, `map` names for each definition the declaration and the data members it works on.
- Code that is not in the header at all is marked `spec_modelled`:
  - the peer send tasks that walk the send queue (`Later`, `IsNextRecord`, `PeerAdvance`);
  - the owner's stem intake (`AddStem`);
  - the clock (`Tick`).

The other three modules translate complete function bodies of their files. Where these call helpers that are not in the repository, the module says what it assumes of them:
- `walletDB->selectCoins2` is any subset of the asset's coins;
- `getOptionalParam<T>` yields nothing, the value, or an `InvalidParams` exception;
- the shader's `Env::` calls read the chain state fixed in `Init`.

## The system

`TxPool` has four parts. All of them are mutated on the node's single reactor thread (spec §5), so every operation is one atomic step. The concurrency that remains:

- the asynchronous peer send tasks, which hold references into the fluff pool's send queue;
- the stem pool's timer callback, which fires asynchronously and re-enters the pool through the owner's `OnTimedOut`.

The wallet code and the shader are sequential. Each call runs to completion. What makes them hard is the data: `uint64` arithmetic, a retry with a different coin selection, an uninitialized local, JSON numbers with limited precision.

| Part | Code | Model | Status |
|---|---|---|---|
| Fluff pool | `TxPool::Fluff` (h:45-121) | `Fluff.tla`, refines `Relay.tla` | modelled |
| Peer send tasks | users of `m_SendQueue`, `Release` (h:77-100) | `Fluff.tla` (`PeerAdvance`) | modelled |
| Stem pool | `TxPool::Stem` (h:123-177) | `Stem.tla` | partly |
| Dependent pool | `TxPool::Dependent` (h:179-224) | `Dependent.tla` | modelled |
| Stats / Profit | `TxPool::Stats`, `TxPool::Profit` (h:25-43) | none | not modelled |
| Coin selection | `CoinsSelectionInfo::Calculate` (common_utils.cpp:37-174) | `CoinSelection.tla` | modelled |
| MirrorCoin app | `Method_1` and its handlers (app.cpp) | `MirrorCoinApp.tla` | modelled |
| Wallet API v6.1 | `V61Api::onParse*`, `getResponse(WalletStatusV61)` | `ApiV61.tla` | modelled |

### Fluff.tla

State is one function per element field and one set per container:
- `st`: `m_State`, plus `"Free"` for an unused identity and `"Gone"` for a deleted one;
- `key`: the conflict key;
- `setTxs`, `setProfit`, `waitFluff`, `outdated`: the four intrusive containers;
- `pSend`: `m_pSend != nullptr`;
- `owner`: the element's own reference to its Send record, `m_pThis`;
- `refs`: `m_Refs`;
- `queue`, `seqNo`, `nseq`: `m_SendQueue` as a set with FIFO positions;
- `cursor`: the Send record each peer task holds;
- `sends` (history): how many times each peer sent each element.

Actions:
- `AddValidTx(x, k, s)`: the duplicate check, then insertion into the indexes of `Features::get(s)`.
- `SetState(x, s)`: only the legal transitions. An Outdated element is never resurrected, and a same-state call is a stutter.
- `Delete(x)` and `Clear`.
- `PeerAdvance(p)`: a peer moves its cursor to the next record in FIFO order. It takes a reference on the new record, `Release`s the old one, and sends the transaction when its owner still holds the record.

`SetStateDiff(x, f0, f)` is the single diff routine of spec §9. It adds and removes each container by the difference of the two feature vectors. When `SendAndProfit` is lost, it detaches the owner and `Release`s the record: the record leaves the queue only when `m_Refs` reaches 0.

### Relay.tla: what the fluff pool promises

`Relay` is the abstract specification of the pool and its peers, with the indexes, references and queue left out. It has two variables:
- `phase`: each transaction is Free, Waiting, Fluffed or Retired;
- `copies`: how many copies each peer has received.

Its actions:
- `Admit`: a transaction enters in any phase but Free;
- `Fluff`: Waiting becomes Fluffed;
- `Retire(S)`: any set of pooled transactions leaves at once;
- `Deliver(p, x)`: peer p gets its first copy of a Fluffed x.

`Spec` adds weak fairness of every delivery.

`Fluff.tla` maps to it with `PhaseOf` and `R == INSTANCE Relay WITH Txs <- Elems, phase <- [x |-> PhaseOf(x)], copies <- sends`:
- PreFluffed maps to Waiting;
- Outdated and Gone map to Retired;
- a peer's sends are its copies.

`RelaySpec == R!Spec` is checked as a temporal property. Under this mapping, each step of the pool is one of:
- `AddValidTx`: an admission;
- `SetState`: a fluff or a single retirement;
- `Delete`: a single retirement;
- `Clear`: the retirement of the whole pool;
- a peer step: a first delivery while the record still has its element, and otherwise a stutter.

### Stem.tla

State:
- `tval`: `m_Time.m_Value` modulo `2^W`;
- `timeSet` and `aggr`: the two indexes;
- `timer`: ticks left on the single `io::Timer`, or -1;
- `inCb`: `OnTimer` is running;
- `now`: the clock modulo `2^W`;
- `due` (history): the real ticks left until each element's deadline.

Actions:
- the pool's operations: `AddStem`, `Delete`, `TryMerge` (a successful merge; a refused one changes nothing), `Clear`;
- the timer callback: `Fire`, then one action per pass of `OnTimer`'s loop:
  - `OnTimerEmpty`;
  - `OnTimerRearm`;
  - `OnTimedOutFluff`, where the owner deletes the element;
  - `OnTimedOutForward`, where the owner re-arms it through `SetTimer`;
- `Tick`, the clock.

The time index is ordered by `Time::operator<`, the plain `uint32_t` comparison of line 134.

### Dependent.tla

State, per element:
- `dst`: Free, Live or Gone;
- `parent`: `m_pParent`;
- `key`: the conflict key;
- `fee`, `size`, `depth`: the cumulative `m_Fee`, `m_Size` and `m_Depth`.

Pool-wide state: `best`, which is `m_pBest`.

Actions:
- `AddValidTx(x, k, f, s, pp)`: refused for a dangling parent or a conflict on the parent's chain or among its siblings. Otherwise it inherits the parent's cumulative values and updates `m_pBest` by `ShouldUpdateBest`, which compares the newcomer with `m_pBest` alone.
- `Clear`: empties the pool.

`Better` is the selection priority: fee per byte by cross-multiplication, then the shallower chain, then the higher fee. The BVM charge is summed like the size and left out.

Only the header of the pool is in the repository, so `AddValidTx`'s refusals (`ParentInPool`, `Conflict`) and its inheritance (`Inherit`) are taken from the spec. The project checks no property about them: with no single-element removal in the header, "no dangling parent", "no key spent twice along a chain" and "the cumulative values are the sums over the chain" would only restate those guards and that assignment. The property checked here is `BestIsMaximal`, which depends on how insertions compare with `m_pBest` over many steps.

### CoinSelection.tla

`info` holds the members of `CoinsSelectionInfo`. One action, `Calculate(isPush, sa, sb1, sb2)`, follows lines 77-156 as a chain of LET definitions:
1. the asset selection `sa` and its change output;
2. the minimal fees;
3. the first Beam selection `sb1`;
4. the retry with selection `sb2` when a Beam change output raises the fee above the explicit fee;
5. the involuntary fee of shielded inputs;
6. the change.

All sums are `uint64` modulo `2^AmountBits`. A selection is any subset of the asset's coins with at most `nMaxShielded` shielded ones, because `selectCoins2` is not in the repository. `push` records `isPushTx`.

The assumption `FeesFit` says that the fee of a kernel and three outputs is itself an Amount. The three outputs are the payment (plain or shielded), an asset change and a Beam change. `Transaction::FeeSettings` is defined outside `src/`, and its fees are small constants, far below `2^64`. Both cfgs satisfy it, the 4-bit wrap instance included (`1 + 2 + 2 < 16`).

The assumption `SelectionSumsNat` says that the sum of the values of any set of the wallet's coins is a natural. It is the type of a `MapThenSumSet` fold over naturals. Proving it needs induction over the set, which the installed provers cannot instantiate, so it is stated as an assumption. TLC evaluates it on both instances.

### MirrorCoinApp.tla

The chain state the shader reads is chosen in `Init` and fixed:
- each contract's `Global`;
- each pipe's configuration;
- the pipe's incoming messages.

`Method1(role, act)` is the dispatcher with its errors. Each manager and user handler is an action that writes the response `out`: the error, the items listed, and the kernels to sign. `receive_all` reads the pipe's `StateIn`. When the pipe state is missing, the commission is any value of `Garbage`: the local is uninitialized.

`MirrorCoinAppAssumption` keeps `None` out of the contracts, pipes and keys. In the code, `None` stands for a null `pPk`, which is never a key. Without this conjunct, `MoveNext`'s test `pPk = None` would pass every user's message.

### ApiV61.tla

One API session, of a client or of an application (`isApp`). Each step records its request in `req` and writes `resp`, either a parsed message or the `jsonrpc_exception` thrown. Keeping the request lets `ParseExact` compare the outcome with what was asked. The steps are:
- `ParseEvSubUnsub(params)`: walks the keys in `std::map` order (`KeyRank`) and throws at the first unknown key or the first event denied to applications; then at least one key must be present, and every value must be Boolean. The message `EvMessage` has one member per event, copied from the request by lines 62-68;
- `ParseWalletStatus(nz)`;
- `ParseInvokeContract(p)`: a contract array wins over `contract_file`; an application that would create the transaction, explicitly or by default, is refused before `priority` and `unique` are parsed;
- `WalletStatusResponse(t)`: the Totals entry of an asset as a set of `<<name, value>>` fields. Each group has its exact sum and parts as strings. Numbers are emitted only up to `kMaxAllowedInt`, as `get_Lo` of the 128-bit sum. An application gets no balances.

## Runs

| Run | Cfg | Checks | Shows |
|---|---|---|---|
| `fluff_indexes_and_send` | `MC_Fluff.cfg` | `TypeOK`, `IndexesMatchState`, `RefsAccounted`, `ProfitSetConflictFree`, `NoDuplicateSend`, `SentOnlyWhileFluffed`, `EventuallySent` | see below |
| `fluff_refines_relay` | `MC_FluffRelay.cfg` | `RelaySpec` | the pool with its peers implements `Relay`, including its fairness: every fluffed transaction reaches every peer unless it is retired first |
| `stem_timer` | `MC_Stem.cfg` | `TypeOK`, `TimerTracksHead`, `TimelyTimeout` | the single timer always matches the first element of the time index, across inserts, deletes, merges and re-entrant callbacks; no deadline is missed while the clock does not wrap |
| `stem_timer_wrap` | `MC_Stem_wrap.cfg` | `TimelyTimeout` (expected violation) | near the clock wrap, a deadline past the wrap sorts first and an earlier deadline is missed |
| `dependent_chains` | `MC_Dependent.cfg` | `BestIsMaximal` | `m_pBest` is an unbeaten element, although each insertion compares only with it, across `Clear` and later insertions |
| `coin_selection` | `MC_CoinSelection.cfg` | `ValueConserved`, `FeeCoversOutputs`, `NettoExact` | a selection reported enough balances exactly, pays the fee of every output including the change found after the retry, and nets to the requested sum |
| `coin_selection_wrap` | `MC_CoinSelection_wrap.cfg` | `ValueConserved` (expected violation) | a requested sum near `2^64` wraps with the fee and an empty selection is reported enough |
| `mirrorcoin_receive` | `MC_MirrorCoinApp.cfg` | `ReceiveExact` | `receive_all` emits exactly one kernel per incoming message of this wallet from the start checkpoint on, with the pipe's commission |
| `mirrorcoin_no_pipe` | `MC_MirrorCoinApp_nopipe.cfg` | `NoKernelOnError` (expected violation) | `receive_all` reports "no pipe state" and still emits kernels |
| `api_v61_parse` | `MC_ApiV61.cfg` | `TotalsExact`, `ParseExact` | every JSON number of a status response is exact and agrees with its string and its parts; a subscription is accepted exactly when the reference check `SubscriptionValid` passes on the recorded request (so an unknown key beside a known one is refused), and each member of the message carries the value the request gave the event it is named for; an application gets no balances and no transaction |

`fluff_indexes_and_send` shows that, under every interleaving of pool operations and peer tasks:
- index membership equals the state's feature vector;
- `m_Refs` counts exactly the owner and the peers holding a record, and a record is unlinked exactly when the count reaches 0;
- no two mining candidates share a conflict key;
- no peer sends an element twice;
- a peer sends only while the element is Fluffed;
- every peer eventually reaches every fluffed record.

Bounds:
- Fluff: three elements, two keys, two peers, with all three states allowed at insertion. This is enough for:
  - a conflicting pair plus a third element;
  - two peers holding the same record while the owner releases it;
  - a record released under one peer's cursor while the other has already passed it.
  The state space is about 100k states.
- Stem: three elements and delays {2, 3} on a 4-bit clock with at most 8 ticks. That reaches:
  - a tie and a strict order between deadlines;
  - the deletion or merge of the element backing the armed timer;
  - a forward that re-arms from inside the callback.
  The pass run starts at 0 so that the clock cannot wrap. The wrap run starts at 12 so that it does.
- Dependent: four elements, two keys, fees and sizes {1, 2}. This gives:
  - chains of depth three;
  - siblings;
  - equal and unequal fee rates, so that every tie-break of `Better` is taken;
  - a conflict with a grandparent.
- Coin selection: five coins over two assets, two of them shielded. Fees are chosen so that the change output forces a retry. There are two calls, so a second call starts from the first one's fee. The amounts have 8 bits. The wrap run has 4 bits and a request of 14, so that the sum with the fee wraps.
- MirrorCoin: two contracts, one pipe and five messages. The messages cover both checkpoints, both receivers and both users, so the walker's range and filter each exclude something.
- API v6.1:
  - three known events (two denied to applications) and two unknown keys, one sorting before them and one after;
  - at most two keys per request;
  - Totals members in {1, 5} with `kMaxAllowedInt` = 5 on a 3-bit Amount, so that a total exceeds the limit while its parts do not, and `get_Lo` of a 3-part sum wraps.

Every property of a passing run has a mutant in `PROJECT.json`: a plausible bug in a mapped definition that TLC must catch.

Deadlock checking is off in every run:
- The pools have a finite supply of identities, and a drained pool is a legitimate resting state.
- The stem clock is bounded by `MaxElapsed`.
- Coin selection is bounded by `MaxCalls`.
- The API and shader runs are bounded by the requests each step chooses from. Their last response is a resting state.

## Fairness

`Fluff` assumes weak fairness of each peer's `PeerAdvance`: a connected peer's send task keeps draining the queue while records remain, which is what the asynchronous send task does. `EventuallySent` and the fairness part of `RelaySpec` depend on it.

The other modules assume no fairness; their properties are all safety properties.

## Findings

`stem_timer_wrap`: `Time::operator<` (h:134) compares raw `uint32_t` milliseconds.
- `GetTime_ms() + timeout` wraps after about 49.7 days of uptime.
- After the wrap, an element whose deadline wrapped past 0 becomes the first element of `m_setTime`.
- The timer is armed for it, and an element with an earlier real deadline waits past that deadline.

TLC's trace, on a 4-bit clock:
1. At 12, s1 is added with delay 2, so it is due at 14.
2. At 13, s2 is added with delay 3, so its deadline wraps to 0.
3. s2 sorts first, and s1 becomes overdue at 15.

`coin_selection_wrap` (common_utils.cpp:117): `Calculate` adds the explicit and involuntary fees to `m_requestedSum` in `uint64` with no overflow check. A request within the fee of `2^64` wraps to a small `valBeams`, and `m_isEnought` is set for a selection far below the amount. Callers outside the repository may bound the amount; `Calculate` itself does not.

`mirrorcoin_no_pipe` (app.cpp:314): `receive_all` calls `OnError("no pipe state")` without returning. It then reads `m_ComissionPerMsg` of the local that was never read from the chain. It still generates the Receive kernels, with that uninitialized value as the commission. Every other handler returns after `OnError`.

## Proofs (TLAPS)

`FluffProofs.tla` proves the following for every finite set of elements and peers. Its assumption is `ConstAssumption`: `Elems` and `Peers` are finite, and `NoRec` and `NoKey` lie outside the sets.
- `FluffInvariant`: `Spec => []IInv`, with `IInv == TypeOK /\ IndexesMatchState /\ RefsAccounted /\ RecordHistory`;
- `TypeCorrect`, `IndexesCorrect`, `RefsCorrect`: `TypeOK`, `IndexesMatchState` and `RefsAccounted` hold always;
- `ProfitConflictFree`: `Spec => []ProfitSetConflictFree`.

`ProfitSetConflictFree` follows from a stronger invariant, `ActiveDistinct`: no two active (PreFluffed or Fluffed) elements share a key. `SetState(PreFluffed -> Fluffed)` checks no key. The invariant still holds because only `AddValidTx` makes an element active, and it refuses an active duplicate. `IndexesMatchState` then puts only Fluffed elements in `m_setProfit`.

`RefsAccounted` is not inductive on its own: a step may only take a reference on a record that is on the queue. Three facts make it inductive:
- `RefsAccounted` gives `refs[n] > 0` for the next record;
- `RecordHistory` says an element whose record is referenced is Fluffed, Outdated or Gone. Without it, `AddValidTx` could seemingly create a second record for an identity still referenced by a cursor;
- `IndexesMatchState` ties `pSend` to the state, so that `Clear` and `Delete` release exactly the owned records.

The proof is one lemma per action. Each action's lemma uses the shared lemmas:
- `DiffStep`: the diff routine under the three send-record cases;
- `HoldersMove`: how the set of a record's holders changes when a cursor moves;
- the finite-set facts of `FiniteSetTheorems` for `Cardinality`.

`RelayProofs.tla` proves the following under the same assumption:
- `RelayInvariant`: `Spec => []RInv`;
- `NoDuplicateSendHolds`: `Spec => []NoDuplicateSend`;
- `FluffRefinesRelay`: `Spec => R!SafetySpec`;
- `SentOnlyWhileFluffedHolds`: the action property `SentOnlyWhileFluffed`, from `RInv`. A record with its owner belongs to a Fluffed element (`NextUnsent`).

`RInv` strengthens `IInv` with `SendHistory`. For every pair of a peer and an element the peer has sent:
- the peer sent it exactly once;
- its cursor is on a record at or after that element's position in the queue;
- the element is no longer waiting.

`NoDuplicateSend` needs this history. A peer's next record always lies strictly after its cursor (lemma `NextUnsent`), so it has never been sent to that peer. The refinement proof has one lemma per action, each mapping the step to a `Relay` action. `PhaseFrame` says that a step that changes one element's state changes only that element's phase.

`DependentProofs.tla` proves the following for every finite element set, and for fees in `Nat` and sizes in `Nat \ {0}` (`DependentAssumption`):
- `DependentInvariant`: `Spec => []IInv`, with `IInv == TypeOK /\ ParentsLive /\ PositiveSizes /\ BestIsMaximal`;
- `BestAlwaysMaximal`.

`ParentsLive` (every live element's parent is live) is a conjunct of the inductive invariant only: `PositiveSizes` needs it, because a child inherits its parent's cumulative size. `BestIsMaximal` needs `PositiveSizes`, because the priority `Better` is transitive only over positive cumulative sizes (lemmas `CrossTrans` and `BetterOrder`). With that, comparing the newcomer with `m_pBest` alone suffices.

`StemProofs.tla` proves the following for every clock width `W > 0`, every set of elements, every set of delays below `2^(W-1)` and every set of start times on the clock (`StemAssumption`):
- `StemInvariant`: `Spec => []IInv`, with `IInv == TypeOK /\ TimedLive /\ MinExists /\ TimerTracksHead /\ CbTimer`;
- `TypeCorrect`: `TypeOK` holds always;
- `TimerTracksHeadHolds`: `TimerTracksHead` holds always, even when the clock wraps.

Three conjuncts strengthen `TimerTracksHead` so that it becomes inductive:
- `TimedLive`: every timed element is Live. `Delete` and `TryMerge` then remove exactly the timed entries they touch;
- `MinExists`: every non-empty set of timed elements has one with the smallest sort key. `Head` is a `CHOOSE` of the first element in the time index. The provers cannot get a minimum of a finite set from the library's well-founded induction, whose theorems take an operator parameter;
- `CbTimer`: inside `OnTimer` the timer is either cancelled (`-1`) or re-armed for the head. The re-entrant `OnTimedOut` then finds a consistent timer.

The remaining time `(due - now) % 2^W` is the core of the argument. Lemmas `AddBack` and `TickDown` show that it stays exact and decreases by one per tick, modulo `2^W`. The provers have no axioms for `2^W` with a symbolic `W`. `Stem.tla` therefore states the two facts the proof needs as `ClockWidthFacts`: `2^(W-1)` is a positive natural and `2^W = 2 * 2^(W-1)`. They follow from `W > 0`, and TLC evaluates them on every run of `MC_Stem`. `TimelyTimeout` is not proved, because it does not hold under wrap (`stem_timer_wrap`).

`ApiV61Proofs.tla` proves the following for every set of event keys, every amount width and every `kMaxAllowedInt < 2^AmountBits` (`ApiV61Assumption`):
- `ParseExactHolds`: `Spec => []ParseExact`;
- `TotalsExactHolds`: `Spec => []TotalsExact`.

Both are invariants of each step's outcome alone, given that the application flag never changes (`AppFlag`). `ParseExact` follows from one lemma per parser. For `TotalsExact`, the lemma `EntryIsExact` shows that `TotalsEntry(t)` is exact for every totals `t` with natural members. `GroupField` and `SingleField` give the fields of each name. `LoSmall` shows that the low 64 bits of a sum within `kMaxAllowedInt` are the sum itself. The assumption's conjunct `Absent \notin BOOLEAN` holds because `Absent` is a model value. It lets the proof tell a missing `create_tx` from a Boolean one. The model names the bare JSON key (`available`) `<<g, "num">>`. The provers' SMT encoding cannot tell the empty string apart from the other labels in these set comprehensions, so the label is not `""`.

`CoinSelectionProofs.tla` proves `FeeCoversOutputsHolds`: `Spec => []FeeCoversOutputs`. It holds for every Amount width, coin set, request and explicit fee, under `CoinSelectionAssumption` and `FeesFit`. The inductive invariant is `IInv == InfoOK /\ FeeCoversOutputs`, where `InfoOK` gives the shape of `info` and the types of the three members `Calculate` reads. Each call recomputes every fee from these members alone, so one lemma, `CalculateFee`, covers the whole step. Its argument runs as follows:
- under `FeesFit`, the minimal raw fee never wraps. It equals the kernel, the payment and one output per change found, exactly;
- the explicit fee is raised to at least that (`std::setmax`);
- after the retry, the explicit fee is at least the raw fee that includes the Beam change;
- a Beam change is non-zero only when the selection exceeded what it had to cover, which is when `change1` held or the retry ran.

Without `FeesFit`, the fee sum can wrap to a small number, and then `FeeCoversOutputs` fails.

`Calc(isPush, sa, sb1, sb2)` names, as a record, the values `Calculate`'s LET computes. Lemma `CalcStep` gives each member `Calculate` sets in terms of these values. `CalcEqs` gives each value in terms of the ones before it. All later lemmas work from these two and never expand `Calculate` again. Expanding it inlines every LET value at each use, and the provers time out on the resulting terms.

`CoinSelectionProofs.tla` also proves `ValueConservedHolds` and `NettoExactHolds`:
- `ValueConservedHolds`: `Spec => []ValueConserved`;
- `NettoExactHolds`: `Spec => []NettoExact`.

Both hold for every fee bound `eb \in Nat` that satisfies two hypotheses:
- `FeeBound(eb)`: `eb` bounds every explicit fee a caller may preset, both defaults, and the raw fee of a kernel, the payment and two change outputs;
- `NoWrap(eb)`: a request plus `eb` plus the involuntary fee of any Beam selection is an Amount. For an asset payment, `eb` plus the involuntary fees of any asset selection and any Beam selection is an Amount.

These hypotheses say exactly that no Amount wraps. Both properties fail without them: `coin_selection_wrap` shows it for `ValueConserved`, and on the same instance TLC also finds `NettoExact` violated. On the instance of `coin_selection`, TLC evaluated `FeeBound(5) /\ NoWrap(5)` as true. It also checked the invariant `VInv(5)` over all 1193 states, and a state reported enough whose explicit fee is exactly 5 is reachable. So the hypotheses hold on a real instance and the bound is tight there.

The inductive invariant is `VInv(eb)`. It conjoins:
- `InfoOK`;
- that the request and asset are ones a caller may give;
- `info.explicitFee <= eb`;
- the two properties.

The fee bound must be part of the invariant, because the next call starts from the explicit fee the last one set. The step is covered by two lemmas. `CalcValue` shows that, with nothing wrapping, the amount the Beam selection must cover is exactly the request (for a Beam payment), plus the explicit fee set, plus both selections' involuntary fees. The argument runs through the retry: the retry adds `minExpl2 - expl1` to a sum that already holds `expl1`. `CalculateValue` then derives the two balances and `get_NettoValue`. An asset payment nets its change. A Beam payment nets its change and then the total fee, which leaves the request, or 0 when the request is 0.

`MirrorCoinAppProofs.tla` proves `ReceiveExactHolds`: `Spec => []ReceiveExact`. It holds for every set of contracts, pipes, keys and messages, under `MirrorCoinAppAssumption`. No call of `Method_1` changes the chain state, and every call replaces the answer. The property therefore follows from each step alone, with no strengthening:
- `Method1Responds`: every branch answers through `Respond` with its own role and action;
- `ReceiveAllBranch` and `ReceiveAllExact`: the user's `receive_all`, with the contract's `Global` and pipe state present, signs one kernel per message that `IncomingWalker::MoveNext` passes for this wallet's key.

The `Init` step needs care. The SMT encoding cannot handle the empty-string label `""` in the first answer's record, so the proof names that record and hides its definition.

TLC checked each strengthened invariant as an invariant of a run before it was proved.

What stays with TLC:
- liveness: `EventuallySent` and the fairness part of `RelaySpec`. The proof system does not reason about `ENABLED` and fairness;
- `Stem`'s `TimelyTimeout`, which holds only while the clock does not wrap;
- `ValueConserved` and `NettoExact` when Amounts wrap: they do not hold then (`coin_selection_wrap`), and the theorems are stated under `FeeBound` and `NoWrap`;
- `MirrorCoinApp`'s `NoKernelOnError`, which the code violates (`mirrorcoin_no_pipe`).

## Not modelled

- **Stats and the Profit ranking**: pure computations whose bodies are in `txpool.cpp`, which is not in the repository.
- **Stem `InsertAggr`/`DeleteAggr` used on their own** and merge contents (inputs and outputs): `TryMerge` is modelled only by its effect on the indexes.
- **Timer cancellation in `~Stem`**: the model has no destruction.
- **The Dependent pool's BVM charge and context index**: the charge is summed like the size; the index only serves the caller's parent lookup.
- **The upgradable2 test app**: it forwards to `ManagerUpgadable2` helpers that are not in the repository.
- **BeamHash III**: bit-level proof-of-work hashing with no state.
- **Other wallet API files, swap settings, hardware-wallet crypto, Android and websocket front ends**: declarations, parsing outside v6.1 and I/O.

## Plan

1. Fluff pool, peer send tasks, proofs of `IInv`: done.
2. Stem pool timer: done, wrap finding recorded.
3. Dependent pool with proofs of `BestIsMaximal`: done.
4. Coin selection, MirrorCoin shader, API v6.1 parsing: done, two code findings recorded.
5. The abstract relay specification, with the refinement checked by TLC and its safety part proved: done.
6. Proofs of Stem's `TimerTracksHead`, of both API v6.1 invariants and of coin selection's `FeeCoversOutputs`: done.
7. Proofs of `MirrorCoinApp`'s `ReceiveExact` and of coin selection's `ValueConserved` and `NettoExact` without wrap: done.
8. Next: the Profit ranking as an abstract strict weak order; Stem `InsertAggr`/`DeleteAggr` on their own.
