# A verification of fatcrab-trading

TLA+ specifications of the Fatcrab trading library, TLC configurations that
model-check them on small instances, and TLAPS proofs of what matters most for
every instance. All paths are relative to the directory that holds `src/` and
`tla/`; the library's own sources are under `src/src/`.

    tlc -config MCPersister.cfg MCPersister.tla     # model-check
    tlapm PersisterProofs.tla                       # check the proofs

`PROJECT.json` maps every definition to the lines it translates, lists the runs,
the mutants (a plausible bug for every property of every passing run, which the
run finds), the hazards of the code and the findings.

## 1. Inventory

A *trader* (`trader.rs`) is a process with one *purse* (a bdk wallet and a list
of allocations), any number of *makers* (orders it posted) and *takers* (orders
of others it took), and an n3xB session. Purse, makers and takers are actors:
tokio tasks that own their data and serve one request or notification at a
time. Users and actors talk through mpsc channels with oneshot answers; actors
of different traders talk only through n3xB messages on Nostr relays. Each
actor keeps its data in a JSON file that a thread of its own, the *persister*,
writes.

| Component | State | Operations | Interacts with |
|---|---|---|---|
| Persister, `persist/std.rs`, and the data modules `*/data.rs` | an `RwLock`ed store, a channel of capacity 1, a thread, a file | setters + `queue`, `terminate`, `restore`, `new`; in the thread `recv`, `persist` | every actor; the file system |
| Purse, `purse/purse.rs` | allocations (`funds_id` to sats), the wallet's view of the chain, the height | `allocate_funds`, `free_funds`, `send_funds`, `get_balances`, `sync_blockchain`, `get_height`, `get_tx_conf`, `shutdown` | makers, takers, `Trader::wallet_*`; Electrum |
| Maker, `maker/maker.rs` | state, offers received, accepted peer, peer message, `funds_id` | `post_new_order`, `cancel_order`, `trade_response`, `release_notify_peer` / `notify_peer`, `trade_complete`, registrations, `shutdown`; handlers of offers and peer messages | purse, n3xB, user |
| Taker, `taker/taker.rs` | state, address of the peer, peer message, `funds_id` | `take_order`, `notify_peer` / `release_notify_peer`, `trade_complete`, registrations, `shutdown`; handlers of trade responses and peer messages | purse, n3xB, user |
| Channels of an actor, `maker/maker.rs`, `taker/taker.rs` | requests (capacity 10) with oneshot answers, messages of n3xB (5), the user's notification channel | accessors, `run`, `register_notif_tx`, `unregister_notif_tx`, the `send`s of the handlers | user tasks, n3xB |
| Trader, `trader.rs` | maps of makers and takers | creation, `restore`, `query_orders`, wallet operations, `shutdown` | all of the above |
| Formats, `order.rs`, `offer.rs`, `trade_rsp.rs`, `peer.rs` | none | conversion and validation | n3xB |
| Outside: n3xB and relays, bdk, the blockchain, the operating system | | | |

What is hard in this code, and what makes each component correct:

* **Persister.** Requests are dropped when the channel is full, the owner and
  the thread share the store, writes fail or are torn by a crash. Correct: no
  update is forgotten, a clean shutdown flushes and returns, and the file only
  ever holds the current contents.
* **Purse.** Requests of trades and of the three-step `wallet_send_to_address`
  interleave; the broadcast, the deallocation and its write to the file are
  three different moments; fees are not allocated; the wallet's view is stale
  between synchronizations. Correct: an allocation is settled once, grants fit
  the balance, a wallet send pays what it allocated. For confirmations, two
  copies of the chain's state are refreshed one after the other and only one
  survives a restart. Correct: confirmations are never overstated.
* **Maker and taker.** Requests check no state of their own; messages are lost
  in states that do not expect them, and come again after a restart; handlers
  make two calls, either of which may fail; files of different actors are
  written by different threads. Correct: at most one agreement, beliefs that
  agree with what was said, bitcoin only to the other side of an agreement,
  funds that are where the state says, no panic between two that use this library,
  and agreed trades that end.
* **Channels.** One task serves requests and notifications, and awaits places in
  channels that users read; callers give up, unregister, drop receivers. Correct:
  nobody waits for ever, what is stored is told, an actor panics only when its
  user, its peer or n3xB provokes it, and the state agrees with the relays however
  the actor ends.
* **Trader.** Creation is three steps in three components; `shutdown` stops the
  purse before the actors that use it and returns early; `restore` gives nobody a
  listener, and joins files with n3xB sessions. Correct: what `Ok` and `Err` of a
  shutdown say is so, funds belong to a trade, registered trades come back.
* **Formats.** Products and inverses of floating point numbers, rounded in one
  place and truncated in another; orders of other programs, with any obligations
  and perhaps no limit rate. Correct:
  both sides mean the same order, and the payer has allocated what is offered.

The full list, at the lines where it bites, is `hazards` in `PROJECT.json`.

## 2. Plan

In the order of writing; later modules compose earlier ones or rest on the
abstract specification those implement.

1. *Done.* `DurableStore` (abstract), `Persister`: one actor, its thread, its file.
2. *Done.* `Escrow` (abstract), `Purse`: allocations and wallet sends.
3. *Done.* `Confirmations`: height and confirmations.
4. *Done.* `Platform`, `Maker`, `Taker`, composed in `Trade`: one order from its
   creation to the end. Purses appear there as `Escrow`, files as `DurableStore`
   would have them.
5. *Done.* Proofs about 1 to 3 (`PersisterProofs`, `Escrow`, `PurseProofs`,
   `ConfirmationsProofs`).
6. *Done.* `Mailbox`: the channels between user tasks, an actor and n3xB.
7. *Done.* `Registry`: several trades, creation, `shutdown`, restoration.
8. *Done.* `Orders`: the numbers and obligations of orders and offers.
9. *Done.* `Swap`, the abstract exchange, and `Trade` as an implementation of it.
10. *Done.* Proofs about `Trade` (`TradeProofs`): its types and its five safety
    properties, and that it implements `Swap`.
11. *Done.* Proofs about `Mailbox` and `Registry` (`MailboxProofs`,
    `RegistryProofs`): their types and all their safety properties.
12. *Done.* Proofs about sums and numbers: `GrantsFitBalance` of `Purse`, and
    all properties of `Orders` (`OrdersProofs`), by induction over data.
13. *Next.* Reorganizations in `Confirmations`, if the library comes to handle them.

## 3. Modules

### DurableStore, Persister

The contents of a store are a version number. `owner` is where the actor is:
between a setter's write and its `queue()` it is `"dirty"` (`Update`, `Queue`),
in `terminate` it is `"closing"` (`Terminate` sends, `Joined` returns). `thread`
is where the persistence thread is; `BeginWrite` takes the read guard, which
keeps setters out until `FinishWrite` or `FailWrite` drops it, and truncates
the file; a crash before `FinishWrite` leaves it `Torn`. `Panic` drops the
sender, and `Disconnected` ends the thread. `Restart` reads the file;
`RestartFails` is the panic on a file that cannot be read.

`DurableStore` is what a component expects: the file receives the current
contents, a write may tear it, a clean close leaves nothing behind unless a
write failed, a restart brings back what the file holds. `Persister` implements
it with `mem <- store` and a status computed from `owner`.

### Escrow, Purse

Each handler of the purse actor is one action, since nothing else runs in it
meanwhile. `alloc` and `disk` are the allocations in memory and in the file.
Three balances keep apart what the wallet believes (`view`), what is left of
those coins (`chain`) and what it will learn of (`unseen`). Subtractions are
modulo `Modulus`, or panic with `OverflowChecks`. `paid`, `freed` and `crashes`
are a ledger for the properties. `wallet_send_to_address` is three actions per
call (`WalletChecks`, `WalletAllocates`, `WalletSends`).

`Escrow` is what trades rely on: an allocation is made once, paid or freed while
it is held, and comes back with a crash if the file still has it. `Purse`
implements it with `held <- DOMAIN alloc`.

### Confirmations

One transaction and a growing chain. `sync_blockchain` and `PurseActor::new`
are two actions each, one per copy, because blocks come in between. `Persist`
is the write that an allocation queues; `set_height` queues none, so `Stop`
writes nothing.

### Platform, Maker, Taker, Trade

`Platform` has what is shared: the messages the relays keep, those n3xB already
handed over (`seen`), an `Escrow` for the purses (each node names its one
allocation, so the node stands for its `funds_id`), and the counters that bound
shutdowns and crashes. `Maker` and `Taker` have one action per request and
notification, for both order types; a handler that makes two calls outside the
process is two actions, with a program counter (`makerPc`, `takerPc`) that keeps
the actor from serving anything in between. `MakerStates` and `TakerStates` are
the enums of the code. `AcceptOffer`, `RejectOffer` and
`OfferNotifInUnexpectedState` panic if n3xB fails, since the code unwraps the
answer. A restart reads the file, forgets the listener and may see every
message again. `Trade` is their composition; `Maker` and `Taker` steps
interleave.

What a message carries is unwrapped in places: the specifics of a response or a
peer message have to be of this library's type (`trade_rsp.rs:50`, `maker.rs:917`,
`taker.rs:773`), an address has to parse (`maker.rs:1108`, `taker.rs:1124`), and
one of another network, or a txid that is none, is an error. A *stranger* is a
node whose messages may be any of these. `AcceptToBuyer` stores the address of an
acceptance, and sets the state, before `Remit` looks at it; `AcceptPanics`,
`MakerPeerNotifOfStranger` and `TakerPeerNotifPanics` are the other handlers.

What users, calls and processes may do is a *scenario*, chosen in the initial
state: whether users are careful, whether calls fail, how many shutdowns and
crashes there are, which takers, and which nodes are strangers. One run covers
several scenarios.

`Swap` is what a trade promises, without states or messages: agree, pay, claim to
have done one's part, in an order that depends on who pays. `Trade` implements
it with `agreed`, `taken` and `given` read from the relays and `paid` from the
purses. In a scenario that is not steady (a careless user, a crash) `Swap` only
keeps the promises about bitcoin.

Assumptions of `Trade`, all of them named in the modules:

* A call that returns an error had no effect (`CallsMayFail`).
* n3xB keeps messages, hands them over in any order, once per life of the node
  or again after a restart, and authenticates senders. It routes a maker's peer
  message to the taker it accepted last.
* A user is `Careful` when it calls operations in the order the tests and the
  demo do and subscribes before it reconnects, which `trader.rs:139-142` asks
  for. Without `Careful` every operation may be called in every state the code
  accepts.
* Where nothing crashes (`MaxCrashes = 0`) files are only read after a shutdown,
  which flushes them (`FlushedWhenClosed`), so writes in between are left out.
* A maker or taker that was lost in a crash is not created again: it would be
  another order.

### Mailbox

One maker, or one taker of a buy order, seen from its channels. `queue` holds the
requests in the channel and behind it: `InChannel(i)` says which of them were
sent, the others still wait in `tx.send()`. A request records whether its caller
still awaits the answer; `Answer` is `rsp_tx.send(..).unwrap()`, which kills the
actor (`Gone("panicked")`) if it does not. `Gone` also empties the queue, since
the receiver is dropped with the task and every waiting caller learns of it.
A handler that finds the notification channel full stays in `sending`, and the
actor serves nothing until `NotifyContinues`. The requests are told apart by what
they do to the channels (`Kinds`), the states by which messages they expect
(`States`); what they mean to the trade is in `Maker` and `Taker`.

`HandleStranger` is a message that fits the state but is not what this library
sends: a maker forgets an offer that does not validate and an address of another
network, and what is unwrapped makes the actor panic. n3xB may fail every call: a
request is answered with the error, except that a maker unwraps the answers to
`accept_offer` and `reject_offer` (`ServeAgree`, `RejectPanics`). `failed` and
`misled` record that either happened since the process started.

`subscribed`, `exposed` and `reckless` record what the user knows and has done,
for the properties: the listener that was confirmed to it; whether it posted or
reconnected without one, or asked to unregister; whether it gave up a request or
dropped a receiver that it knew to be in use.

### Registry

`trade` gives the uuid of each trade created, as one uuid may be used twice;
`handles` is the maps `makers` and `takers`, which own the handles of the tasks,
and `registry` the maps of their accessors. Creation is `NewSession`,
`AllocateFunds` or `NewFails`, and `Create`; a caller that drops its future stops
it between two of them (`NewFails`, `DropAllocation`) or at the lock of the first
or the second map (`DropTrade`). An actor may be suspended at a
notification that its user does not read (`waiting`), and serves nothing until
`NotifyContinues`. A write may fail, also the last one of a shutdown (`Writes`);
`lost` has the trades whose last write failed and those given up in creation.
`shutdown` is `Shutdown`, `StopPurse`, `RequestShutdown` per trade,
`RequestsDone`, `AwaitHandle` per handle and `StopN3xb`, in the order of the code,
with its early returns (`Returns`). Meanwhile users call what they hold
(`UserAsks`), actors serve (`ServeCancel`, `ServeStop`) and offers are rejected
(`HandleReject`); both settle funds and panic without a purse (`Settle`).
`Restart` and `Crash` read the files of which n3xB has a session; `RestoreFails`
is a directory that cannot be read. The data of a trade is `"open"` or
`"settled"`, by whether its funds were dealt with.

### Orders

Floating point numbers are modelled by what they do: a significand of
`Precision` bits and an exponent, each operation rounded to nearest, ties to
even (`Nearest`). The conversions are functions of the code (`N3xbOrder`,
`FromN3xbOrder`, `N3xbOffer`, `ValidOffer`, `Allocated`); the state machine
carries one order, of a user of this library or of another program, from its
maker through the relays to the taker and back as an offer. The kinds of an
obligation are a hash set, so `QueryOrders` visits them in every order; the two
loops over them are folds of `MakerStep` and `TakerStep`, and `RateMissed` is the
`unwrap()` of a limit rate that is not there (`order.rs:86`, `order.rs:101`). Infinities, numbers
that are not numbers and the shorter significands of the smallest numbers are
left out: an own order is worth between one sat and `MaxSats`.

## 4. Runs

Deadlock is not checked in any run: counters bound every behaviour, and trades,
closed stores and panicked actors really stop. What must not stop is stated as a
liveness property.

| Run | What it shows |
|---|---|
| `persister` | Four updates, two crashes, failing writes. No update is forgotten although requests are dropped; the file holds the last update after a clean close; every update reaches the file; `terminate` returns; the durable store is implemented. |
| `purse` | Two allocations, two concurrent wallet sends, a crash, a debug build. No allocation is settled twice in a life; nobody else settles a wallet send's funds; grants fit the balance; the escrow is implemented. |
| `purse_release` (finding) | In a release build the balance wraps and any amount is granted. |
| `purse_confirmed` (finding) | A trade pays; the balance check of a wallet send, on the wallet's view of before, passes; the send goes out with pending coins. |
| `confirmations` | Four blocks, three starts. Confirmations are never overstated; after a synchronization the height is as new as the wallet's transactions. |
| `confirmations_stale` (finding) | After a start a confirmed transaction is "Unexpected". |
| `trade` | A buy or a sell order in four scenarios: two takers, failing calls and one shutdown anywhere; one taker and users who call anything at any time; one taker and a crash between any two writes of any file; one taker, one shutdown, and one side that is another program. One agreement, true beliefs, payments as agreed, funds where the states say, and the exchange of `Swap` is implemented. |
| `trade_live` | One taker, two shutdowns, no failing call; or one shutdown and one side that is another program. A trade agreed between two that use this library is completed by both sides, and no actor dies while its purse runs, unless it unwraps what the other program sent. |
| `trade_panic` (finding) | After a crash between the writes of two files, cancelling an order kills the maker. |
| `mailbox` | Two user tasks, two notification channels, a request given up, a restart: requests are answered and stored messages told in spite of full channels; losses are the user's doing, and so is a state at odds with the relays; an actor panics by its user's doing, by a message that is not this library's or, a maker that has an offer, by a failing n3xB. |
| `registry` | Two trades out of a buy maker, a sell maker and a taker of a sell order, a crash, restarts, failing writes, creations given up, notifications nobody has read yet: shutdown returns if users read them, `Ok` means complete up to failed writes, `Err` leaves no trade running, funds have an owner, trades come back. |
| `orders` | Every own order worth less than 16 sats with numbers of six bits, and 512 foreign ones: orders are read as they were made, offers fit and are funded. |

### Bounds

* *Persister.* To drop a request takes one being written, one queued and one
  more update; four updates leave room to restart and do it again, two crashes
  to crash after a recovery. The theorems remove the bounds.
* *Purse.* Two identifiers and amounts 2 and 3 against 3 confirmed and 2 pending
  sats allow both allocations, one, or none, and a fee of 1 that makes the
  second no longer fit. `Modulus` 16 is above every sum that occurs, so only a
  wrap below zero differs from exact arithmetic. `purse_release` needs a third
  identifier for the wrong grant. The refinement is also a theorem.
* *Confirmations.* The transaction can be mined before, between and after two
  synchronizations in each life. The theorems remove the bounds.
* *Trade.* Every run starts with a buy or with a sell order. Two takers are what
  it takes for a maker to prefer one and reject the other; a third would only
  repeat the second. One shutdown hits every node at every point, with either
  part of the shutdown first. The scenarios with a crash and with careless users
  have one taker: what holds in them is about one taker and the maker, and the
  second one's influence is in the first scenario; so does the one with another
  program, on either side. The liveness run has two
  shutdowns, so both sides may restart or one may twice. The theorems about
  safety hold for any takers, shutdowns and crashes.
* *Mailbox.* Channels of capacity one are full as soon as possible: one request
  served and one behind it that waits to be sent, one notification unread and
  one in `sending`. Two tasks are needed for one to act while the other waits;
  one trades and the other registers, as a user interface does. The theorems
  remove the bounds.
* *Registry.* Two trades of three uuids: two of different kinds, both makers or
  the same uuid twice. With two, shutdown can meet one that panicked before and
  after one that runs, and a directory can fail when one of two is restored. One
  request of a user and the one of the shutdown wait at an actor, in either order.
  The theorems remove the bounds.
* *Orders.* Rounding is a matter of the last places, so numbers with few bits
  show every pattern of them: 6 bits and worths below 2^4 keep the distance the
  code has, 53 bits and 21e14 sats below 2^51, which `OrdersAssumption` states.
  The properties also hold with 5 and 7 bits. No truncated product is off by
  more than one sat as long as sats have room for fractions. The theorems hold
  for every precision, limit and set of exponents with that distance, and the
  run compares the same operators with what they should mean.

### Fairness

`Persister`: the thread is a loop that only its own blocking `recv` suspends,
and an owner calls `queue` after a setter and `join` after `Close`
unconditionally; hence weak fairness of these three and nothing else. Crashes,
panics, updates and restarts are never forced.

`Mailbox`: the actor serves as long as only its own awaits suspend it, a place in
a notification channel is used, and each notification channel has a task that
reads it. The last one is needed: a user that awaits an answer in the task that
is to read a full channel waits for ever, and the library cannot prevent it.
Nobody is obliged to ask for anything, and n3xB need not hand anything over.

`Registry`: the task in `shutdown` goes on unless it awaits something (weak
fairness of `TraderStep`). An actor chooses between its requests and the
notifications of n3xB at random (`select!`), so a request that waits again and
again is served in the end (strong fairness of `Serve`); but not while the actor
is suspended at a full notification channel. That a user reads its notifications
or drops the channel (weak fairness of `NotifyContinues`) is an assumption on
users, as in `Mailbox`: without it a user that has stopped reading makes
`Trader::shutdown` wait for ever (`maker.rs:843`, `maker.rs:956`,
`taker.rs:810`). `ShutdownReturns` also supposes that whoever has a handle in the
maps has an accessor there (`handles = registry`). Nobody is obliged to call `shutdown`, to stop a trade or to
restart.

`Trade` (`FairSpec`): actors are tokio tasks that run a handler to its end, n3xB
hands over the messages it holds, and a shutdown that has begun ends and is
followed by a restart. Users who trade subscribe, answer the peer's messages and
close. Nobody is obliged to post, take, accept, reject or cancel. Calls do not
fail in these runs, as no code retries them.

### What does not hold, and is not claimed

* With a crash `OneAgreement` and `FundsMatchState` fail: the acceptance is on the
  relays before `peer_pubkey` and the state are in the file, and the purse's file
  and the maker's are written separately. The repository promises nothing here.
* `NobodyPanics` fails when n3xB calls fail (`accept_offer(..).await.unwrap()`),
  and it excepts actors whose purse was shut down under them and those that were
  sent what this library does not send: an acceptance without its specifics, an
  address that is none, a peer message of another type. Each of them kills an
  actor of a careful user; an address of another network leaves the taker in
  `OfferAccepted`, where every `release_notify_peer` is an error.
* An acceptance, an offer's rejection or an answer to an offer that comes too late
  for which n3xB fails kills a maker (`maker.rs:898`, `maker.rs:1084`,
  `maker.rs:1097`); `PanicsAreProvoked` says that every other failure of n3xB is
  answered.
* An offer that reaches the maker again after it accepted it is answered with a
  rejection (`maker.rs:864-901`); if that overtakes the acceptance, the taker
  gives up. `AgreementIsCompleted` excepts exactly the trades with a rejection.
* A grant that fits the wallet's view may not fit the chain until the next
  synchronization; `GrantsFitBalance` is about the view.
* After a crash between a broadcast and the write of the deallocation an
  allocation can be paid a second time; `SettledOncePerLife` permits it.
* A payment whose peer message fails leaves the trade in `InboundFcNotified`
  without funds; `FundsMatchState` permits it, and a second release fails.
* A shutdown that returns `Ok` can leave an older file behind if the last write
  failed (`std.rs:63`): it is logged, and nothing retries it.
* `taker.rs:1078-1081` says the user of a taker of a sell order is told when the
  auto-remit fails or the peer remits; the code tells it of the response after
  an auto-remit that succeeds as well (`taker.rs:1087`).
* A user that gives up a request kills the actor that answers it: after
  `post_new_order` the order is then on the relays and the state in the file is
  `New` (`maker.rs:645-648`). `BegunIsRecorded` excepts it.
* Callers other than `shutdown` panic on `rsp_rx.await.unwrap()` when the actor
  ends before it gets to their request; `RequestsAreAnswered` only says that
  they do not wait.
* A `shutdown` that returns an error does not shut n3xB down. It returns one as
  soon as a user cancels a buy order, or a maker rejects an offer, after the
  purse was stopped. If the purse has panicked, its accessor panics and with it
  `shutdown`; the `?` on its handle is never reached (`trader.rs:809-812`).
* A creation that fails leaves its n3xB session behind, which `restore` then
  passes over. A caller that drops its future after the allocation leaves funds
  that nothing frees, or kills the purse if the answer finds no receiver
  (`purse.rs:432`); dropped at the locks of the maps, an actor without accessors.
  If that was at the second lock (`trader.rs:581-587`), its handle is in the maps:
  nobody asks it to stop, and `Trader::shutdown` awaits it for ever.
* If a directory cannot be read, trades restored from another one run without
  accessors until the process ends; those that were written are restored the next
  time.
* Two trades with one uuid share a file, and the older one cannot be shut down by
  the trader any more. `FundsHaveOwner` and `RegistrySurvives` except them.
* A taker reads the numbers of a buy order up to the last bit (`OwnOrderIsRead`),
  not exactly, as `tests/test_buy.rs` compares them; the constants there survive.
  The offered sats can exceed the allocated ones by one (`OfferIsFunded`), and
  can differ from the rounded product of the maker's own numbers.
* An order of another program that is ambiguous, on another network, without
  obligations or without a limit rate makes `query_orders` panic
  (`trader.rs:664`, `order.rs:86`, `order.rs:101`), whoever asks.

## 5. Proofs

| Theorem | Argument |
|---|---|
| `PersisterTypeOK`, `PersisterForgetsNothing`, `PersisterFlushes` | `IInv == TypeOK /\ Stations /\ NoUpdateForgotten`. `NoUpdateForgotten` alone is not inductive: it needs `Stations`, which says who can be where. The thread writes what the store holds because its guard keeps setters out, `Close` is the last message, and the thread ends only after it or after the sender is gone. |
| `PersisterRefinement` | Under `IInv` every step is a step of `DurableStore` or a stutter; `BeginWrite` is `Tear`, `FinishWrite` is `Flush`, `Joined` is `Close`. |
| `EscrowSettlesOnce` | Inductive with: what is still held was settled at most once per past crash, and what was never given out was not settled. |
| `PurseImplementsEscrow`, `PurseSettlesOnce` | `Ledger`: every allocation in memory or in the file was given to someone, so a fresh identifier is fresh in the escrow; a purse that is down has nothing in memory that its file does not. Lemmas for grant, free and send say which escrow step each is; everything else is a save, a crash or a stutter. The property follows from the theorem about `Escrow`. |
| `PurseTypeOK`, `PurseWalletSendsOwnFunds` | `OnlyGiven`: whoever holds an allocation was given it; `OwnGrants`: the identifier a caller of `wallet_send_to_address` keeps between its requests is the wallet's, is no other caller's and stands for the caller's own amount. A settlement by anyone else cannot name it. |
| `PurseGrantsFitBalance` | `SumOfOneMore`: the sum over a map that gains an entry gains its sats. `total_funds_allocated` is a fold over a finite set (`Finite`), which an induction over its subsets shows to exist, to depend on the entries only and not on their order. A grant passed `allocatable_balance >= sats`, and the checks rule out that this wrapped. |
| `TradeTypeOK` | `Types`: the types of the maker, the takers, the relays and the purses, with the inductive invariant of `Escrow` for the purses (`Bank!IInv`), each node settling its own allocation only (`Settles`). |
| `TradeBelievesWhatIsTrue` | `Truth`: whoever takes itself for a party, in memory or in its file, was accepted, and so was the counterpart of n3xB; takers claim and pay nothing before. Files are part of it, since a restart believes them. |
| `TradePaidAsAgreed` | `Record`: what the maker keeps, in memory and in its file, is grounded in messages that were sent, and its peer message is from a taker it accepted. |
| `TradeOneAgreement` | `Bond`: where nothing crashes, the maker's file has what its memory has when it is read, so an accepted taker is not forgotten; a cancellation that waits for the purse began before any acceptance. |
| `TradeFundsMatchState` | `MakerFunds` and `TakerFunds`: where the funds are in every state and at every program counter, between the two calls of a handler as well; what a node does leaves the others' funds alone (`Apart`). |
| `TradeNobodyPanics` | `Unprovoked`, on top of the funds: `free_funds` and `send_funds` are only called for funds that are there. `Estranged`: an address that is of no use, in memory or in the file, came with a stranger's acceptance, so whoever unwraps it was sent it (`Misled`). |
| `TradeImplementsSwap` | `Due`: deeds come before claims. Under `SwapInv`, the conjunction of all of these, every step of the maker or of a taker is agreeing, paying or claiming in `Swap`, or a stutter. |
| `MailboxTypeOK`, `MailboxPanicsAreProvoked`, `MailboxLostOnlyIfExposed`, `MailboxBegunIsRecorded` | `Queued`: what `Sound` says of a request holds all the time it waits, so that it does when it is served: only a reckless user is gone, or has dropped the receiver it registers. `Listening`: the actor and the user agree on who is registered, and whoever n3xB can hand messages to listens or is exposed. A maker whose state is past `Open` has had an offer. |
| `RegistryTypeOK` | `Room`: the trader asks an actor once, so requests exceed their bound by one at most. |
| `RegistryShutdownIsComplete`, `RegistryErrorStopsTrades` | `Stopping`: what a shutdown has seen of a trade at each of its stages stays true while users and actors go on; `Traded`: a trade that ended has written its data. The loop over the requests visits accessors and the one after it handles; `Listed`: a trade with an accessor has a handle. That the loop over the requests waits for every answer is what makes `Err` mean that nothing runs. |
| `RegistryFundsHaveOwner` | `Owned`: held funds belong to a trade in creation, to a listed one that has yet to write that it is open, or to one whose file says so. The second kind is listed, hence waited for by a shutdown. |
| `RegistrySurvivesShutdown` | `Unique`: unless a uuid was used twice, no two trades write one file, and a listed trade has written its own or is about to, and its handle is that of its accessor (`SameHandle`); `Listed`: n3xB has a session of every listed trade. |
| `OrdersReadUnambiguously` | `MakerTypeIs` and `TakerTypeIs`: after each step of a loop, what it knows says which kinds it has seen; at the end it has seen the whole set (`Visits`), so the order of the visits does not matter. |
| `OrdersOwnOrderIsRead` | An operation errs by half a unit of the last place at most (`TimesRounds`, `OneOverRounds`). `RoundTrip`: x times y times 1/y, rounded three times, is next to x, although three half units are more than one; the case where the product crosses a power of two needs the exact bounds. `OneOverTwice` is the same for 1/(1/x). |
| `OrdersOfferIsFunded` | The worth of the order read is the maker's worth times an inverse price times the inverse of that inverse, hence `RoundTrip` again. `NextToRounded`: neighbours this far from the end of the significand are a quarter of a sat apart at most, so rounding one and truncating the other differ by one at most. |
| `OrdersTypeOK`, `OrdersOfferFits` | `OrdersInv`: what is on the relays, read, offered and allocated are those functions of the order (`Listing`, `Reading`, `Offering`, `Funding`, `Accepting`). |
| `ConfirmationsTypeOK`, `ConfirmationsNeverOverstated`, `ConfirmationsSyncedCopiesFit` | `Copies`: the height, in memory and in the file, and the transactions are never newer than the chain, the wallet's block of the transaction is the chain's, and the height is as new as that block once both were refreshed. |

They hold for all constants under the assumptions named in the modules
(`PersisterAssumption`, `PurseAssumption`, `ConfirmationsAssumption`,
`PlatformAssumption`, `MailboxAssumption`, `RegistryAssumption`,
`OrdersAssumption`): that special values are not numbers, nodes, uuids or
orders, that bounds, amounts and fees are naturals, that channels have a place,
and that a significand has two bits more than the sats of an order. The
invariants of `Trade`, `Mailbox`, `Registry` and `Orders` were first checked by
TLC on the instances of the runs; each was found by asking which part of the
state makes a property survive the next step.

Induction over data has no rule the provers can apply to a formula. It is done
as least-counterexample arguments about sets: `NatInduct` for the natural numbers
and `SubsetInduction` for the subsets of a finite set, from the library's theorems
that both orders are well founded. Recursive functions (`TwoTo`, the folds) are
then shown to be what their definitions describe before anything is said of them.

`PurseGrantsFitBalance` has the condition `OverflowChecks`, the constant that says
whether the build checks its arithmetic. In one that does not the property
fails, as `purse_release` shows.

Three theorems about `Trade` have a condition, each a fact about the scenario,
which does not change:

* `Exclusive`, in `TradePaidAsAgreed` and `TradeImplementsSwap`: users are
  careful, or there is one taker. The maker does not compare the sender of a
  peer message with its `peer_pubkey` (`maker.rs:903`); that no
  other taker's message reaches it is up to n3xB, which is not modelled. A
  careful user's taker sends none before it is accepted.
* `Calm`, in `TradeNobodyPanics`: users are careful, nothing crashes and no call
  fails. The code unwraps the answers of n3xB, and the finding `trade_panic`
  shows what a crash does. Peers may be strangers.

All scenarios of `trade` satisfy `Exclusive`, those of `trade_live` satisfy `Calm`.
The bounds on shutdowns and crashes are parameters of a scenario: the theorems
hold for every one.

Only model-checked are the liveness properties (`EventuallyOnDisk`,
`TerminateReturns`, `AgreementIsCompleted`, `RequestsAreAnswered`, `StoredIsTold`,
`ShutdownReturns`), since liveness under fairness is out of the prover's reach.
Every invariant and action property of the passing runs is a theorem, as are the
two refinements of `Escrow` and `DurableStore` and that of `Swap`.

## 6. Findings

1. `purse.rs:401`: no fee is allocated, so what is allocated can exceed the
   balance, and the subtraction wraps (release) or panics (debug).
2. `trader.rs:515` allows only confirmed amounts, but checks them against the
   wallet's last synchronization: coins that a trade has paid since still count,
   the check passes, and the send uses pending ones.
3. `purse.rs:313-324`: the height is read before the wallet is synced, an old
   one from the file is preferred, and `get_tx_conf` reports a confirmed
   transaction as "Unexpected".
4. `maker.rs:1041-1044` unwraps the answer of `free_funds`, which a crash
   between the writes of two files makes an error.

## 7. Not modelled

* What the reading requests return, and `check_btc_tx_confirmation` beyond
  `Confirmations`.
* Relay settings and the filters of `query_orders`, which n3xB applies.
* In `Trade`, an offer that does not validate: the maker drops it before any state
  changes (`maker.rs:814-836`). `Mailbox` has it, and `Orders` shows that the
  library's own offers validate.
* Reorganizations of the blockchain; receive addresses and keys of the wallet;
  `persist/tokio.rs`, which no module declares; `error.rs` and re-exports.
