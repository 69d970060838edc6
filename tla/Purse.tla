-------------------------------- MODULE Purse --------------------------------
(***************************************************************************)
(* The purse actor (purse/purse.rs, purse/data.rs) with the two kinds of   *)
(* clients it has: trades, which allocate, free and send, and the callers  *)
(* of Trader::wallet_send_to_address, whose three requests to the actor    *)
(* interleave with everybody else's.                                       *)
(*                                                                         *)
(* A handler of the actor runs to its end before the next request is       *)
(* served, so it is one action.  The blockchain and its mempool are        *)
(* external: a broadcast may fail, and the wallet sees what it did only    *)
(* when it is synced.                                                      *)
(***************************************************************************)
EXTENDS Integers, Functions

CONSTANTS Ids,             \* identifiers of allocations
          Callers,         \* concurrent calls of wallet_send_to_address
          Amounts,         \* the sats a client may ask for
          Fee,             \* the miners' fee of a transaction
          Deposit,         \* [confirmed, pending] sats on chain at the start
          Modulus,         \* 2^w for the width w of a balance
          OverflowChecks,  \* debug builds check arithmetic, release builds wrap
          MaxCrashes       \* bound on the crashes of a behaviour

Balances == [confirmed : Nat, pending : Nat]

ASSUME PurseAssumption ==
    /\ Amounts \subseteq Nat
    /\ Fee \in Nat
    /\ Deposit \in Balances
    /\ Modulus \in Nat \ {0}
    /\ OverflowChecks \in BOOLEAN
    /\ MaxCrashes \in Nat

VARIABLES alloc,    \* allocated_funds: a map from identifiers to sats
          disk,     \* the allocated_funds in the purse's file
          owner,    \* to whom each identifier was given (Uuid::new_v4 is fresh)
          view,     \* the wallet's balance as of its latest sync
          chain,    \* what is left on chain of the coins the wallet knows
          unseen,   \* coins on chain that the wallet learns of when it syncs
          actor,    \* "up", "panicked" or "down"
          caller,   \* progress of each call of wallet_send_to_address
          paid, freed, crashes  \* ledger of the settlements

purse == <<alloc, disk, owner, view, chain, unseen, actor>>
ledger == <<paid, freed, crashes>>
vars == <<purse, caller, ledger>>

Idle == [pc |-> "idle"]
CallerStates == {Idle}
           \cup [pc : {"checked"}, sats : Amounts]
           \cup [pc : {"allocated"}, sats : Amounts, id : Ids]

Allocations == UNION {[S -> Amounts] : S \in SUBSET Ids}

TypeOK ==
    /\ alloc \in Allocations
    /\ disk \in Allocations
    /\ owner \in [Ids -> {"nobody", "trade", "wallet"}]
    /\ view \in Balances
    /\ chain \in Balances
    /\ unseen \in Balances
    /\ actor \in {"up", "panicked", "down"}
    /\ caller \in [Callers -> CallerStates]
    /\ paid \in [Ids -> Nat]
    /\ freed \in [Ids -> Nat]
    /\ crashes \in Nat

Nothing == [confirmed |-> 0, pending |-> 0]
NoAllocations == [i \in {} |-> 0]

Init ==
    /\ alloc = NoAllocations /\ disk = NoAllocations
    /\ owner = [i \in Ids |-> "nobody"]
    /\ view = Deposit /\ chain = Deposit   \* PurseActor::new syncs the wallet
    /\ unseen = Nothing
    /\ actor = "up"
    /\ caller = [c \in Callers |-> Idle]
    /\ paid = [i \in Ids |-> 0] /\ freed = [i \in Ids |-> 0]
    /\ crashes = 0

-----------------------------------------------------------------------------
(* The handlers                                                            *)

Total(balances) == balances.confirmed + balances.pending

TotalFundsAllocated == FoldFunction(+, 0, alloc)

\* confirmed + trusted_pending - total_funds_allocated(), in u64
Underflows == TotalFundsAllocated > Total(view)

\* Mutant: what is allocated already is left out of the sum.
BalanceUnallocated == Total(view) % Modulus

AllocatableBalance == (Total(view) - TotalFundsAllocated) % Modulus

\* A checked subtraction that underflows kills the actor before it answers.
AllocatePanics ==
    /\ OverflowChecks /\ Underflows
    /\ actor' = "panicked"
    /\ UNCHANGED <<alloc, disk, owner, view, chain, unseen, ledger>>

\* Mutant: every entry of the map is overwritten.
AllocateOverwrites(i, sats, client) ==
    /\ ~(OverflowChecks /\ Underflows)
    /\ AllocatableBalance >= sats
    /\ owner[i] = "nobody"
    /\ owner' = [owner EXCEPT ![i] = client]
    /\ alloc' = [j \in DOMAIN alloc \cup {i} |-> sats]
    /\ UNCHANGED <<disk, view, chain, unseen, actor, ledger>>

AllocateFunds(i, sats, client) ==
    /\ ~(OverflowChecks /\ Underflows)
    /\ AllocatableBalance >= sats
    /\ owner[i] = "nobody"
    /\ owner' = [owner EXCEPT ![i] = client]
    /\ alloc' = [j \in DOMAIN alloc \cup {i} |-> IF j = i THEN sats ELSE alloc[j]]
    /\ UNCHANGED <<disk, view, chain, unseen, actor, ledger>>

AllocateRefused(sats) ==
    /\ ~(OverflowChecks /\ Underflows)
    /\ AllocatableBalance < sats      \* "Insufficient Funds"
    /\ UNCHANGED <<purse, ledger>>

\* Mutant: the entry stays in the map, with no sats.
DeallocatedToZero(i) == [alloc EXCEPT ![i] = 0]

Deallocated(i) == [j \in DOMAIN alloc \ {i} |-> alloc[j]]

\* Mutant: free_funds does not look the allocation up.
FreeUnchecked(i) ==
    /\ alloc' = Deallocated(i)
    /\ freed' = [freed EXCEPT ![i] = @ + 1]
    /\ UNCHANGED <<disk, owner, view, chain, unseen, actor, paid, crashes>>

FreeFunds(i) ==
    /\ i \in DOMAIN alloc
    /\ alloc' = Deallocated(i)
    /\ freed' = [freed EXCEPT ![i] = @ + 1]
    /\ UNCHANGED <<disk, owner, view, chain, unseen, actor, paid, crashes>>

\* Mutant: the funds stay allocated after the broadcast.
SendKeepsFunds(i) ==
    /\ i \in DOMAIN alloc
    /\ alloc[i] + Fee <= Total(view)
    /\ \E c \in 0..chain.confirmed, p \in 0..chain.pending :
         /\ c + p >= alloc[i] + Fee
         /\ chain' = [confirmed |-> chain.confirmed - c, pending |-> chain.pending - p]
         /\ unseen' = [unseen EXCEPT !.pending = @ + c + p - alloc[i] - Fee]
    /\ paid' = [paid EXCEPT ![i] = @ + 1]
    /\ UNCHANGED <<alloc, disk, owner, view, actor, freed, crashes>>

\* The transaction is built from the coins the wallet knows of, and accepted
\* by the network only if they are still there.  Which of them are selected
\* is the wallet's choice; the change is a coin it has not seen yet.  Only
\* then are the funds deallocated.
SendFunds(i) ==
    /\ i \in DOMAIN alloc
    /\ alloc[i] + Fee <= Total(view)
    /\ \E c \in 0..chain.confirmed, p \in 0..chain.pending :
         /\ c + p >= alloc[i] + Fee
         /\ chain' = [confirmed |-> chain.confirmed - c, pending |-> chain.pending - p]
         /\ unseen' = [unseen EXCEPT !.pending = @ + c + p - alloc[i] - Fee]
    /\ alloc' = Deallocated(i)
    /\ paid' = [paid EXCEPT ![i] = @ + 1]
    /\ UNCHANGED <<disk, owner, view, actor, freed, crashes>>

\* The wallet learns the balance of the blockchain.
SyncWallet ==
    /\ view' = [confirmed |-> chain.confirmed + unseen.confirmed,
                pending |-> chain.pending + unseen.pending]
    /\ chain' = view'
    /\ unseen' = Nothing

SyncBlockchain ==
    /\ actor = "up"
    /\ SyncWallet
    /\ UNCHANGED <<alloc, disk, owner, actor, caller, ledger>>

-----------------------------------------------------------------------------
(* The trades                                                              *)

TradeAllocates ==
    /\ actor = "up"
    /\ \E sats \in Amounts :
         AllocatePanics \/ \E i \in Ids : AllocateFunds(i, sats, "trade")
    /\ UNCHANGED caller

TradeFrees(i) ==
    /\ actor = "up" /\ owner[i] = "trade"
    /\ FreeFunds(i)
    /\ UNCHANGED caller

TradeSends(i) ==
    /\ actor = "up" /\ owner[i] = "trade"
    /\ SendFunds(i)
    /\ UNCHANGED caller

-----------------------------------------------------------------------------
(* Trader::wallet_send_to_address                                          *)

WalletChecks(c, sats) ==
    /\ actor = "up" /\ caller[c] = Idle
    /\ view.confirmed >= sats          \* "Insufficient Confirmed Balance"
    /\ caller' = [caller EXCEPT ![c] = [pc |-> "checked", sats |-> sats]]
    /\ UNCHANGED <<purse, ledger>>

WalletAllocates(c) ==
    /\ actor = "up" /\ caller[c].pc = "checked"
    /\ \/ \E i \in Ids :
            /\ AllocateFunds(i, caller[c].sats, "wallet")
            /\ caller' = [caller EXCEPT ![c] =
                            [pc |-> "allocated", sats |-> caller[c].sats, id |-> i]]
       \/ AllocateRefused(caller[c].sats) /\ caller' = [caller EXCEPT ![c] = Idle]
       \/ AllocatePanics /\ caller' = [caller EXCEPT ![c] = Idle]

\* Whatever the reason of a failure, the allocation stays.
WalletSends(c) ==
    /\ actor = "up" /\ caller[c].pc = "allocated"
    /\ \/ SendFunds(caller[c].id)
       \/ UNCHANGED <<purse, ledger>>
    /\ caller' = [caller EXCEPT ![c] = Idle]

-----------------------------------------------------------------------------
(* The process and the blockchain                                          *)

\* The purse's persister (Persister.tla) brings its file up to date.
Persist ==
    /\ actor \in {"up", "panicked"}
    /\ disk' = alloc
    /\ UNCHANGED <<alloc, owner, view, chain, unseen, actor, caller, ledger>>

\* The answer to a shutdown request comes after the persister is joined.
Shutdown ==
    /\ actor = "up"
    /\ actor' = "down"
    /\ disk' = alloc
    /\ UNCHANGED <<alloc, owner, view, chain, unseen, caller, ledger>>

Crash ==
    /\ actor # "down" /\ crashes < MaxCrashes
    /\ crashes' = crashes + 1
    /\ actor' = "down"
    /\ alloc' = disk
    /\ UNCHANGED <<disk, owner, view, chain, unseen, caller, paid, freed>>

\* PurseActor::new: the allocations come from the file, the balance from the
\* blockchain.
Start ==
    /\ actor = "down"
    /\ actor' = "up"
    /\ alloc' = disk
    /\ SyncWallet
    /\ caller' = [c \in Callers |-> Idle]
    /\ UNCHANGED <<disk, owner, ledger>>

BlockMined ==
    /\ chain.pending + unseen.pending > 0
    /\ chain' = [confirmed |-> Total(chain), pending |-> 0]
    /\ unseen' = [confirmed |-> Total(unseen), pending |-> 0]
    /\ UNCHANGED <<alloc, disk, owner, view, actor, caller, ledger>>

Next ==
    \/ TradeAllocates
    \/ \E i \in Ids : TradeFrees(i) \/ TradeSends(i)
    \/ \E c \in Callers :
         \/ \E sats \in Amounts : WalletChecks(c, sats)
         \/ WalletAllocates(c) \/ WalletSends(c)
    \/ SyncBlockchain \/ Persist \/ Shutdown \/ Crash \/ Start \/ BlockMined

Spec == Init /\ [][Next]_vars

-----------------------------------------------------------------------------
(* Properties                                                              *)

Given == {i \in Ids : owner[i] # "nobody"}

\* The purse is the escrow its clients rely on.
Trusted == INSTANCE Escrow
             WITH held <- DOMAIN alloc, saved <- DOMAIN disk, used <- Given,
                  crashes <- [i \in Ids |-> crashes]

ImplementsEscrow == Trusted!Spec

\* Funds are paid or freed at most once in each life of the process: no
\* handler, nor any order of the requests of trades and wallet sends, settles
\* an allocation twice; only a crash that loses the deallocation can.
SettledOncePerLife == Trusted!SettledOncePerLife

\* Between the three requests of a wallet send nobody else settles its
\* allocation, and it still holds the amount that was checked: the send pays
\* what its caller asked for, whatever the trades do meanwhile.
WalletSendsOwnFunds ==
    actor = "up" => \A c \in Callers : caller[c].pc = "allocated" =>
        /\ caller[c].id \in DOMAIN alloc
        /\ alloc[caller[c].id] = caller[c].sats

\* The purse never grants more than the balance it knows of: what is
\* allocated after a grant fits the wallet's confirmed and pending coins.
GrantsFitBalance ==
    [][owner' # owner => FoldFunction(+, 0, alloc') <= Total(view)]_vars

\* "Only allow confirmed amounts to be sent": a wallet send goes out only if
\* that much is confirmed on chain.  WalletChecks compares with the balance of
\* the last synchronization, which counts coins that were spent since.
OnlyConfirmedSent ==
    [][\A i \in Ids : owner[i] = "wallet" /\ paid'[i] > paid[i]
          => chain.confirmed >= alloc[i]]_vars
=============================================================================
