----------------------------- MODULE PurseProofs -----------------------------
(***************************************************************************)
(* TLAPS proofs about Purse.tla, for every number of clients and           *)
(* allocations, every amount, fee and balance, with or without arithmetic  *)
(* checks: the purse implements Escrow.tla, hence settles every allocation *)
(* at most once in each life of the process; a wallet send finds its own   *)
(* allocation, with its own amount; and, with the checks, what is granted  *)
(* fits the balance.  The sum of the allocations is a fold over a finite   *)
(* set: that it grows by what is granted is an induction over its subsets. *)
(***************************************************************************)
EXTENDS Purse, FiniteSets, FiniteSetTheorems, WellFoundedInduction, TLAPS

\* The part of the type invariant the refinement rests on; that every
\* allocation, in memory or in the file, was given to someone; and that a
\* purse that is down has nothing to lose by reading its file.
Ledger ==
    /\ owner \in [Ids -> {"nobody", "trade", "wallet"}]
    /\ paid \in [Ids -> Nat]
    /\ freed \in [Ids -> Nat]
    /\ crashes \in Nat
    /\ DOMAIN alloc \subseteq Given
    /\ DOMAIN disk \subseteq Given
    /\ actor = "down" => alloc = disk

\* The purse starts with nothing allocated.
LEMMA InitLedger == Init => Ledger /\ Trusted!Init
  BY DEF Init, Ledger, Given, NoAllocations, Trusted!Init

\* A grant is an allocation of the escrow, under an identifier nobody has.
LEMMA AllocateRefines ==
  ASSUME Ledger, actor = "up", NEW i \in Ids, NEW sats, NEW client \in {"trade", "wallet"},
         AllocateFunds(i, sats, client)
  PROVE  Ledger' /\ Trusted!Allocate(i)
<1>1. Given' = Given \cup {i} /\ i \notin Given
  BY DEF Ledger, AllocateFunds, Given
<1>2. DOMAIN alloc' = DOMAIN alloc \cup {i} /\ disk' = disk /\ ledger' = ledger
  BY DEF AllocateFunds
<1>3. Ledger'
  BY <1>1, <1>2 DEF Ledger, AllocateFunds, ledger
<1>4. QED
  BY <1>1, <1>2, <1>3 DEF Trusted!Allocate, ledger

\* Freeing funds frees them in the escrow.
LEMMA FreeRefines ==
  ASSUME Ledger, actor = "up", NEW i \in Ids, FreeFunds(i)
  PROVE  Ledger' /\ Trusted!Free(i)
<1>1. DOMAIN alloc' = DOMAIN alloc \ {i} /\ disk' = disk /\ Given' = Given
  BY DEF FreeFunds, Deallocated, Given
<1>2. QED
  BY <1>1 DEF Ledger, FreeFunds, Trusted!Free

\* A successful send pays the allocation in the escrow.
LEMMA SendRefines ==
  ASSUME Ledger, actor = "up", NEW i, SendFunds(i)
  PROVE  Ledger' /\ Trusted!Pay(i) /\ i \in Ids
<1>1. DOMAIN alloc' = DOMAIN alloc \ {i} /\ disk' = disk /\ Given' = Given
  BY DEF SendFunds, Deallocated, Given
<1>2. QED
  BY <1>1 DEF Ledger, Given, SendFunds, Trusted!Pay

\* A step that touches neither the allocations nor the ledger is a stutter.
LEMMA StutterRefines ==
  ASSUME Ledger, UNCHANGED <<alloc, disk, owner, ledger>>,
         actor' = "down" => actor = "down"
  PROVE  Ledger' /\ UNCHANGED Trusted!vars
  BY DEF Ledger, ledger, Given, Trusted!vars

\* Every step of the purse is a step of the escrow, or a stutter.
LEMMA NextRefines ==
  Ledger /\ [Next]_vars => Ledger' /\ [Trusted!Next]_(Trusted!vars)
<1> DEFINE Goal == Ledger' /\ [Trusted!Next]_(Trusted!vars)
<1> SUFFICES ASSUME Ledger, [Next]_vars PROVE Goal
  OBVIOUS
<1>1. ASSUME UNCHANGED <<alloc, disk, owner, ledger>>,
             actor' = "down" => actor = "down"
      PROVE  Goal
  BY <1>1, StutterRefines
<1>2. ASSUME actor = "up", NEW i \in Ids, NEW sats, NEW client \in {"trade", "wallet"},
             AllocateFunds(i, sats, client)
      PROVE  Goal
  BY <1>2, AllocateRefines DEF Trusted!Next
<1>3. ASSUME actor = "up", NEW i, SendFunds(i) PROVE Goal
  BY <1>3, SendRefines DEF Trusted!Next
<1>4. CASE TradeAllocates
  <2>1. CASE AllocatePanics
    BY <2>1, <1>1 DEF AllocatePanics
  <2>2. CASE ~AllocatePanics
    BY <2>2, <1>4, <1>2 DEF TradeAllocates
  <2>3. QED
    BY <2>1, <2>2
<1>5. ASSUME NEW i \in Ids, TradeFrees(i) PROVE Goal
  BY <1>5, FreeRefines DEF TradeFrees, Trusted!Next
<1>6. ASSUME NEW i \in Ids, TradeSends(i) PROVE Goal
  BY <1>6, <1>3 DEF TradeSends
<1>7. ASSUME NEW c \in Callers, NEW sats \in Amounts, WalletChecks(c, sats) PROVE Goal
  BY <1>7, <1>1 DEF WalletChecks, purse
<1>8. ASSUME NEW c \in Callers, WalletAllocates(c) PROVE Goal
  <2>1. CASE AllocatePanics
    BY <2>1, <1>1 DEF AllocatePanics
  <2>2. CASE UNCHANGED <<purse, ledger>>
    BY <2>2, <1>1 DEF purse
  <2>3. CASE \E i \in Ids : AllocateFunds(i, caller[c].sats, "wallet")
    BY <2>3, <1>8, <1>2 DEF WalletAllocates
  <2>4. QED
    BY <2>1, <2>2, <2>3, <1>8 DEF WalletAllocates, AllocateRefused
<1>9. ASSUME NEW c \in Callers, WalletSends(c) PROVE Goal
  <2>1. CASE SendFunds(caller[c].id)
    BY <2>1, <1>9, <1>3 DEF WalletSends
  <2>2. CASE UNCHANGED <<purse, ledger>>
    BY <2>2, <1>1 DEF purse
  <2>3. QED
    BY <2>1, <2>2, <1>9 DEF WalletSends
<1>10. CASE SyncBlockchain
  BY <1>10, <1>1 DEF SyncBlockchain
<1>11. CASE Persist
  <2>1. Trusted!Save(Ids) /\ Ledger'
    BY <1>11 DEF Persist, Ledger, Given, ledger, Trusted!Save
  <2>2. QED
    BY <2>1 DEF Trusted!Next
<1>12. CASE Shutdown
  <2>1. Trusted!Save(Ids) /\ Ledger'
    BY <1>12 DEF Shutdown, Ledger, Given, ledger, Trusted!Save
  <2>2. QED
    BY <2>1 DEF Trusted!Next
<1>13. CASE Crash
  <2>1. Ledger' /\ Given' = Given /\ crashes' = crashes + 1
    BY <1>13 DEF Crash, Ledger, Given
  <2>2. Trusted!Crash(Ids)
    BY <2>1, <1>13 DEF Crash, Ledger, Given, Trusted!Crash
  <2>3. QED
    BY <2>1, <2>2 DEF Trusted!Next
<1>14. CASE Start
  BY <1>14, <1>1 DEF Start, Ledger
<1>15. CASE BlockMined
  BY <1>15, <1>1 DEF BlockMined
<1>16. CASE UNCHANGED vars
  BY <1>16, <1>1 DEF vars, purse
<1>17. QED
  BY <1>4, <1>5, <1>6, <1>7, <1>8, <1>9, <1>10, <1>11, <1>12, <1>13, <1>14,
     <1>15, <1>16 DEF Next

-----------------------------------------------------------------------------

\* The purse implements the escrow its clients rely on.
THEOREM PurseImplementsEscrow == Spec => ImplementsEscrow
  BY InitLedger, NextRefines, PTL DEF Spec, ImplementsEscrow, Trusted!Spec

\* Every allocation is paid or freed at most once in each life of the process.
THEOREM PurseSettlesOnce == Spec => []SettledOncePerLife
  BY PurseImplementsEscrow, Trusted!EscrowSettlesOnce, PTL
  DEF ImplementsEscrow, SettledOncePerLife

-----------------------------------------------------------------------------
(* What the escrow does not see: the types, and that a wallet send finds   *)
(* its own allocation, with its own amount                                 *)

\* The wallet has granted the caller its funds.
Allocated(c) == caller[c].pc = "allocated"

\* Every caller that was granted funds is the only one to hold them: the
\* identifier is the wallet's, of no other caller, and no trade touches it.
OwnGrants ==
    actor = "up" => \A c \in Callers : Allocated(c) =>
        /\ caller[c].id \in DOMAIN alloc
        /\ alloc[caller[c].id] = caller[c].sats
        /\ owner[caller[c].id] = "wallet"
        /\ \A d \in Callers \ {c} : Allocated(d) => caller[d].id # caller[c].id

\* Whoever holds an allocation was given it.
OnlyGiven ==
    /\ DOMAIN alloc \subseteq Given
    /\ DOMAIN disk \subseteq Given

\* The invariant.
IInv == TypeOK /\ OnlyGiven /\ OwnGrants

\* Allocations, and what they hold.
LEMMA IsAllocations ==
  ASSUME NEW f
  PROVE  f \in Allocations <=> \E S \in SUBSET Ids : f \in [S -> Amounts]
BY DEF Allocations

\* Its sats are amounts, hence natural numbers.
LEMMA AllocationsFacts ==
  ASSUME NEW f \in Allocations
  PROVE  /\ DOMAIN f \subseteq Ids
         /\ f \in [DOMAIN f -> Amounts]
         /\ \A i \in DOMAIN f : f[i] \in Amounts /\ f[i] \in Nat
BY PurseAssumption, IsAllocations

\* What a caller holds, by where it is.
LEMMA CallerFacts ==
  ASSUME TypeOK, NEW c \in Callers
  PROVE  /\ caller[c].pc \in {"checked", "allocated"} => caller[c].sats \in Amounts
         /\ Allocated(c) => caller[c].id \in Ids
<1>1. caller[c] \in CallerStates
  BY DEF TypeOK
<1>2. QED
  BY <1>1 DEF CallerStates, Idle, Allocated

\* The purse starts with the invariant.
LEMMA InitIInv == Init => IInv
<1> SUFFICES ASSUME Init PROVE IInv
  OBVIOUS
<1>1. NoAllocations \in Allocations
  <2>1. NoAllocations \in [{} -> Amounts]
    BY DEF NoAllocations
  <2>2. QED
    BY <2>1, IsAllocations
<1>2. Idle \in CallerStates /\ Idle.pc = "idle"
  BY DEF CallerStates, Idle
<1>3. Nothing \in Balances
  BY DEF Nothing, Balances
<1>4. TypeOK
  BY <1>1, <1>2, <1>3, PurseAssumption DEF Init, TypeOK
<1>5. OnlyGiven
  BY DEF Init, OnlyGiven, NoAllocations
<1>6. OwnGrants
  BY <1>2 DEF Init, OwnGrants, Allocated
<1>7. QED
  BY <1>4, <1>5, <1>6 DEF IInv

-----------------------------------------------------------------------------
(* What each kind of step does to the types                                *)

\* A grant keeps the types.
LEMMA AllocateKeepsTypes ==
  ASSUME TypeOK, NEW i \in Ids, NEW sats \in Amounts, NEW client \in {"trade", "wallet"},
         AllocateFunds(i, sats, client), caller' \in [Callers -> CallerStates]
  PROVE  TypeOK'
<1>1. alloc' \in [DOMAIN alloc \cup {i} -> Amounts]
  BY AllocationsFacts DEF TypeOK, AllocateFunds
<1>2. DOMAIN alloc \cup {i} \subseteq Ids
  BY AllocationsFacts DEF TypeOK
<1>3. alloc' \in Allocations
  BY <1>1, <1>2, IsAllocations
<1>4. owner' \in [Ids -> {"nobody", "trade", "wallet"}]
  BY DEF TypeOK, AllocateFunds
<1>5. QED
  BY <1>3, <1>4 DEF TypeOK, AllocateFunds, ledger

\* So do a deallocation,
LEMMA DeallocateKeepsTypes ==
  ASSUME TypeOK, NEW i
  PROVE  Deallocated(i) \in Allocations
<1>1. Deallocated(i) \in [DOMAIN alloc \ {i} -> Amounts]
  BY AllocationsFacts DEF TypeOK, Deallocated
<1>2. DOMAIN alloc \ {i} \subseteq Ids
  BY AllocationsFacts DEF TypeOK
<1>3. QED
  BY <1>1, <1>2, IsAllocations

\* the freeing of funds,
LEMMA FreeKeepsTypes ==
  ASSUME TypeOK, NEW i \in Ids, FreeFunds(i), UNCHANGED caller
  PROVE  TypeOK'
<1>1. alloc' \in Allocations
  BY DeallocateKeepsTypes DEF FreeFunds
<1>2. freed' \in [Ids -> Nat]
  BY DEF TypeOK, FreeFunds
<1>3. QED
  BY <1>1, <1>2 DEF TypeOK, FreeFunds

\* a broadcast, which spends coins the wallet has,
LEMMA SendKeepsTypes ==
  ASSUME TypeOK, NEW i \in Ids, SendFunds(i), caller' \in [Callers -> CallerStates]
  PROVE  TypeOK'
<1>1. alloc' \in Allocations
  BY DeallocateKeepsTypes DEF SendFunds
<1>2. paid' \in [Ids -> Nat]
  BY DEF TypeOK, SendFunds
<1>3. alloc[i] \in Nat
  BY AllocationsFacts DEF TypeOK, SendFunds
<1>4. chain \in Balances /\ unseen \in Balances
  BY DEF TypeOK
<1>5. PICK c \in 0..chain.confirmed, p \in 0..chain.pending :
         /\ c + p >= alloc[i] + Fee
         /\ chain' = [confirmed |-> chain.confirmed - c, pending |-> chain.pending - p]
         /\ unseen' = [unseen EXCEPT !.pending = @ + c + p - alloc[i] - Fee]
  BY DEF SendFunds
<1>6. chain.confirmed - c \in Nat /\ chain.pending - p \in Nat
  BY <1>4 DEF Balances
<1>7. unseen.pending + c + p - alloc[i] - Fee \in Nat
  BY <1>3, <1>4, <1>5, PurseAssumption DEF Balances
<1>8. chain' \in Balances
  BY <1>5, <1>6 DEF Balances
<1>9. unseen' \in Balances
  BY <1>4, <1>5, <1>7 DEF Balances
<1>10. QED
  BY <1>1, <1>2, <1>8, <1>9 DEF TypeOK, SendFunds

\* and a synchronization.
LEMMA SyncKeepsTypes ==
  ASSUME TypeOK, SyncWallet
  PROVE  view' \in Balances /\ chain' \in Balances /\ unseen' \in Balances
<1>1. chain \in Balances /\ unseen \in Balances
  BY DEF TypeOK
<1>2. QED
  BY <1>1 DEF SyncWallet, Balances, Nothing
-----------------------------------------------------------------------------
(* Every step preserves the invariant                                      *)

\* A step that leaves the allocations, their owners and the callers alone, and
\* starts no purse.
LEMMA KeepsGrants ==
  ASSUME IInv, UNCHANGED <<alloc, disk, owner, caller>>, actor' = "up" => actor = "up"
  PROVE  OnlyGiven' /\ OwnGrants'
BY DEF IInv, OnlyGiven, OwnGrants, Allocated, Given

\* A grant under an identifier nobody has leaves those of the callers alone.
LEMMA GrantKeepsOthers ==
  ASSUME IInv, actor = "up", NEW i \in Ids, NEW sats \in Amounts,
         NEW client \in {"trade", "wallet"}, AllocateFunds(i, sats, client)
  PROVE  /\ OnlyGiven'
         /\ \A c \in Callers : Allocated(c) =>
              /\ caller[c].id # i
              /\ caller[c].id \in DOMAIN alloc'
              /\ alloc'[caller[c].id] = caller[c].sats
              /\ owner'[caller[c].id] = "wallet"
         /\ i \in DOMAIN alloc' /\ alloc'[i] = sats /\ owner'[i] = client
<1>1. TypeOK /\ OnlyGiven /\ OwnGrants
  BY DEF IInv
<1>2. owner \in [Ids -> {"nobody", "trade", "wallet"}] /\ owner[i] = "nobody"
  BY <1>1 DEF TypeOK, AllocateFunds
<1>3. Given' = Given \cup {i}
  BY <1>2 DEF AllocateFunds, Given
<1>4. DOMAIN alloc' = DOMAIN alloc \cup {i} /\ disk' = disk
  BY DEF AllocateFunds
<1>5. OnlyGiven'
  BY <1>1, <1>3, <1>4 DEF OnlyGiven
<1>6. alloc'[i] = sats /\ owner'[i] = client
  BY <1>2 DEF AllocateFunds
<1>7. ASSUME NEW c \in Callers, Allocated(c)
      PROVE  /\ caller[c].id # i
             /\ caller[c].id \in DOMAIN alloc'
             /\ alloc'[caller[c].id] = caller[c].sats
             /\ owner'[caller[c].id] = "wallet"
  <2>1. /\ caller[c].id \in DOMAIN alloc /\ alloc[caller[c].id] = caller[c].sats
        /\ owner[caller[c].id] = "wallet"
    BY <1>1, <1>7 DEF OwnGrants
  <2>2. caller[c].id # i
    BY <2>1, <1>2
  <2>3. alloc'[caller[c].id] = alloc[caller[c].id]
    BY <2>1, <2>2 DEF AllocateFunds
  <2>4. owner'[caller[c].id] = owner[caller[c].id]
    BY <2>2, <1>2, <1>1, <1>7, CallerFacts DEF AllocateFunds
  <2>5. QED
    BY <2>1, <2>2, <2>3, <2>4, <1>4
<1>8. QED
  BY <1>4, <1>5, <1>6, <1>7

\* A settlement leaves the grants of those it is not about alone.
LEMMA SettlementKeepsOthers ==
  ASSUME IInv, actor = "up", NEW i \in Ids, alloc' = Deallocated(i), UNCHANGED <<disk, owner>>
  PROVE  /\ OnlyGiven'
         /\ \A c \in Callers : Allocated(c) /\ caller[c].id # i =>
              /\ caller[c].id \in DOMAIN alloc'
              /\ alloc'[caller[c].id] = caller[c].sats
              /\ owner'[caller[c].id] = "wallet"
<1>1. TypeOK /\ OnlyGiven /\ OwnGrants
  BY DEF IInv
<1>2. DOMAIN alloc' = DOMAIN alloc \ {i} /\ \A j \in DOMAIN alloc' : alloc'[j] = alloc[j]
  BY DEF Deallocated
<1>3. OnlyGiven'
  BY <1>1, <1>2 DEF OnlyGiven, Given
<1>4. QED
  BY <1>1, <1>2, <1>3 DEF OwnGrants

\* Every step keeps the invariant.
LEMMA NextIInv == IInv /\ [Next]_vars => IInv'
<1> SUFFICES ASSUME IInv, [Next]_vars PROVE IInv'
  OBVIOUS
<1>0. TypeOK /\ OnlyGiven /\ OwnGrants
  BY DEF IInv
<1>1. CASE TradeAllocates
  <2>1. PICK sats \in Amounts :
          AllocatePanics \/ \E i \in Ids : AllocateFunds(i, sats, "trade")
    BY <1>1 DEF TradeAllocates
  <2>2. actor = "up" /\ UNCHANGED caller
    BY <1>1 DEF TradeAllocates
  <2>3. CASE AllocatePanics
    <3>1. TypeOK'
      BY <2>2, <2>3, <1>0 DEF AllocatePanics, TypeOK, ledger
    <3>2. QED
      BY <3>1, <2>2, <2>3, KeepsGrants DEF AllocatePanics, IInv
  <2>4. CASE \E i \in Ids : AllocateFunds(i, sats, "trade")
    <3>1. PICK i \in Ids : AllocateFunds(i, sats, "trade")
      BY <2>4
    <3>2. caller' \in [Callers -> CallerStates]
      BY <2>2, <1>0 DEF TypeOK
    <3>3. TypeOK'
      BY <3>1, <3>2, <1>0, AllocateKeepsTypes
    <3>4. OnlyGiven' /\ OwnGrants'
      BY <3>1, <2>2, <1>0, GrantKeepsOthers DEF OwnGrants, Allocated
    <3>5. QED
      BY <3>3, <3>4 DEF IInv
  <2>5. QED
    BY <2>1, <2>3, <2>4
<1>2. ASSUME NEW i \in Ids, TradeFrees(i) PROVE IInv'
  <2>1. FreeFunds(i) /\ UNCHANGED caller /\ actor = "up" /\ owner[i] = "trade"
    BY <1>2 DEF TradeFrees
  <2>2. TypeOK'
    BY <2>1, <1>0, FreeKeepsTypes
  <2>3. alloc' = Deallocated(i) /\ UNCHANGED <<disk, owner>>
    BY <2>1 DEF FreeFunds
  <2>4. \A c \in Callers : Allocated(c) => caller[c].id # i
    BY <2>1, <1>0 DEF OwnGrants
  <2>5. OnlyGiven' /\ OwnGrants'
    BY <2>1, <2>3, <2>4, <1>0, SettlementKeepsOthers DEF OwnGrants, Allocated
  <2>6. QED
    BY <2>2, <2>5 DEF IInv
<1>3. ASSUME NEW i \in Ids, TradeSends(i) PROVE IInv'
  <2>1. SendFunds(i) /\ UNCHANGED caller /\ actor = "up" /\ owner[i] = "trade"
    BY <1>3 DEF TradeSends
  <2>2. TypeOK'
    BY <2>1, <1>0, SendKeepsTypes DEF TypeOK
  <2>3. alloc' = Deallocated(i) /\ UNCHANGED <<disk, owner>>
    BY <2>1 DEF SendFunds
  <2>4. \A c \in Callers : Allocated(c) => caller[c].id # i
    BY <2>1, <1>0 DEF OwnGrants
  <2>5. OnlyGiven' /\ OwnGrants'
    BY <2>1, <2>3, <2>4, <1>0, SettlementKeepsOthers DEF OwnGrants, Allocated
  <2>6. QED
    BY <2>2, <2>5 DEF IInv
<1>4. ASSUME NEW c \in Callers, NEW sats \in Amounts, WalletChecks(c, sats) PROVE IInv'
  <2>1. /\ caller' = [caller EXCEPT ![c] = [pc |-> "checked", sats |-> sats]]
        /\ UNCHANGED <<alloc, disk, owner, view, chain, unseen, actor, paid, freed, crashes>>
    BY <1>4 DEF WalletChecks, purse, ledger
  <2>2. [pc |-> "checked", sats |-> sats] \in CallerStates
    BY DEF CallerStates
  <2>3. TypeOK'
    BY <2>1, <2>2, <1>0 DEF TypeOK
  <2>4. \A d \in Callers : Allocated(d)' => Allocated(d) /\ caller'[d] = caller[d]
    BY <2>1, <1>0 DEF Allocated, TypeOK
  <2>5. OnlyGiven' /\ OwnGrants'
    BY <2>1, <2>4, <1>0 DEF OnlyGiven, OwnGrants, Given
  <2>6. QED
    BY <2>3, <2>5 DEF IInv
<1>5. ASSUME NEW c \in Callers, WalletAllocates(c) PROVE IInv'
  <2>1. actor = "up" /\ caller[c].pc = "checked" /\ caller[c].sats \in Amounts
    BY <1>5, <1>0, CallerFacts DEF WalletAllocates
  <2>2. ASSUME NEW i \in Ids, AllocateFunds(i, caller[c].sats, "wallet"),
               caller' = [caller EXCEPT ![c] =
                            [pc |-> "allocated", sats |-> caller[c].sats, id |-> i]]
        PROVE  IInv'
    <3>1. [pc |-> "allocated", sats |-> caller[c].sats, id |-> i] \in CallerStates
      BY <2>1 DEF CallerStates
    <3>2. caller' \in [Callers -> CallerStates]
      BY <2>2, <3>1, <1>0 DEF TypeOK
    <3>3. TypeOK'
      BY <2>1, <2>2, <3>2, <1>0, AllocateKeepsTypes
    <3>4. /\ caller'[c].id = i /\ caller'[c].sats = caller[c].sats
          /\ \A d \in Callers \ {c} : caller'[d] = caller[d]
      BY <2>2, <1>0 DEF TypeOK
    <3>5. /\ OnlyGiven'
          /\ \A d \in Callers : Allocated(d) =>
               /\ caller[d].id # i
               /\ caller[d].id \in DOMAIN alloc'
               /\ alloc'[caller[d].id] = caller[d].sats
               /\ owner'[caller[d].id] = "wallet"
          /\ i \in DOMAIN alloc' /\ alloc'[i] = caller[c].sats /\ owner'[i] = "wallet"
      BY <2>1, <2>2, GrantKeepsOthers
    <3>6. OwnGrants'
      BY <2>1, <3>4, <3>5, <1>0 DEF OwnGrants, Allocated
    <3>7. QED
      BY <3>3, <3>5, <3>6 DEF IInv
  <2>3. ASSUME AllocateRefused(caller[c].sats) \/ AllocatePanics,
               caller' = [caller EXCEPT ![c] = Idle]
        PROVE  IInv'
    <3>1. /\ UNCHANGED <<alloc, disk, owner, view, chain, unseen, paid, freed, crashes>>
          /\ actor' \in {actor, "panicked"}
      BY <2>3 DEF AllocateRefused, AllocatePanics, purse, ledger
    <3>2. Idle \in CallerStates /\ Idle.pc = "idle"
      BY DEF CallerStates, Idle
    <3>3. TypeOK'
      BY <2>3, <3>1, <3>2, <1>0 DEF TypeOK
    <3>4. \A d \in Callers : Allocated(d)' => Allocated(d) /\ caller'[d] = caller[d]
      BY <2>3, <3>2, <1>0 DEF Allocated, TypeOK
    <3>5. OnlyGiven' /\ OwnGrants'
      BY <2>1, <3>1, <3>4, <1>0 DEF OnlyGiven, OwnGrants, Given
    <3>6. QED
      BY <3>3, <3>5 DEF IInv
  <2>4. QED
    BY <1>5, <2>2, <2>3 DEF WalletAllocates
<1>6. ASSUME NEW c \in Callers, WalletSends(c) PROVE IInv'
  <2>1. /\ actor = "up" /\ Allocated(c) /\ caller[c].id \in Ids
        /\ caller' = [caller EXCEPT ![c] = Idle]
    BY <1>6, <1>0, CallerFacts DEF WalletSends, Allocated
  <2>2. Idle \in CallerStates /\ Idle.pc = "idle"
    BY DEF CallerStates, Idle
  <2>3. caller' \in [Callers -> CallerStates]
    BY <2>1, <2>2, <1>0 DEF TypeOK
  <2>4. \A d \in Callers : Allocated(d)' => d # c /\ Allocated(d) /\ caller'[d] = caller[d]
    BY <2>1, <2>2, <1>0 DEF Allocated, TypeOK
  <2>5. CASE SendFunds(caller[c].id)
    <3>1. TypeOK'
      BY <2>1, <2>3, <2>5, <1>0, SendKeepsTypes
    <3>2. /\ OnlyGiven'
          /\ \A d \in Callers : Allocated(d) /\ caller[d].id # caller[c].id =>
               /\ caller[d].id \in DOMAIN alloc'
               /\ alloc'[caller[d].id] = caller[d].sats
               /\ owner'[caller[d].id] = "wallet"
      BY <2>1, <2>5, SettlementKeepsOthers DEF SendFunds
    <3>3. \A d \in Callers \ {c} : Allocated(d) => caller[d].id # caller[c].id
      BY <2>1, <1>0 DEF OwnGrants
    <3>4. OwnGrants'
      BY <2>1, <2>4, <3>2, <3>3, <1>0 DEF OwnGrants
    <3>5. QED
      BY <3>1, <3>2, <3>4 DEF IInv
  <2>6. CASE UNCHANGED <<purse, ledger>>
    <3>1. UNCHANGED <<alloc, disk, owner, view, chain, unseen, actor, paid, freed, crashes>>
      BY <2>6 DEF purse, ledger
    <3>2. TypeOK'
      BY <2>3, <3>1, <1>0 DEF TypeOK
    <3>3. OnlyGiven' /\ OwnGrants'
      BY <2>1, <2>4, <3>1, <1>0 DEF OnlyGiven, OwnGrants, Given
    <3>4. QED
      BY <3>2, <3>3 DEF IInv
  <2>7. QED
    BY <1>6, <2>5, <2>6 DEF WalletSends
<1>7. CASE SyncBlockchain
  <2>1. TypeOK'
    BY <1>7, <1>0, SyncKeepsTypes DEF SyncBlockchain, TypeOK, ledger
  <2>2. QED
    BY <2>1, <1>7, KeepsGrants DEF SyncBlockchain, IInv
<1>8. ASSUME disk' = alloc, UNCHANGED <<alloc, owner, view, chain, unseen, caller, ledger>>,
             actor' \in {actor, "down"}
      PROVE  IInv'
  <2>1. TypeOK'
    BY <1>8, <1>0 DEF TypeOK, ledger
  <2>2. OnlyGiven' /\ OwnGrants'
    BY <1>8, <1>0 DEF OnlyGiven, OwnGrants, Allocated, Given
  <2>3. QED
    BY <2>1, <2>2 DEF IInv
<1>9. CASE Persist
  BY <1>9, <1>8 DEF Persist
<1>10. CASE Shutdown
  BY <1>10, <1>8 DEF Shutdown
<1>11. CASE Crash
  <2>1. TypeOK'
    BY <1>11, <1>0 DEF Crash, TypeOK
  <2>2. OnlyGiven' /\ OwnGrants'
    BY <1>11, <1>0 DEF Crash, OnlyGiven, OwnGrants, Given
  <2>3. QED
    BY <2>1, <2>2 DEF IInv
<1>12. CASE Start
  <2>1. Idle \in CallerStates /\ Idle.pc = "idle"
    BY DEF CallerStates, Idle
  <2>2. caller' = [c \in Callers |-> Idle] /\ alloc' = disk /\ actor' = "up"
        /\ UNCHANGED <<disk, owner, paid, freed, crashes>>
    BY <1>12 DEF Start, ledger
  <2>3. TypeOK'
    <3>1. view' \in Balances /\ chain' \in Balances /\ unseen' \in Balances
      BY <1>12, <1>0, SyncKeepsTypes DEF Start
    <3>2. QED
      BY <2>1, <2>2, <3>1, <1>0 DEF TypeOK
  <2>4. OnlyGiven' /\ OwnGrants'
    BY <2>1, <2>2, <1>0 DEF OnlyGiven, OwnGrants, Allocated, Given
  <2>5. QED
    BY <2>3, <2>4 DEF IInv
<1>13. CASE BlockMined
  <2>1. UNCHANGED <<alloc, disk, owner, view, actor, caller, paid, freed, crashes>>
    BY <1>13 DEF BlockMined, ledger
  <2>2. chain' \in Balances /\ unseen' \in Balances
    BY <1>13, <1>0 DEF BlockMined, TypeOK, Balances, Total
  <2>3. TypeOK'
    BY <2>1, <2>2, <1>0 DEF TypeOK
  <2>4. QED
    BY <2>1, <2>3, KeepsGrants DEF IInv
<1>14. CASE UNCHANGED vars
  <2>1. TypeOK'
    BY <1>14, <1>0 DEF vars, purse, ledger, TypeOK
  <2>2. QED
    BY <2>1, <1>14, KeepsGrants DEF vars, purse, IInv
<1>15. QED
  BY <1>1, <1>2, <1>3, <1>4, <1>5, <1>6, <1>7, <1>9, <1>10, <1>11, <1>12, <1>13, <1>14
  DEF Next

-----------------------------------------------------------------------------

\* Every state of the purse satisfies it.
LEMMA Invariance == Spec => []IInv
BY InitIInv, NextIInv, PTL DEF Spec

\* Every variable of the purse keeps its type: in particular no coin on chain
\* and no balance becomes negative, whichever coins the wallet selects.
THEOREM PurseTypeOK == Spec => []TypeOK
<1>1. IInv => TypeOK
  BY DEF IInv
<1>2. QED
  BY <1>1, Invariance, PTL

\* Between the three requests of wallet_send_to_address nobody else settles its
\* allocation, and the amount is the one it checked.
THEOREM PurseWalletSendsOwnFunds == Spec => []WalletSendsOwnFunds
<1>1. IInv => WalletSendsOwnFunds
  BY DEF IInv, OwnGrants, Allocated, WalletSendsOwnFunds
<1>2. QED
  BY <1>1, Invariance, PTL

-----------------------------------------------------------------------------
(* Sums over a finite set, and the grants                                  *)

\* Induction over the subsets of a finite set, as a fact about a set of them.
LEMMA SubsetInduction ==
  ASSUME NEW S, IsFiniteSet(S), NEW T,
         \A s \in SUBSET S : (\A u \in SUBSET s : u # s => u \in T) => s \in T
  PROVE  SUBSET S \subseteq T
<1> DEFINE Bad == {s \in SUBSET S : s \notin T}
           R == StrictSubsetOrdering(S)
<1> SUFFICES ASSUME Bad # {} PROVE FALSE
  OBVIOUS
<1>1. \E s \in Bad : \A u \in Bad : ~(<<u, s>> \in R)
  <2>1. IsWellFoundedOn(R, SUBSET S)
    <3>1. IsWellFoundedOn(R, FiniteSubsetsOf(S))
      BY FS_StrictSubsetOrderingWellFounded, Zenon
    <3>2. FiniteSubsetsOf(S) = SUBSET S
      BY FS_FiniteSubsetsOfFinite, Zenon
    <3> HIDE DEF R
    <3>3. QED
      BY <3>1, <3>2, Zenon
  <2>2. Bad \subseteq SUBSET S /\ Bad # {}
    OBVIOUS
  <2> HIDE DEF Bad, R
  <2>3. QED
    BY <2>1, <2>2, WFMin
<1>2. PICK s \in Bad : \A u \in Bad : ~(<<u, s>> \in R)
  BY <1>1
<1>3. ASSUME NEW u \in SUBSET s, u # s PROVE u \in T
  <2>1. u \in SUBSET S
    OBVIOUS
  <2>2. <<u, s>> \in R
    BY <1>3, <2>1 DEF StrictSubsetOrdering
  <2>3. u \notin Bad
    BY <1>2, <2>2
  <2>4. QED
    BY <2>1, <2>3
<1>4. QED
  BY <1>3

\* The element of a set that a fold takes next.
Pick(s) == CHOOSE x \in s : TRUE

\* The recursive function behind FoldFunction(+, 0, f).
IsSum(g, f, S) ==
    g = [s \in SUBSET S |-> IF s = {} THEN 0 ELSE f[Pick(s)] + g[s \ {Pick(s)}]]

\* It is one of the set, so what is left is smaller.
LEMMA PickIn ==
  ASSUME NEW s, s # {}
  PROVE  Pick(s) \in s /\ s \ {Pick(s)} \in SUBSET s /\ s \ {Pick(s)} # s
BY DEF Pick

\* The sum over a set is its next element's value and the sum over the rest.
LEMMA SumOf ==
  ASSUME NEW f, NEW S, NEW g, IsSum(g, f, S), NEW s \in SUBSET S
  PROVE  g[s] = IF s = {} THEN 0 ELSE f[Pick(s)] + g[s \ {Pick(s)}]
<1> DEFINE G(t) == IF t = {} THEN 0 ELSE f[Pick(t)] + g[t \ {Pick(t)}]
<1>1. g = [t \in SUBSET S |-> G(t)]
  BY DEF IsSum
<1> HIDE DEF G
<1>2. g[s] = G(s)
  BY <1>1
<1>3. QED
  BY <1>2 DEF G

\* Two such sums agree wherever the functions summed do.
LEMMA SumsAgree ==
  ASSUME NEW S, NEW f, NEW g, IsSum(g, f, S), NEW R, NEW e, NEW h, IsSum(h, e, R),
         NEW D, IsFiniteSet(D), D \subseteq S, D \subseteq R, \A x \in D : f[x] = e[x]
  PROVE  \A s \in SUBSET D : g[s] = h[s]
<1> DEFINE T == {s \in SUBSET D : g[s] = h[s]}
<1>1. ASSUME NEW s \in SUBSET D, \A u \in SUBSET s : u # s => u \in T PROVE s \in T
  <2>1. g[s] = (IF s = {} THEN 0 ELSE f[Pick(s)] + g[s \ {Pick(s)}])
    BY SumOf
  <2>2. h[s] = (IF s = {} THEN 0 ELSE e[Pick(s)] + h[s \ {Pick(s)}])
    BY SumOf
  <2>3. s # {} => Pick(s) \in D /\ g[s \ {Pick(s)}] = h[s \ {Pick(s)}]
    BY <1>1, PickIn
  <2>4. QED
    BY <2>1, <2>2, <2>3
<1>2. SUBSET D \subseteq T
  <2> HIDE DEF T
  <2>1. QED
    BY <1>1, SubsetInduction
<1>3. QED
  BY <1>2

\* There is such a function over every finite set.
LEMMA SumExists ==
  ASSUME NEW f, NEW S, IsFiniteSet(S)
  PROVE  \E g : IsSum(g, f, S)
<1> DEFINE T == {s \in SUBSET S : \E g : IsSum(g, f, s)}
<1>1. ASSUME NEW s \in SUBSET S, \A u \in SUBSET s : u # s => u \in T PROVE s \in T
  <2> DEFINE G(u) == CHOOSE g : IsSum(g, f, u)
             Last(u) == u \ {Pick(u)}
             V(u) == IF u = {} THEN 0 ELSE f[Pick(u)] + G(Last(u))[Last(u)]
             h == [u \in SUBSET s |-> V(u)]
  <2>1. \A u \in SUBSET s : u # s => IsSum(G(u), f, u)
    BY <1>1
  <2>2. ASSUME NEW u \in SUBSET s, u # {} PROVE G(Last(u))[Last(u)] = h[Last(u)]
    <3> DEFINE v == Last(u)
    <3>1. v \in SUBSET s /\ v # s /\ IsSum(G(v), f, v)
      BY <2>1, <2>2, PickIn
    <3> HIDE DEF v, G
    <3>2. G(v)[v] = IF v = {} THEN 0 ELSE f[Pick(v)] + G(v)[Last(v)]
      BY <3>1, SumOf
    <3>3. ASSUME v # {} PROVE G(v)[Last(v)] = G(Last(v))[Last(v)]
      <4>1. Last(v) \in SUBSET v /\ Last(v) \in SUBSET s /\ Last(v) # s
        BY <3>1, <3>3, PickIn
      <4> DEFINE w == Last(v)
      <4>2. IsSum(G(w), f, w) /\ w \subseteq v /\ IsFiniteSet(w)
        BY <2>1, <4>1, FS_Subset
      <4> HIDE DEF w
      <4>3. \A t \in SUBSET w : G(v)[t] = G(w)[t]
        BY <3>1, <4>2, SumsAgree
      <4>4. G(v)[w] = G(w)[w]
        BY <4>3
      <4>5. QED
        BY <4>4 DEF w
    <3>4. h[v] = V(v)
      BY <3>1
    <3>5. G(v)[v] = h[v]
      BY <3>2, <3>3, <3>4
    <3>6. QED
      BY <3>5 DEF v
  <2>3. IsSum(h, f, s)
    <3> DEFINE W(u) == IF u = {} THEN 0 ELSE f[Pick(u)] + h[Last(u)]
    <3>1. \A u \in SUBSET s : V(u) = W(u)
      <4> HIDE DEF h, G
      <4>1. QED
        BY <2>2
    <3> HIDE DEF V
    <3>2. h = [u \in SUBSET s |-> W(u)]
      <4>1. [u \in SUBSET s |-> V(u)] = [u \in SUBSET s |-> W(u)]
        <5> HIDE DEF W
        <5>1. QED
          BY <3>1
      <4>2. QED
        BY <4>1
    <3> HIDE DEF h
    <3>3. QED
      BY <3>2 DEF IsSum
  <2>4. QED
    BY <2>3
<1>2. SUBSET S \subseteq T
  <2> HIDE DEF T
  <2>1. QED
    BY <1>1, SubsetInduction
<1>3. QED
  BY <1>2

\* An element more adds its value.
LEMMA SumAdds ==
  ASSUME NEW S, IsFiniteSet(S), NEW f, \A x \in S : f[x] \in Nat, NEW g, IsSum(g, f, S)
  PROVE  \A s \in SUBSET S : g[s] \in Nat /\ \A x \in s : g[s] = g[s \ {x}] + f[x]
<1> DEFINE T == {s \in SUBSET S : g[s] \in Nat /\ \A x \in s : g[s] = g[s \ {x}] + f[x]}
<1>1. ASSUME NEW s \in SUBSET S, \A u \in SUBSET s : u # s => u \in T PROVE s \in T
  <2>1. g[s] = IF s = {} THEN 0 ELSE f[Pick(s)] + g[s \ {Pick(s)}]
    BY SumOf
  <2>2. CASE s = {}
    BY <2>1, <2>2
  <2>3. CASE s # {}
    <3> DEFINE y == Pick(s)
    <3>1. y \in s /\ y \in S /\ s \ {y} \in T /\ g[s] = f[y] + g[s \ {y}]
      BY <1>1, <2>1, <2>3, PickIn
    <3> HIDE DEF y
    <3>2. f[y] \in Nat /\ g[s \ {y}] \in Nat
      BY <3>1
    <3>3. ASSUME NEW x \in s, x # y PROVE g[s] = g[s \ {x}] + f[x]
      <4>1. x \in s \ {y} /\ y \in s \ {x} /\ (s \ {y}) \ {x} = (s \ {x}) \ {y}
        BY <3>1, <3>3
      <4>2. s \ {x} \in T /\ (s \ {x}) \ {y} \in T
        BY <1>1, <3>1, <4>1
      <4>3. g[s \ {y}] = g[(s \ {x}) \ {y}] + f[x]
        BY <3>1, <4>1
      <4>4. g[s \ {x}] = g[(s \ {x}) \ {y}] + f[y]
        BY <4>1, <4>2
      <4>5. f[x] \in Nat /\ g[(s \ {x}) \ {y}] \in Nat
        BY <4>2
      <4>6. QED
        BY <3>1, <3>2, <4>3, <4>4, <4>5
    <3>4. g[s] \in Nat /\ \A x \in s : g[s] = g[s \ {x}] + f[x]
      <4> HIDE DEF T
      <4>1. g[s] = g[s \ {y}] + f[y] /\ g[s] \in Nat
        BY <3>1, <3>2
      <4>2. QED
        BY <3>3, <4>1
    <3>5. QED
      BY <3>4
  <2>4. QED
    BY <2>2, <2>3
<1>2. SUBSET S \subseteq T
  <2> HIDE DEF T
  <2>1. QED
    BY <1>1, SubsetInduction
<1>3. QED
  BY <1>2

\* Whichever element is added last, the whole sum is that of the others and its value.
LEMMA LastAdds ==
  ASSUME NEW S, IsFiniteSet(S), NEW f, \A x \in S : f[x] \in Nat, NEW g, IsSum(g, f, S),
         NEW x \in S
  PROVE  g[S] = g[S \ {x}] + f[x]
<1>1. \A s \in SUBSET S : g[s] \in Nat /\ \A y \in s : g[s] = g[s \ {y}] + f[y]
  BY SumAdds
<1>2. S \in SUBSET S
  OBVIOUS
<1>3. QED
  BY <1>1, <1>2

\* The fold of the community modules is the value of such a function.
LEMMA FoldIsSum ==
  ASSUME NEW f, IsFiniteSet(DOMAIN f)
  PROVE  \E g : IsSum(g, f, DOMAIN f) /\ FoldFunction(+, 0, f) = g[DOMAIN f]
<1>1. FoldFunction(+, 0, f) = (CHOOSE g : IsSum(g, f, DOMAIN f))[DOMAIN f]
  BY DEF FoldFunction, FoldFunctionOnSet, MapThenFoldSet, IsSum, Pick
<1>2. QED
  BY <1>1, SumExists

\* The sats of all entries of a map.
SatsOf(f) == FoldFunction(+, 0, f)

\* One entry more in a map adds its sats to the sum.
LEMMA SumOfOneMore ==
  ASSUME NEW D, IsFiniteSet(D), NEW i, i \notin D, NEW n \in Nat,
         NEW f, DOMAIN f = D, \A j \in D : f[j] \in Nat,
         NEW e, DOMAIN e = D \cup {i}, e[i] = n, \A j \in D : e[j] = f[j]
  PROVE  /\ SatsOf(f) \in Nat
         /\ SatsOf(e) = SatsOf(f) + n
<1>1. DOMAIN f = D /\ DOMAIN e = D \cup {i} /\ IsFiniteSet(D \cup {i})
  BY FS_AddElement
<1>2. PICK g : IsSum(g, f, D) /\ SatsOf(f) = g[D]
  BY <1>1, FoldIsSum DEF SatsOf
<1>3. PICK h : IsSum(h, e, D \cup {i}) /\ SatsOf(e) = h[D \cup {i}]
  BY <1>1, FoldIsSum DEF SatsOf
<1>4. \A x \in D : f[x] = e[x]
  OBVIOUS
<1>5. g[D] = h[D]
  <2>1. \A s \in SUBSET D : g[s] = h[s]
    <3> DEFINE E == D \cup {i}
    <3>1. IsSum(g, f, D) /\ IsSum(h, e, E) /\ D \subseteq E
      BY <1>2, <1>3
    <3> HIDE DEF E
    <3>2. QED
      BY <1>4, <3>1, SumsAgree
  <2>2. QED
    BY <2>1
<1>6. g[D] \in Nat
  BY <1>1, <1>2, SumAdds
<1>7. h[D \cup {i}] = h[D] + n
  <2> DEFINE E == D \cup {i}
  <2>1. IsFiniteSet(E) /\ IsSum(h, e, E) /\ \A x \in E : e[x] \in Nat
    BY <1>1, <1>3
  <2>2. i \in E /\ E \ {i} = D
    OBVIOUS
  <2> HIDE DEF E
  <2>3. h[E] = h[E \ {i}] + e[i]
    BY <2>1, <2>2, LastAdds
  <2>4. QED
    BY <2>2, <2>3 DEF E
<1>8. QED
  BY <1>2, <1>3, <1>5, <1>6, <1>7

\* There are finitely many allocations, in memory and in the file.
Finite == IsFiniteSet(DOMAIN alloc) /\ IsFiniteSet(DOMAIN disk)

\* There always are: a request adds one at most.
LEMMA FiniteInvariance == Spec => []Finite
<1>1. Init => Finite
  BY FS_EmptySet DEF Init, Finite, NoAllocations
<1>2. Finite /\ [Next]_vars => Finite'
  <2> SUFFICES ASSUME Finite, [Next]_vars PROVE Finite'
    OBVIOUS
  <2>1. ASSUME UNCHANGED <<alloc, disk>> PROVE Finite'
    BY <2>1 DEF Finite
  <2>2. ASSUME NEW i, NEW sats, NEW client, AllocateFunds(i, sats, client) PROVE Finite'
    BY <2>2, FS_AddElement DEF AllocateFunds, Finite
  <2>3. ASSUME NEW i, FreeFunds(i) \/ SendFunds(i) PROVE Finite'
    BY <2>3, FS_RemoveElement DEF FreeFunds, SendFunds, Deallocated, Finite
  <2>4. CASE TradeAllocates
    BY <2>1, <2>2, <2>4 DEF TradeAllocates, AllocatePanics
  <2>5. ASSUME NEW i \in Ids, TradeFrees(i) \/ TradeSends(i) PROVE Finite'
    BY <2>3, <2>5 DEF TradeFrees, TradeSends
  <2>6. ASSUME NEW c \in Callers, NEW sats \in Amounts, WalletChecks(c, sats) PROVE Finite'
    BY <2>1, <2>6 DEF WalletChecks, purse
  <2>7. ASSUME NEW c \in Callers, WalletAllocates(c) PROVE Finite'
    BY <2>1, <2>2, <2>7 DEF WalletAllocates, AllocateRefused, AllocatePanics, purse
  <2>8. ASSUME NEW c \in Callers, WalletSends(c) PROVE Finite'
    BY <2>1, <2>3, <2>8 DEF WalletSends, purse
  <2>9. CASE SyncBlockchain \/ BlockMined \/ UNCHANGED vars
    BY <2>1, <2>9 DEF SyncBlockchain, BlockMined, vars, purse
  <2>10. CASE Persist \/ Shutdown \/ Crash \/ Start
    BY <2>10 DEF Persist, Shutdown, Crash, Start, Finite
  <2>11. QED
    BY <2>4, <2>5, <2>6, <2>7, <2>8, <2>9, <2>10 DEF Next
<1>3. QED
  BY <1>1, <1>2, PTL DEF Spec

\* What fits the difference, wrapped or not, fits the whole.
LEMMA RemainderFits ==
  ASSUME NEW a \in Nat, NEW t \in Nat, ~(a > t), NEW m \in Nat \ {0}, NEW n \in Nat,
         (t - a) % m >= n
  PROVE  a + n <= t
<1>1. \A d \in Nat : d % m <= d
  OBVIOUS
<1>2. t - a \in Nat
  OBVIOUS
<1>3. QED
  BY <1>1, <1>2

\* With checked arithmetic a grant fits: the difference was computed, no client
\* can wrap it, and the sum grows by what is granted.
LEMMA GrantFits ==
  ASSUME OverflowChecks, IInv, Finite, NEW i \in Ids, NEW sats \in Amounts, NEW client,
         AllocateFunds(i, sats, client)
  PROVE  FoldFunction(+, 0, alloc') <= Total(view)
<1>1. /\ alloc \in [DOMAIN alloc -> Nat] /\ sats \in Nat /\ IsFiniteSet(DOMAIN alloc)
      /\ Total(view) \in Nat /\ Modulus \in Nat \ {0}
  BY PurseAssumption, AllocationsFacts DEF IInv, TypeOK, Finite, Balances, Total
<1>2. i \notin DOMAIN alloc
  BY DEF AllocateFunds, IInv, OnlyGiven, Given
<1>3. alloc' = [j \in DOMAIN alloc \cup {i} |-> IF j = i THEN sats ELSE alloc[j]]
  BY DEF AllocateFunds
<1>4. ASSUME NEW D, D = DOMAIN alloc, NEW e, e = alloc'
      PROVE  SatsOf(alloc) \in Nat /\ SatsOf(e) = SatsOf(alloc) + sats
  <2>1. /\ DOMAIN alloc = D /\ IsFiniteSet(D) /\ i \notin D
        /\ \A j \in D : alloc[j] \in Nat
    BY <1>1, <1>2, <1>4
  <2>2. DOMAIN e = D \cup {i} /\ e[i] = sats /\ \A j \in D : e[j] = alloc[j]
    BY <1>2, <1>3, <1>4
  <2>3. QED
    BY <1>1, <2>1, <2>2, SumOfOneMore
<1>5. /\ TotalFundsAllocated \in Nat
      /\ FoldFunction(+, 0, alloc') = TotalFundsAllocated + sats
  BY <1>4 DEF TotalFundsAllocated, SatsOf
<1>6. /\ ~(TotalFundsAllocated > Total(view))
      /\ (Total(view) - TotalFundsAllocated) % Modulus >= sats
  BY DEF AllocateFunds, Underflows, AllocatableBalance
<1>7. TotalFundsAllocated + sats <= Total(view)
  BY <1>1, <1>5, <1>6, RemainderFits
<1>8. QED
  BY <1>5, <1>7

\* In a build that checks its arithmetic the purse never grants more than the
\* balance it knows of (without the checks it does, as MCPurseRelease shows).
THEOREM PurseGrantsFitBalance ==
  ASSUME OverflowChecks
  PROVE  Spec => GrantsFitBalance
<1> DEFINE Fits == owner' # owner => FoldFunction(+, 0, alloc') <= Total(view)
<1>1. ASSUME IInv, Finite, [Next]_vars PROVE [Fits]_vars
  <2> SUFFICES ASSUME Next, owner' # owner PROVE FoldFunction(+, 0, alloc') <= Total(view)
    BY <1>1
  <2>1. ASSUME NEW i \in Ids, NEW sats \in Amounts, NEW client, AllocateFunds(i, sats, client)
        PROVE  FoldFunction(+, 0, alloc') <= Total(view)
    BY <1>1, <2>1, GrantFits
  <2>2. CASE TradeAllocates
    BY <2>1, <2>2 DEF TradeAllocates, AllocatePanics
  <2>3. ASSUME NEW c \in Callers, WalletAllocates(c)
        PROVE  FoldFunction(+, 0, alloc') <= Total(view)
    <3>1. caller[c].sats \in Amounts
      BY <1>1, <2>3, CallerFacts DEF IInv, WalletAllocates
    <3>2. QED
      BY <2>1, <2>3, <3>1 DEF WalletAllocates, AllocateRefused, AllocatePanics, purse
  <2>4. QED
    BY <2>2, <2>3 DEF Next, TradeFrees, TradeSends, FreeFunds, SendFunds, WalletChecks,
       WalletSends, SyncBlockchain, Persist, Shutdown, Crash, Start, BlockMined, purse
<1>2. QED
  BY <1>1, Invariance, FiniteInvariance, PTL DEF Spec, GrantsFitBalance
=============================================================================
