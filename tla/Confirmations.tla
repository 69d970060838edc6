---------------------------- MODULE Confirmations ----------------------------
(***************************************************************************)
(* How many confirmations a user is told that the transaction of its peer  *)
(* has (purse/purse.rs, purse/data.rs).  The answer is computed from two   *)
(* copies of the blockchain's state that are refreshed one after the       *)
(* other: the transactions of the wallet, which live in memory, and the    *)
(* height of the purse's store, which survives a restart.                  *)
(*                                                                         *)
(* The blockchain is external: it grows at any time, between two calls of  *)
(* one handler as well.  Reorganizations are not modelled.                 *)
(***************************************************************************)
EXTENDS Naturals

CONSTANTS Unknown,      \* the transaction was not broadcast, or not seen
          Unconfirmed,  \* it is in the mempool
          NoFile,       \* the purse's file does not exist
          MaxHeight,    \* bound on the height of the blockchain
          MaxStarts     \* bound on the starts of the purse

ASSUME ConfirmationsAssumption ==
    /\ Unknown \notin Nat /\ Unconfirmed \notin Nat /\ Unknown # Unconfirmed
    /\ NoFile \notin Nat
    /\ MaxHeight \in Nat /\ MaxStarts \in Nat

VARIABLES tip,     \* height of the blockchain
          mined,   \* the block with the transaction, as the blockchain has it
          details, \* the same, as the wallet has it
          height,  \* the height in the store
          disk,    \* the height in the purse's file
          pc,      \* where the purse actor is
          synced,  \* sync_blockchain succeeded since the purse started
          starts

vars == <<tip, mined, details, height, disk, pc, synced, starts>>

Whereabouts == {Unknown, Unconfirmed} \cup Nat

\* "starting", "syncing": one of the two copies is refreshed.
TypeOK ==
    /\ tip \in Nat
    /\ mined \in Whereabouts
    /\ details \in Whereabouts
    /\ height \in Nat
    /\ disk \in Nat \cup {NoFile}
    /\ pc \in {"down", "starting", "up", "syncing", "panicked"}
    /\ synced \in BOOLEAN
    /\ starts \in Nat

Init ==
    /\ tip = 0 /\ mined = Unknown
    /\ details = Unknown /\ height = 0 /\ disk = NoFile
    /\ pc = "down" /\ synced = FALSE
    /\ starts = 0

-----------------------------------------------------------------------------
(* The blockchain                                                          *)

Broadcast ==
    /\ mined = Unknown
    /\ mined' = Unconfirmed
    /\ UNCHANGED <<tip, details, height, disk, pc, synced, starts>>

\* A block, with the transaction or without it.
Mine ==
    /\ tip < MaxHeight
    /\ tip' = tip + 1
    /\ \/ mined = Unconfirmed /\ mined' = tip'
       \/ mined' = mined
    /\ UNCHANGED <<details, height, disk, pc, synced, starts>>

-----------------------------------------------------------------------------
(* PurseActor::new                                                         *)

\* get_height().unwrap_or(0) is used only where there is no file to restore.
\* The wallet's database is in memory, and empty.
ReadHeight ==
    /\ pc = "down" /\ starts < MaxStarts
    /\ starts' = starts + 1
    /\ IF disk = NoFile THEN height' \in {tip, 0} ELSE height' = disk
    /\ details' = Unknown
    /\ synced' = FALSE
    /\ pc' = "starting"
    /\ UNCHANGED <<tip, mined, disk>>

FirstSync ==
    /\ pc = "starting"
    /\ details' = mined
    /\ pc' = "up"
    /\ UNCHANGED <<tip, mined, height, disk, synced, starts>>

-----------------------------------------------------------------------------
(* sync_blockchain                                                         *)

SyncWallet ==
    /\ pc = "up"
    /\ details' = mined
    /\ pc' = "syncing"
    /\ UNCHANGED <<tip, mined, height, disk, synced, starts>>

\* Mutant: the height is read and not stored.
HeightNotSet ==
    /\ pc = "syncing"
    /\ \/ synced' = TRUE /\ pc' = "up"
       \/ pc' = "panicked" /\ UNCHANGED synced
    /\ UNCHANGED <<tip, mined, details, height, disk, starts>>

\* Mutant: the height stored is that of the transaction, which may have none.
HeightUndefined ==
    /\ pc = "syncing"
    /\ \/ height' = mined /\ synced' = TRUE /\ pc' = "up"
       \/ pc' = "panicked" /\ UNCHANGED <<height, synced>>
    /\ UNCHANGED <<tip, mined, details, disk, starts>>

\* get_height().unwrap(), and set_height, which does not queue a write.
SetHeight ==
    /\ pc = "syncing"
    /\ \/ height' = tip /\ synced' = TRUE /\ pc' = "up"
       \/ pc' = "panicked" /\ UNCHANGED <<height, synced>>
    /\ UNCHANGED <<tip, mined, details, disk, starts>>

-----------------------------------------------------------------------------
(* The file                                                                *)

\* An allocation, or the start, queued a write of the whole store.
Persist ==
    /\ pc # "down"
    /\ disk' = height
    /\ UNCHANGED <<tip, mined, details, height, pc, synced, starts>>

\* A shutdown completes the writes that were queued and asks for none, so it
\* leaves as old a height in the file as a crash.
Stop ==
    /\ pc # "down"
    /\ pc' = "down"
    /\ UNCHANGED <<tip, mined, details, height, disk, synced, starts>>

Next ==
    \/ Broadcast \/ Mine
    \/ ReadHeight \/ FirstSync
    \/ SyncWallet \/ SetHeight
    \/ Persist \/ Stop

Spec == Init /\ [][Next]_vars

-----------------------------------------------------------------------------
(* get_tx_conf, which the actor serves when it is up                       *)

Confirmed == details \notin {Unknown, Unconfirmed}

\* "Tx confirmation height greater than current blockchain height"
Unexpected == Confirmed /\ height < details

\* Mutant: counted from the block before.
DepthOffByOne == height + 2 - details

\* The answer, where it is a number.
Depth == height + 1 - details

-----------------------------------------------------------------------------
(* Properties                                                              *)

\* A user is never told of more confirmations than the transaction has: not
\* when a block comes in between the two halves of a synchronization, nor
\* with the height of an old file.
NeverOverstated ==
    pc = "up" /\ Confirmed /\ ~Unexpected => Depth <= tip + 1 - mined

\* Once a synchronization succeeded the two copies fit together: the wallet
\* knows of no block that the store does not.
SyncedCopiesFit == pc = "up" /\ synced => ~Unexpected

\* "Unexpected": no transaction is above the height of the store, which is
\* what get_tx_conf says of the error it returns (purse.rs:613-615).
NeverUnexpected == pc = "up" => ~Unexpected

=============================================================================
