------------------------- MODULE ConfirmationsProofs -------------------------
(***************************************************************************)
(* The safety properties of Confirmations.tla, for every length of the     *)
(* blockchain and any number of restarts.                                  *)
(***************************************************************************)
EXTENDS Confirmations, TLAPS

\* The copies are no newer than the blockchain, and the height is as new as
\* the transactions once both were refreshed.
Copies ==
    /\ height <= tip
    /\ disk \in Nat => disk <= tip
    /\ mined \in Nat => mined <= tip
    /\ details \in Nat => details = mined
    /\ pc = "starting" => ~synced
    /\ pc = "up" /\ synced /\ details \in Nat => details <= height

IInv == TypeOK /\ Copies

\* Before the broadcast no copy knows of a transaction.
LEMMA InitIInv == Init => IInv
<1> SUFFICES ASSUME Init PROVE IInv
  OBVIOUS
<1>1. TypeOK
  BY DEF Init, TypeOK, Whereabouts
<1>2. Copies
  BY ConfirmationsAssumption DEF Init, Copies
<1> QED
  BY <1>1, <1>2 DEF IInv

\* Blocks only make copies older, and a refreshed copy is as old as the chain.
LEMMA NextIInv == IInv /\ [Next]_vars => IInv'
<1> SUFFICES ASSUME IInv, [Next]_vars PROVE IInv'
  OBVIOUS
<1> USE ConfirmationsAssumption DEF IInv, TypeOK, Copies, Whereabouts
<1>1. CASE Broadcast
  BY <1>1 DEF Broadcast
<1>2. CASE Mine
  BY <1>2 DEF Mine
<1>3. CASE ReadHeight
  <2>1. height' \in Nat /\ height' <= tip
    BY <1>3 DEF ReadHeight
  <2>2. /\ starts' = starts + 1 /\ details' = Unknown /\ synced' = FALSE
        /\ pc' = "starting" /\ UNCHANGED <<tip, mined, disk>>
    BY <1>3 DEF ReadHeight
  <2>3. TypeOK'
    <3>1. tip' \in Nat /\ mined' \in Whereabouts /\ details' \in Whereabouts
      BY <2>2
    <3>2. disk' \in Nat \cup {NoFile} /\ starts' \in Nat
      BY <2>2
    <3>3. pc' \in {"down", "starting", "up", "syncing", "panicked"} /\ synced' \in BOOLEAN
      BY <2>2
    <3> QED
      BY <3>1, <3>2, <3>3, <2>1
  <2>4. Copies'
    BY <2>1, <2>2
  <2> QED
    BY <2>3, <2>4
<1>4. CASE FirstSync
  BY <1>4 DEF FirstSync
<1>5. CASE SyncWallet
  BY <1>5 DEF SyncWallet
<1>6. CASE SetHeight
  <2>1. CASE height' = tip /\ synced' = TRUE /\ pc' = "up"
    <3>1. TypeOK'
      BY <1>6, <2>1 DEF SetHeight
    <3>2. Copies'
      BY <1>6, <2>1 DEF SetHeight
    <3> QED
      BY <3>1, <3>2
  <2>2. CASE pc' = "panicked" /\ UNCHANGED <<height, synced>>
    BY <1>6, <2>2 DEF SetHeight
  <2> QED
    BY <1>6, <2>1, <2>2 DEF SetHeight
<1>7. CASE Persist
  BY <1>7 DEF Persist
<1>8. CASE Stop
  BY <1>8 DEF Stop
<1>9. CASE UNCHANGED vars
  BY <1>9 DEF vars
<1> QED
  BY <1>1, <1>2, <1>3, <1>4, <1>5, <1>6, <1>7, <1>8, <1>9 DEF Next

\* Hence the copies are never newer than the chain.
LEMMA Invariance == Spec => []IInv
BY InitIInv, NextIInv, PTL DEF Spec

\* The two copies of the chain's state, and the file, keep their types.
THEOREM ConfirmationsTypeOK == Spec => []TypeOK
<1>1. IInv => TypeOK
  BY DEF IInv
<1> QED
  BY <1>1, Invariance, PTL

\* Whatever the lengths of the blockchain and the number of restarts, no
\* answer of get_tx_conf overstates the confirmations.
THEOREM ConfirmationsNeverOverstated == Spec => []NeverOverstated
<1>1. IInv => NeverOverstated
  BY ConfirmationsAssumption
  DEF IInv, TypeOK, Copies, Whereabouts, NeverOverstated, Confirmed, Unexpected, Depth
<1> QED
  BY <1>1, Invariance, PTL

\* After a synchronization get_tx_conf never finds the copies at odds.
THEOREM ConfirmationsSyncedCopiesFit == Spec => []SyncedCopiesFit
<1>1. IInv => SyncedCopiesFit
  BY ConfirmationsAssumption
  DEF IInv, TypeOK, Copies, Whereabouts, SyncedCopiesFit, Confirmed, Unexpected
<1> QED
  BY <1>1, Invariance, PTL
=============================================================================
