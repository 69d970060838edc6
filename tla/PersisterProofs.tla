--------------------------- MODULE PersisterProofs ---------------------------
(***************************************************************************)
(* TLAPS proofs about Persister.tla, for every number of updates and       *)
(* crashes: the type invariant, that no update is forgotten, that a clean  *)
(* close flushes, and that the persister implements DurableStore.          *)
(***************************************************************************)
EXTENDS Persister, TLAPS

\* Who can be where: the thread only ends when told to or when its owner is
\* gone, and it writes what the store holds because its read guard keeps the
\* setters out.
Stations ==
    /\ thread = "writing" => image = store
    /\ chan = <<"Close">> => owner = "closing"
    /\ owner = "closing" => chan = <<"Close">> \/ thread = "done"
    /\ owner \in {"closed", "down", "unreadable"} => chan = <<>> /\ thread = "done"
    /\ thread = "done" => chan = <<>> /\ owner \notin {"idle", "dirty"}

IInv == TypeOK /\ Stations /\ NoUpdateForgotten

\* Heads and tails of the three contents the channel can have.
LEMMA ChannelFacts ==
    /\ Head(<<"Persist">>) = "Persist" /\ Tail(<<"Persist">>) = <<>>
    /\ Head(<<"Close">>) = "Close" /\ Tail(<<"Close">>) = <<>>
    /\ <<"Persist">> # <<"Close">> /\ <<"Persist">> # <<>> /\ <<"Close">> # <<>>
  OBVIOUS

\* A new persister satisfies the inductive invariant.
LEMMA InitIInv == Init => IInv
<1> SUFFICES ASSUME Init PROVE IInv
  OBVIOUS
<1>1. TypeOK
  BY DEF Init, TypeOK, OwnerStates, ThreadStates, Channels
<1>2. Stations
  BY ChannelFacts DEF Init, Stations
<1>3. NoUpdateForgotten
  BY DEF Init, NoUpdateForgotten
<1>4. QED
  BY <1>1, <1>2, <1>3 DEF IInv

\* Every step of the owner, the thread and the process preserves it.
LEMMA NextIInv == IInv /\ [Next]_vars => IInv'
<1> SUFFICES ASSUME IInv, [Next]_vars PROVE IInv'
  OBVIOUS
<1> USE PersisterAssumption, ChannelFacts
    DEF IInv, TypeOK, Stations, NoUpdateForgotten, OwnerStates, ThreadStates, Channels
<1>1. CASE Update
  BY <1>1 DEF Update
<1>2. CASE Queue
  BY <1>2 DEF Queue
<1>3. CASE Terminate
  BY <1>3 DEF Terminate
<1>4. CASE Joined
  BY <1>4 DEF Joined
<1>5. CASE Panic
  BY <1>5 DEF Panic
<1>6. CASE Recv
  BY <1>6 DEF Recv
<1>7. CASE Disconnected
  BY <1>7 DEF Disconnected
<1>8. CASE BeginWrite
  BY <1>8 DEF BeginWrite
<1>9. CASE FinishWrite
  BY <1>9 DEF FinishWrite
<1>10. CASE FailWrite
  BY <1>10 DEF FailWrite
<1>11. CASE Crash
  BY <1>11 DEF Crash
<1>12. CASE Restart
  BY <1>12 DEF Restart
<1>13. CASE RestartFails
  BY <1>13 DEF RestartFails
<1>14. CASE UNCHANGED vars
  BY <1>14 DEF vars
<1>15. QED
  BY <1>1, <1>2, <1>3, <1>4, <1>5, <1>6, <1>7, <1>8, <1>9, <1>10, <1>11,
     <1>12, <1>13, <1>14 DEF Next, Thread

\* The inductive invariant holds always.
LEMMA Invariance == Spec => []IInv
  BY InitIInv, NextIInv, PTL DEF Spec

-----------------------------------------------------------------------------

\* Every variable of the persister keeps its type.
THEOREM PersisterTypeOK == Spec => []TypeOK
<1>1. IInv => TypeOK
  BY DEF IInv
<1>2. QED
  BY Invariance, <1>1, PTL

\* Dropping requests on a full channel never forgets an update.
THEOREM PersisterForgetsNothing == Spec => []NoUpdateForgotten
<1>1. IInv => NoUpdateForgotten
  BY DEF IInv
<1>2. QED
  BY Invariance, <1>1, PTL

\* terminate() leaves the file with the last update of the store.
THEOREM PersisterFlushes == Spec => []FlushedWhenClosed
<1>1. IInv => FlushedWhenClosed
  BY ChannelFacts DEF IInv, Stations, NoUpdateForgotten, FlushedWhenClosed
<1>2. QED
  BY Invariance, <1>1, PTL

-----------------------------------------------------------------------------
(* Refinement                                                              *)

\* The initial state is an initial state of the durable store.
LEMMA InitRefines == Init => Abstract!Init
  BY DEF Init, Abstract!Init, Status

\* Every step of the persister is a step of the durable store or a stutter.
LEMMA NextRefines == IInv /\ [Next]_vars => [Abstract!Next]_(Abstract!vars)
<1> SUFFICES ASSUME IInv, [Next]_vars PROVE [Abstract!Next]_(Abstract!vars)
  OBVIOUS
<1> USE PersisterAssumption, ChannelFacts DEF IInv, TypeOK, OwnerStates, Status
<1>1. CASE Update
  <2>1. Abstract!Update
    BY <1>1 DEF Update, Abstract!Update
  <2>2. QED
    BY <2>1 DEF Abstract!Next
<1>2. CASE Queue \/ Terminate \/ Panic \/ Recv \/ Disconnected \/ UNCHANGED vars
  <2>1. UNCHANGED <<store, disk, failed>> /\ Status' = Status
    BY <1>2 DEF Queue, Terminate, Panic, Recv, Disconnected, vars
  <2>2. QED
    BY <2>1 DEF Abstract!vars
<1>3. CASE Joined
  <2>1. Abstract!Close
    BY <1>3 DEF Joined, Abstract!Close, Stations, NoUpdateForgotten
  <2>2. QED
    BY <2>1 DEF Abstract!Next
<1>4. CASE BeginWrite
  <2>1. Abstract!Tear
    BY <1>4 DEF BeginWrite, Abstract!Tear, Stations
  <2>2. QED
    BY <2>1 DEF Abstract!Next
<1>5. CASE FinishWrite
  <2>1. Abstract!Flush
    BY <1>5 DEF FinishWrite, Abstract!Flush, Stations
  <2>2. QED
    BY <2>1 DEF Abstract!Next
<1>6. CASE FailWrite
  <2>1. Abstract!Fail
    BY <1>6 DEF FailWrite, Abstract!Fail, Stations
  <2>2. QED
    BY <2>1 DEF Abstract!Next
<1>7. CASE Crash
  <2>1. Abstract!Crash
    BY <1>7 DEF Crash, Abstract!Crash
  <2>2. QED
    BY <2>1 DEF Abstract!Next
<1>8. CASE Restart
  <2>1. Abstract!Restart
    BY <1>8 DEF Restart, Abstract!Restart, Abstract!Restored
  <2>2. QED
    BY <2>1 DEF Abstract!Next
<1>9. CASE RestartFails
  <2>1. Abstract!Crash
    BY <1>9 DEF RestartFails, Abstract!Crash
  <2>2. QED
    BY <2>1 DEF Abstract!Next
<1>10. QED
  BY <1>1, <1>2, <1>3, <1>4, <1>5, <1>6, <1>7, <1>8, <1>9 DEF Next, Thread

\* The persister implements the durable store.
THEOREM PersisterRefinement == Spec => ImplementsDurableStore
<1>1. Spec => Init /\ [][Next]_vars
  BY PTL DEF Spec
<1>2. QED
  BY <1>1, Invariance, InitRefines, NextRefines, PTL
  DEF ImplementsDurableStore, Abstract!Spec
=============================================================================
