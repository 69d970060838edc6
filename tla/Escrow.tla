------------------------------- MODULE Escrow -------------------------------
(***************************************************************************)
(* What the trades expect of the purse.  An allocation is made once, and   *)
(* settled once: paid to an address or freed.  The allocations are saved   *)
(* from time to time; a crash of the process that holds them brings the    *)
(* saved ones back, whatever was settled since.                            *)
(*                                                                         *)
(* Purse.tla is shown to implement this module; Trade.tla composes makers  *)
(* and takers with it.                                                     *)
(***************************************************************************)
EXTENDS Naturals, TLAPS

CONSTANT Ids  \* the identifiers of allocations (funds_id)

VARIABLES held,     \* allocations in memory
          saved,    \* allocations in the file
          used,     \* identifiers given out so far
          paid,     \* how often each allocation was broadcast
          freed,    \* how often each allocation was freed
          crashes   \* crashes of the process that holds each allocation

vars == <<held, saved, used, paid, freed, crashes>>

TypeOK ==
    /\ held \subseteq used
    /\ saved \subseteq used
    /\ used \subseteq Ids
    /\ paid \in [Ids -> Nat]
    /\ freed \in [Ids -> Nat]
    /\ crashes \in [Ids -> Nat]

Init ==
    /\ held = {} /\ saved = {} /\ used = {}
    /\ paid = [i \in Ids |-> 0]
    /\ freed = [i \in Ids |-> 0]
    /\ crashes = [i \in Ids |-> 0]

Allocate(i) ==
    /\ i \notin used
    /\ used' = used \cup {i}
    /\ held' = held \cup {i}
    /\ UNCHANGED <<saved, paid, freed, crashes>>

Pay(i) ==
    /\ i \in held
    /\ held' = held \ {i}
    /\ paid' = [paid EXCEPT ![i] = @ + 1]
    /\ UNCHANGED <<saved, used, freed, crashes>>

Free(i) ==
    /\ i \in held
    /\ held' = held \ {i}
    /\ freed' = [freed EXCEPT ![i] = @ + 1]
    /\ UNCHANGED <<saved, used, paid, crashes>>

\* Save and Crash take the set of allocations of one process.
Save(I) ==
    /\ saved' = (saved \ I) \cup (held \cap I)
    /\ UNCHANGED <<held, used, paid, freed, crashes>>

Crash(I) ==
    /\ held' = (held \ I) \cup (saved \cap I)
    /\ crashes' = [i \in Ids |-> IF i \in I THEN crashes[i] + 1 ELSE crashes[i]]
    /\ UNCHANGED <<saved, used, paid, freed>>

Next ==
    \/ \E i \in Ids : Allocate(i) \/ Pay(i) \/ Free(i)
    \/ \E I \in SUBSET Ids : Save(I) \/ Crash(I)

Spec == Init /\ [][Next]_vars

-----------------------------------------------------------------------------

\* An allocation is settled, paid or freed, at most once in each life of the
\* process that holds it; without a crash it is never paid twice, nor paid
\* after it was freed.
SettledOncePerLife == \A i \in Ids : paid[i] + freed[i] <= 1 + crashes[i]

-----------------------------------------------------------------------------
(* Proofs, for every set of allocations                                    *)

\* An allocation that can still be settled has been settled at most once per
\* past crash, and one that was never given out has not been settled at all.
IInv ==
    /\ TypeOK
    /\ SettledOncePerLife
    /\ \A i \in held : paid[i] + freed[i] <= crashes[i]
    /\ \A i \in Ids \ used : paid[i] = 0 /\ freed[i] = 0

\* The escrow starts with nothing settled.
LEMMA InitIInv == Init => IInv
  BY DEF Init, IInv, TypeOK, SettledOncePerLife

\* Every step preserves the inductive invariant.
LEMMA NextIInv == IInv /\ [Next]_vars => IInv'
<1> SUFFICES ASSUME IInv, [Next]_vars PROVE IInv'
  OBVIOUS
<1> USE DEF IInv, TypeOK, SettledOncePerLife
<1>1. ASSUME NEW i \in Ids, Allocate(i) PROVE IInv'
  BY <1>1 DEF Allocate
<1>2. ASSUME NEW i \in Ids, Pay(i) PROVE IInv'
  BY <1>2 DEF Pay
<1>3. ASSUME NEW i \in Ids, Free(i) PROVE IInv'
  BY <1>3 DEF Free
<1>4. ASSUME NEW I \in SUBSET Ids, Save(I) PROVE IInv'
  BY <1>4 DEF Save
<1>5. ASSUME NEW I \in SUBSET Ids, Crash(I) PROVE IInv'
  BY <1>5 DEF Crash
<1>6. CASE UNCHANGED vars
  BY <1>6 DEF vars
<1>7. QED
  BY <1>1, <1>2, <1>3, <1>4, <1>5, <1>6 DEF Next

\* The inductive invariant holds always.
LEMMA Invariance == Spec => []IInv
  BY InitIInv, NextIInv, PTL DEF Spec

\* An allocation is paid or freed at most once in each life of the process
\* that holds it (allocate_funds, free_funds and send_funds of the purse).
THEOREM EscrowSettlesOnce == Spec => []SettledOncePerLife
<1>1. IInv => SettledOncePerLife
  BY DEF IInv
<1>2. QED
  BY Invariance, <1>1, PTL
=============================================================================
