------------------------------ MODULE Platform ------------------------------
(***************************************************************************)
(* What the makers and takers of one order run on: the n3xb sessions and   *)
(* their relays, which are external and keep every message, and the purse  *)
(* of each node, as the escrow of Escrow.tla that Purse.tla implements.    *)
(* Every node is a process of its own: a crash takes its purse with it.    *)
(***************************************************************************)
EXTENDS Naturals

CONSTANTS Maker,         \* the node that posts the order
          Takers,        \* the nodes that may take it
          NoOne,         \* no node
          Scenarios      \* what users, calls and processes may do to a trade

\* careful: users call the operations in the order of the demo.  failures:
\* calls of n3xb and of the purse may return an error.  stops: bound on the
\* shutdowns of all nodes together.  crashes: bound on the crashes of a node;
\* once a node has reached it no node crashes any more.  takers: those that are
\* there.  strangers: nodes that follow the protocol, but what their messages
\* carry need not be what this library puts into them.
Scenario == [careful : BOOLEAN, failures : BOOLEAN, stops : Nat, crashes : Nat,
             takers : SUBSET Takers, strangers : SUBSET ({Maker} \cup Takers)]

ASSUME PlatformAssumption ==
    /\ Maker \notin Takers /\ NoOne \notin Takers \cup {Maker}
    /\ Scenarios \subseteq Scenario

Nodes == {Maker} \cup Takers

VARIABLES scenario,     \* the one of Scenarios that takes place
          orderType,    \* "Buy" or "Sell": what the maker does with Fatcrabs
          posted,       \* the order can be found on the relays
          sent,         \* messages the relays keep
          seen,         \* messages n3xb has handed to the actor of each node
          counterpart,  \* whom the maker's n3xb session sends peer messages to
          held, saved, used, paid, freed, crashes,  \* the escrow
          payees,       \* to whom each allocation was paid
          purseUp,      \* the purse actor of each node is running
          stops         \* shutdowns so far

\* The maker of a buy order pays bitcoin, and so does the taker of a sell order:
\* they allocate it when they are created.
IsBuy == orderType = "Buy"

Careful == scenario.careful
CallsMayFail == scenario.failures
MaxStops == scenario.stops
MaxCrashes == scenario.crashes

relay == <<posted, sent, seen, counterpart>>
escrow == <<held, saved, used, paid, freed, crashes>>
purse == <<escrow, payees>>
platform == <<relay, purse, purseUp, stops>>

\* A node makes one allocation, so the node itself stands for its funds_id.
Bank == INSTANCE Escrow WITH Ids <- Nodes

-----------------------------------------------------------------------------
(* Messages                                                                *)

Messages == [kind : {"Offer", "Accept", "Reject", "TakerPeer", "MakerPeer"},
             taker : Takers]

Message(kind, t) == [kind |-> kind, taker |-> t]

Recipient(m) == IF m.kind \in {"Offer", "TakerPeer"} THEN Maker ELSE m.taker

\* The specifics of the message may be of another type, its address no address
\* or one of another network, its txid none.
FromStranger(m) ==
    (IF Recipient(m) = Maker THEN m.taker ELSE Maker) \in scenario.strangers

\* A node handles the messages of in and sends those of out.  A message sent
\* again is a new event, which its recipient has not seen.
Exchange(n, in, out) ==
    /\ sent' = sent \cup out
    /\ seen' = [k \in Nodes |->
                  (seen[k] \ {m \in out : Recipient(m) = k})
                     \cup (IF k = n THEN in ELSE {})]

\* Messages n3xb may hand to a node next, in any order.
Waiting(n) == {m \in sent : Recipient(m) = n} \ seen[n]

-----------------------------------------------------------------------------
(* Funds                                                                   *)

\* send_funds of a node's purse to the address of another node.
SendFunds(n, to) ==
    /\ purseUp[n]
    /\ Bank!Pay(n)
    /\ payees' = [payees EXCEPT ![n] = @ \cup {to}]

\* No such funds, or a transaction that cannot be built or broadcast.
SendFundsFails(n) ==
    /\ purseUp[n]
    /\ n \notin held \/ CallsMayFail
    /\ UNCHANGED purse

FreeFunds(n) == purseUp[n] /\ Bank!Free(n) /\ UNCHANGED payees

-----------------------------------------------------------------------------
(* Processes                                                               *)

\* The purse's persister (Persister.tla) brings its file up to date.  Where
\* nothing crashes the file is only read after a shutdown, which flushes it.
PersistFunds(n) ==
    /\ MaxCrashes > 0
    /\ purseUp[n]
    /\ Bank!Save({n})
    /\ UNCHANGED <<relay, payees, purseUp, stops>>

\* A shutdown has two parts, in either order: Trader::shutdown stops the purse
\* before the makers and takers, which the user may have shut down already.
\* The first part counts as the beginning of a shutdown.
CountStop(first) ==
    /\ first => stops < MaxStops
    /\ stops' = IF first THEN stops + 1 ELSE stops

StopPurse(n, first) ==
    /\ purseUp[n]
    /\ CountStop(first)
    /\ purseUp' = [purseUp EXCEPT ![n] = FALSE]
    /\ Bank!Save({n})
    /\ UNCHANGED <<relay, payees>>

\* The part of a crash and of a restart that concerns the platform.  n3xb
\* may hand the messages of the time before to the restored node once more.
PlatformCrash(n) ==
    /\ \A k \in Nodes : crashes[k] < MaxCrashes
    /\ Bank!Crash({n})
    /\ purseUp' = [purseUp EXCEPT ![n] = FALSE]
    /\ UNCHANGED <<relay, payees, stops>>

PlatformStart(n) ==
    /\ purseUp' = [purseUp EXCEPT ![n] = TRUE]
    /\ \/ seen' = [seen EXCEPT ![n] = {}]
       \/ seen' = seen
    /\ UNCHANGED <<posted, sent, counterpart, purse, stops>>

PlatformInit ==
    /\ scenario \in Scenarios
    /\ orderType \in {"Buy", "Sell"}
    /\ posted = FALSE
    /\ sent = {} /\ seen = [n \in Nodes |-> {}]
    /\ counterpart = NoOne
    /\ Bank!Init
    /\ payees = [n \in Nodes |-> {}]
    /\ purseUp = [n \in Nodes |-> TRUE]
    /\ stops = 0

PlatformTypeOK ==
    /\ scenario \in Scenarios
    /\ orderType \in {"Buy", "Sell"}
    /\ posted \in BOOLEAN
    /\ sent \subseteq Messages
    /\ seen \in [Nodes -> SUBSET Messages]
    /\ counterpart \in Takers \cup {NoOne}
    /\ Bank!TypeOK
    /\ payees \in [Nodes -> SUBSET Nodes]
    /\ purseUp \in [Nodes -> BOOLEAN]
    /\ stops \in Nat
=============================================================================
