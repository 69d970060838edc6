----------------------------- MODULE TradeProofs -----------------------------
(***************************************************************************)
(* TLAPS proofs about Trade.tla, for every set of takers and all           *)
(* scenarios: any number of shutdowns and crashes, careful users or not.   *)
(*                                                                         *)
(* Four invariants build on each other: Types, Truth (what the takers      *)
(* know), Record (what the maker knows) and Bond (that the maker does not  *)
(* forget).  On them rest what each side believes about its funds, that no *)
(* actor dies of an unwrap() unprovoked, and that a trade implements the   *)
(* exchange of Swap.tla.  Each is shown for the steps of the maker and of  *)
(* a taker, one case per action.                                           *)
(***************************************************************************)
EXTENDS Trade, TLAPS

\* What a scenario says is of the right kind, and its takers are some of the Takers.
LEMMA Setting ==
  ASSUME scenario \in Scenarios
  PROVE  /\ scenario.takers \subseteq Takers
         /\ Careful \in BOOLEAN /\ CallsMayFail \in BOOLEAN
         /\ MaxStops \in Nat /\ MaxCrashes \in Nat
BY PlatformAssumption DEF Scenario, Careful, CallsMayFail, MaxStops, MaxCrashes

\* What a step of node n may do to the funds: it touches its own only.
Settles(n) ==
    \/ UNCHANGED escrow
    \/ Bank!Allocate(n) \/ Bank!Pay(n) \/ Bank!Free(n) \/ Bank!Save({n})
    \/ Bank!Crash({n}) /\ \A k \in Nodes : crashes[k] < MaxCrashes

\* The maker settles no funds but its own.
LEMMA MakerSettles == ASSUME MakerNext PROVE Settles(Maker)
<1>1. CASE NewMaker
  BY <1>1 DEF Settles, NewMaker
<1>2. CASE CancelFreesFunds
  BY <1>2 DEF Settles, CancelFreesFunds, FreeFunds, purse
<1>3. CASE MakerReleases
  BY <1>3 DEF Settles, MakerReleases, SendFunds, SendFundsFails, purse
<1>4. CASE StopMakerPurse
  BY <1>4 DEF Settles, StopMakerPurse, StopPurse
<1>5. CASE CrashMaker
  BY <1>5 DEF Settles, CrashMaker, PlatformCrash
<1>6. ASSUME MakerUser, ~NewMaker, ~MakerReleases PROVE UNCHANGED escrow
  BY <1>6 DEF MakerUser, RegisterMaker, UnregisterMaker, PostNewOrder, CancelOrder,
     AcceptOffer, RejectOffer, MakerNotifies, MakerCompletes, platform, purse
<1>7. ASSUME MakerNotif PROVE UNCHANGED escrow
  BY <1>7 DEF MakerNotif, OfferNotif, OfferNotifInUnexpectedState, MakerPeerNotif, MakerPeerNotifOfStranger, purse
<1>8. ASSUME MakerSendsPeerMessage \/ PersistMaker \/ StopMaker \/ RestoreMaker
      PROVE  UNCHANGED escrow
  BY <1>8 DEF MakerSendsPeerMessage, PersistMaker, StopMaker, RestoreMaker, PlatformStart,
     platform, purse
<1>9. QED
  BY <1>1, <1>2, <1>3, <1>4, <1>5, <1>6, <1>7, <1>8
  DEF Settles, MakerNext, MakerContinues, MakerProcess, MakerShutsDown

\* A taker settles no funds but its own.
LEMMA TakerSettles == ASSUME NEW t \in Takers, TakerNext(t) PROVE Settles(t)
<1>1. CASE NewTaker(t)
  BY <1>1 DEF Settles, NewTaker
<1>2. CASE TakerReleases(t) \/ AutoRemit(t)
  BY <1>2 DEF Settles, TakerReleases, AutoRemit, Remit, SendFunds, SendFundsFails, purse
<1>3. CASE StopTakerPurse(t)
  BY <1>3 DEF Settles, StopTakerPurse, StopPurse
<1>4. CASE CrashTaker(t)
  BY <1>4 DEF Settles, CrashTaker, PlatformCrash
<1>5. ASSUME TakerUser(t), ~NewTaker(t), ~TakerReleases(t) PROVE UNCHANGED escrow
  BY <1>5 DEF TakerUser, RegisterTaker, UnregisterTaker, TakeOrder, TakerNotifies,
     TakerCompletes, platform, purse
<1>6. ASSUME NEW m \in Messages, RejectToBuyer(t, m) PROVE Settles(t)
  BY <1>6 DEF Settles, RejectToBuyer, FreeFunds, purse
<1>7. ASSUME NEW m \in Messages,
             \/ TradeRspDropped(t, m) \/ TradeRspToSeller(t, m)
             \/ AcceptToBuyer(t, m) \/ AcceptPanics(t, m)
             \/ TakerPeerNotif(t, m) \/ TakerPeerNotifPanics(t, m)
      PROVE  UNCHANGED escrow
  BY <1>7 DEF TradeRspDropped, TradeRspToSeller, AcceptToBuyer, AcceptPanics,
     TakerPeerNotif, TakerPeerNotifPanics, purse
<1>8. ASSUME TakerSendsPeerMessage(t) \/ PersistTaker(t) \/ StopTaker(t) \/ RestoreTaker(t)
      PROVE  UNCHANGED escrow
  BY <1>8 DEF TakerSendsPeerMessage, PersistTaker, StopTaker, RestoreTaker, PlatformStart,
     platform, purse
<1>9. QED
  BY <1>1, <1>2, <1>3, <1>4, <1>5, <1>6, <1>7, <1>8
  DEF Settles, TakerNext, TakerNotif, TakerContinues, TakerProcess, TakerShutsDown

\* Whatever happens to the funds is a step of one node with its own.
LEMMA FundsSettled ==
  ASSUME scenario \in Scenarios, [Next]_vars
  PROVE  UNCHANGED escrow \/ \E n \in Nodes : Settles(n)
<1>1. Maker \in Nodes /\ Takers \subseteq Nodes /\ scenario.takers \subseteq Takers
  BY Setting DEF Nodes
<1>2. ASSUME NEW n \in Nodes, PersistFunds(n) PROVE Settles(n)
  BY <1>2 DEF PersistFunds, Settles
<1>3. UNCHANGED vars => UNCHANGED escrow
  BY DEF vars, platform, purse
<1>4. QED
  BY <1>1, <1>2, <1>3, MakerSettles, TakerSettles DEF Next

\* Every step of a trade is a step of the escrow, or leaves it alone: what is
\* proved of Escrow.tla is true of the funds of a trade.
LEMMA EscrowStep == scenario \in Scenarios /\ [Next]_vars => [Bank!Next]_(Bank!vars)
BY FundsSettled DEF Settles, Bank!Next, Bank!vars, escrow

\* What a handler puts on the relays is a message.
LEMMA MessageTypes ==
  ASSUME NEW kind \in {"Offer", "Accept", "Reject", "TakerPeer", "MakerPeer"}, NEW t \in Takers
  PROVE  Message(kind, t) \in Messages
BY DEF Message, Messages

\* n3xb keeps and hands over messages only.
LEMMA ExchangeTypes ==
  ASSUME PlatformTypeOK, NEW n, NEW in \in SUBSET Messages, NEW out \in SUBSET Messages,
         Exchange(n, in, out)
  PROVE  sent' \in SUBSET Messages /\ seen' \in [Nodes -> SUBSET Messages]
BY DEF PlatformTypeOK, Exchange

\* A taker that gets a state has the data of a taker.
LEMMA TakerDataTypes ==
  ASSUME NEW d \in TakerData \cup {NoTaker}, NEW state \in TakerStates
  PROVE  [d EXCEPT !.state = state] \in TakerData
<1>1. CASE d \in TakerData
  BY <1>1 DEF TakerData
<1>2. CASE d = NoTaker
  BY <1>2 DEF TakerData, NoTaker
<1>3. QED
  BY <1>1, <1>2

\* Every step preserves the types.
LEMMA NextTypes == TypeOK /\ Bank!IInv /\ [Next]_vars => TypeOK'
<1> SUFFICES ASSUME TypeOK, Bank!IInv, [Next]_vars PROVE TypeOK'
  OBVIOUS
<1> USE DEF TypeOK, MakerTypeOK, TakerTypeOK
<1>1. Bank!TypeOK'
  BY EscrowStep, Bank!NextIInv DEF Bank!IInv, PlatformTypeOK
<1>2. Maker \in Nodes /\ Takers \subseteq Nodes /\ NoOne \notin Takers
  BY PlatformAssumption DEF Nodes
<1>3. scenario.takers \subseteq Takers
  BY Setting DEF PlatformTypeOK
<1>4. /\ \A m \in Messages : m.taker \in Takers
      /\ NoMaker.state = "Absent" /\ NoTaker.state = "Absent"
  BY DEF Messages, NoMaker, NoTaker
<1>5. ASSUME NEW state \in MakerStates, SetMakerState(state) PROVE maker' \in MakerData
  BY <1>5 DEF SetMakerState, MakerData, NoMaker
<1>6. ASSUME MakerNext, OfMaker PROVE TypeOK'
  <2>1. TakerTypeOK' /\ scenario' = scenario /\ orderType' = orderType
    BY <1>6 DEF OfMaker, takerVars
  <2> USE <1>1, <1>2, <1>4, <2>1 DEF PlatformTypeOK
  <2>0. \A m \in Messages : {m} \in SUBSET Messages /\ {} \in SUBSET Messages
    OBVIOUS
  <2>2. CASE NewMaker
    BY <2>2, <1>5 DEF NewMaker, relay, MakerStates
  <2>3. CASE RegisterMaker \/ UnregisterMaker
    BY <2>3 DEF RegisterMaker, UnregisterMaker, platform, relay, purse
  <2>4. CASE PostNewOrder \/ CancelOrder
    BY <2>4, <1>5 DEF PostNewOrder, CancelOrder, purse, MakerStates, MakerPcs
  <2>5. CASE CancelFreesFunds
    BY <2>5, <1>5 DEF CancelFreesFunds, FreeFunds, purse, relay, MakerStates, MakerPcs
  <2>6. ASSUME NEW t \in Takers, AcceptOffer(t) PROVE TypeOK'
    <3>1. [maker EXCEPT !.peer = t, !.state = "AcceptedOffer"] \in MakerData
      <4>1. maker \in MakerData
        BY <2>6 DEF AcceptOffer, MakerServes
      <4>2. QED
        BY <4>1 DEF MakerData, MakerStates
    <3>2. maker' \in MakerData \cup {NoMaker}
      BY <2>6, <3>1 DEF AcceptOffer, MakerCallPanics
    <3>3. {Message("Accept", t)} \in SUBSET Messages /\ {} \in SUBSET Messages
      BY MessageTypes
    <3>4. sent' \in SUBSET Messages /\ seen' \in [Nodes -> SUBSET Messages]
      BY <2>6, <3>3, ExchangeTypes DEF AcceptOffer, MakerCallPanics
    <3>5. QED
      BY <2>6, <3>2, <3>4 DEF AcceptOffer, MakerCallPanics, purse, MakerPcs
  <2>7. ASSUME NEW t \in Takers, RejectOffer(t) PROVE TypeOK'
    BY <2>7, MessageTypes, ExchangeTypes DEF RejectOffer, MakerCallPanics, purse, MakerPcs
  <2>8. CASE MakerReleases
    BY <2>8 DEF MakerReleases, SendFunds, SendFundsFails, purse, relay, MakerPcs,
       MakerData, NoMaker
  <2>9. CASE MakerNotifies \/ MakerCompletes
    BY <2>9, <1>5 DEF MakerNotifies, MakerCompletes, platform, purse, relay, MakerPcs,
       MakerStates
  <2>10. CASE MakerSendsPeerMessage
    BY <2>10, <1>5, MessageTypes, ExchangeTypes DEF MakerSendsPeerMessage, purse,
       MakerPcs, MakerStates
  <2>11. ASSUME NEW m \in Messages, OfferNotif(m) PROVE TypeOK'
    <3>1. maker' \in MakerData \cup {NoMaker}
      <4>1. maker \in MakerData /\ maker.offers \cup {m.taker} \in SUBSET Takers
        BY <2>11 DEF OfferNotif, MakerReceives, MakerServes, MakerData
      <4>2. ASSUME NEW offers \in SUBSET Takers
            PROVE  [maker EXCEPT !.offers = offers, !.state = "ReceivedOffer"] \in MakerData
        BY <4>1 DEF MakerData, MakerStates
      <4>3. QED
        BY <2>11, <4>1, <4>2 DEF OfferNotif
    <3>2. sent' \in SUBSET Messages /\ seen' \in [Nodes -> SUBSET Messages]
      BY <2>11, <2>0, ExchangeTypes DEF OfferNotif
    <3>3. QED
      BY <2>11, <3>1, <3>2 DEF OfferNotif, purse
  <2>12. ASSUME NEW m \in Messages, OfferNotifInUnexpectedState(m) PROVE TypeOK'
    <3>1. {Message("Reject", m.taker)} \in SUBSET Messages
      BY MessageTypes
    <3>2. sent' \in SUBSET Messages /\ seen' \in [Nodes -> SUBSET Messages]
      BY <2>12, <2>0, <3>1, ExchangeTypes DEF OfferNotifInUnexpectedState, MakerCallPanics
    <3>3. QED
      BY <2>12, <3>2 DEF OfferNotifInUnexpectedState, MakerCallPanics, purse, MakerPcs
  <2>13. ASSUME NEW m \in Messages, MakerPeerNotif(m) PROVE TypeOK'
    <3>1. maker' \in MakerData \cup {NoMaker}
      <4>1. maker \in MakerData /\ m.taker \in Takers
        BY <2>13 DEF MakerPeerNotif, MakerReceives, MakerServes
      <4>2. ASSUME NEW state \in MakerStates
            PROVE  [maker EXCEPT !.message = m.taker, !.state = state] \in MakerData
        BY <4>1 DEF MakerData
      <4> DEFINE state == IF IsBuy THEN "InboundFcNotified" ELSE "InboundBtcNotified"
      <4>3. state \in MakerStates
        BY DEF MakerStates
      <4>4. [maker EXCEPT !.message = m.taker, !.state = state] \in MakerData
        BY <4>2, <4>3
      <4>5. \/ maker' = [maker EXCEPT !.message = m.taker, !.state = state]
            \/ maker' = maker
        BY <2>13 DEF MakerPeerNotif
      <4> HIDE DEF state
      <4>6. QED
        BY <4>1, <4>4, <4>5
    <3>2. sent' \in SUBSET Messages /\ seen' \in [Nodes -> SUBSET Messages]
      BY <2>13, <2>0, ExchangeTypes DEF MakerPeerNotif
    <3>3. QED
      BY <2>13, <3>1, <3>2 DEF MakerPeerNotif, purse
  <2>13a. ASSUME NEW m \in Messages, MakerPeerNotifOfStranger(m) PROVE TypeOK'
    <3>1. sent' \in SUBSET Messages /\ seen' \in [Nodes -> SUBSET Messages]
      BY <2>13a, <2>0, ExchangeTypes DEF MakerPeerNotifOfStranger
    <3>2. QED
      BY <2>13a, <3>1 DEF MakerPeerNotifOfStranger, purse, MakerPcs
  <2>14. CASE PersistMaker \/ StopMaker
    BY <2>14, Setting DEF PersistMaker, StopMaker, CountStop, platform, purse, relay,
       MakerPcs
  <2>15. CASE StopMakerPurse
    BY <2>15, Setting DEF StopMakerPurse, StopPurse, CountStop, relay, makerVars
  <2>16. CASE CrashMaker \/ RestoreMaker
    BY <2>16 DEF CrashMaker, RestoreMaker, PlatformCrash, PlatformStart, relay, purse,
       MakerPcs
  <2>17. QED
    BY <1>6, <2>2, <2>3, <2>4, <2>5, <2>6, <2>7, <2>8, <2>9, <2>10, <2>11, <2>12, <2>13,
       <2>13a, <2>14, <2>15, <2>16
    DEF MakerNext, MakerUser, MakerNotif, MakerContinues, MakerProcess, MakerShutsDown
<1>7. ASSUME NEW t \in Takers, TakerNext(t), OfTaker PROVE TypeOK'
  <2>0. \A m \in Messages : {m} \in SUBSET Messages /\ {} \in SUBSET Messages
    OBVIOUS
  <2>1. MakerTypeOK' /\ scenario' = scenario /\ orderType' = orderType
    BY <1>7 DEF OfTaker, makerVars
  <2>3. ASSUME NEW state \in TakerStates, SetTakerState(t, state)
        PROVE  taker' \in [Takers -> TakerData \cup {NoTaker}]
    <3>1. [taker[t] EXCEPT !.state = state] \in TakerData
      BY TakerDataTypes
    <3>2. taker' = [taker EXCEPT ![t] = [taker[t] EXCEPT !.state = state]]
      BY <2>3 DEF SetTakerState
    <3>3. QED
      BY <3>1, <3>2
  <2>4. ASSUME NEW pc \in TakerPcs, GoTo(t, pc) PROVE takerPc' \in [Takers -> TakerPcs]
    BY <2>4 DEF GoTo
  <2> USE <1>1, <1>2, <1>4, <2>1 DEF PlatformTypeOK
  <2>5. CASE NewTaker(t)
    BY <2>5, <2>3 DEF NewTaker, relay, TakerStates
  <2>6. CASE RegisterTaker(t) \/ UnregisterTaker(t)
    BY <2>6 DEF RegisterTaker, UnregisterTaker, platform, relay, purse
  <2>7. CASE TakeOrder(t)
    BY <2>7, <2>3, MessageTypes, ExchangeTypes DEF TakeOrder, purse, TakerStates
  <2>8. CASE TakerNotifies(t) \/ TakerCompletes(t)
    BY <2>8, <2>3, <2>4 DEF TakerNotifies, TakerCompletes, platform, purse, relay,
       TakerStates, TakerPcs
  <2>9. CASE TakerReleases(t) \/ AutoRemit(t)
    BY <2>9, <2>4 DEF TakerReleases, AutoRemit, Remit, SendFunds, SendFundsFails, purse,
       relay, TakerPcs
  <2>10. CASE TakerSendsPeerMessage(t)
    BY <2>10, <2>3, <2>4, MessageTypes, ExchangeTypes DEF TakerSendsPeerMessage, purse,
       TakerPcs, TakerStates
  <2>11. ASSUME NEW m \in Messages,
                \/ TradeRspDropped(t, m) \/ TradeRspToSeller(t, m)
                \/ AcceptToBuyer(t, m) \/ AcceptPanics(t, m) \/ RejectToBuyer(t, m)
                \/ TakerPeerNotif(t, m) \/ TakerPeerNotifPanics(t, m)
        PROVE  TypeOK'
    <3>1. TakerReceives(t, m)
      BY <2>11 DEF TradeRspDropped, TradeRspToSeller, AcceptToBuyer, AcceptPanics,
         RejectToBuyer, TakerPeerNotif, TakerPeerNotifPanics
    <3>2. sent' \in SUBSET Messages /\ seen' \in [Nodes -> SUBSET Messages]
      BY <3>1, <2>0, ExchangeTypes DEF TakerReceives
    <3>3. taker' \in [Takers -> TakerData \cup {NoTaker}]
      <4>1. CASE AcceptToBuyer(t, m)
        BY <4>1 DEF AcceptToBuyer, TakerData, TakerStates
      <4>2. CASE TradeRspToSeller(t, m)
        BY <4>2, <2>3 DEF TradeRspToSeller, TakerStates
      <4>3. CASE RejectToBuyer(t, m)
        BY <4>3, <2>3 DEF RejectToBuyer, TakerStates
      <4>4. CASE \/ TradeRspDropped(t, m) \/ AcceptPanics(t, m)
                 \/ TakerPeerNotif(t, m) \/ TakerPeerNotifPanics(t, m)
        BY <4>4, <2>3 DEF TradeRspDropped, AcceptPanics, TakerPeerNotif,
           TakerPeerNotifPanics, TakerStates
      <4>5. QED
        BY <2>11, <4>1, <4>2, <4>3, <4>4
    <3>4. takerPc' \in [Takers -> TakerPcs] /\ payees' = payees
      BY <2>11, <2>4 DEF TradeRspDropped, TradeRspToSeller, AcceptToBuyer, AcceptPanics,
         RejectToBuyer, TakerPeerNotif, TakerPeerNotifPanics, TakerPcs, FreeFunds, purse
    <3>5. QED
      BY <3>1, <3>2, <3>3, <3>4 DEF TakerReceives
  <2>14. CASE PersistTaker(t) \/ StopTaker(t)
    BY <2>14, <2>4, Setting DEF PersistTaker, StopTaker, CountStop, platform, purse,
       relay, TakerPcs
  <2>15. CASE StopTakerPurse(t)
    BY <2>15, Setting DEF StopTakerPurse, StopPurse, CountStop, relay, takerVars
  <2>16. CASE CrashTaker(t) \/ RestoreTaker(t)
    BY <2>16, <2>4 DEF CrashTaker, RestoreTaker, PlatformCrash, PlatformStart, relay,
       purse, TakerPcs
  <2>17. QED
    BY <1>7, <2>5, <2>6, <2>7, <2>8, <2>9, <2>10, <2>11, <2>14, <2>15, <2>16
    DEF TakerNext, TakerUser, TakerNotif, TakerContinues, TakerProcess, TakerShutsDown
<1>8. ASSUME NEW n \in Nodes, PersistFunds(n),
             UNCHANGED <<scenario, orderType, makerVars, takerVars>>
      PROVE  TypeOK'
  BY <1>8, <1>1 DEF PersistFunds, PlatformTypeOK, relay, makerVars, takerVars
<1>9. CASE UNCHANGED vars
  BY <1>9, <1>1 DEF vars, platform, relay, purse, makerVars, takerVars, PlatformTypeOK
<1>10. QED
  BY <1>3, <1>6, <1>7, <1>8, <1>9 DEF Next

\* The types hold at first.
LEMMA InitTypes == Init => TypeOK /\ Bank!IInv
<1> SUFFICES ASSUME Init PROVE TypeOK /\ Bank!IInv
  OBVIOUS
<1>1. Bank!IInv
  BY Bank!InitIInv DEF Init, PlatformInit
<1>2. PlatformTypeOK
  BY <1>1 DEF Bank!IInv, Init, PlatformInit, PlatformTypeOK
<1>3. MakerTypeOK
  BY DEF Init, MakerInit, MakerTypeOK, MakerPcs
<1>4. TakerTypeOK
  BY DEF Init, TakerInit, TakerTypeOK, TakerPcs
<1>5. QED
  BY <1>1, <1>2, <1>3, <1>4 DEF TypeOK

\* The types, and the inductive invariant of the escrow.
Types == TypeOK /\ Bank!IInv

\* The types, and what Escrow.tla says of the funds, hold at all times.
LEMMA TypesInvariance == Spec => []Types
<1>1. Types /\ [Next]_vars => Types'
  BY NextTypes, EscrowStep, Bank!NextIInv DEF Types, TypeOK, PlatformTypeOK
<1>2. QED
  BY <1>1, InitTypes, PTL DEF Types, Spec

\* Every variable of the trade keeps its type, in every scenario and for any
\* set of takers (maker/data.rs, taker/data.rs and what they run on).
THEOREM TradeTypeOK == Spec => []TypeOK
BY TypesInvariance, PTL DEF Types

\* The takers that offered.
Offered == {t \in Takers : Message("Offer", t) \in sent}

\* A step that sends nothing changes nothing of what was said.
LEMMA Quiet == ASSUME sent' = sent PROVE UNCHANGED <<Offered, Agreed, Taken, Given>>
BY DEF Offered, Agreed, Accepted, Taken, Given, Message

\* What a message adds to what was said.
LEMMA Said ==
  ASSUME NEW kind, NEW t \in Takers, sent' = sent \cup {Message(kind, t)}
  PROVE  /\ Offered' = IF kind = "Offer" THEN Offered \cup {t} ELSE Offered
         /\ Agreed' = IF kind = "Accept" THEN Agreed \cup {t} ELSE Agreed
         /\ Taken' = IF kind = "TakerPeer" THEN Taken \cup {t} ELSE Taken
         /\ Given' = IF kind = "MakerPeer" THEN Given \cup {t} ELSE Given
BY DEF Offered, Agreed, Accepted, Taken, Given, Message

\* accept_offer sends the acceptance and records whom it went to, or panics on
\* the answer of n3xb (maker.rs).
LEMMA AcceptOrPanic ==
  ASSUME Types, NEW t \in Takers, AcceptOffer(t)
  PROVE  /\ maker \in MakerData /\ makerPc = "idle" /\ t \in maker.offers
         /\ Careful => maker.state = "ReceivedOffer"
         /\ \/ /\ Agreed' = Agreed \cup {t} /\ counterpart' = t
               /\ maker'.state = "AcceptedOffer" /\ maker'.peer = t
               /\ maker'.offers = maker.offers /\ maker'.message = maker.message
               /\ makerPc' = makerPc
            \/ /\ UNCHANGED <<Agreed, counterpart, maker>>
               /\ makerPc' = "panicked" /\ CallsMayFail
<1>1. maker \in MakerData
  BY DEF AcceptOffer, MakerServes, Types, TypeOK, MakerTypeOK, NoMaker
<1>2. CASE /\ Exchange(Maker, {}, {Message("Accept", t)}) /\ counterpart' = t
           /\ maker' = [maker EXCEPT !.peer = t, !.state = "AcceptedOffer"] /\ UNCHANGED makerPc
  <2>1. Agreed' = Agreed \cup {t}
    BY <1>2, Said DEF Exchange
  <2>2. /\ maker'.state = "AcceptedOffer" /\ maker'.peer = t
        /\ maker'.offers = maker.offers /\ maker'.message = maker.message
    BY <1>1, <1>2 DEF MakerData
  <2>3. QED
    BY <1>1, <1>2, <2>1, <2>2 DEF AcceptOffer, MakerServes
<1>3. CASE MakerCallPanics
  BY <1>1, <1>3, Quiet DEF MakerCallPanics, AcceptOffer, MakerServes
<1>4. QED
  BY <1>2, <1>3 DEF AcceptOffer

\* All a maker can say: it accepts an offer, or claims to the counterpart of
\* its n3xb session to have done its part; a rejection is neither.
LEMMA MakerSays ==
  ASSUME Types, MakerNext
  PROVE  /\ UNCHANGED <<Offered, Taken>>
         /\ \/ UNCHANGED <<Agreed, Given, counterpart>>
            \/ \E t \in Takers : /\ AcceptOffer(t) /\ counterpart' = t
                                 /\ Agreed' = Agreed \cup {t} /\ Given' = Given
            \/ /\ makerPc = "notify" /\ MakerSendsPeerMessage
               /\ counterpart \in Takers /\ Given' = Given \cup {counterpart}
               /\ UNCHANGED <<Agreed, counterpart>>
<1>0. Maker \in Nodes /\ \A m \in Messages : m.taker \in Takers
  BY DEF Nodes, Messages
<1>1. ASSUME NEW t \in Takers, AcceptOffer(t)
      PROVE  \/ sent' = sent /\ counterpart' = counterpart
             \/ /\ sent' = sent \cup {Message("Accept", t)} /\ counterpart' = t
  BY <1>1 DEF AcceptOffer, Exchange, MakerCallPanics
<1>2. ASSUME NEW t \in Takers, RejectOffer(t)
      PROVE  (sent' = sent \/ sent' = sent \cup {Message("Reject", t)}) /\ counterpart' = counterpart
  BY <1>2 DEF RejectOffer, Exchange, MakerCallPanics
<1>3. ASSUME MakerSendsPeerMessage
      PROVE  /\ \/ sent' = sent
                \/ counterpart \in Takers /\ sent' = sent \cup {Message("MakerPeer", counterpart)}
             /\ counterpart' = counterpart /\ makerPc = "notify"
  BY <1>3 DEF MakerSendsPeerMessage, Exchange, Types, TypeOK, PlatformTypeOK
<1>4. ASSUME NEW m \in Messages, OfferNotifInUnexpectedState(m)
      PROVE  (sent' = sent \/ sent' = sent \cup {Message("Reject", m.taker)}) /\ counterpart' = counterpart
  BY <1>4 DEF OfferNotifInUnexpectedState, Exchange, MakerCallPanics
<1>5. ASSUME NEW m \in Messages,
             OfferNotif(m) \/ MakerPeerNotif(m) \/ MakerPeerNotifOfStranger(m)
      PROVE  sent' = sent /\ counterpart' = counterpart
  BY <1>5 DEF OfferNotif, MakerPeerNotif, MakerPeerNotifOfStranger, Exchange
<1>6. ASSUME MakerUser, \A t \in Takers : ~AcceptOffer(t) /\ ~RejectOffer(t)
      PROVE  sent' = sent /\ counterpart' = counterpart
  BY <1>6 DEF MakerUser, NewMaker, RegisterMaker, UnregisterMaker, PostNewOrder,
     CancelOrder,
     MakerReleases, MakerNotifies, MakerCompletes, platform, relay
<1>7. ASSUME CancelFreesFunds \/ MakerProcess PROVE sent' = sent /\ counterpart' = counterpart
  BY <1>7 DEF CancelFreesFunds, MakerProcess, PersistMaker, MakerShutsDown, StopMaker,
     StopMakerPurse,
     StopPurse, CrashMaker, PlatformCrash, RestoreMaker, PlatformStart, platform, relay
<1>8. CASE \E t \in Takers : AcceptOffer(t)
  BY <1>8, <1>1, Quiet, Said
<1>9. CASE MakerSendsPeerMessage
  BY <1>9, <1>3, Quiet, Said
<1>10. ASSUME \A t \in Takers : ~AcceptOffer(t), ~MakerSendsPeerMessage
       PROVE  UNCHANGED <<Offered, Agreed, Given, Taken, counterpart>>
  BY <1>10, <1>0, <1>2, <1>4, <1>5, <1>6, <1>7, Quiet, Said
  DEF MakerNext, MakerUser, MakerNotif, MakerContinues
<1>11. QED
  BY <1>8, <1>9, <1>10

\* All a taker can say: it offers, or claims to have done its part.
LEMMA TakerSays ==
  ASSUME Types, NEW t \in Takers, TakerNext(t)
  PROVE  /\ UNCHANGED <<Agreed, Given, counterpart>>
         /\ Offered' \subseteq Offered \cup {t}
         /\ \/ UNCHANGED Taken
            \/ TakerSendsPeerMessage(t) /\ Taken' = Taken \cup {t}
<1>1. ASSUME TakeOrder(t)
      PROVE  sent' = sent \cup {Message("Offer", t)} /\ counterpart' = counterpart
  BY <1>1 DEF TakeOrder, Exchange
<1>2. ASSUME TakerSendsPeerMessage(t)
      PROVE  (sent' = sent \/ sent' = sent \cup {Message("TakerPeer", t)}) /\ counterpart' = counterpart
  BY <1>2 DEF TakerSendsPeerMessage, Exchange
<1>3. ASSUME NEW m \in Messages, TakerReceives(t, m) PROVE sent' = sent /\ counterpart' = counterpart
  BY <1>3 DEF TakerReceives, Exchange
<1>4. TakerNotif(t) => \E m \in Messages : TakerReceives(t, m)
  BY DEF TakerNotif, TradeRspDropped, TradeRspToSeller, AcceptToBuyer, RejectToBuyer, AcceptPanics, TakerPeerNotifPanics,
     TakerPeerNotif
<1>5. ASSUME TakerUser(t), ~TakeOrder(t) PROVE sent' = sent /\ counterpart' = counterpart
  BY <1>5 DEF TakerUser, NewTaker, RegisterTaker, UnregisterTaker, TakerReleases,
     TakerNotifies,
     TakerCompletes, platform, relay
<1>6. ASSUME AutoRemit(t) \/ TakerProcess(t) PROVE sent' = sent /\ counterpart' = counterpart
  BY <1>6 DEF AutoRemit, TakerProcess, PersistTaker, TakerShutsDown, StopTaker,
     StopTakerPurse,
     StopPurse, CrashTaker, PlatformCrash, RestoreTaker, PlatformStart, platform, relay
<1>7. CASE TakerSendsPeerMessage(t)
  BY <1>7, <1>2, Quiet, Said
<1>8. CASE ~TakerSendsPeerMessage(t)
  BY <1>8, <1>1, <1>3, <1>4, <1>5, <1>6, Quiet, Said DEF TakerNext, TakerContinues
<1>9. QED
  BY <1>7, <1>8

\* A maker pays in release_notify_peer only, the peer that sent it an address.
LEMMA MakerPayments ==
  ASSUME MakerNext
  PROVE  \/ payees' = payees
         \/ MakerReleases /\ SendFunds(Maker, maker.message) /\ makerPc' = "notify"
<1>1. CASE MakerReleases
  BY <1>1 DEF MakerReleases, SendFundsFails, purse
<1>2. ASSUME MakerUser, ~MakerReleases PROVE payees' = payees
  BY <1>2 DEF MakerUser, NewMaker, RegisterMaker, UnregisterMaker, PostNewOrder,
     CancelOrder,
     AcceptOffer, RejectOffer, MakerNotifies, MakerCompletes, platform, purse
<1>3. ASSUME MakerNotif \/ MakerContinues PROVE payees' = payees
  BY <1>3 DEF MakerNotif, OfferNotif, OfferNotifInUnexpectedState, MakerPeerNotif, MakerPeerNotifOfStranger,
     MakerContinues,
     CancelFreesFunds, FreeFunds, MakerSendsPeerMessage, purse
<1>4. ASSUME MakerProcess PROVE payees' = payees
  BY <1>4 DEF MakerProcess, PersistMaker, MakerShutsDown, StopMaker, StopMakerPurse,
     StopPurse, CrashMaker, PlatformCrash, RestoreMaker, PlatformStart, platform, purse
<1>5. QED
  BY <1>1, <1>2, <1>3, <1>4 DEF MakerNext

\* A taker pays when it releases or auto-remits, and pays the maker.
LEMMA TakerPayments ==
  ASSUME Types, NEW t \in Takers, TakerNext(t)
  PROVE  \/ payees' = payees
         \/ /\ TakerReleases(t) \/ AutoRemit(t)
            /\ SendFunds(t, Maker) /\ takerPc' = [takerPc EXCEPT ![t] = "notify"]
<1>1. CASE TakerReleases(t) \/ AutoRemit(t)
  BY <1>1 DEF TakerReleases, AutoRemit, Remit, SendFundsFails, GoTo, purse
<1>2. ASSUME TakerUser(t), ~TakerReleases(t) PROVE payees' = payees
  BY <1>2 DEF TakerUser, NewTaker, RegisterTaker, UnregisterTaker, TakeOrder,
     TakerNotifies,
     TakerCompletes, platform, purse
<1>3. ASSUME TakerNotif(t) PROVE payees' = payees
  BY <1>3 DEF TakerNotif, TradeRspDropped, TradeRspToSeller, AcceptToBuyer, RejectToBuyer, AcceptPanics, TakerPeerNotifPanics,
     TakerPeerNotif, FreeFunds, purse
<1>4. ASSUME TakerSendsPeerMessage(t) \/ TakerProcess(t) PROVE payees' = payees
  BY <1>4 DEF TakerSendsPeerMessage, TakerProcess, PersistTaker, TakerShutsDown,
     StopTaker,
     StopTakerPurse, StopPurse, CrashTaker, PlatformCrash, RestoreTaker, PlatformStart,
     platform, purse
<1>5. QED
  BY <1>1, <1>2, <1>3, <1>4 DEF TakerNext, TakerContinues

\* A taker with these data was accepted, as far as it knows.
Convinced(d) ==
    \/ d.address # "none"
    \/ d.state \in {"OfferAccepted", "InboundBtcNotified", "InboundFcNotified"}
    \/ Careful /\ d.state \in {"NotifiedOutbound", "TradeCompleted"}

\* What is said follows the agreement: whoever takes itself for a party of the
\* trade, in memory or in its file, was accepted; takers claim nothing and pay
\* nobody before.
Truth ==
    /\ counterpart # NoOne => counterpart \in Agreed
    /\ Given \subseteq Agreed
    /\ \A t \in Takers : Convinced(taker[t]) \/ Convinced(takerDisk[t]) => t \in Agreed
    /\ \A t \in Takers :
         takerPc[t] = "remit" \/ (Careful /\ takerPc[t] = "notify") => t \in Agreed
    /\ Careful => Taken \subseteq Agreed
    /\ \A t \in Takers : payees[t] \subseteq {n \in {Maker} : t \in Agreed}

\* Steps of the maker preserve Truth.
LEMMA MakerKeepsTruth == ASSUME Types, Truth, MakerNext, OfMaker PROVE Truth'
<1>1. UNCHANGED <<scenario, taker, takerDisk, takerPc>>
  BY DEF OfMaker, takerVars
<1>2. Agreed \subseteq Agreed' /\ Taken' = Taken
  BY MakerSays
<1>3. counterpart' # NoOne => counterpart' \in Agreed'
  BY MakerSays DEF Truth
<1>4. Given' \subseteq Agreed'
  BY MakerSays, PlatformAssumption DEF Truth
<1>5. \A t \in Takers : payees'[t] = payees[t]
  BY MakerPayments, PlatformAssumption DEF SendFunds, Types, TypeOK, PlatformTypeOK, Nodes
<1>6. QED
  BY <1>1, <1>2, <1>3, <1>4, <1>5 DEF Truth, Convinced, Careful

\* A taker leaves the data and the actors of the others alone.
LEMMA TakerAlone ==
  ASSUME Types, NEW t \in Takers, TakerNext(t), NEW u \in Takers \ {t}
  PROVE  taker'[u] = taker[u] /\ takerDisk'[u] = takerDisk[u] /\ takerPc'[u] = takerPc[u]
<1> USE DEF Types, TypeOK, TakerTypeOK
<1>1. CASE TakerUser(t)
  BY <1>1 DEF TakerUser, NewTaker, RegisterTaker, UnregisterTaker, TakeOrder,
     TakerNotifies,
     TakerReleases, Remit, TakerCompletes, SetTakerState, GoTo
<1>2. CASE TakerNotif(t)
  BY <1>2 DEF TakerNotif, TakerReceives, TradeRspDropped, TradeRspToSeller,
     AcceptToBuyer, RejectToBuyer, AcceptPanics, TakerPeerNotifPanics,
     TakerPeerNotif, SetTakerState, GoTo
<1>3. CASE TakerContinues(t)
  BY <1>3 DEF TakerContinues, AutoRemit, Remit, TakerSendsPeerMessage, SetTakerState, GoTo
<1>4. CASE TakerProcess(t)
  BY <1>4 DEF TakerProcess, PersistTaker, TakerShutsDown, StopTaker, StopTakerPurse,
     CrashTaker,
     RestoreTaker, GoTo, takerVars
<1>5. QED
  BY <1>1, <1>2, <1>3, <1>4 DEF TakerNext

\* n3xb hands a taker an acceptance or a claim only if the maker sent it one.
LEMMA TakerHears ==
  ASSUME NEW t \in Takers, NEW m \in Messages, TakerReceives(t, m)
  PROVE  /\ m.kind = "Accept" => t \in Agreed
         /\ m.kind = "MakerPeer" => t \in Given
<1>1. m \in sent /\ Recipient(m) = t
  BY DEF TakerReceives, Waiting
<1>2. m.kind \in {"Accept", "MakerPeer"} => m.taker = t
  BY <1>1 DEF Recipient
<1>3. m = Message(m.kind, m.taker)
  BY DEF Messages, Message
<1>4. QED
  BY <1>1, <1>2, <1>3 DEF Agreed, Accepted, Given

\* What setting the state of a taker does to its data.
LEMMA TakerState ==
  ASSUME Types, NEW t \in Takers, NEW state, SetTakerState(t, state)
  PROVE  taker'[t].state = state /\ taker'[t].address = taker[t].address
<1>1. taker[t] \in TakerData \cup {NoTaker}
  BY DEF Types, TypeOK, TakerTypeOK
<1>2. taker'[t] = [taker[t] EXCEPT !.state = state]
  BY DEF SetTakerState, Types, TypeOK, TakerTypeOK
<1>3. CASE taker[t] \in TakerData
  BY <1>2, <1>3 DEF TakerData
<1>4. CASE taker[t] = NoTaker
  BY <1>2, <1>4 DEF NoTaker
<1>5. QED
  BY <1>1, <1>3, <1>4

\* Steps of a taker preserve Truth: it is convinced by an acceptance, by a
\* claim of the maker, or by what its own file says of the time before.
LEMMA TakerKeepsTruth ==
  ASSUME Types, Truth, NEW t \in Takers, TakerNext(t), OfTaker
  PROVE  Truth'
<1>1. scenario' = scenario /\ Agreed' = Agreed /\ Given' = Given /\ counterpart' = counterpart
  BY TakerSays DEF OfTaker
<1>2. Convinced(taker[t]) \/ Convinced(takerDisk[t]) => t \in Agreed
  BY DEF Truth
<1>3. Convinced(taker[t])' \/ Convinced(takerDisk[t])' => t \in Agreed
  <2>1. ASSUME NEW state, SetTakerState(t, state), takerDisk' = takerDisk,
               Convinced([state |-> state, address |-> "none"]) => t \in Agreed
        PROVE  Convinced(taker[t])' \/ Convinced(takerDisk[t])' => t \in Agreed
    BY <2>1, <1>1, <1>2, TakerState DEF Convinced, Careful
  <2>2. ASSUME taker'[t] \in {taker[t], takerDisk[t]}, takerDisk'[t] \in {taker[t], takerDisk[t]}
        PROVE  Convinced(taker[t])' \/ Convinced(takerDisk[t])' => t \in Agreed
    BY <2>2, <1>1, <1>2 DEF Convinced, Careful
  <2>3. CASE NewTaker(t) \/ TakeOrder(t)
    BY <2>1, <2>3 DEF NewTaker, TakeOrder, Convinced
  <2>4. CASE RegisterTaker(t) \/ UnregisterTaker(t) \/ TakerNotifies(t) \/ TakerReleases(t)
    BY <2>2, <2>4 DEF RegisterTaker, UnregisterTaker, TakerNotifies, TakerReleases
  <2>5. CASE TakerCompletes(t)
    BY <2>1, <2>5, <1>2 DEF TakerCompletes, Convinced
  <2>6. ASSUME NEW m \in Messages, TradeRspDropped(t, m)
        PROVE  Convinced(taker[t])' \/ Convinced(takerDisk[t])' => t \in Agreed
    BY <2>2, <2>6 DEF TradeRspDropped, TakerReceives
  <2>7. ASSUME NEW m \in Messages, TradeRspToSeller(t, m)
        PROVE  Convinced(taker[t])' \/ Convinced(takerDisk[t])' => t \in Agreed
    BY <2>1, <2>7, TakerHears DEF TradeRspToSeller, TakerReceives, Convinced
  <2>8. ASSUME NEW m \in Messages, AcceptToBuyer(t, m)
        PROVE  t \in Agreed
    BY <2>8, TakerHears DEF AcceptToBuyer
  <2>9. ASSUME NEW m \in Messages, RejectToBuyer(t, m)
        PROVE  Convinced(taker[t])' \/ Convinced(takerDisk[t])' => t \in Agreed
    BY <2>1, <2>2, <2>9 DEF RejectToBuyer, TakerReceives, Convinced
  <2>10. ASSUME NEW m \in Messages, TakerPeerNotif(t, m)
        PROVE  Convinced(taker[t])' \/ Convinced(takerDisk[t])' => t \in Agreed
    <3>1. t \in Agreed
      BY <2>10, TakerHears DEF TakerPeerNotif, Truth
    <3>2. QED
      BY <3>1
  <2>10a. ASSUME NEW m \in Messages, AcceptPanics(t, m) \/ TakerPeerNotifPanics(t, m)
          PROVE  Convinced(taker[t])' \/ Convinced(takerDisk[t])' => t \in Agreed
    BY <2>2, <2>10a DEF AcceptPanics, TakerPeerNotifPanics, TakerReceives
  <2>11. CASE AutoRemit(t)
    BY <2>2, <2>11 DEF AutoRemit
  <2>12. CASE TakerSendsPeerMessage(t)
    BY <2>1, <2>2, <2>12 DEF TakerSendsPeerMessage, Convinced, Truth
  <2>13. CASE TakerProcess(t)
    <3>1. takerDisk'[t] \in {taker[t], takerDisk[t]} /\ taker'[t] \in {taker[t], takerDisk[t]}
      BY <2>13 DEF TakerProcess, PersistTaker, TakerShutsDown, StopTaker, StopTakerPurse,
         CrashTaker,
         RestoreTaker, takerVars, Types, TypeOK, TakerTypeOK
    <3>2. QED
      BY <2>2, <3>1
  <2>14. QED
    BY <2>3, <2>4, <2>5, <2>6, <2>7, <2>8, <2>9, <2>10, <2>10a, <2>11, <2>12, <2>13
    DEF TakerNext, TakerUser, TakerNotif, TakerContinues
<1>4. takerPc'[t] = "remit" \/ (Careful /\ takerPc'[t] = "notify") => t \in Agreed
  <2> USE DEF Types, TypeOK, TakerTypeOK
  <2>1. CASE TakerUser(t)
    BY <2>1, <1>2 DEF TakerUser, NewTaker, RegisterTaker, UnregisterTaker, TakeOrder,
       TakerNotifies,
       TakerReleases, Remit, TakerCompletes, TakerServes, GoTo, Convinced
  <2>2. ASSUME NEW m \in Messages,
               \/ TradeRspDropped(t, m) \/ TradeRspToSeller(t, m)
               \/ AcceptToBuyer(t, m) \/ AcceptPanics(t, m) \/ RejectToBuyer(t, m)
               \/ TakerPeerNotif(t, m) \/ TakerPeerNotifPanics(t, m)
        PROVE  takerPc'[t] = "remit" \/ (Careful /\ takerPc'[t] = "notify") => t \in Agreed
    BY <2>2, TakerHears DEF TradeRspDropped, TradeRspToSeller, AcceptToBuyer, AcceptPanics,
       RejectToBuyer, TakerPeerNotif, TakerPeerNotifPanics, GoTo, Truth
  <2>3. CASE TakerContinues(t)
    BY <2>3 DEF TakerContinues, AutoRemit, Remit, TakerSendsPeerMessage, GoTo, Truth
  <2>4. CASE TakerProcess(t)
    BY <2>4 DEF TakerProcess, PersistTaker, TakerShutsDown, StopTaker, StopTakerPurse,
       CrashTaker,
       RestoreTaker, GoTo, takerVars, Truth
  <2>5. QED
    BY <2>1, <2>2, <2>3, <2>4 DEF TakerNext, TakerNotif
<1>5. Careful => Taken' \subseteq Agreed
  <2>1. TakerSendsPeerMessage(t) => takerPc[t] = "notify"
    BY DEF TakerSendsPeerMessage
  <2>2. Taken' = Taken \/ (takerPc[t] = "notify" /\ Taken' = Taken \cup {t})
    BY <2>1, TakerSays
  <2>3. QED
    BY <2>2 DEF Truth
<1>6. \A u \in Takers : payees'[u] \subseteq {n \in {Maker} : u \in Agreed}
  <2>1. TakerReleases(t) \/ AutoRemit(t) => t \in Agreed
    BY <1>2 DEF TakerReleases, AutoRemit, Convinced, Truth
  <2>2. payees' = payees \/ (t \in Agreed /\ payees' = [payees EXCEPT ![t] = @ \cup {Maker}])
    BY <2>1, TakerPayments DEF SendFunds
  <2>3. payees \in [Nodes -> SUBSET Nodes] /\ Takers \subseteq Nodes
    BY DEF Types, TypeOK, PlatformTypeOK, Nodes
  <2>4. ASSUME NEW u \in Takers, NEW n \in payees'[u] PROVE n = Maker /\ u \in Agreed
    <3>1. n \in payees[u] \/ (n = Maker /\ u = t /\ t \in Agreed)
      BY <2>2, <2>3, <2>4
    <3>2. QED
      BY <3>1 DEF Truth
  <2>5. QED
    BY <2>4
<1>7. QED
  BY <1>1, <1>3, <1>4, <1>5, <1>6, TakerAlone DEF Truth, Convinced, Careful

\* Truth holds at first.
LEMMA InitTruth == Init => Truth
<1> SUFFICES ASSUME Init PROVE Truth
  OBVIOUS
<1>1. Agreed = {} /\ Taken = {} /\ Given = {}
  BY DEF Init, PlatformInit, Agreed, Accepted, Taken, Given
<1>2. counterpart = NoOne /\ \A t \in Takers : payees[t] = {}
  BY DEF Init, PlatformInit, Nodes
<1>3. \A t \in Takers : ~Convinced(taker[t]) /\ ~Convinced(takerDisk[t]) /\ takerPc[t] = "idle"
  BY DEF Init, TakerInit, NoTaker, Convinced
<1>4. QED
  BY <1>1, <1>2, <1>3 DEF Truth

\* Every step preserves Truth.
LEMMA NextTruth == Types /\ Truth /\ [Next]_vars => Truth'
<1> SUFFICES ASSUME Types, Truth, [Next]_vars PROVE Truth'
  OBVIOUS
<1>1. scenario.takers \subseteq Takers
  BY Setting DEF Types, TypeOK, PlatformTypeOK
<1>2. ASSUME UNCHANGED <<relay, payees, scenario, takerVars>> PROVE Truth'
  BY <1>2, Quiet DEF relay, takerVars, Truth, Convinced, Careful
<1>3. CASE UNCHANGED vars
  BY <1>2, <1>3 DEF vars, platform, purse
<1>4. ASSUME NEW n \in Nodes, PersistFunds(n), UNCHANGED <<scenario, takerVars>> PROVE Truth'
  BY <1>2, <1>4 DEF PersistFunds
<1>5. QED
  BY <1>1, <1>3, <1>4, MakerKeepsTruth, TakerKeepsTruth DEF Next

\* Truth holds at all times.
LEMMA TruthInvariance == Spec => []Truth
<1>1. QED
  BY TypesInvariance, InitTruth, NextTruth, PTL DEF Spec

\* A taker that holds itself accepted, or paid, was accepted, whatever crashes,
\* restarts, fails or arrives twice (taker.rs, the handlers of a trade response
\* and of a peer message, and restore).
THEOREM TradeBelievesWhatIsTrue == Spec => []BelievesWhatIsTrue
<1>1. Truth => BelievesWhatIsTrue
  BY DEF Truth, Convinced, BelievesWhatIsTrue, Agreed
<1>2. QED
  BY <1>1, TruthInvariance, PTL

\* Whether it is clear whom a peer message can come from: takers of users who
\* are careful send none before they are accepted.
Exclusive == Careful \/ \A t, u \in scenario.takers : t = u

\* What a maker with these data knows, of whom.
Grounded(d) ==
    /\ d.offers \subseteq scenario.takers
    /\ d.state = "AcceptedOffer" => Agreed # {}
    /\ Exclusive => d.message \in (Agreed \cap Taken) \cup {NoOne}

\* Offers, acceptances and claims are those of takers that are there; what the
\* maker keeps, in memory and in its file, is grounded in them.
Record ==
    /\ Offered \subseteq scenario.takers
    /\ Agreed \subseteq scenario.takers
    /\ Taken \subseteq scenario.takers
    /\ Grounded(maker) /\ Grounded(makerDisk)
    /\ Exclusive => payees[Maker] \subseteq Agreed \cap Taken

\* n3xb hands the maker the offers and the claims of takers that sent them.
LEMMA MakerHears ==
  ASSUME NEW m \in Messages, MakerReceives(m)
  PROVE  /\ m.taker \in Takers
         /\ m.kind = "Offer" => m.taker \in Offered
         /\ m.kind = "TakerPeer" => m.taker \in Taken
<1>1. m \in sent /\ m = Message(m.kind, m.taker) /\ m.taker \in Takers
  BY DEF MakerReceives, Waiting, Messages, Message
<1>2. QED
  BY <1>1 DEF Offered, Taken

\* What setting the state of the maker does to its data.
LEMMA MakerState ==
  ASSUME Types, NEW state, SetMakerState(state)
  PROVE  /\ maker'.state = state
         /\ maker'.offers = maker.offers /\ maker'.peer = maker.peer /\ maker'.message = maker.message
<1>1. CASE maker \in MakerData
  BY <1>1 DEF SetMakerState, MakerData
<1>2. CASE maker = NoMaker
  BY <1>2 DEF SetMakerState, NoMaker
<1>3. QED
  BY <1>1, <1>2 DEF Types, TypeOK, MakerTypeOK

\* The maker's file is the one there was, or brought up to date.
LEMMA MakerFile == ASSUME MakerNext PROVE makerDisk' \in {maker, makerDisk}
<1>1. CASE MakerUser
  BY <1>1 DEF MakerUser, NewMaker, RegisterMaker, UnregisterMaker, PostNewOrder,
     CancelOrder,
     AcceptOffer, RejectOffer, MakerReleases, MakerNotifies, MakerCompletes
<1>2. CASE MakerNotif \/ MakerContinues
  BY <1>2 DEF MakerNotif, OfferNotif, OfferNotifInUnexpectedState, MakerPeerNotif, MakerPeerNotifOfStranger,
     MakerContinues,
     CancelFreesFunds, MakerSendsPeerMessage
<1>3. CASE MakerProcess
  BY <1>3 DEF MakerProcess, PersistMaker, MakerShutsDown, StopMaker, StopMakerPurse,
     CrashMaker,
     RestoreMaker, makerVars
<1>4. QED
  BY <1>1, <1>2, <1>3 DEF MakerNext

\* A maker that serves requests has the data of a maker.
LEMMA MakerServesData == ASSUME Types, MakerServes PROVE maker \in MakerData
BY DEF Types, TypeOK, MakerTypeOK, MakerServes, NoMaker

\* Steps of a taker preserve Record.
LEMMA TakerKeepsRecord ==
  ASSUME Types, Record, NEW t \in scenario.takers, t \in Takers, TakerNext(t), OfTaker
  PROVE  Record'
<1>1. UNCHANGED <<scenario, maker, makerDisk, Agreed>> /\ Taken \subseteq Taken'
  BY TakerSays DEF OfTaker, makerVars
<1>2. Offered' \subseteq scenario.takers /\ Taken' \subseteq scenario.takers
  BY TakerSays DEF Record
<1>3. payees'[Maker] = payees[Maker]
  BY TakerPayments, PlatformAssumption DEF SendFunds, Types, TypeOK, PlatformTypeOK, Nodes
<1>4. QED
  BY <1>1, <1>2, <1>3 DEF Record, Grounded, Exclusive, Careful

\* Steps of the maker preserve Record: the message it stores is of the taker
\* it accepted, because no other taker sends one.
LEMMA MakerKeepsRecord ==
  ASSUME Types, Truth, Record, MakerNext, OfMaker
  PROVE  Record'
<1>1. UNCHANGED <<scenario, Offered, Taken>> /\ Agreed \subseteq Agreed'
  BY MakerSays DEF OfMaker
<1>2. Agreed' \subseteq scenario.takers
  BY MakerSays DEF AcceptOffer, Record, Grounded
<1>3. Exclusive => payees'[Maker] \subseteq Agreed \cap Taken
  <2>1. MakerReleases => maker.message # NoOne
    BY DEF MakerReleases
  <2>2. payees \in [Nodes -> SUBSET Nodes] /\ Maker \in Nodes
    BY DEF Types, TypeOK, PlatformTypeOK, Nodes
  <2>3. QED
    BY <2>1, <2>2, MakerPayments DEF SendFunds, Record, Grounded
<1>4. ASSUME NEW d, Grounded(d) PROVE Grounded(d)'
  BY <1>1, <1>4 DEF Grounded, Exclusive, Careful
<1>5. Grounded(makerDisk)'
  <2>1. makerDisk' \in {maker, makerDisk}
    BY MakerFile
  <2>2. QED
    BY <1>4, <2>1 DEF Record
<1>6. Grounded(maker)'
  <2>1. ASSUME NEW state, SetMakerState(state), state # "AcceptedOffer" PROVE Grounded(maker)'
    BY <1>4, <2>1, MakerState DEF Record, Grounded, Exclusive, Careful
  <2>2. ASSUME maker' \in {maker, makerDisk} PROVE Grounded(maker)'
    BY <1>4, <2>2 DEF Record
  <2>3. CASE NewMaker \/ PostNewOrder \/ MakerCompletes
    BY <2>1, <2>3 DEF NewMaker, PostNewOrder, MakerCompletes
  <2>4. CASE CancelOrder \/ CancelFreesFunds \/ MakerSendsPeerMessage
    BY <2>1, <2>2, <2>4 DEF CancelOrder, CancelFreesFunds, MakerSendsPeerMessage
  <2>5. CASE RegisterMaker \/ UnregisterMaker \/ MakerReleases \/ MakerNotifies
    BY <2>2, <2>5 DEF RegisterMaker, UnregisterMaker, MakerReleases, MakerNotifies
  <2>6. ASSUME NEW t \in Takers, RejectOffer(t) PROVE Grounded(maker)'
    BY <2>2, <2>6 DEF RejectOffer, MakerCallPanics
  <2>7. ASSUME NEW t \in Takers, AcceptOffer(t) PROVE Grounded(maker)'
    BY <1>4, <2>7, AcceptOrPanic DEF Record, Grounded, Exclusive, Careful
  <2>8. ASSUME NEW m \in Messages, OfferNotif(m) PROVE Grounded(maker)'
    <3>1. maker \in MakerData /\ m.taker \in scenario.takers
      BY <2>8, MakerHears, MakerServesData DEF OfferNotif, MakerReceives, Record
    <3>2. \/ maker' = maker
          \/ /\ maker'.offers = maker.offers \cup {m.taker} /\ maker'.state = "ReceivedOffer"
             /\ maker'.message = maker.message
      BY <2>8, <3>1 DEF OfferNotif, MakerData
    <3>3. QED
      BY <1>4, <3>1, <3>2 DEF Record, Grounded, Exclusive, Careful
  <2>9. ASSUME NEW m \in Messages, OfferNotifInUnexpectedState(m) PROVE Grounded(maker)'
    BY <2>2, <2>9 DEF OfferNotifInUnexpectedState, MakerCallPanics
  <2>10. ASSUME NEW m \in Messages, MakerPeerNotif(m) PROVE Grounded(maker)'
    <3>1. maker \in MakerData /\ m.taker \in Taken
      BY <2>10, MakerHears, MakerServesData DEF MakerPeerNotif, MakerReceives
    <3>2. \/ maker' = maker
          \/ /\ maker.state = "AcceptedOffer"
             /\ maker'.offers = maker.offers /\ maker'.state # "AcceptedOffer"
             /\ maker'.message = m.taker
      BY <2>10, <3>1 DEF MakerPeerNotif, MakerData
    <3>3. maker.state = "AcceptedOffer" /\ Exclusive => m.taker \in Agreed
      <4>1. CASE Careful
        BY <4>1, <3>1 DEF Truth
      <4>2. CASE \A t, u \in scenario.takers : t = u
        BY <4>2, <3>1 DEF Record, Grounded
      <4>3. QED
        BY <4>1, <4>2 DEF Exclusive
    <3>4. QED
      BY <1>1, <1>4, <3>1, <3>2, <3>3 DEF Record, Grounded, Exclusive, Careful
  <2>10a. ASSUME NEW m \in Messages, MakerPeerNotifOfStranger(m) PROVE Grounded(maker)'
    BY <2>2, <2>10a DEF MakerPeerNotifOfStranger
  <2>11. CASE MakerProcess
    BY <2>2, <2>11 DEF MakerProcess, PersistMaker, MakerShutsDown, StopMaker,
       StopMakerPurse, CrashMaker,
       RestoreMaker, makerVars
  <2>12. QED
    BY <2>3, <2>4, <2>5, <2>6, <2>7, <2>8, <2>9, <2>10, <2>10a, <2>11
    DEF MakerNext, MakerUser, MakerNotif, MakerContinues
<1>7. QED
  BY <1>1, <1>2, <1>3, <1>5, <1>6 DEF Record, Exclusive, Careful

\* Record holds at first.
LEMMA InitRecord == Init => Record
<1> SUFFICES ASSUME Init PROVE Record
  OBVIOUS
<1>1. Agreed = {} /\ Taken = {} /\ Offered = {}
  BY DEF Init, PlatformInit, Agreed, Accepted, Taken, Offered
<1>2. payees[Maker] = {}
  BY DEF Init, PlatformInit, Nodes
<1>3. Grounded(maker) /\ Grounded(makerDisk)
  BY DEF Init, MakerInit, NoMaker, Grounded
<1>4. QED
  BY <1>1, <1>2, <1>3 DEF Record

\* Every step preserves Record.
LEMMA NextRecord == Types /\ Truth /\ Record /\ [Next]_vars => Record'
<1> SUFFICES ASSUME Types, Truth, Record, [Next]_vars PROVE Record'
  OBVIOUS
<1>1. scenario.takers \subseteq Takers
  BY Setting DEF Types, TypeOK, PlatformTypeOK
<1>2. ASSUME UNCHANGED <<relay, payees, scenario, makerVars>> PROVE Record'
  BY <1>2, Quiet DEF relay, makerVars, Record, Grounded, Exclusive, Careful
<1>3. CASE UNCHANGED vars
  BY <1>2, <1>3 DEF vars, platform, purse
<1>4. ASSUME NEW n \in Nodes, PersistFunds(n), UNCHANGED <<scenario, makerVars>> PROVE Record'
  BY <1>2, <1>4 DEF PersistFunds
<1>5. QED
  BY <1>1, <1>3, <1>4, MakerKeepsRecord, TakerKeepsRecord DEF Next

\* Record holds at all times.
LEMMA RecordInvariance == Spec => []Record
<1>1. QED
  BY TypesInvariance, TruthInvariance, InitRecord, NextRecord, PTL DEF Spec

\* Bitcoin goes only to the other side of the agreement, and a buyer pays only
\* who claimed to have remitted the Fatcrabs (release_notify_peer of maker.rs,
\* auto-remit of taker.rs), through crashes and restarts.  The maker does not
\* compare the sender of a peer message with its peer_pubkey: this is n3xb's
\* business, and the theorem relies on no other taker sending one.
THEOREM TradePaidAsAgreed == Spec => [](Exclusive => PaidAsAgreed)
<1>1. Truth /\ Record => (Exclusive => PaidAsAgreed)
  BY DEF Truth, Record, PaidAsAgreed
<1>2. QED
  BY <1>1, TruthInvariance, RecordInvariance, PTL
\* The states of a maker that accepted an offer.
AfterAgreement == {"AcceptedOffer", "InboundBtcNotified", "InboundFcNotified", "NotifiedOutbound",
                   "TradeCompleted"}

\* In a steady trade the maker cannot forget whose offer it accepted: nothing
\* crashes, a shutdown flushes its file, and a cancellation that waits for the
\* purse began before any acceptance and keeps the actor busy.
Bond == Steady =>
    /\ \A n \in Nodes : crashes[n] = 0
    /\ \A t \in Agreed : maker.peer = t /\ counterpart = t /\ maker.state \in AfterAgreement
    /\ makerPc = "down" => makerDisk = maker
    /\ makerPc = "free" => Cancellable

\* A steady trade crashes nowhere.
LEMMA NoCrash == ASSUME Types, Steady, NEW n \in Nodes PROVE ~PlatformCrash(n)
BY DEF PlatformCrash, Steady, Types, TypeOK, PlatformTypeOK, Bank!TypeOK

\* The escrow of a steady trade counts no crash.
LEMMA StillNoCrash ==
  ASSUME Types, Steady, [Next]_vars, \A n \in Nodes : crashes[n] = 0
  PROVE  \A n \in Nodes : crashes'[n] = 0
<1>1. UNCHANGED escrow \/ \E n \in Nodes : Settles(n)
  BY FundsSettled DEF Types, TypeOK, PlatformTypeOK
<1>2. ~(\A n \in Nodes : crashes[n] < MaxCrashes)
  BY DEF Steady, Nodes
<1>3. UNCHANGED crashes
  BY <1>1, <1>2 DEF Settles, escrow, Bank!Allocate, Bank!Pay, Bank!Free, Bank!Save
<1>4. QED
  BY <1>3

\* Steps of the maker preserve Bond.
LEMMA MakerKeepsBond ==
  ASSUME Types, Bond, Steady, MakerNext, OfMaker
  PROVE  /\ \A t \in Agreed' :
               maker'.peer = t /\ counterpart' = t /\ maker'.state \in AfterAgreement
         /\ makerPc' = "down" => makerDisk' = maker'
         /\ makerPc' = "free" => Cancellable'
<1> USE DEF Steady
<1>1. \A t \in Agreed : maker.peer = t /\ counterpart = t /\ maker.state \in AfterAgreement
  BY DEF Bond
<1>2. makerPc = "down" => makerDisk = maker
  BY DEF Bond
<1>3. makerPc = "free" => Cancellable
  BY DEF Bond
<1>4. AfterAgreement \cap {"Absent", "New", "WaitingForOffers", "ReceivedOffer", "TradeCancelled"} = {}
  BY DEF AfterAgreement
<1> DEFINE Goal == /\ \A t \in Agreed' :
                        maker'.peer = t /\ counterpart' = t /\ maker'.state \in AfterAgreement
                   /\ makerPc' = "down" => makerDisk' = maker'
                   /\ makerPc' = "free" => Cancellable'
<1>5. ASSUME Agreed' = Agreed, counterpart' = counterpart, maker'.peer = maker.peer,
             \/ maker'.state = maker.state
             \/ maker'.state \in AfterAgreement
             \/ maker.state \notin AfterAgreement,
             makerPc' = "down" => makerDisk' = maker',
             makerPc' = "free" => Cancellable'
      PROVE  Goal
  BY <1>1, <1>5
<1>6. ASSUME NEW t \in Takers, AcceptOffer(t) PROVE Goal
  BY <1>1, <1>4, <1>5, <1>6, AcceptOrPanic DEF AfterAgreement
<1>7. ASSUME \A t \in Takers : ~AcceptOffer(t) PROVE Goal
  <2>1. Agreed' = Agreed /\ counterpart' = counterpart
    BY <1>7, MakerSays
  <2>2. ASSUME NEW state, SetMakerState(state),
               state \in AfterAgreement \/ maker.state \notin AfterAgreement,
               makerPc' \notin {"down", "free"}
        PROVE  Goal
    BY <2>1, <1>5, <2>2, MakerState
  <2>3. ASSUME maker' = maker, makerPc' \notin {"down", "free"} PROVE Goal
    BY <2>1, <1>5, <2>3
  <2>4. ASSUME maker' = maker, makerDisk' \in {maker, makerDisk}, makerPc' = makerPc PROVE Goal
    BY <2>1, <1>2, <1>3, <1>5, <2>4 DEF Cancellable
  <2>5. CASE NewMaker \/ PostNewOrder \/ MakerCompletes
    BY <2>2, <2>5, <1>4 DEF NewMaker, PostNewOrder, MakerCompletes, MakerServes,
       AfterAgreement
  <2>6. CASE CancelOrder
    <3>1. CASE IsBuy
      BY <2>6, <3>1, <2>1, <1>5 DEF CancelOrder, Cancellable
    <3>2. CASE ~IsBuy
      BY <2>6, <3>2, <2>2, <1>4 DEF CancelOrder, Cancellable, MakerServes
    <3>3. QED
      BY <3>1, <3>2
  <2>7. CASE CancelFreesFunds
    BY <2>2, <2>3, <2>7, <1>3, <1>4 DEF CancelFreesFunds, Cancellable
  <2>8. CASE RegisterMaker \/ UnregisterMaker \/ MakerReleases \/ MakerNotifies
    BY <2>3, <2>8 DEF RegisterMaker, UnregisterMaker, MakerReleases, MakerNotifies,
       MakerServes
  <2>9. CASE MakerSendsPeerMessage
    BY <2>2, <2>3, <2>9 DEF MakerSendsPeerMessage, AfterAgreement
  <2>10. ASSUME NEW t \in Takers, RejectOffer(t) PROVE Goal
    BY <2>3, <2>10 DEF RejectOffer, MakerServes, MakerCallPanics
  <2>11. ASSUME NEW m \in Messages, OfferNotif(m) PROVE Goal
    <3>1. \/ maker' = maker
          \/ maker.state \notin AfterAgreement /\ maker'.peer = maker.peer
      BY <2>11, <1>4, MakerServesData DEF OfferNotif, MakerReceives, MakerData
    <3>2. makerPc' = "idle"
      BY <2>11 DEF OfferNotif, MakerReceives, MakerServes
    <3>3. QED
      BY <3>1, <3>2, <2>1, <1>5
  <2>12. ASSUME NEW m \in Messages, OfferNotifInUnexpectedState(m) PROVE Goal
    BY <2>3, <2>12 DEF OfferNotifInUnexpectedState, MakerReceives, MakerServes,
       MakerCallPanics
  <2>13. ASSUME NEW m \in Messages, MakerPeerNotif(m) PROVE Goal
    <3>1. \/ maker' = maker
          \/ maker'.state \in AfterAgreement /\ maker'.peer = maker.peer
      BY <2>13, MakerServesData DEF MakerPeerNotif, MakerReceives, MakerData,
         AfterAgreement
    <3>2. makerPc' = "idle"
      BY <2>13 DEF MakerPeerNotif, MakerReceives, MakerServes
    <3>3. QED
      BY <3>1, <3>2, <2>1, <1>5
  <2>13a. ASSUME NEW m \in Messages, MakerPeerNotifOfStranger(m) PROVE Goal
    BY <2>3, <2>13a DEF MakerPeerNotifOfStranger
  <2>14. CASE PersistMaker \/ StopMakerPurse
    BY <2>4, <2>14 DEF PersistMaker, StopMakerPurse, makerVars
  <2>15. CASE StopMaker
    BY <2>15, <2>1, <1>5 DEF StopMaker
  <2>16. CASE CrashMaker
    BY <2>16, NoCrash DEF CrashMaker, Nodes
  <2>17. CASE RestoreMaker
    BY <2>3, <2>17, <1>2 DEF RestoreMaker
  <2>18. QED
    BY <1>7, <2>5, <2>6, <2>7, <2>8, <2>9, <2>10, <2>11, <2>12, <2>13, <2>13a, <2>14,
       <2>15, <2>16, <2>17
    DEF MakerNext, MakerUser, MakerNotif, MakerContinues, MakerProcess, MakerShutsDown
<1>8. QED
  BY <1>6, <1>7

\* Bond holds at first.
LEMMA InitBond == Init => Bond
<1> SUFFICES ASSUME Init PROVE Bond
  OBVIOUS
<1>1. Agreed = {} /\ makerPc = "idle" /\ \A n \in Nodes : crashes[n] = 0
  BY DEF Init, PlatformInit, MakerInit, Agreed, Accepted, Bank!Init
<1>2. QED
  BY <1>1 DEF Bond

\* Every step preserves Bond.
LEMMA NextBond == Types /\ Bond /\ [Next]_vars => Bond'
<1> SUFFICES ASSUME Types, Bond, [Next]_vars, Steady' PROVE Bond'
  BY DEF Bond
<1>1. scenario' = scenario /\ Steady /\ scenario.takers \subseteq Takers
  <2>1. scenario' = scenario
    BY DEF Next, OfMaker, OfTaker, vars
  <2>2. QED
    BY <2>1, Setting DEF Steady, Careful, MaxCrashes, Types, TypeOK, PlatformTypeOK
<1>2. \A n \in Nodes : crashes'[n] = 0
  BY <1>1, StillNoCrash DEF Bond
<1>3. ASSUME UNCHANGED <<Agreed, counterpart, makerVars>> PROVE Bond'
  BY <1>1, <1>2, <1>3 DEF Bond, makerVars, Cancellable
<1>4. CASE MakerNext /\ OfMaker
  BY <1>1, <1>2, <1>4, MakerKeepsBond DEF Bond
<1>5. ASSUME NEW t \in Takers, TakerNext(t), OfTaker PROVE Bond'
  BY <1>3, <1>5, TakerSays DEF OfTaker
<1>6. ASSUME NEW n \in Nodes, PersistFunds(n), UNCHANGED makerVars PROVE Bond'
  BY <1>3, <1>6, Quiet DEF PersistFunds, relay
<1>7. CASE UNCHANGED vars
  BY <1>3, <1>7, Quiet DEF vars, platform, relay
<1>8. QED
  BY <1>1, <1>4, <1>5, <1>6, <1>7 DEF Next

\* Bond holds at all times.
LEMMA BondInvariance == Spec => []Bond
<1>1. QED
  BY TypesInvariance, InitBond, NextBond, PTL DEF Spec

\* In a steady trade the maker agrees with one taker at most, the one its
\* record and its n3xb session name, and never goes back behind the agreement
\* (accept_offer, cancel_order, shutdown and restore of maker.rs).
THEOREM TradeOneAgreement == Spec => []OneAgreement
<1>1. Bond => OneAgreement
  BY DEF Bond, OneAgreement, AfterAgreement, Agreed
<1>2. QED
  BY <1>1, BondInvariance, PTL

-----------------------------------------------------------------------------
(* What the two sides believe about their funds, and the refinement of Swap *)

\* What kind of trade it is does not change.
LEMMA SteadyStays == [Next]_vars => scenario' = scenario /\ orderType' = orderType
BY DEF Next, OfMaker, OfTaker, vars

\* What a node does to its funds leaves those of the others alone.
LEMMA Apart ==
  ASSUME Types, NEW n \in Nodes, Settles(n), NEW k \in Nodes \ {n}
  PROVE  /\ k \in held' <=> k \in held
         /\ paid'[k] = paid[k] /\ freed'[k] = freed[k]
BY DEF Types, TypeOK, PlatformTypeOK, Bank!TypeOK, Settles, escrow,
   Bank!Allocate, Bank!Pay, Bank!Free, Bank!Save, Bank!Crash

\* Where nothing crashes, funds that are there were neither paid nor freed.
LEMMA Unsettled ==
  ASSUME Types, NEW n \in held, crashes[n] = 0
  PROVE  paid[n] = 0 /\ freed[n] = 0
BY DEF Types, Bank!IInv, Bank!TypeOK

\* Where nothing crashed, funds that are paid have now been paid once.
LEMMA PaidOnce ==
  ASSUME Types, NEW n \in Nodes, crashes[n] = 0, Bank!Pay(n)
  PROVE  paid'[n] = 1 /\ freed' = freed
BY Unsettled DEF Types, Bank!IInv, Bank!TypeOK, Bank!Pay

\* Where nothing crashed, funds that are freed have now been freed once.
LEMMA FreedOnce ==
  ASSUME Types, NEW n \in Nodes, crashes[n] = 0, Bank!Free(n)
  PROVE  freed'[n] = 1 /\ paid' = paid
BY Unsettled DEF Types, Bank!IInv, Bank!TypeOK, Bank!Free

\* What the maker of a buy order knows of its funds.  The peer message of a
\* maker that pays comes after the payment, which its state does not show yet.
MakerFunds == Steady /\ IsBuy =>
    /\ maker.state \in {"New", "WaitingForOffers", "ReceivedOffer", "AcceptedOffer"}
         => Maker \in held
    /\ makerPc = "notify" \/ maker.state \in {"NotifiedOutbound", "TradeCompleted"}
         => paid[Maker] = 1
    /\ maker.state = "TradeCancelled" => freed[Maker] = 1

\* Steps of the maker of a buy order preserve MakerFunds.
LEMMA MakerKeepsFunds ==
  ASSUME Types, Bond, MakerFunds, Steady, IsBuy, MakerNext, OfMaker
  PROVE  MakerFunds'
<1> DEFINE Has == /\ maker.state \in {"New", "WaitingForOffers", "ReceivedOffer", "AcceptedOffer"}
                       => Maker \in held
                  /\ makerPc = "notify" \/ maker.state \in {"NotifiedOutbound", "TradeCompleted"}
                       => paid[Maker] = 1
                  /\ maker.state = "TradeCancelled" => freed[Maker] = 1
<1> SUFFICES Has'
  BY DEF MakerFunds, Steady, IsBuy, OfMaker
<1>1. /\ Has /\ Careful /\ crashes[Maker] = 0 /\ Maker \in Nodes
      /\ makerPc = "down" => makerDisk = maker
      /\ makerPc = "free" => Cancellable
  BY DEF MakerFunds, Steady, Bond, Nodes
<1>2. ASSUME UNCHANGED <<held, paid, freed>>, maker' = maker,
             makerPc' # "notify" \/ makerPc' = makerPc
      PROVE  Has'
  BY <1>1, <1>2
<1>3. ASSUME NEW state, SetMakerState(state), UNCHANGED <<held, paid, freed>>,
             state \notin {"NotifiedOutbound", "TradeCompleted", "TradeCancelled"},
             maker.state \in {"New", "WaitingForOffers", "ReceivedOffer"}
               \/ state \in {"InboundBtcNotified", "InboundFcNotified"},
             makerPc' = "idle"
      PROVE  Has'
  BY <1>1, <1>3, MakerState
<1>4. CASE NewMaker
  BY <1>4, MakerState DEF NewMaker, Bank!Allocate
<1>5. CASE PostNewOrder
  BY <1>1, <1>3, <1>5 DEF PostNewOrder, MakerServes, purse, escrow
<1>6. CASE MakerCompletes
  BY <1>1, <1>6, MakerState DEF MakerCompletes, MakerServes, platform, purse, escrow
<1>7. CASE CancelOrder
  BY <1>2, <1>7 DEF CancelOrder, purse, escrow
<1>8. CASE CancelFreesFunds
  <2>1. CASE FreeFunds(Maker) /\ SetMakerState("TradeCancelled") /\ makerPc' = "idle"
    BY <1>1, <2>1, FreedOnce, MakerState DEF FreeFunds
  <2>2. CASE makerPc' = "panicked" /\ UNCHANGED <<purse, maker>>
    BY <1>2, <2>2 DEF purse, escrow
  <2>3. QED
    BY <1>8, <2>1, <2>2 DEF CancelFreesFunds
<1>9. CASE MakerReleases
  <2>1. CASE SendFunds(Maker, maker.message) /\ makerPc' = "notify"
    BY <1>1, <1>9, <2>1, PaidOnce DEF MakerReleases, SendFunds
  <2>2. CASE UNCHANGED purse /\ makerPc' # "notify"
    BY <1>2, <1>9, <2>2 DEF MakerReleases, purse, escrow
  <2>3. QED
    BY <1>9, <2>1, <2>2 DEF MakerReleases, SendFundsFails, MakerServes
<1>10. CASE MakerSendsPeerMessage
  BY <1>1, <1>10, MakerState DEF MakerSendsPeerMessage, purse, escrow
<1>11. CASE RegisterMaker \/ UnregisterMaker
  BY <1>2, <1>11 DEF RegisterMaker, UnregisterMaker, platform, purse, escrow
<1>12. ASSUME NEW t \in Takers, AcceptOffer(t) PROVE Has'
  <2>1. UNCHANGED <<held, paid, freed>>
    BY <1>12 DEF AcceptOffer, purse, escrow
  <2>2. QED
    BY <1>1, <1>2, <1>12, <2>1, AcceptOrPanic
<1>13. ASSUME NEW t \in Takers, RejectOffer(t) PROVE Has'
  BY <1>2, <1>13 DEF RejectOffer, MakerCallPanics, purse, escrow
<1>14. ASSUME NEW m \in Messages, OfferNotif(m) PROVE Has'
  <2>1. maker' = maker \/ maker'.state = "ReceivedOffer"
    BY <1>14, MakerServesData DEF OfferNotif, MakerReceives, MakerData
  <2>2. QED
    BY <1>1, <1>14, <2>1 DEF OfferNotif, MakerReceives, MakerServes, purse, escrow
<1>15. ASSUME NEW m \in Messages, OfferNotifInUnexpectedState(m) PROVE Has'
  BY <1>2, <1>15 DEF OfferNotifInUnexpectedState, MakerCallPanics, purse, escrow
<1>16. ASSUME NEW m \in Messages, MakerPeerNotif(m) PROVE Has'
  <2>1. maker' = maker \/ maker'.state \in {"InboundFcNotified", "InboundBtcNotified"}
    BY <1>16, MakerServesData DEF MakerPeerNotif, MakerReceives, MakerData
  <2>2. QED
    BY <1>1, <1>16, <2>1 DEF MakerPeerNotif, MakerReceives, MakerServes, purse, escrow
<1>16a. ASSUME NEW m \in Messages, MakerPeerNotifOfStranger(m) PROVE Has'
  BY <1>2, <1>16a DEF MakerPeerNotifOfStranger, purse, escrow
<1>17. CASE PersistMaker \/ StopMaker \/ StopMakerPurse
  BY <1>2, <1>17 DEF PersistMaker, StopMaker, StopMakerPurse, StopPurse, Bank!Save,
     platform, purse, escrow,
     makerVars
<1>18. CASE CrashMaker
  BY <1>18, <1>1, NoCrash DEF CrashMaker
<1>19. CASE RestoreMaker
  BY <1>1, <1>2, <1>19 DEF RestoreMaker, PlatformStart, purse, escrow
<1>20. QED
  BY <1>4, <1>5, <1>6, <1>7, <1>8, <1>9, <1>10, <1>11, <1>12, <1>13, <1>14, <1>15, <1>16,
     <1>16a, <1>17, <1>18, <1>19
  DEF MakerNotifies, MakerNext, MakerUser, MakerNotif, MakerContinues, MakerProcess,
      MakerShutsDown

\* MakerFunds holds at first.
LEMMA InitMakerFunds == Init => MakerFunds
BY DEF Init, MakerInit, NoMaker, MakerFunds

\* Every step preserves MakerFunds.
LEMMA NextMakerFunds == Types /\ Bond /\ MakerFunds /\ [Next]_vars => MakerFunds'
<1> SUFFICES ASSUME Types, Bond, MakerFunds, [Next]_vars, Steady', IsBuy' PROVE MakerFunds'
  BY DEF MakerFunds
<1>1. /\ scenario' = scenario /\ orderType' = orderType /\ Steady /\ IsBuy
      /\ scenario.takers \subseteq Takers
  <2>1. scenario' = scenario /\ orderType' = orderType
    BY SteadyStays
  <2>2. QED
    BY <2>1, Setting DEF Steady, Careful, MaxCrashes, IsBuy, Types, TypeOK, PlatformTypeOK
<1>2. ASSUME UNCHANGED makerVars, Maker \in held' <=> Maker \in held,
             paid'[Maker] = paid[Maker], freed'[Maker] = freed[Maker]
      PROVE  MakerFunds'
  BY <1>1, <1>2 DEF MakerFunds, makerVars
<1>3. CASE MakerNext /\ OfMaker
  BY <1>1, <1>3, MakerKeepsFunds
<1>4. ASSUME NEW t \in Takers, TakerNext(t), OfTaker PROVE MakerFunds'
  <2>1. Maker \in Nodes \ {t} /\ t \in Nodes
    BY PlatformAssumption DEF Nodes
  <2>2. QED
    BY <1>2, <1>4, <2>1, TakerSettles, Apart DEF OfTaker
<1>5. ASSUME NEW n \in Nodes, PersistFunds(n), UNCHANGED makerVars PROVE MakerFunds'
  BY <1>2, <1>5 DEF PersistFunds, Bank!Save
<1>6. CASE UNCHANGED vars
  BY <1>2, <1>6 DEF vars, platform, purse, escrow
<1>7. QED
  BY <1>1, <1>3, <1>4, <1>5, <1>6 DEF Next

\* The states of a taker that told the maker of its part.
AfterPayment == {"NotifiedOutbound", "InboundBtcNotified", "InboundFcNotified",
                 "TradeCompleted"}

\* What the taker of a sell order knows of its funds: its file says the same
\* after a shutdown, and it claims nothing before it paid.
TakerHasFunds(t) ==
    /\ takerPc[t] = "remit" => taker[t].state = "OfferAccepted"
    /\ takerPc[t] = "down" => takerDisk[t] = taker[t]
    /\ taker[t].state \in {"New", "SubmittedOffer"} => t \in held
    /\ t \in Taken \/ takerPc[t] = "notify" \/ taker[t].state \in AfterPayment => paid[t] = 1
    /\ taker[t].state = "OfferRejected" => freed[t] = 1

\* The same of every taker.
TakerFunds == Steady /\ ~IsBuy => \A t \in Takers : TakerHasFunds(t)

\* Steps of the taker of a sell order preserve what it knows of its funds.
LEMMA TakerKeepsFunds ==
  ASSUME Types, Bond, Steady, ~IsBuy, NEW t \in Takers, TakerHasFunds(t), TakerNext(t)
  PROVE  TakerHasFunds(t)'
<1> USE DEF AfterPayment
<1>1. /\ Careful /\ crashes[t] = 0 /\ t \in Nodes
      /\ takerPc \in [Takers -> TakerPcs] /\ taker \in [Takers -> TakerData \cup {NoTaker}]
      /\ takerDisk \in [Takers -> TakerData \cup {NoTaker}]
  BY DEF Steady, Bond, Nodes, Types, TypeOK, TakerTypeOK
<1>2. t \in Taken' => t \in Taken \/ takerPc[t] = "notify"
  <2>1. TakerSendsPeerMessage(t) => takerPc[t] = "notify"
    BY DEF TakerSendsPeerMessage
  <2>2. QED
    BY <2>1, TakerSays
<1>3. ASSUME UNCHANGED <<held, paid, freed, takerDisk>>, taker'[t] = taker[t],
             takerPc'[t] \in {takerPc[t], "idle", "panicked"}
      PROVE  TakerHasFunds(t)'
  BY <1>2, <1>3 DEF TakerHasFunds
<1>4. ASSUME NEW state, SetTakerState(t, state), UNCHANGED <<held, paid, freed>>,
             takerPc'[t] = "idle",
             state \in {"New", "SubmittedOffer"} => taker[t].state \in {"New", "SubmittedOffer"},
             state \in AfterPayment => takerPc[t] = "notify" \/ taker[t].state \in AfterPayment,
             state # "OfferRejected"
      PROVE  TakerHasFunds(t)'
  BY <1>2, <1>4, TakerState DEF TakerHasFunds
<1>5. CASE NewTaker(t)
  BY <1>1, <1>2, <1>5, TakerState DEF NewTaker, TakerHasFunds, Bank!Allocate
<1>6. CASE TakeOrder(t)
  BY <1>1, <1>4, <1>6 DEF TakeOrder, TakerServes, purse, escrow
<1>7. CASE TakerCompletes(t)
  BY <1>1, <1>4, <1>7 DEF TakerCompletes, TakerServes, platform, purse, escrow
<1>8. CASE RegisterTaker(t) \/ UnregisterTaker(t)
  BY <1>3, <1>8 DEF RegisterTaker, UnregisterTaker, platform, purse, escrow
<1>9. ASSUME taker[t].state = "OfferAccepted", UNCHANGED <<taker, takerDisk>>, Remit(t)
      PROVE  TakerHasFunds(t)'
  <2>1. CASE SendFunds(t, Maker) /\ GoTo(t, "notify")
    BY <1>1, <1>9, <2>1, PaidOnce DEF SendFunds, GoTo, TakerHasFunds
  <2>2. CASE UNCHANGED purse /\ (GoTo(t, "idle") \/ GoTo(t, "panicked"))
    BY <1>1, <1>3, <1>9, <2>2 DEF GoTo, purse, escrow
  <2>3. QED
    BY <1>9, <2>1, <2>2 DEF Remit, SendFundsFails
<1>10. CASE TakerReleases(t) \/ AutoRemit(t)
  BY <1>1, <1>9, <1>10 DEF TakerReleases, AutoRemit, TakerHasFunds
<1>11. CASE TakerSendsPeerMessage(t)
  BY <1>1, <1>3, <1>4, <1>11 DEF TakerSendsPeerMessage, GoTo, purse, escrow
<1>12. ASSUME NEW m \in Messages, TradeRspDropped(t, m) PROVE TakerHasFunds(t)'
  BY <1>3, <1>12 DEF TradeRspDropped, TakerReceives, purse, escrow
<1>13. ASSUME NEW m \in Messages, AcceptToBuyer(t, m) PROVE TakerHasFunds(t)'
  <2>1. taker'[t].state = "OfferAccepted" /\ takerPc'[t] = "remit"
    BY <1>1, <1>13 DEF AcceptToBuyer, GoTo
  <2>2. takerPc[t] = "idle" /\ UNCHANGED <<held, paid, freed>>
    BY <1>13 DEF AcceptToBuyer, TakerReceives, TakerServes, purse, escrow
  <2>3. QED
    BY <1>2, <2>1, <2>2 DEF TakerHasFunds
<1>14. ASSUME NEW m \in Messages, RejectToBuyer(t, m) PROVE TakerHasFunds(t)'
  <2>0. takerPc[t] = "idle" /\ takerDisk' = takerDisk
    BY <1>14 DEF RejectToBuyer, TakerReceives, TakerServes
  <2>1. CASE FreeFunds(t) /\ SetTakerState(t, "OfferRejected") /\ UNCHANGED takerPc
    BY <1>1, <1>2, <2>0, <2>1, FreedOnce, TakerState DEF FreeFunds, TakerHasFunds
  <2>2. CASE GoTo(t, "panicked") /\ UNCHANGED <<purse, taker>>
    BY <1>1, <1>3, <2>0, <2>2 DEF GoTo, purse, escrow
  <2>3. QED
    BY <1>14, <2>1, <2>2 DEF RejectToBuyer
<1>15. ASSUME NEW m \in Messages, TakerPeerNotif(t, m) PROVE TakerHasFunds(t)'
  BY <1>1, <1>3, <1>4, <1>15 DEF TakerPeerNotif, TakerReceives, TakerServes, purse, escrow
<1>15a. ASSUME NEW m \in Messages, AcceptPanics(t, m) \/ TakerPeerNotifPanics(t, m)
        PROVE  TakerHasFunds(t)'
  BY <1>1, <1>3, <1>15a DEF AcceptPanics, TakerPeerNotifPanics, TakerReceives, GoTo, purse,
     escrow
<1>16. CASE PersistTaker(t) \/ StopTaker(t) \/ StopTakerPurse(t)
  BY <1>1, <1>2, <1>16 DEF PersistTaker, StopTaker, StopTakerPurse, StopPurse, GoTo,
     TakerHasFunds, Bank!Save,
     platform, purse, escrow, takerVars
<1>17. CASE CrashTaker(t)
  BY <1>1, <1>17, NoCrash DEF CrashTaker
<1>18. CASE RestoreTaker(t)
  BY <1>1, <1>3, <1>18 DEF RestoreTaker, PlatformStart, GoTo, TakerHasFunds, purse, escrow
<1>19. QED
  BY <1>5, <1>6, <1>7, <1>8, <1>10, <1>11, <1>12, <1>13, <1>14, <1>15, <1>15a, <1>16, <1>17,
     <1>18
  DEF TradeRspToSeller, TakerNotifies, TakerNext, TakerUser, TakerNotif, TakerContinues,
      TakerProcess,
      TakerShutsDown

\* TakerFunds holds at first.
LEMMA InitTakerFunds == Init => TakerFunds
<1> SUFFICES ASSUME Init, NEW t \in Takers PROVE TakerHasFunds(t)
  BY DEF TakerFunds
<1>1. taker[t].state = "Absent" /\ takerPc[t] = "idle" /\ Taken = {}
  BY DEF Init, TakerInit, PlatformInit, NoTaker, Taken
<1>2. QED
  BY <1>1 DEF TakerHasFunds, AfterPayment

\* Every step preserves TakerFunds.
LEMMA NextTakerFunds == Types /\ Bond /\ TakerFunds /\ [Next]_vars => TakerFunds'
<1> SUFFICES ASSUME Types, Bond, TakerFunds, [Next]_vars, Steady', ~IsBuy', NEW t \in Takers
             PROVE  TakerHasFunds(t)'
  BY DEF TakerFunds
<1>1. /\ Steady /\ ~IsBuy /\ scenario.takers \subseteq Takers /\ TakerHasFunds(t)
  <2>1. scenario' = scenario /\ orderType' = orderType
    BY SteadyStays
  <2>2. QED
    BY <2>1, Setting DEF Steady, Careful, MaxCrashes, IsBuy, Types, TypeOK,
       PlatformTypeOK, TakerFunds
<1>2. ASSUME taker'[t] = taker[t], takerDisk'[t] = takerDisk[t], takerPc'[t] = takerPc[t],
             t \in Taken' => t \in Taken,
             t \in held' <=> t \in held, paid'[t] = paid[t], freed'[t] = freed[t]
      PROVE  TakerHasFunds(t)'
  BY <1>1, <1>2 DEF TakerHasFunds
<1>3. ASSUME MakerNext, OfMaker PROVE TakerHasFunds(t)'
  <2>1. t \in Nodes \ {Maker} /\ Maker \in Nodes
    BY PlatformAssumption DEF Nodes
  <2>2. QED
    BY <1>2, <1>3, <2>1, MakerSettles, MakerSays, Apart DEF OfMaker, takerVars
<1>4. ASSUME NEW u \in Takers, u # t, TakerNext(u) PROVE TakerHasFunds(t)'
  <2>1. t \in Nodes \ {u} /\ u \in Nodes
    BY <1>4 DEF Nodes
  <2>2. QED
    BY <1>2, <1>4, <2>1, TakerAlone, TakerSettles, TakerSays, Apart
<1>5. ASSUME NEW n \in Nodes, PersistFunds(n), UNCHANGED takerVars PROVE TakerHasFunds(t)'
  BY <1>2, <1>5, Quiet DEF PersistFunds, Bank!Save, relay, takerVars
<1>6. CASE UNCHANGED vars
  BY <1>2, <1>6, Quiet DEF vars, platform, relay, purse, escrow, takerVars
<1>7. QED
  BY <1>1, <1>3, <1>4, <1>5, <1>6, TakerKeepsFunds DEF Next

\* MakerFunds and TakerFunds hold at all times.
LEMMA FundsInvariance == Spec => [](MakerFunds /\ TakerFunds)
<1>1. QED
  BY TypesInvariance, BondInvariance, InitMakerFunds, NextMakerFunds, InitTakerFunds,
     NextTakerFunds,
     PTL DEF Spec

\* What each side believes about its funds is so: there until it pays, gone
\* once it told the peer, free again once the trade is off (new_buy_maker,
\* cancel_order, release_notify_peer, the handlers of a trade response).
THEOREM TradeFundsMatchState == Spec => []FundsMatchState
<1>1. MakerFunds /\ TakerFunds => FundsMatchState
  BY DEF MakerFunds, TakerFunds, TakerHasFunds, AfterPayment, FundsMatchState
<1>2. QED
  BY <1>1, FundsInvariance, PTL

\* Nothing crashes, users are careful and n3xb answers.
Calm == Steady /\ ~CallsMayFail

\* Only a purse that is gone, or a stranger, makes an actor panic; funds are
\* freed by buyers.
Unprovoked == Calm => (makerPc = "free" => IsBuy) /\ NobodyPanics

\* A string that is no address came from a stranger, in memory and in the file.
Estranged == \A t \in Takers :
    "garbled" \in {taker[t].address, takerDisk[t].address} => Misled(t)

\* Nothing is taken off the relays.
LEMMA SentGrows == ASSUME scenario \in Scenarios, [Next]_vars PROVE sent \subseteq sent'
<1>1. CASE MakerNext
  <2>1. CASE MakerUser
    BY <2>1 DEF MakerUser, NewMaker, RegisterMaker, UnregisterMaker, PostNewOrder,
       CancelOrder, AcceptOffer, RejectOffer, MakerReleases, MakerNotifies,
       MakerCompletes, Exchange, MakerCallPanics, platform, relay
  <2>2. CASE MakerNotif \/ MakerContinues
    BY <2>2 DEF MakerNotif, OfferNotif, OfferNotifInUnexpectedState, MakerPeerNotif,
       MakerPeerNotifOfStranger, MakerContinues, CancelFreesFunds, MakerSendsPeerMessage,
       Exchange, MakerCallPanics, relay
  <2>3. CASE MakerProcess
    BY <2>3 DEF MakerProcess, PersistMaker, MakerShutsDown, StopMaker, StopMakerPurse,
       StopPurse, CrashMaker, RestoreMaker, PlatformCrash, PlatformStart, platform, relay
  <2>4. QED
    BY <1>1, <2>1, <2>2, <2>3 DEF MakerNext
<1>2. ASSUME NEW t \in Takers, TakerNext(t) PROVE sent \subseteq sent'
  <2>1. CASE TakerUser(t)
    BY <2>1 DEF TakerUser, NewTaker, RegisterTaker, UnregisterTaker, TakeOrder,
       TakerNotifies, TakerReleases, TakerCompletes, Exchange, platform, relay
  <2>2. CASE TakerNotif(t)
    BY <2>2 DEF TakerNotif, TradeRspDropped, TradeRspToSeller, AcceptToBuyer,
       RejectToBuyer, AcceptPanics, TakerPeerNotif, TakerPeerNotifPanics,
       TakerReceives, Exchange
  <2>3. CASE TakerContinues(t)
    BY <2>3 DEF TakerContinues, AutoRemit, TakerSendsPeerMessage, Exchange, relay
  <2>4. CASE TakerProcess(t)
    BY <2>4 DEF TakerProcess, PersistTaker, TakerShutsDown, StopTaker, StopTakerPurse,
       StopPurse, CrashTaker, RestoreTaker, PlatformCrash, PlatformStart, platform, relay
  <2>5. QED
    BY <1>2, <2>1, <2>2, <2>3, <2>4 DEF TakerNext
<1>3. ASSUME NEW n, PersistFunds(n) PROVE sent' = sent
  BY <1>3 DEF PersistFunds, relay
<1>4. UNCHANGED vars => sent' = sent
  BY DEF vars, platform, relay
<1>5. QED
  BY <1>1, <1>2, <1>3, <1>4, Setting DEF Next

\* Who was misled stays so.
LEMMA MisledForGood ==
  ASSUME scenario \in Scenarios, [Next]_vars, NEW n, Misled(n)
  PROVE  Misled(n)'
BY SentGrows, SteadyStays DEF Misled, FromStranger

\* What n3xb hands over of a stranger misleads.
LEMMA StrangerMisleads ==
  ASSUME NEW n, NEW m \in Waiting(n), FromStranger(m),
         m.kind \in {"Accept", "TakerPeer", "MakerPeer"}
  PROVE  Misled(n)
BY DEF Misled, Waiting

\* A taker stores a garbled address only when it hears one, or finds it in its
\* file.
LEMMA TakerKeepsEstranged ==
  ASSUME Types, Estranged, NEW t \in Takers, TakerNext(t),
         "garbled" \in {taker[t].address, takerDisk[t].address}'
  PROVE  Misled(t)
<1>1. ASSUME taker'[t].address \in {taker[t].address, takerDisk[t].address},
             takerDisk'[t].address \in {taker[t].address, takerDisk[t].address}
      PROVE  Misled(t)
  BY <1>1 DEF Estranged
<1>2. ASSUME NEW state, SetTakerState(t, state), takerDisk' = takerDisk PROVE Misled(t)
  BY <1>1, <1>2, TakerState
<1>3. CASE TakerUser(t)
  BY <1>1, <1>2, <1>3 DEF TakerUser, NewTaker, RegisterTaker, UnregisterTaker,
     TakeOrder, TakerNotifies, TakerReleases, TakerCompletes
<1>4. ASSUME NEW m \in Messages, AcceptToBuyer(t, m) PROVE Misled(t)
  <2>1. m \in Waiting(t) /\ m.kind = "Accept" /\ takerDisk' = takerDisk
    BY <1>4 DEF AcceptToBuyer, TakerReceives
  <2>2. FromStranger(m) \/ taker'[t].address # "garbled"
    BY <1>4 DEF AcceptToBuyer, Types, TypeOK, TakerTypeOK
  <2>3. QED
    BY <2>1, <2>2, StrangerMisleads DEF Estranged
<1>5. ASSUME NEW m \in Messages,
             \/ TradeRspDropped(t, m) \/ TradeRspToSeller(t, m)
             \/ AcceptPanics(t, m) \/ RejectToBuyer(t, m)
             \/ TakerPeerNotif(t, m) \/ TakerPeerNotifPanics(t, m)
      PROVE  Misled(t)
  BY <1>1, <1>2, <1>5 DEF TradeRspDropped, TradeRspToSeller, AcceptPanics,
     RejectToBuyer, TakerPeerNotif, TakerPeerNotifPanics, TakerReceives
<1>6. CASE TakerContinues(t)
  BY <1>1, <1>2, <1>6 DEF TakerContinues, AutoRemit, TakerSendsPeerMessage
<1>7. CASE TakerProcess(t)
  <2>1. takerDisk'[t] \in {taker[t], takerDisk[t]} /\ taker'[t] \in {taker[t], takerDisk[t]}
    BY <1>7 DEF TakerProcess, PersistTaker, TakerShutsDown, StopTaker, StopTakerPurse,
       CrashTaker, RestoreTaker, takerVars, Types, TypeOK, TakerTypeOK
  <2>2. QED
    BY <1>1, <2>1
<1>8. QED
  BY <1>3, <1>4, <1>5, <1>6, <1>7 DEF TakerNext, TakerNotif

\* Estranged holds at first.
LEMMA InitEstranged == Init => Estranged
BY DEF Init, TakerInit, NoTaker, Estranged

\* Every step preserves Estranged.
LEMMA NextEstranged == Types /\ Estranged /\ [Next]_vars => Estranged'
<1> SUFFICES ASSUME Types, Estranged, [Next]_vars, NEW t \in Takers,
                    "garbled" \in {taker[t].address, takerDisk[t].address}'
             PROVE  Misled(t)'
  BY DEF Estranged
<1>1. scenario \in Scenarios /\ scenario.takers \subseteq Takers
  BY Setting DEF Types, TypeOK, PlatformTypeOK
<1>2. CASE TakerNext(t)
  BY <1>1, <1>2, TakerKeepsEstranged, MisledForGood
<1>3. ASSUME taker'[t] = taker[t], takerDisk'[t] = takerDisk[t] PROVE Misled(t)'
  BY <1>1, <1>3, MisledForGood DEF Estranged
<1>4. ASSUME NEW u \in Takers \ {t}, TakerNext(u) PROVE Misled(t)'
  BY <1>3, <1>4, TakerAlone
<1>5. CASE UNCHANGED takerVars
  BY <1>3, <1>5 DEF takerVars
<1>6. QED
  BY <1>1, <1>2, <1>4, <1>5 DEF Next, OfMaker, vars

\* Estranged holds at all times.
LEMMA EstrangedInvariance == Spec => []Estranged
BY TypesInvariance, InitEstranged, NextEstranged, PTL DEF Spec

\* The maker starts and stops no purse but its own.
LEMMA MakerPurse ==
  ASSUME Types, MakerNext, NEW k \in Nodes \ {Maker}
  PROVE  purseUp'[k] = purseUp[k]
<1>1. \/ UNCHANGED purseUp
      \/ \E up \in BOOLEAN : purseUp' = [purseUp EXCEPT ![Maker] = up]
  <2>1. CASE MakerUser
    BY <2>1 DEF MakerUser, NewMaker, RegisterMaker, UnregisterMaker, PostNewOrder,
       CancelOrder,
       AcceptOffer, RejectOffer, MakerReleases, MakerNotifies, MakerCompletes, platform
  <2>2. CASE MakerNotif \/ MakerContinues
    BY <2>2 DEF MakerNotif, OfferNotif, OfferNotifInUnexpectedState, MakerPeerNotif, MakerPeerNotifOfStranger,
       MakerContinues,
       CancelFreesFunds, MakerSendsPeerMessage
  <2>3. CASE MakerProcess
    BY <2>3 DEF MakerProcess, PersistMaker, MakerShutsDown, StopMaker, StopMakerPurse,
       StopPurse, CrashMaker,
       RestoreMaker, PlatformCrash, PlatformStart, platform
  <2>4. QED
    BY <2>1, <2>2, <2>3 DEF MakerNext
<1>2. QED
  BY <1>1 DEF Types, TypeOK, PlatformTypeOK

\* A taker starts and stops no purse but its own.
LEMMA TakerPurse ==
  ASSUME Types, NEW t \in Takers, TakerNext(t), NEW k \in Nodes \ {t}
  PROVE  purseUp'[k] = purseUp[k]
<1>1. \/ UNCHANGED purseUp
      \/ \E up \in BOOLEAN : purseUp' = [purseUp EXCEPT ![t] = up]
  <2>1. CASE TakerUser(t)
    BY <2>1 DEF TakerUser, NewTaker, RegisterTaker, UnregisterTaker, TakeOrder,
       TakerNotifies,
       TakerReleases, TakerCompletes, platform
  <2>2. CASE TakerNotif(t) \/ TakerContinues(t)
    BY <2>2 DEF TakerNotif, TradeRspDropped, TradeRspToSeller, AcceptToBuyer,
       RejectToBuyer, AcceptPanics, TakerPeerNotifPanics,
       TakerPeerNotif, TakerReceives, TakerContinues, AutoRemit, TakerSendsPeerMessage
  <2>3. CASE TakerProcess(t)
    BY <2>3 DEF TakerProcess, PersistTaker, TakerShutsDown, StopTaker, StopTakerPurse,
       StopPurse, CrashTaker,
       RestoreTaker, PlatformCrash, PlatformStart, platform
  <2>4. QED
    BY <2>1, <2>2, <2>3 DEF TakerNext
<1>2. QED
  BY <1>1 DEF Types, TypeOK, PlatformTypeOK

\* In a calm trade the maker panics only for want of a purse, or misled.
LEMMA MakerPanics ==
  ASSUME Types, Bond, MakerFunds, Unprovoked, Calm, MakerNext
  PROVE  /\ makerPc' = "panicked" => ~purseUp'[Maker] \/ Misled(Maker)
         /\ makerPc' = "free" => IsBuy
<1> DEFINE Goal == /\ makerPc' = "panicked" => ~purseUp'[Maker] \/ Misled(Maker)
                   /\ makerPc' = "free" => IsBuy
<1>1. /\ makerPc = "panicked" => ~purseUp[Maker] \/ Misled(Maker)
      /\ makerPc = "free" => IsBuy /\ Maker \in held
      /\ Careful /\ ~CallsMayFail /\ Maker \in Nodes /\ purseUp \in [Nodes -> BOOLEAN]
  BY DEF Unprovoked, Calm, NobodyPanics, Bond, MakerFunds, Cancellable, Steady, Nodes,
     Types, TypeOK, PlatformTypeOK
<1>2. ASSUME MakerUser PROVE Goal
  <2>1. CASE CancelOrder
    BY <1>1, <2>1 DEF CancelOrder, MakerServes
  <2>2. CASE MakerReleases
    BY <1>1, <2>2 DEF MakerReleases, MakerServes
  <2>3. CASE MakerUser /\ ~CancelOrder /\ ~MakerReleases
    BY <1>1, <2>3 DEF MakerUser, NewMaker, RegisterMaker, UnregisterMaker, PostNewOrder,
       AcceptOffer, RejectOffer, MakerNotifies, MakerCompletes, MakerServes,
       MakerCallPanics, platform
  <2>4. QED
    BY <1>2, <2>1, <2>2, <2>3
<1>3. ASSUME NEW m \in Messages, MakerPeerNotifOfStranger(m) PROVE Goal
  BY <1>3, StrangerMisleads DEF MakerPeerNotifOfStranger, MakerReceives
<1>4. ASSUME MakerNotif, \A m \in Messages : ~MakerPeerNotifOfStranger(m) PROVE Goal
  BY <1>1, <1>4 DEF MakerNotif, OfferNotif, OfferNotifInUnexpectedState, MakerPeerNotif,
     MakerReceives, MakerServes, MakerCallPanics
<1>5. ASSUME MakerContinues PROVE Goal
  BY <1>1, <1>5 DEF MakerContinues, CancelFreesFunds, FreeFunds, MakerSendsPeerMessage
<1>6. ASSUME MakerProcess PROVE Goal
  BY <1>1, <1>6 DEF MakerProcess, PersistMaker, MakerShutsDown, StopMaker,
     StopMakerPurse, StopPurse, CrashMaker,
     RestoreMaker, PlatformCrash, PlatformStart, platform, makerVars
<1>7. QED
  BY <1>2, <1>3, <1>4, <1>5, <1>6 DEF MakerNext, MakerNotif

\* In a calm trade a taker panics only for want of a purse, or misled.
LEMMA TakerPanics ==
  ASSUME Types, Bond, TakerFunds, Unprovoked, Estranged, Calm,
         NEW t \in Takers, TakerNext(t)
  PROVE  takerPc'[t] = "panicked" => ~purseUp'[t] \/ Misled(t)
<1> DEFINE Goal == takerPc'[t] = "panicked" => ~purseUp'[t] \/ Misled(t)
<1>1. /\ takerPc[t] = "panicked" => ~purseUp[t] \/ Misled(t)
      /\ ~IsBuy /\ taker[t].state = "SubmittedOffer" => t \in held
      /\ taker[t].address = "garbled" => Misled(t)
      /\ t \in Nodes /\ purseUp \in [Nodes -> BOOLEAN] /\ takerPc \in [Takers -> TakerPcs]
  BY DEF Unprovoked, Estranged, Calm, NobodyPanics, TakerFunds, TakerHasFunds, Nodes,
     Types, TypeOK, PlatformTypeOK, TakerTypeOK
<1>2. ASSUME Remit(t), purseUp' = purseUp PROVE Goal
  BY <1>1, <1>2 DEF Remit, GoTo
<1>3. ASSUME TakerUser(t) PROVE Goal
  <2>1. CASE TakerReleases(t)
    BY <1>2, <2>1 DEF TakerReleases
  <2>2. CASE TakerUser(t) /\ ~TakerReleases(t)
    BY <1>1, <2>2 DEF TakerUser, NewTaker, RegisterTaker, UnregisterTaker, TakeOrder,
       TakerNotifies, TakerCompletes, TakerServes, GoTo, platform
  <2>3. QED
    BY <1>3, <2>1, <2>2
<1>4. ASSUME NEW m \in Messages, RejectToBuyer(t, m) PROVE Goal
  BY <1>1, <1>4 DEF RejectToBuyer, FreeFunds, TakerReceives, TakerServes, GoTo
<1>5. ASSUME NEW m \in Messages, AcceptPanics(t, m) \/ TakerPeerNotifPanics(t, m) PROVE Goal
  BY <1>5, StrangerMisleads DEF AcceptPanics, TakerPeerNotifPanics, TakerReceives
<1>6. ASSUME NEW m \in Messages,
             \/ TradeRspDropped(t, m) \/ TradeRspToSeller(t, m)
             \/ AcceptToBuyer(t, m) \/ TakerPeerNotif(t, m)
      PROVE  Goal
  BY <1>1, <1>6 DEF TradeRspDropped, TradeRspToSeller, AcceptToBuyer,
     TakerPeerNotif, TakerReceives, TakerServes, GoTo
<1>7. ASSUME TakerContinues(t) PROVE Goal
  BY <1>1, <1>2, <1>7 DEF TakerContinues, AutoRemit, TakerSendsPeerMessage, GoTo
<1>8. ASSUME TakerProcess(t) PROVE Goal
  BY <1>1, <1>8 DEF TakerProcess, PersistTaker, TakerShutsDown, StopTaker,
     StopTakerPurse, StopPurse, CrashTaker,
     RestoreTaker, PlatformCrash, PlatformStart, GoTo, platform, takerVars
<1>9. QED
  BY <1>3, <1>4, <1>5, <1>6, <1>7, <1>8 DEF TakerNext, TakerNotif

\* Unprovoked holds at first.
LEMMA InitUnprovoked == Init => Unprovoked
BY DEF Init, MakerInit, TakerInit, Unprovoked, NobodyPanics

\* Every step preserves Unprovoked.
LEMMA NextUnprovoked ==
  Types /\ Bond /\ MakerFunds /\ TakerFunds /\ Estranged /\ Unprovoked /\ [Next]_vars
    => Unprovoked'
<1> SUFFICES ASSUME Types, Bond, MakerFunds, TakerFunds, Estranged, Unprovoked,
                    [Next]_vars, Calm'
             PROVE  (makerPc' = "free" => IsBuy') /\ NobodyPanics'
  BY DEF Unprovoked
<1>1. /\ scenario' = scenario /\ orderType' = orderType /\ scenario \in Scenarios
      /\ scenario.takers \subseteq Takers /\ Takers \subseteq Nodes /\ Maker \in Nodes \ Takers
  BY SteadyStays, Setting, PlatformAssumption DEF Types, TypeOK, PlatformTypeOK, Nodes
<1>2. Calm
  BY <1>1 DEF Calm, Steady, Careful, MaxCrashes, CallsMayFail
<1>3. /\ makerPc = "free" => IsBuy
      /\ makerPc = "panicked" => ~purseUp[Maker] \/ Misled(Maker)
      /\ \A t \in Takers : takerPc[t] = "panicked" => ~purseUp[t] \/ Misled(t)
  BY <1>2 DEF Unprovoked, NobodyPanics
<1>4. \A n : Misled(n) => Misled(n)'
  BY <1>1, MisledForGood
<1>5. CASE MakerNext /\ OfMaker
  <2>1. takerPc' = takerPc /\ \A t \in Takers : purseUp'[t] = purseUp[t]
    BY <1>1, <1>5, MakerPurse DEF OfMaker, takerVars
  <2>2. /\ makerPc' = "panicked" => ~purseUp'[Maker] \/ Misled(Maker)
        /\ makerPc' = "free" => IsBuy
    BY <1>2, <1>5, MakerPanics
  <2>3. QED
    BY <1>1, <1>3, <1>4, <2>1, <2>2 DEF NobodyPanics, IsBuy
<1>6. ASSUME NEW t \in Takers, TakerNext(t), OfTaker
      PROVE  (makerPc' = "free" => IsBuy') /\ NobodyPanics'
  <2>1. makerPc' = makerPc /\ purseUp'[Maker] = purseUp[Maker]
    BY <1>1, <1>6, TakerPurse DEF OfTaker, makerVars
  <2>2. \A u \in Takers \ {t} : takerPc'[u] = takerPc[u] /\ purseUp'[u] = purseUp[u]
    BY <1>1, <1>6, TakerAlone, TakerPurse
  <2>3. takerPc'[t] = "panicked" => ~purseUp'[t] \/ Misled(t)
    BY <1>2, <1>6, TakerPanics
  <2>4. QED
    BY <1>1, <1>3, <1>4, <2>1, <2>2, <2>3 DEF NobodyPanics, IsBuy
<1>7. ASSUME UNCHANGED <<makerPc, takerPc, purseUp>>
      PROVE  (makerPc' = "free" => IsBuy') /\ NobodyPanics'
  BY <1>1, <1>3, <1>4, <1>7 DEF NobodyPanics, IsBuy
<1>8. ASSUME NEW n \in Nodes, PersistFunds(n), UNCHANGED <<makerVars, takerVars>>
      PROVE  (makerPc' = "free" => IsBuy') /\ NobodyPanics'
  BY <1>7, <1>8 DEF PersistFunds, makerVars, takerVars
<1>9. CASE UNCHANGED vars
  BY <1>7, <1>9 DEF vars, platform, makerVars, takerVars
<1>10. QED
  BY <1>1, <1>5, <1>6, <1>8, <1>9 DEF Next

\* Unprovoked holds at all times.
LEMMA UnprovokedInvariance == Spec => []Unprovoked
<1>1. QED
  BY TypesInvariance, BondInvariance, FundsInvariance, EstrangedInvariance,
     InitUnprovoked, NextUnprovoked, PTL DEF Spec

\* Where n3xb answers and nothing crashes, no unwrap() of a maker or a taker
\* fails as long as its purse runs and nobody but users of this library sent it
\* what it unwraps: nobody frees funds that are gone, however often it is shut
\* down and restored (free_funds().await.unwrap()), and what the library itself
\* sends never fails an assertion of the peer (Address::from_str().unwrap(),
\* the downcasts of the specifics).
THEOREM TradeNobodyPanics == Spec => [](Calm => NobodyPanics)
<1>1. Unprovoked => (Calm => NobodyPanics)
  BY DEF Unprovoked
<1>2. QED
  BY <1>1, UnprovokedInvariance, PTL

\* What the maker has to have done before it tells the taker so: it knows whom
\* to tell, and has paid.
MakerDue == Steady =>
    /\ maker.state \in {"InboundBtcNotified", "InboundFcNotified"} => maker.message # NoOne
    /\ makerPc = "notify" => /\ maker.message # NoOne
                             /\ IsBuy => maker.message \in payees[Maker]

\* What a taker has to have done before it tells the maker so.
TakerDue == \A t \in Takers :
    /\ takerPc[t] = "remit" => ~IsBuy
    /\ ~IsBuy /\ takerPc[t] = "notify" => Maker \in payees[t]

\* Steps of the maker preserve MakerDue.
LEMMA MakerKeepsDue ==
  ASSUME Types, Bond, MakerDue, Steady, MakerNext, OfMaker
  PROVE  MakerDue'
<1> DEFINE Owed == /\ maker.state \in {"InboundBtcNotified", "InboundFcNotified"}
                        => maker.message # NoOne
                   /\ makerPc = "notify" => /\ maker.message # NoOne
                                            /\ IsBuy => maker.message \in payees[Maker]
<1> SUFFICES Owed'
  BY DEF MakerDue, Steady
<1>1. /\ Owed /\ Careful /\ IsBuy' = IsBuy
      /\ makerPc = "down" => makerDisk = maker
  BY DEF MakerDue, Steady, Bond, IsBuy, OfMaker
<1>2. ASSUME maker' = maker, makerPc' # "notify" \/ (makerPc' = makerPc /\ payees' = payees)
      PROVE Owed'
  BY <1>1, <1>2
<1>3. ASSUME maker'.message = maker.message, makerPc' # "notify",
             maker'.state \notin {"InboundBtcNotified", "InboundFcNotified"}
      PROVE  Owed'
  BY <1>3
<1>4. CASE NewMaker \/ PostNewOrder \/ MakerCompletes
  BY <1>3, <1>4, MakerState DEF NewMaker, PostNewOrder, MakerCompletes, MakerServes
<1>5. CASE CancelOrder \/ CancelFreesFunds
  BY <1>2, <1>3, <1>5, MakerState DEF CancelOrder, CancelFreesFunds, MakerServes
<1>6. CASE MakerSendsPeerMessage
  BY <1>2, <1>3, <1>6, MakerState DEF MakerSendsPeerMessage
<1>7. CASE RegisterMaker \/ UnregisterMaker
  BY <1>2, <1>7 DEF RegisterMaker, UnregisterMaker, MakerServes
<1>8. CASE MakerReleases
  <2>1. CASE SendFunds(Maker, maker.message) /\ makerPc' = "notify"
    <3>1. maker.message \in payees'[Maker]
      BY <2>1 DEF SendFunds, Types, TypeOK, PlatformTypeOK, Nodes
    <3>2. QED
      BY <1>1, <1>8, <2>1, <3>1 DEF MakerReleases
  <2>2. CASE makerPc' # "notify"
    BY <1>2, <1>8, <2>2 DEF MakerReleases
  <2>3. QED
    BY <1>8, <2>1, <2>2 DEF MakerReleases, MakerServes
<1>9. CASE MakerNotifies
  BY <1>1, <1>9 DEF MakerNotifies
<1>10. ASSUME NEW t \in Takers, AcceptOffer(t) PROVE Owed'
  BY <1>2, <1>3, <1>10, AcceptOrPanic
<1>11. ASSUME NEW t \in Takers, RejectOffer(t) PROVE Owed'
  BY <1>2, <1>11 DEF RejectOffer, MakerServes, MakerCallPanics
<1>12. ASSUME NEW m \in Messages, OfferNotif(m) PROVE Owed'
  <2>1. maker' = maker \/ (maker'.message = maker.message /\ maker'.state = "ReceivedOffer")
    BY <1>12, MakerServesData DEF OfferNotif, MakerReceives, MakerData
  <2>2. QED
    BY <1>2, <1>3, <1>12, <2>1 DEF OfferNotif, MakerReceives, MakerServes
<1>13. ASSUME NEW m \in Messages, OfferNotifInUnexpectedState(m) PROVE Owed'
  BY <1>2, <1>13 DEF OfferNotifInUnexpectedState, MakerReceives, MakerServes,
     MakerCallPanics
<1>14. ASSUME NEW m \in Messages, MakerPeerNotif(m) PROVE Owed'
  <2>1. maker' = maker \/ maker'.message = m.taker
    BY <1>14, MakerServesData DEF MakerPeerNotif, MakerReceives, MakerData
  <2>2. m.taker # NoOne /\ makerPc' = "idle"
    BY <1>14, MakerHears, PlatformAssumption DEF MakerPeerNotif, MakerReceives,
       MakerServes
  <2>3. QED
    BY <1>2, <2>1, <2>2
<1>14a. ASSUME NEW m \in Messages, MakerPeerNotifOfStranger(m) PROVE Owed'
  BY <1>2, <1>14a DEF MakerPeerNotifOfStranger
<1>15. CASE PersistMaker \/ StopMaker \/ StopMakerPurse
  BY <1>2, <1>15 DEF PersistMaker, StopMaker, StopMakerPurse, StopPurse, platform, purse,
     makerVars
<1>16. CASE CrashMaker
  BY <1>16, NoCrash DEF CrashMaker, Nodes
<1>17. CASE RestoreMaker
  BY <1>1, <1>2, <1>17 DEF RestoreMaker
<1>18. QED
  BY <1>4, <1>5, <1>6, <1>7, <1>8, <1>9, <1>10, <1>11, <1>12, <1>13, <1>14, <1>14a, <1>15,
     <1>16, <1>17
  DEF MakerNext, MakerUser, MakerNotif, MakerContinues, MakerProcess, MakerShutsDown

\* Auto-remit is for the taker of a sell order only.
LEMMA TakerRemits ==
  ASSUME Types, NEW t \in Takers, takerPc[t] = "remit" => ~IsBuy,
         TakerNext(t), takerPc'[t] = "remit"
  PROVE  ~IsBuy
<1>1. takerPc \in [Takers -> TakerPcs]
  BY DEF Types, TypeOK, TakerTypeOK
<1>2. CASE TakerUser(t)
  BY <1>1, <1>2 DEF TakerUser, NewTaker, RegisterTaker, UnregisterTaker, TakeOrder,
     TakerNotifies,
     TakerReleases, Remit, TakerCompletes, TakerServes, GoTo
<1>3. CASE TakerNotif(t)
  BY <1>1, <1>3 DEF TakerNotif, TradeRspDropped, TradeRspToSeller, AcceptToBuyer,
     RejectToBuyer, AcceptPanics, TakerPeerNotifPanics,
     TakerPeerNotif, TakerReceives, TakerServes, GoTo
<1>4. CASE TakerContinues(t)
  BY <1>1, <1>4 DEF TakerContinues, AutoRemit, Remit, TakerSendsPeerMessage, GoTo
<1>5. CASE TakerProcess(t)
  BY <1>1, <1>5 DEF TakerProcess, PersistTaker, TakerShutsDown, StopTaker,
     StopTakerPurse, CrashTaker,
     RestoreTaker, GoTo, takerVars
<1>6. QED
  BY <1>2, <1>3, <1>4, <1>5 DEF TakerNext

\* A taker that is to pay tells the maker after it paid.
LEMMA TakerKeepsDue ==
  ASSUME Types, NEW t \in Takers, ~IsBuy, takerPc[t] = "notify" => Maker \in payees[t],
         TakerNext(t), takerPc'[t] = "notify"
  PROVE  Maker \in payees'[t]
<1>1. CASE SendFunds(t, Maker)
  BY <1>1 DEF SendFunds, Types, TypeOK, PlatformTypeOK, Nodes
<1>2. CASE payees' = payees
  <2>1. takerPc \in [Takers -> TakerPcs]
    BY DEF Types, TypeOK, TakerTypeOK
  <2>2. takerPc[t] = "notify" \/ SendFunds(t, Maker)
    <3>1. CASE TakerUser(t)
      BY <3>1, <2>1 DEF TakerUser, NewTaker, RegisterTaker, UnregisterTaker, TakeOrder,
         TakerNotifies,
         TakerReleases, Remit, TakerCompletes, TakerServes, GoTo
    <3>2. CASE TakerNotif(t)
      BY <3>2, <2>1 DEF TakerNotif, TradeRspDropped, TradeRspToSeller, AcceptToBuyer,
         RejectToBuyer, AcceptPanics, TakerPeerNotifPanics,
         TakerPeerNotif, TakerReceives, TakerServes, GoTo
    <3>3. CASE TakerContinues(t)
      BY <3>3, <2>1 DEF TakerContinues, AutoRemit, Remit, TakerSendsPeerMessage, GoTo
    <3>4. CASE TakerProcess(t)
      BY <3>4, <2>1 DEF TakerProcess, PersistTaker, TakerShutsDown, StopTaker,
         StopTakerPurse, CrashTaker,
         RestoreTaker, GoTo, takerVars
    <3>5. QED
      BY <3>1, <3>2, <3>3, <3>4 DEF TakerNext
  <2>3. QED
    BY <1>1, <1>2, <2>2
<1>3. QED
  BY <1>1, <1>2, TakerPayments

\* Deeds come before the claims.
Due == MakerDue /\ TakerDue

\* Due holds at first.
LEMMA InitDue == Init => Due
BY DEF Init, MakerInit, TakerInit, NoMaker, Due, MakerDue, TakerDue

\* A node pays from its own allocation only.
LEMMA PayeesOf ==
  ASSUME Types
  PROVE  /\ MakerNext => \A t \in Takers : payees'[t] = payees[t]
         /\ \A t \in Takers : TakerNext(t) => \A n \in Nodes \ {t} : payees'[n] = payees[n]
<1>1. payees \in [Nodes -> SUBSET Nodes] /\ Takers \subseteq Nodes /\ Maker \in Nodes \ Takers
  BY PlatformAssumption DEF Types, TypeOK, PlatformTypeOK, Nodes
<1>2. QED
  BY <1>1, MakerPayments, TakerPayments DEF SendFunds

\* Every step preserves Due.
LEMMA NextDue == Types /\ Bond /\ Due /\ [Next]_vars => Due'
<1> SUFFICES ASSUME Types, Bond, Due, [Next]_vars PROVE Due'
  OBVIOUS
<1>1. /\ scenario' = scenario /\ orderType' = orderType /\ (Steady' => Steady) /\ IsBuy' = IsBuy
      /\ scenario.takers \subseteq Takers /\ Maker \in Nodes \ Takers
  <2>1. scenario' = scenario /\ orderType' = orderType
    BY SteadyStays
  <2>2. QED
    BY <2>1, Setting, PlatformAssumption
    DEF Steady, Careful, MaxCrashes, IsBuy, Types, TypeOK, PlatformTypeOK, Nodes
<1>2. ASSUME MakerNext, OfMaker PROVE Due'
  <2>1. MakerDue'
    BY <1>1, <1>2, MakerKeepsDue DEF Due, MakerDue
  <2>2. TakerDue'
    BY <1>1, <1>2, PayeesOf DEF Due, TakerDue, OfMaker, takerVars
  <2>3. QED
    BY <2>1, <2>2 DEF Due
<1>3. ASSUME NEW t \in Takers, TakerNext(t), OfTaker PROVE Due'
  <2>1. payees'[Maker] = payees[Maker]
    BY <1>1, <1>3, PayeesOf
  <2>2. MakerDue'
    BY <1>1, <1>3, <2>1 DEF Due, MakerDue, OfTaker, makerVars
  <2>3. ASSUME ~IsBuy, NEW u \in Takers, takerPc'[u] = "notify" PROVE Maker \in payees'[u]
    <3>1. CASE u = t
      BY <1>3, <2>3, <3>1, TakerKeepsDue DEF Due, TakerDue
    <3>2. CASE u # t
      BY <1>3, <2>3, <3>2, TakerAlone, PayeesOf DEF Due, TakerDue, Nodes
    <3>3. QED
      BY <3>1, <3>2
  <2>4. ASSUME NEW u \in Takers, takerPc'[u] = "remit" PROVE ~IsBuy
    BY <1>3, <2>4, TakerRemits, TakerAlone DEF Due, TakerDue
  <2>5. QED
    BY <1>1, <2>2, <2>3, <2>4 DEF Due, TakerDue
<1>4. ASSUME UNCHANGED <<payees, makerVars, takerPc>> PROVE Due'
  BY <1>1, <1>4 DEF Due, MakerDue, TakerDue, makerVars
<1>5. ASSUME NEW n \in Nodes, PersistFunds(n), UNCHANGED <<makerVars, takerVars>> PROVE Due'
  BY <1>4, <1>5 DEF PersistFunds, takerVars
<1>6. CASE UNCHANGED vars
  BY <1>4, <1>6 DEF vars, platform, purse, takerVars
<1>7. QED
  BY <1>1, <1>2, <1>3, <1>5, <1>6 DEF Next

\* All that the refinement needs.
SwapInv == Types /\ Truth /\ Record /\ Bond /\ TakerFunds /\ Due

\* All that is known of a trade holds at all times.
LEMMA SwapInvariance == Spec => []SwapInv
<1>1. QED
  BY TypesInvariance, TruthInvariance, RecordInvariance, BondInvariance, FundsInvariance,
     InitDue, NextDue,
     PTL DEF Spec, SwapInv

\* The payments of Swap.tla.
Payments == {p \in Nodes \X Nodes : p[2] \in payees[p[1]]}

\* Without a payment the payments of Swap.tla stay.
LEMMA NoPayment == ASSUME payees' = payees PROVE Payments' = Payments
BY DEF Payments

\* A payment of a purse is one payment of Swap.tla.
LEMMA OnePayment ==
  ASSUME Types, NEW n \in Nodes, NEW k \in Nodes, payees' = [payees EXCEPT ![n] = @ \cup {k}]
  PROVE  Payments' = Payments \cup {<<n, k>>}
<1>1. payees \in [Nodes -> SUBSET Nodes]
  BY DEF Types, TypeOK, PlatformTypeOK
<1>2. ASSUME NEW p \in Nodes \X Nodes
      PROVE  p[2] \in payees'[p[1]] <=> p[2] \in payees[p[1]] \/ p = <<n, k>>
  BY <1>1
<1>3. QED
  BY <1>2 DEF Payments

\* A trade begins as an exchange does.
LEMMA InitSwap == Init => Exchanged!Init
<1> SUFFICES ASSUME Init PROVE Exchanged!Init
  OBVIOUS
<1>1. Agreed = {} /\ Taken = {} /\ Given = {} /\ Payments = {}
  BY DEF Init, PlatformInit, Agreed, Accepted, Taken, Given, Payments
<1>2. Steady \in BOOLEAN
  BY DEF Steady
<1>3. QED
  BY <1>1, <1>2 DEF Exchanged!Init, Payments
\* Every step of the maker is an agreement, a claim or a payment of Swap.tla,
\* or none of its business.
LEMMA MakerSwaps ==
  ASSUME SwapInv, Exclusive, MakerNext, OfMaker
  PROVE  [Exchanged!Next]_(Exchanged!vars)
<1> USE DEF SwapInv
<1>1. Steady' = Steady /\ IsBuy' = IsBuy
  BY DEF OfMaker, Steady, Careful, MaxCrashes, IsBuy
<1>2. Taken' = Taken
  BY MakerSays
<1>3. CASE UNCHANGED <<Agreed, Given, payees>>
  BY <1>1, <1>2, <1>3, NoPayment DEF Exchanged!vars, Payments
<1>4. ASSUME NEW t \in Takers, AcceptOffer(t), Agreed' = Agreed \cup {t}, Given' = Given
      PROVE  Exchanged!Agree(t)
  <2>1. Steady => Agreed = {}
    BY <1>4, AcceptOrPanic DEF Steady, Bond, AfterAgreement
  <2>2. payees' = payees
    BY <1>4 DEF AcceptOffer, purse
  <2>3. QED
    BY <1>1, <1>2, <1>4, <2>1, <2>2, NoPayment DEF Exchanged!Agree, Payments
<1>5. ASSUME MakerSendsPeerMessage, makerPc = "notify", counterpart \in Takers,
             Given' = Given \cup {counterpart},
             Agreed' = Agreed
      PROVE  Exchanged!MakerClaims(counterpart)
  <2>1. counterpart \in Agreed
    BY <1>5, PlatformAssumption DEF Truth
  <2>2. Steady => counterpart \in Taken /\ (IsBuy => <<Maker, counterpart>> \in Payments)
    <3>1. Steady => maker.message \in Agreed \cap Taken /\ (IsBuy => maker.message \in payees[Maker])
      BY <1>5 DEF Due, MakerDue, Record, Grounded, Exclusive, Steady
    <3>2. Steady => maker.message = counterpart
      BY <3>1 DEF Bond
    <3>3. QED
      BY <1>5, <3>1, <3>2 DEF Payments, Nodes
  <2>3. payees' = payees
    BY <1>5 DEF MakerSendsPeerMessage, purse
  <2>4. QED
    BY <1>1, <1>2, <1>5, <2>1, <2>2, <2>3, NoPayment DEF Exchanged!MakerClaims, Payments
<1>6. ASSUME NEW t \in Takers, t = maker.message, MakerReleases, SendFunds(Maker, t),
             UNCHANGED <<Agreed, Given>>
      PROVE  Exchanged!MakerPays(t)
  <2>1. t \in Agreed \cap Taken /\ IsBuy
    BY <1>6 DEF MakerReleases, Record, Grounded
  <2>2. Payments' = Payments \cup {<<Maker, t>>}
    BY <1>6, <2>1, OnePayment DEF SendFunds, Nodes, Agreed
  <2>3. QED
    BY <1>1, <1>2, <1>6, <2>1, <2>2 DEF Exchanged!MakerPays, Payments
<1>7. QED
  <2>1. CASE payees' = payees
    BY <1>3, <1>4, <1>5, <2>1, MakerSays DEF Exchanged!Next
  <2>2. CASE MakerReleases /\ SendFunds(Maker, maker.message)
    <3>1. UNCHANGED <<Agreed, Given>>
      BY <2>2, Quiet DEF MakerReleases, relay
    <3>2. maker.message \in Takers
      BY <2>2 DEF MakerReleases, Record, Grounded, Agreed
    <3>3. QED
      BY <1>6, <2>2, <3>1, <3>2 DEF Exchanged!Next
  <2>3. QED
    BY <2>1, <2>2, MakerPayments

\* Every step of a taker is a claim or a payment of Swap.tla, or none of its
\* business.
LEMMA TakerSwaps ==
  ASSUME SwapInv, NEW t \in Takers, TakerNext(t), OfTaker
  PROVE  [Exchanged!Next]_(Exchanged!vars)
<1> USE DEF SwapInv
<1>1. Steady' = Steady /\ IsBuy' = IsBuy
  BY DEF OfTaker, Steady, Careful, MaxCrashes, IsBuy
<1>2. Agreed' = Agreed /\ Given' = Given
  BY TakerSays
<1>3. CASE UNCHANGED <<Taken, payees>>
  BY <1>1, <1>2, <1>3, NoPayment DEF Exchanged!vars, Payments
<1>4. ASSUME TakerSendsPeerMessage(t), Taken' = Taken \cup {t} PROVE Exchanged!TakerClaims(t)
  <2>1. Steady => t \in Agreed
    BY <1>4 DEF TakerSendsPeerMessage, Truth, Steady
  <2>2. ~IsBuy => <<t, Maker>> \in Payments
    BY <1>4 DEF TakerSendsPeerMessage, Due, TakerDue, Payments, Nodes
  <2>3. payees' = payees
    BY <1>4 DEF TakerSendsPeerMessage, purse
  <2>4. QED
    BY <1>1, <1>2, <1>4, <2>1, <2>2, <2>3, NoPayment DEF Exchanged!TakerClaims, Payments
<1>5. ASSUME TakerReleases(t) \/ AutoRemit(t), SendFunds(t, Maker), Taken' = Taken
      PROVE  Exchanged!TakerPays(t)
  <2>1. ~IsBuy
    BY <1>5 DEF TakerReleases, AutoRemit, Due, TakerDue
  <2>2. t \in Agreed
    BY <1>5 DEF TakerReleases, AutoRemit, Truth, Convinced
  <2>3. Steady => t \notin Taken
    BY <1>5, <2>1, Unsettled DEF SendFunds, Bank!Pay, TakerFunds, TakerHasFunds, Bond,
       Nodes
  <2>4. Payments' = Payments \cup {<<t, Maker>>}
    BY <1>5, OnePayment DEF SendFunds, Nodes
  <2>5. QED
    BY <1>1, <1>2, <1>5, <2>1, <2>2, <2>3, <2>4 DEF Exchanged!TakerPays, Payments
<1>6. QED
  <2>1. CASE payees' = payees
    BY <1>3, <1>4, <2>1, TakerSays DEF Exchanged!Next
  <2>2. CASE (TakerReleases(t) \/ AutoRemit(t)) /\ SendFunds(t, Maker)
    <3>1. Taken' = Taken
      BY <2>2, Quiet DEF TakerReleases, AutoRemit, relay
    <3>2. QED
      BY <1>5, <2>2, <3>1 DEF Exchanged!Next
  <2>3. QED
    BY <2>1, <2>2, TakerPayments

\* Every step of a trade is a step of Swap.tla or a stutter.
LEMMA NextSwaps == SwapInv /\ Exclusive /\ [Next]_vars => [Exchanged!Next]_(Exchanged!vars)
<1> SUFFICES ASSUME SwapInv, Exclusive, [Next]_vars PROVE [Exchanged!Next]_(Exchanged!vars)
  OBVIOUS
<1>1. scenario.takers \subseteq Takers
  BY Setting DEF SwapInv, Types, TypeOK, PlatformTypeOK
<1>2. ASSUME UNCHANGED <<scenario, orderType, sent, payees>> PROVE UNCHANGED Exchanged!vars
  BY <1>2, Quiet, NoPayment DEF Exchanged!vars, Payments, Steady, Careful, MaxCrashes,
     IsBuy
<1>3. ASSUME NEW n \in Nodes, PersistFunds(n), UNCHANGED <<scenario, orderType>>
      PROVE  UNCHANGED Exchanged!vars
  BY <1>2, <1>3 DEF PersistFunds, relay
<1>4. CASE UNCHANGED vars
  BY <1>2, <1>4 DEF vars, platform, relay, purse
<1>5. QED
  BY <1>1, <1>3, <1>4, MakerSwaps, TakerSwaps DEF Next

\* A trade is an exchange: nobody pays or claims ahead of its turn, whatever
\* fails, restarts or arrives twice (maker.rs, taker.rs).  As in
\* TradePaidAsAgreed, only the accepted taker sends the maker a peer message.
THEOREM TradeImplementsSwap == Spec /\ []Exclusive => ImplementsSwap
BY InitSwap, NextSwaps, SwapInvariance, PTL DEF Spec, Exchanged!Spec, ImplementsSwap
===============================================================================
