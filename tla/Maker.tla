-------------------------------- MODULE Maker --------------------------------
(***************************************************************************)
(* The maker actor (maker/maker.rs, maker/data.rs), for a buy and for a    *)
(* sell order.                                                             *)
(*                                                                         *)
(* The actor serves one request or notification at a time.  A handler is   *)
(* one action unless it makes two calls that leave the process; then it is *)
(* one action per call, and makerPc names the call that comes next.        *)
(***************************************************************************)
EXTENDS Platform

MakerStates == {"New", "WaitingForOffers", "ReceivedOffer", "AcceptedOffer",
                "InboundBtcNotified", "InboundFcNotified", "NotifiedOutbound",
                "TradeCompleted", "TradeCancelled"}

VARIABLES maker,           \* the data behind the RwLock
          makerDisk,       \* the data in the file, NoMaker if there is none
          makerPc,         \* where the actor is
          makerListening   \* notif_tx is registered

makerVars == <<maker, makerDisk, makerPc, makerListening>>

\* "free", "notify": a handler awaits the purse, or the relay.
\* "panicked": an unwrap() failed and the task is gone.
MakerPcs == {"idle", "free", "notify", "panicked", "down"}

\* A maker that was not created, or that left no file when it crashed.
NoMaker == [state |-> "Absent", offers |-> {}, peer |-> NoOne, message |-> NoOne]

\* offers: who sent the offer_envelopes; peer: peer_pubkey; message: who sent
\* peer_envelope, and with it the address or the txid of the peer.
MakerData == [state : MakerStates, offers : SUBSET Takers,
              peer : Takers \cup {NoOne}, message : Takers \cup {NoOne}]

MakerTypeOK ==
    /\ maker \in MakerData \cup {NoMaker}
    /\ makerDisk \in MakerData \cup {NoMaker}
    /\ makerPc \in MakerPcs
    /\ makerListening \in BOOLEAN

MakerInit ==
    /\ maker = NoMaker /\ makerDisk = NoMaker
    /\ makerPc = "idle"
    /\ makerListening = FALSE

\* The actor takes its next request or notification.
MakerServes == makerPc = "idle" /\ maker.state # "Absent"

SetMakerState(state) == maker' = [maker EXCEPT !.state = state]

\* An unwrap() of the answer of n3xb: nothing was sent, the task is gone.
MakerCallPanics ==
    /\ CallsMayFail
    /\ makerPc' = "panicked"
    /\ UNCHANGED <<sent, seen, counterpart, maker>>

-----------------------------------------------------------------------------
(* Requests of the user                                                    *)

\* Trader::new_buy_maker allocates the funds first; new_sell_maker does not.
\* A maker that a crash wiped out is not created again: its order would be
\* another one.
NewMaker ==
    /\ maker.state = "Absent" /\ makerPc = "idle" /\ purseUp[Maker]
    /\ crashes[Maker] = 0
    /\ IF IsBuy THEN Bank!Allocate(Maker) ELSE UNCHANGED escrow
    /\ SetMakerState("New")
    /\ UNCHANGED <<relay, payees, purseUp, stops, makerDisk, makerPc, makerListening>>

RegisterMaker ==
    /\ MakerServes /\ ~makerListening
    /\ makerListening' = TRUE
    /\ UNCHANGED <<platform, maker, makerDisk, makerPc>>

UnregisterMaker ==
    /\ MakerServes /\ makerListening /\ ~Careful
    /\ makerListening' = FALSE
    /\ UNCHANGED <<platform, maker, makerDisk, makerPc>>

PostNewOrder ==
    /\ MakerServes
    /\ Careful => maker.state = "New" /\ makerListening
    /\ posted' = TRUE
    /\ SetMakerState("WaitingForOffers")
    /\ UNCHANGED <<sent, seen, counterpart, purse, purseUp, stops>>
    /\ UNCHANGED <<makerDisk, makerPc, makerListening>>

Cancellable == maker.state \in {"New", "WaitingForOffers", "ReceivedOffer"}

\* n3xb takes the order off the relays; a buyer then frees its funds.
CancelOrder ==
    /\ MakerServes /\ Cancellable
    /\ posted' = FALSE
    /\ IF IsBuy THEN makerPc' = "free" /\ UNCHANGED maker
                ELSE SetMakerState("TradeCancelled") /\ UNCHANGED makerPc
    /\ UNCHANGED <<sent, seen, counterpart, purse, purseUp, stops>>
    /\ UNCHANGED <<makerDisk, makerListening>>

CancelFreesFunds ==
    /\ makerPc = "free"
    /\ \/ /\ FreeFunds(Maker)
          /\ SetMakerState("TradeCancelled")
          /\ makerPc' = "idle"
       \/ /\ ~purseUp[Maker] \/ Maker \notin held   \* unwrap()
          /\ makerPc' = "panicked"
          /\ UNCHANGED <<purse, maker>>
    /\ UNCHANGED <<relay, purseUp, stops, makerDisk, makerListening>>

AcceptOffer(t) ==
    /\ MakerServes /\ t \in maker.offers
    /\ Careful => maker.state = "ReceivedOffer"
    /\ \/ /\ Exchange(Maker, {}, {Message("Accept", t)})
          /\ counterpart' = t
          /\ maker' = [maker EXCEPT !.peer = t, !.state = "AcceptedOffer"]
          /\ UNCHANGED makerPc
       \/ MakerCallPanics
    /\ UNCHANGED <<posted, purse, purseUp, stops, makerDisk, makerListening>>

RejectOffer(t) ==
    /\ MakerServes /\ t \in maker.offers
    /\ Careful => maker.state = "ReceivedOffer"
    /\ \/ Exchange(Maker, {}, {Message("Reject", t)}) /\ UNCHANGED <<counterpart, maker, makerPc>>
       \/ MakerCallPanics
    /\ UNCHANGED <<posted, purse, purseUp, stops, makerDisk, makerListening>>

\* Mutant: the buyer pays at once the taker whose offer it accepted.
MakerReleasesEarly ==
    /\ IsBuy /\ MakerServes /\ maker.peer # NoOne
    /\ Careful => maker.state \in {"AcceptedOffer", "InboundFcNotified"}
    /\ \/ SendFunds(Maker, maker.peer) /\ makerPc' = "notify"
       \/ SendFundsFails(Maker) /\ UNCHANGED makerPc
       \/ ~purseUp[Maker] /\ makerPc' = "panicked" /\ UNCHANGED purse
    /\ UNCHANGED <<relay, purseUp, stops, maker, makerDisk, makerListening>>

\* release_notify_peer of a buyer, first call: pay the peer's address.
MakerReleases ==
    /\ IsBuy /\ MakerServes /\ maker.message # NoOne
    /\ Careful => maker.state = "InboundFcNotified"
    /\ \/ SendFunds(Maker, maker.message) /\ makerPc' = "notify"
       \/ SendFundsFails(Maker) /\ UNCHANGED makerPc
       \/ ~purseUp[Maker] /\ makerPc' = "panicked" /\ UNCHANGED purse
    /\ UNCHANGED <<relay, purseUp, stops, maker, makerDisk, makerListening>>

\* notify_peer of a seller: the user remitted the Fatcrabs.
MakerNotifies ==
    /\ ~IsBuy /\ MakerServes
    /\ Careful => maker.state = "InboundBtcNotified"
    /\ makerPc' = "notify"
    /\ UNCHANGED <<platform, maker, makerDisk, makerListening>>

\* send_peer_message, the last call of both.
MakerSendsPeerMessage ==
    /\ makerPc = "notify"
    /\ makerPc' = "idle"
    /\ \/ /\ counterpart # NoOne
          /\ Exchange(Maker, {}, {Message("MakerPeer", counterpart)})
          /\ SetMakerState("NotifiedOutbound")
       \/ /\ CallsMayFail \/ counterpart = NoOne
          /\ UNCHANGED <<sent, seen, maker>>
    /\ UNCHANGED <<posted, counterpart, purse, purseUp, stops, makerDisk, makerListening>>

\* The state is set before n3xb answers, whatever the answer.
MakerCompletes ==
    /\ MakerServes
    /\ Careful => maker.state = "NotifiedOutbound"
    /\ SetMakerState("TradeCompleted")
    /\ UNCHANGED <<platform, makerDisk, makerPc, makerListening>>

-----------------------------------------------------------------------------
(* Notifications of n3xb                                                   *)

\* Users who are careful subscribe before they reconnect (trader.rs:139-142).
MakerReceives(m) ==
    /\ MakerServes /\ m \in Waiting(Maker)
    /\ Careful => makerListening

\* Mutant: what is stored is not the sender but the message.
OfferNotifStoresMessage(m) ==
    /\ MakerReceives(m) /\ m.kind = "Offer"
    /\ maker.state \in {"WaitingForOffers", "ReceivedOffer"}
    /\ Exchange(Maker, {m}, {})
    /\ maker' = [maker EXCEPT !.offers = @ \cup {m}, !.state = "ReceivedOffer"]
    /\ UNCHANGED <<posted, counterpart, purse, purseUp, stops>>
    /\ UNCHANGED <<makerDisk, makerPc, makerListening>>

\* An offer is stored if a user listens, and dropped otherwise.
OfferNotif(m) ==
    /\ MakerReceives(m) /\ m.kind = "Offer"
    /\ maker.state \in {"WaitingForOffers", "ReceivedOffer"}
    /\ Exchange(Maker, {m}, {})
    /\ IF makerListening
         THEN maker' = [maker EXCEPT !.offers = @ \cup {m.taker}, !.state = "ReceivedOffer"]
         ELSE UNCHANGED maker
    /\ UNCHANGED <<posted, counterpart, purse, purseUp, stops>>
    /\ UNCHANGED <<makerDisk, makerPc, makerListening>>

\* handle_offer_in_unexpected_state rejects it, whoever it comes from.
OfferNotifInUnexpectedState(m) ==
    /\ MakerReceives(m) /\ m.kind = "Offer"
    /\ maker.state \notin {"WaitingForOffers", "ReceivedOffer"}
    /\ \/ /\ Exchange(Maker, {m}, {Message("Reject", m.taker)})
          /\ UNCHANGED <<counterpart, maker, makerPc>>
       \/ MakerCallPanics
    /\ UNCHANGED <<posted, purse, purseUp, stops, makerDisk, makerListening>>

\* Mutant: a peer message is welcome in any state.
MakerPeerNotifAnyState(m) ==
    /\ MakerReceives(m) /\ m.kind = "TakerPeer"
    /\ Exchange(Maker, {m}, {})
    /\ maker' = [maker EXCEPT !.message = m.taker,
                   !.state = IF IsBuy THEN "InboundFcNotified" ELSE "InboundBtcNotified"]
    /\ UNCHANGED <<posted, counterpart, purse, purseUp, stops>>
    /\ UNCHANGED <<makerDisk, makerPc, makerListening>>

\* A peer message is lost on a maker that does not expect one.
MakerPeerNotif(m) ==
    /\ MakerReceives(m) /\ m.kind = "TakerPeer"
    /\ Exchange(Maker, {m}, {})
    /\ IF maker.state = "AcceptedOffer"
         THEN maker' = [maker EXCEPT !.message = m.taker,
                          !.state = IF IsBuy THEN "InboundFcNotified"
                                             ELSE "InboundBtcNotified"]
         ELSE UNCHANGED maker
    /\ UNCHANGED <<posted, counterpart, purse, purseUp, stops>>
    /\ UNCHANGED <<makerDisk, makerPc, makerListening>>

\* An expected message of a stranger.  The address is one of another network, or
\* the txid none: the message is forgotten and the maker goes on waiting.  The
\* message is not a FatCrabPeerMessage, or the address none: unwrap().
MakerPeerNotifOfStranger(m) ==
    /\ MakerReceives(m) /\ m.kind = "TakerPeer"
    /\ FromStranger(m) /\ maker.state = "AcceptedOffer"
    /\ Exchange(Maker, {m}, {})
    /\ makerPc' \in {"idle", "panicked"}
    /\ UNCHANGED <<posted, counterpart, purse, purseUp, stops>>
    /\ UNCHANGED <<maker, makerDisk, makerListening>>

-----------------------------------------------------------------------------
(* The process                                                             *)

\* The maker's persister (Persister.tla) brings its file up to date.
PersistMaker ==
    /\ MaxCrashes > 0 /\ makerPc # "down"
    /\ makerDisk' = maker
    /\ UNCHANGED <<platform, maker, makerPc, makerListening>>

\* Mutant: the shutdown does not flush the file.
StopMakerUnflushed ==
    /\ makerPc \in {"idle", "panicked"}
    /\ CountStop(purseUp[Maker])
    /\ makerPc' = "down"
    /\ UNCHANGED <<relay, purse, purseUp, maker, makerDisk, makerListening>>

\* The answer to a shutdown request comes after the persister is joined; the
\* persister of a task that panicked drains its channel just as well.
StopMaker ==
    /\ makerPc \in {"idle", "panicked"}
    /\ CountStop(purseUp[Maker])
    /\ makerPc' = "down"
    /\ makerDisk' = maker
    /\ UNCHANGED <<relay, purse, purseUp, maker, makerListening>>

StopMakerPurse ==
    /\ StopPurse(Maker, makerPc # "down")
    /\ UNCHANGED makerVars

CrashMaker ==
    /\ makerPc # "down"
    /\ PlatformCrash(Maker)
    /\ makerPc' = "down"
    /\ maker' = makerDisk
    /\ UNCHANGED <<makerDisk, makerListening>>

\* Trader::restore: no state, no notif_tx, only what the file holds.
RestoreMaker ==
    /\ makerPc = "down" /\ ~purseUp[Maker]
    /\ PlatformStart(Maker)
    /\ makerPc' = "idle"
    /\ maker' = makerDisk
    /\ makerListening' = FALSE
    /\ UNCHANGED makerDisk

MakerUser ==
    \/ NewMaker \/ RegisterMaker \/ UnregisterMaker
    \/ PostNewOrder \/ CancelOrder
    \/ \E t \in Takers : AcceptOffer(t) \/ RejectOffer(t)
    \/ MakerReleases \/ MakerNotifies \/ MakerCompletes

MakerNotif == \E m \in Messages :
    \/ OfferNotif(m) \/ OfferNotifInUnexpectedState(m)
    \/ MakerPeerNotif(m) \/ MakerPeerNotifOfStranger(m)

MakerContinues == CancelFreesFunds \/ MakerSendsPeerMessage

MakerShutsDown == StopMaker \/ StopMakerPurse

MakerProcess == PersistMaker \/ MakerShutsDown \/ CrashMaker \/ RestoreMaker

MakerNext == MakerUser \/ MakerNotif \/ MakerContinues \/ MakerProcess
=============================================================================
