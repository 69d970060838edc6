-------------------------------- MODULE Taker --------------------------------
(***************************************************************************)
(* The taker actors (taker/taker.rs, taker/data.rs), for a buy and for a   *)
(* sell order: the taker of a buy order sells Fatcrabs, the taker of a     *)
(* sell order pays bitcoin.  As in Maker.tla a handler is one action per   *)
(* call that leaves the process.                                           *)
(***************************************************************************)
EXTENDS Platform

TakerStates == {"New", "SubmittedOffer", "OfferAccepted", "OfferRejected",
                "NotifiedOutbound", "InboundBtcNotified", "InboundFcNotified",
                "TradeCompleted"}

VARIABLES taker,           \* the data behind the RwLock of each taker
          takerDisk,       \* the data in its file, NoTaker if there is none
          takerPc,         \* where its actor is
          takerListening   \* its notif_tx is registered

takerVars == <<taker, takerDisk, takerPc, takerListening>>

\* "remit": the offer is accepted, the funds are sent next.  "notify": the peer
\* message is next.
TakerPcs == {"idle", "remit", "notify", "panicked", "down"}

NoTaker == [state |-> "Absent", address |-> "none"]

\* address: peer_btc_addr, a string that is stored before it is parsed.  Only a
\* stranger's is of another network, or no address at all.
TakerData == [state : TakerStates,
              address : {"none", "usable", "otherNetwork", "garbled"}]

TakerTypeOK ==
    /\ taker \in [Takers -> TakerData \cup {NoTaker}]
    /\ takerDisk \in [Takers -> TakerData \cup {NoTaker}]
    /\ takerPc \in [Takers -> TakerPcs]
    /\ takerListening \in [Takers -> BOOLEAN]

TakerInit ==
    /\ taker = [t \in Takers |-> NoTaker] /\ takerDisk = taker
    /\ takerPc = [t \in Takers |-> "idle"]
    /\ takerListening = [t \in Takers |-> FALSE]

TakerServes(t) == takerPc[t] = "idle" /\ taker[t].state # "Absent"

SetTakerState(t, state) == taker' = [taker EXCEPT ![t].state = state]

GoTo(t, pc) == takerPc' = [takerPc EXCEPT ![t] = pc]

-----------------------------------------------------------------------------
(* Requests of the user                                                    *)

\* Trader::new_buy_taker and new_sell_taker, on an order found on the relays;
\* the latter allocates the funds.
NewTaker(t) ==
    /\ taker[t].state = "Absent" /\ takerPc[t] = "idle" /\ purseUp[t]
    /\ posted /\ crashes[t] = 0
    /\ IF IsBuy THEN UNCHANGED escrow ELSE Bank!Allocate(t)
    /\ SetTakerState(t, "New")
    /\ UNCHANGED <<relay, payees, purseUp, stops>>
    /\ UNCHANGED <<takerDisk, takerPc, takerListening>>

RegisterTaker(t) ==
    /\ TakerServes(t) /\ ~takerListening[t]
    /\ takerListening' = [takerListening EXCEPT ![t] = TRUE]
    /\ UNCHANGED <<platform, taker, takerDisk, takerPc>>

UnregisterTaker(t) ==
    /\ TakerServes(t) /\ takerListening[t] /\ ~Careful
    /\ takerListening' = [takerListening EXCEPT ![t] = FALSE]
    /\ UNCHANGED <<platform, taker, takerDisk, takerPc>>

TakeOrder(t) ==
    /\ TakerServes(t)
    /\ Careful => taker[t].state = "New" /\ takerListening[t]
    /\ Exchange(t, {}, {Message("Offer", t)})
    /\ SetTakerState(t, "SubmittedOffer")
    /\ UNCHANGED <<posted, counterpart, purse, purseUp, stops>>
    /\ UNCHANGED <<takerDisk, takerPc, takerListening>>

\* notify_peer of a seller of Fatcrabs: the user remitted them.
TakerNotifies(t) ==
    /\ IsBuy /\ TakerServes(t)
    /\ Careful => taker[t].state = "OfferAccepted"
    /\ GoTo(t, "notify")
    /\ UNCHANGED <<platform, taker, takerDisk, takerListening>>

\* release_btc_notify_peer up to send_funds.  A failure ends the handler; without
\* a purse, or on a string that is no address, the actor panics.
Remit(t) ==
    \/ /\ taker[t].address = "usable"
       /\ \/ SendFunds(t, Maker) /\ GoTo(t, "notify")
          \/ SendFundsFails(t) /\ GoTo(t, "idle")
          \/ ~purseUp[t] /\ GoTo(t, "panicked") /\ UNCHANGED purse
    \/ taker[t].address = "otherNetwork" /\ GoTo(t, "idle") /\ UNCHANGED purse
    \/ taker[t].address = "garbled" /\ GoTo(t, "panicked") /\ UNCHANGED purse

\* release_notify_peer of a buyer of Fatcrabs, after a failed auto-remit.
TakerReleases(t) ==
    /\ ~IsBuy /\ TakerServes(t) /\ taker[t].address # "none"
    /\ Careful => taker[t].state = "OfferAccepted"
    /\ Remit(t)
    /\ UNCHANGED <<relay, purseUp, stops, taker, takerDisk, takerListening>>

\* The state is set before n3xb answers, whatever the answer.
TakerCompletes(t) ==
    /\ TakerServes(t)
    /\ Careful => taker[t].state \in {"InboundBtcNotified", "InboundFcNotified"}
    /\ SetTakerState(t, "TradeCompleted")
    /\ UNCHANGED <<platform, takerDisk, takerPc, takerListening>>

-----------------------------------------------------------------------------
(* The rest of the handlers that call twice                                *)

\* Auto-remit of the pre-allocated funds.
AutoRemit(t) ==
    /\ takerPc[t] = "remit"
    /\ Remit(t)
    /\ UNCHANGED <<relay, purseUp, stops, taker, takerDisk, takerListening>>

\* send_peer_message
TakerSendsPeerMessage(t) ==
    /\ takerPc[t] = "notify"
    /\ GoTo(t, "idle")
    /\ \/ /\ Exchange(t, {}, {Message("TakerPeer", t)})
          /\ SetTakerState(t, "NotifiedOutbound")
       \/ CallsMayFail /\ UNCHANGED <<sent, seen, taker>>
    /\ UNCHANGED <<posted, counterpart, purse, purseUp, stops, takerDisk, takerListening>>

-----------------------------------------------------------------------------
(* Notifications of n3xb                                                   *)

TakerReceives(t, m) ==
    /\ TakerServes(t) /\ m \in Waiting(t)
    /\ Careful => takerListening[t]
    /\ Exchange(t, {m}, {})
    /\ UNCHANGED <<posted, counterpart, purseUp, stops, takerDisk, takerListening>>

IsResponse(m) == m.kind \in {"Accept", "Reject"}

\* Not in state SubmittedOffer, or for a seller of Fatcrabs nobody listens:
\* the response is lost.
TradeRspDropped(t, m) ==
    /\ TakerReceives(t, m) /\ IsResponse(m)
    /\ taker[t].state # "SubmittedOffer" \/ (IsBuy /\ ~takerListening[t])
    /\ UNCHANGED <<purse, taker, takerPc>>

\* Mutant: any response is taken for an acceptance.
AnyTradeRspAccepts(t, m) ==
    /\ IsBuy /\ taker[t].state = "SubmittedOffer" /\ takerListening[t]
    /\ TakerReceives(t, m) /\ IsResponse(m)
    /\ SetTakerState(t, "OfferAccepted")
    /\ UNCHANGED <<purse, takerPc>>

\* The taker of a buy order: its user is to remit the Fatcrabs.
TradeRspToSeller(t, m) ==
    /\ IsBuy /\ taker[t].state = "SubmittedOffer" /\ takerListening[t]
    /\ TakerReceives(t, m) /\ IsResponse(m)
    /\ SetTakerState(t, IF m.kind = "Accept" THEN "OfferAccepted" ELSE "OfferRejected")
    /\ UNCHANGED <<purse, takerPc>>

\* A stranger's acceptance without FatCrabMakeTradeRspSpecifics: unwrap(), before
\* anything is set, and whether a user listens or not.
AcceptPanics(t, m) ==
    /\ taker[t].state = "SubmittedOffer"
    /\ TakerReceives(t, m) /\ m.kind = "Accept" /\ FromStranger(m)
    /\ GoTo(t, "panicked")
    /\ UNCHANGED <<purse, taker>>

\* Mutant: the address is used but not stored.
AcceptForgetsAddress(t, m) ==
    /\ ~IsBuy /\ taker[t].state = "SubmittedOffer"
    /\ TakerReceives(t, m) /\ m.kind = "Accept"
    /\ SetTakerState(t, "OfferAccepted")
    /\ GoTo(t, "remit")
    /\ UNCHANGED purse

\* The taker of a sell order remits the bitcoin without waiting for its user.
\* Address and state are set before the address is looked at.
AcceptToBuyer(t, m) ==
    /\ ~IsBuy /\ taker[t].state = "SubmittedOffer"
    /\ TakerReceives(t, m) /\ m.kind = "Accept"
    /\ \E a \in {"usable", "otherNetwork", "garbled"} :
         /\ a = "usable" \/ FromStranger(m)
         /\ taker' = [taker EXCEPT ![t] = [state |-> "OfferAccepted", address |-> a]]
    /\ GoTo(t, "remit")
    /\ UNCHANGED purse

\* Mutant: a rejection leaves the funds allocated.
RejectKeepsFunds(t, m) ==
    /\ ~IsBuy /\ taker[t].state = "SubmittedOffer"
    /\ TakerReceives(t, m) /\ m.kind = "Reject"
    /\ SetTakerState(t, "OfferRejected")
    /\ UNCHANGED <<purse, takerPc>>

\* Mutant: a second rejection is served like the first.
RejectAgain(t, m) ==
    /\ ~IsBuy /\ taker[t].state \in {"SubmittedOffer", "OfferRejected"}
    /\ TakerReceives(t, m) /\ m.kind = "Reject"
    /\ \/ /\ FreeFunds(t)
          /\ SetTakerState(t, "OfferRejected")
          /\ UNCHANGED takerPc
       \/ /\ ~purseUp[t] \/ t \notin held
          /\ GoTo(t, "panicked")
          /\ UNCHANGED <<purse, taker>>

RejectToBuyer(t, m) ==
    /\ ~IsBuy /\ taker[t].state = "SubmittedOffer"
    /\ TakerReceives(t, m) /\ m.kind = "Reject"
    /\ \/ /\ FreeFunds(t)
          /\ SetTakerState(t, "OfferRejected")
          /\ UNCHANGED takerPc
       \/ /\ ~purseUp[t] \/ t \notin held    \* unwrap()
          /\ GoTo(t, "panicked")
          /\ UNCHANGED <<purse, taker>>

\* A peer message is lost on a taker that does not expect one.
TakerPeerNotif(t, m) ==
    /\ TakerReceives(t, m) /\ m.kind = "MakerPeer"
    /\ IF taker[t].state = "NotifiedOutbound"
         THEN SetTakerState(t, IF IsBuy THEN "InboundBtcNotified" ELSE "InboundFcNotified")
         ELSE UNCHANGED taker
    /\ UNCHANGED <<purse, takerPc>>

\* What a stranger sends need not be a FatCrabPeerMessage: unwrap().  A txid that
\* is none is only logged.
TakerPeerNotifPanics(t, m) ==
    /\ TakerReceives(t, m) /\ m.kind = "MakerPeer"
    /\ FromStranger(m) /\ taker[t].state = "NotifiedOutbound"
    /\ GoTo(t, "panicked")
    /\ UNCHANGED <<purse, taker>>

-----------------------------------------------------------------------------
(* The process                                                             *)

\* The taker's persister (Persister.tla) brings its file up to date.
PersistTaker(t) ==
    /\ MaxCrashes > 0 /\ takerPc[t] # "down"
    /\ takerDisk' = [takerDisk EXCEPT ![t] = taker[t]]
    /\ UNCHANGED <<platform, taker, takerPc, takerListening>>

StopTaker(t) ==
    /\ takerPc[t] \in {"idle", "panicked"}
    /\ CountStop(purseUp[t])
    /\ GoTo(t, "down")
    /\ takerDisk' = [takerDisk EXCEPT ![t] = taker[t]]
    /\ UNCHANGED <<relay, purse, purseUp, taker, takerListening>>

StopTakerPurse(t) ==
    /\ StopPurse(t, takerPc[t] # "down")
    /\ UNCHANGED takerVars

CrashTaker(t) ==
    /\ takerPc[t] # "down"
    /\ PlatformCrash(t)
    /\ GoTo(t, "down")
    /\ taker' = [taker EXCEPT ![t] = takerDisk[t]]
    /\ UNCHANGED <<takerDisk, takerListening>>

RestoreTaker(t) ==
    /\ takerPc[t] = "down" /\ ~purseUp[t]
    /\ PlatformStart(t)
    /\ GoTo(t, "idle")
    /\ taker' = [taker EXCEPT ![t] = takerDisk[t]]
    /\ takerListening' = [takerListening EXCEPT ![t] = FALSE]
    /\ UNCHANGED takerDisk

TakerUser(t) ==
    \/ NewTaker(t) \/ RegisterTaker(t) \/ UnregisterTaker(t) \/ TakeOrder(t)
    \/ TakerNotifies(t) \/ TakerReleases(t) \/ TakerCompletes(t)

TakerNotif(t) == \E m \in Messages :
    \/ TradeRspDropped(t, m) \/ TradeRspToSeller(t, m)
    \/ AcceptToBuyer(t, m) \/ AcceptPanics(t, m) \/ RejectToBuyer(t, m)
    \/ TakerPeerNotif(t, m) \/ TakerPeerNotifPanics(t, m)

TakerContinues(t) == AutoRemit(t) \/ TakerSendsPeerMessage(t)

TakerShutsDown(t) == StopTaker(t) \/ StopTakerPurse(t)

TakerProcess(t) == PersistTaker(t) \/ TakerShutsDown(t) \/ CrashTaker(t) \/ RestoreTaker(t)

TakerNext(t) == TakerUser(t) \/ TakerNotif(t) \/ TakerContinues(t) \/ TakerProcess(t)
=============================================================================
