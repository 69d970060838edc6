-------------------------------- MODULE Trade --------------------------------
(***************************************************************************)
(* One order from its creation to the end of its trade: the maker, the     *)
(* takers, their purses and the relays between them.                       *)
(***************************************************************************)
EXTENDS Maker, Taker

vars == <<scenario, orderType, platform, makerVars, takerVars>>

TypeOK == PlatformTypeOK /\ MakerTypeOK /\ TakerTypeOK

Init == PlatformInit /\ MakerInit /\ TakerInit

\* The steps of a maker, and of a taker, leave the others alone.
OfMaker == UNCHANGED <<scenario, orderType, takerVars>>
OfTaker == UNCHANGED <<scenario, orderType, makerVars>>

Next ==
    \/ MakerNext /\ OfMaker
    \/ \E t \in scenario.takers : TakerNext(t) /\ OfTaker
    \/ \E n \in Nodes : PersistFunds(n) /\ UNCHANGED <<scenario, orderType, makerVars, takerVars>>

Spec == Init /\ [][Next]_vars

\* The actors and n3xb are never suspended: a handler runs to its end, a
\* message on a relay is handed over, a shutdown and a restart come to an end.
\* Users who trade carry on with the trade: they subscribe, answer the peer
\* and close.  Nobody is obliged to begin one, to cancel or to reject.
Fairness ==
    /\ WF_vars(MakerContinues /\ OfMaker)
    /\ WF_vars(MakerNotif /\ OfMaker)
    /\ WF_vars((RestoreMaker \/ RegisterMaker) /\ OfMaker)
    /\ WF_vars(stops' = stops /\ MakerShutsDown /\ OfMaker)
    /\ WF_vars((MakerReleases \/ MakerNotifies) /\ OfMaker)
    /\ WF_vars(MakerCompletes /\ OfMaker)
    /\ \A t \in Takers :
         /\ WF_vars(TakerContinues(t) /\ OfTaker)
         /\ WF_vars(TakerNotif(t) /\ OfTaker)
         /\ WF_vars((RestoreTaker(t) \/ RegisterTaker(t)) /\ OfTaker)
         /\ WF_vars(stops' = stops /\ TakerShutsDown(t) /\ OfTaker)
         /\ WF_vars((TakerNotifies(t) \/ TakerReleases(t)) /\ OfTaker)
         /\ WF_vars(TakerCompletes(t) /\ OfTaker)

FairSpec == Spec /\ Fairness

-----------------------------------------------------------------------------
(* Properties                                                              *)

Accepted(t) == Message("Accept", t) \in sent

\* The takers that were accepted, that told the maker of their part, and that
\* the maker told of its own.
Agreed == {t \in Takers : Accepted(t)}
Taken == {t \in Takers : Message("TakerPeer", t) \in sent}
Given == {t \in Takers : Message("MakerPeer", t) \in sent}

\* Users are careful and nothing crashes; shutdowns and failures are possible.
Steady == Careful /\ MaxCrashes = 0

\* The maker agrees with one taker at most, and it is the one its own record
\* and its n3xb session name: no crossing of offers, responses, shutdowns and
\* restarts makes two takers believe they have the trade.
OneAgreement ==
    Steady => \A t \in Takers : Accepted(t) =>
        /\ maker.peer = t /\ counterpart = t
        /\ maker.state \notin {"New", "WaitingForOffers", "ReceivedOffer", "TradeCancelled"}

\* A taker that holds itself accepted, or paid by the maker, was accepted: no
\* crash, restart or message delivered again makes it believe so otherwise.
\* The states it reaches at the request of its user say as much only if its
\* user is careful.
BelievesWhatIsTrue ==
    \A t \in Takers : Accepted(t) \/ taker[t].state \notin
        {"OfferAccepted", "InboundBtcNotified", "InboundFcNotified"}
            \cup (IF Careful THEN {"NotifiedOutbound", "TradeCompleted"} ELSE {})

\* Bitcoin goes only to the other side of the agreement, and a buyer's only
\* once the seller has claimed to have remitted the Fatcrabs.
PaidAsAgreed ==
    /\ payees[Maker] \subseteq Agreed \cap Taken
    /\ \A t \in Takers : payees[t] \subseteq {n \in {Maker} : t \in Agreed}

\* What each side believes about its funds is so: they are there until it
\* pays, gone once it told the peer, and free again once the trade is off.
FundsMatchState ==
    /\ Steady /\ IsBuy /\ makerPc \in {"idle", "down"} =>
         /\ maker.state \in {"New", "WaitingForOffers", "ReceivedOffer", "AcceptedOffer"}
              => Maker \in held
         /\ maker.state \in {"NotifiedOutbound", "TradeCompleted"} => paid[Maker] = 1
         /\ maker.state = "TradeCancelled" => freed[Maker] = 1
    /\ Steady /\ ~IsBuy => \A t \in Takers : takerPc[t] \in {"idle", "down"} =>
         /\ taker[t].state \in {"New", "SubmittedOffer"} => t \in held
         /\ taker[t].state \in {"NotifiedOutbound", "InboundFcNotified", "TradeCompleted"}
              => paid[t] = 1
         /\ taker[t].state = "OfferRejected" => freed[t] = 1

\* A stranger sent node n a message that n unwraps: an address, or specifics
\* whose type it asserts.  An offer or a rejection has neither.
Misled(n) == \E m \in sent :
    /\ m.kind \in {"Accept", "TakerPeer", "MakerPeer"}
    /\ Recipient(m) = n /\ FromStranger(m)

\* No actor dies of an unwrap() as long as n3xb answers, its purse runs and what
\* it unwraps comes from a peer that uses this library: in particular nobody
\* frees funds that are gone, before a restart or after it.
NobodyPanics ==
    /\ makerPc = "panicked" => ~purseUp[Maker] \/ Misled(Maker)
    /\ \A t \in Takers : takerPc[t] = "panicked" => ~purseUp[t] \/ Misled(t)

\* The abstract exchange: what was accepted and claimed is what the relays
\* keep, what was paid is what the purses broadcast.
Exchanged == INSTANCE Swap WITH
    steady <- Steady,
    payer <- IF IsBuy THEN "maker" ELSE "taker",
    agreed <- Agreed,
    taken <- Taken,
    given <- Given,
    paid <- {p \in Nodes \X Nodes : p[2] \in payees[p[1]]}

\* Whatever fails, restarts or arrives twice, a trade goes through the steps of
\* an exchange in their order: nobody pays or claims ahead of its turn.
ImplementsSwap == Exchanged!Spec

\* A trade that was agreed between two that use this library is completed by both
\* sides, unless the maker also sent the taker a rejection, which may overtake
\* the acceptance.
AgreementIsCompleted ==
    \A t \in Takers :
        Accepted(t) /\ scenario.strangers \cap {Maker, t} = {}
                    ~> \/ maker.state = "TradeCompleted" /\ taker[t].state = "TradeCompleted"
                       \/ Message("Reject", t) \in sent
=============================================================================
