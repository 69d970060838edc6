------------------------------- MODULE Orders --------------------------------
(***************************************************************************)
(* What an order is turned into on its way from the maker to the taker and *)
(* back: the n3xb order with its obligations, the order the taker reads    *)
(* from it, the offer, and the sats each side allocates.  Amounts and      *)
(* prices are f64 in the code; here they have Precision bits.              *)
(***************************************************************************)
EXTENDS Integers, SequencesExt

CONSTANTS Precision,      \* bits of a significand, 53 in the code
          MaxSats,        \* an order is worth less; 21e14 in the code, below 2^51
          Exponents,      \* of the amounts and prices of own orders
          Nothing         \* no order, no offer, no limit rate, no funds


-----------------------------------------------------------------------------
(* Floating point numbers, m * 2^e as <<m, e>>                             *)

\* The powers of two.
TwoTo[n \in Nat] == IF n = 0 THEN 1 ELSE 2 * TwoTo[n - 1]

Significands == TwoTo[Precision - 1]..TwoTo[Precision] - 1

Numbers == Significands \X Int

\* num/den * 2^e, rounded to a whole number, to the even one of two.
ToEven(num, den, e) ==
    LET q == num \div den
        rest == 2 * (num - q * den)
        m == IF rest > den \/ (rest = den /\ q % 2 = 1) THEN q + 1 ELSE q
    IN IF m \in Significands THEN <<m, e>> ELSE <<m \div 2, e + 1>>

\* n/d * 2^e, rounded to the nearest number.
Nearest(n, d, e) ==
    LET up(k) == TwoTo[IF k > 0 THEN k ELSE 0]
        k == CHOOSE k \in -2 * Precision..2 * Precision :
                 (n * up(-k)) \div (d * up(k)) \in Significands
    IN ToEven(n * up(-k), d * up(k), e + k)

Times(x, y) == Nearest(x[1] * y[1], 1, x[2] + y[2])

OneOver(x) == Nearest(1, x[1], -x[2])

\* as u64
Truncated(x) == IF x[2] >= 0 THEN x[1] * TwoTo[x[2]] ELSE x[1] \div TwoTo[-x[2]]

\* round(), halves away from zero
Rounded(x) ==
    IF x[2] >= 0 THEN x[1] * TwoTo[x[2]]
                 ELSE (2 * x[1] + TwoTo[-x[2]]) \div TwoTo[1 - x[2]]

\* x and y differ by at most n units of the last place of x.
WithinUlps(x, y, n) ==
    LET low == IF x[2] < y[2] THEN x[2] ELSE y[2]
        at(z) == z[1] * TwoTo[z[2] - low]
    IN at(x) - at(y) \in -n * TwoTo[x[2] - low]..n * TwoTo[x[2] - low]

-----------------------------------------------------------------------------
(* Orders, n3xb orders, offers                                             *)

\* Kinds of obligations: FatCrab, bitcoin on chain on the network of the
\* trader or another one, anything else.
Kinds == {"FatCrab", "Onchain", "OtherNetwork", "Other"}

FatCrabOrders == [type : {"Buy", "Sell"}, amount : Numbers, price : Numbers]

\* The limit rate is an Option.
N3xbOrders == [maker : SUBSET Kinds, taker : SUBSET Kinds,
               amount : Numbers, rate : Numbers \cup {Nothing}]

N3xbOffers == [maker : Kinds, taker : Kinds, sats : Nat]

Floats == Significands \X Exponents

\* FatCrabOrder of the user, worth a sat at least.
OwnOrders ==
    {o \in [type : {"Buy", "Sell"}, amount : Floats, price : Floats] :
        LET sats == Times(o.amount, o.price) IN Truncated(sats) \in 1..MaxSats - 1}

\* Mutant: the limit rate of a buy order is the price itself.
N3xbOrderUninverted(o) ==
    IF o.type = "Buy"
      THEN [maker |-> {"Onchain"}, taker |-> {"FatCrab"},
            amount |-> Times(o.amount, o.price), rate |-> o.price]
      ELSE [maker |-> {"FatCrab"}, taker |-> {"Onchain"},
            amount |-> o.amount, rate |-> o.price]

\* From FatCrabOrder into Order.
N3xbOrder(o) ==
    IF o.type = "Buy"
      THEN [maker |-> {"Onchain"}, taker |-> {"FatCrab"},
            amount |-> Times(o.amount, o.price), rate |-> OneOver(o.price)]
      ELSE [maker |-> {"FatCrab"}, taker |-> {"Onchain"},
            amount |-> o.amount, rate |-> o.price]

One == <<TwoTo[Precision - 1], 1 - Precision>>

\* Orders of other programs: any kinds, whatever the amount, with a limit rate or
\* without.
ForeignOrders ==
    [maker : SUBSET Kinds, taker : SUBSET Kinds, amount : {One}, rate : {One, Nothing}]

Failures == {"Err", "panic"}

\* What comes of an order that is not read.
Unread == [type : Failures]

\* What one more kind the maker offers makes of the type known so far, where the
\* order has the limit rate it unwraps.
MakerStep(type, kind) ==
    LET intended == IF kind = "FatCrab" THEN "Sell" ELSE "Buy"
    IN CASE type = "Err" -> "Err"
         [] type # "Err" /\ kind = "OtherNetwork" -> "Err"
         [] type # "Err" /\ kind \in {"FatCrab", "Onchain"} ->
              IF type \in {"None", intended} THEN intended ELSE "Err"
         [] OTHER -> type

\* The loop over the kinds the maker offers, in the order of a hash set: an
\* order type once one is known, or a failure.
MakerType(kinds) == FoldLeft(MakerStep, "None", kinds)

\* The loop comes to the unwrap() of a limit rate that is not there: at the first
\* kind that says what the order is, unless the wrong network has ended it before.
RateMissed(n, makerKinds) ==
    /\ n.rate = Nothing
    /\ \E i \in DOMAIN makerKinds :
          /\ makerKinds[i] \in {"FatCrab", "Onchain"}
          /\ \A j \in 1..i - 1 : makerKinds[j] # "OtherNetwork"

\* Mutant: what the taker owes is not compared with what the maker offers.
TakerTypeUnchecked(type, kinds) ==
    IF type = "None" /\ kinds # <<>> THEN "panic" ELSE type

\* What one more kind of the taker makes of it, where bitcoin may be on any
\* network.
TakerStep(type, kind) ==
    LET intended == IF kind = "FatCrab" THEN "Buy" ELSE "Sell"
    IN CASE type \in Failures \/ kind \notin {"FatCrab", "Onchain", "OtherNetwork"} -> type
         [] type = "None" /\ kind \in {"FatCrab", "Onchain", "OtherNetwork"} -> "panic"
         [] OTHER -> IF type = intended THEN type ELSE "Err"

\* The loop over the kinds of the taker.
TakerType(type, kinds) == FoldLeft(TakerStep, type, kinds)

\* from_n3xb_order, when the kinds are visited in these orders.
FromN3xbOrder(n, makerKinds, takerKinds) ==
    LET maker == MakerType(makerKinds)
        type == IF RateMissed(n, makerKinds) THEN "panic"
                ELSE IF maker = "Err" THEN "Err" ELSE TakerType(maker, takerKinds)
    IN CASE type = "Buy" -> [type |-> "Buy", price |-> OneOver(n.rate),
                             amount |-> Times(n.amount, n.rate)]
         [] type = "Sell" -> [type |-> "Sell", price |-> n.rate, amount |-> n.amount]
         [] OTHER -> [type |-> IF type = "panic" THEN "panic" ELSE "Err"]

\* Mutant: the obligations of a buy order, whatever the type.
N3xbOfferOfBuy(o) ==
    [maker |-> "Onchain", taker |-> "FatCrab", sats |-> Rounded(Times(o.amount, o.price))]

\* create_n3xb_offer
N3xbOffer(o) ==
    LET sats == Rounded(Times(o.amount, o.price))
    IN IF o.type = "Buy"
         THEN [maker |-> "Onchain", taker |-> "FatCrab", sats |-> sats]
         ELSE [maker |-> "FatCrab", taker |-> "Onchain", sats |-> sats]

\* validate_n3xb_offer: a bitcoin obligation against a FatCrab one.
ValidOffer(o) ==
    LET bitcoin == {"Onchain", "OtherNetwork"}
    IN \/ o.maker \in bitcoin /\ o.taker = "FatCrab"
       \/ o.maker = "FatCrab" /\ o.taker \in bitcoin

\* Mutant: the amount in FC is taken for sats.
AllocatedAmount(o) == Truncated(o.amount)

\* The sats allocated for the side that pays.
Allocated(o) == Truncated(Times(o.amount, o.price))

-----------------------------------------------------------------------------
(* One order on its way                                                    *)

ASSUME OrdersAssumption ==
    /\ Precision \in Nat \ {0, 1} /\ MaxSats \in Nat \ {0} /\ Exponents \subseteq Int
    /\ 4 * MaxSats <= TwoTo[Precision]
    /\ Nothing \notin FatCrabOrders \cup Unread \cup N3xbOrders \cup N3xbOffers \cup Numbers

VARIABLES stage,    \* how far it has come
          order,    \* the order of the maker
          listed,   \* the n3xb order on the relays
          taken,    \* the order the taker read
          offer,    \* its offer
          funds     \* allocated by the maker of a buy order or the taker of a sell order

vars == <<stage, order, listed, taken, offer, funds>>

Init ==
    /\ taken = Nothing /\ offer = Nothing /\ funds = Nothing
    /\ \/ stage = "new" /\ order \in OwnOrders /\ listed = Nothing
       \/ stage = "listed" /\ order = Nothing /\ listed \in ForeignOrders

NewMaker ==
    /\ stage = "new" /\ stage' = "listed"
    /\ listed' = N3xbOrder(order)
    /\ funds' = IF order.type = "Buy" THEN Allocated(order) ELSE funds
    /\ UNCHANGED <<order, taken, offer>>

QueryOrders ==
    /\ stage = "listed" /\ stage' = "read"
    /\ \E makerKinds \in SetToSeqs(listed.maker), takerKinds \in SetToSeqs(listed.taker) :
          taken' = FromN3xbOrder(listed, makerKinds, takerKinds)
    /\ UNCHANGED <<order, listed, offer, funds>>

NewTaker ==
    /\ stage = "read" /\ taken.type \notin Failures /\ stage' = "offered"
    /\ offer' = N3xbOffer(taken)
    /\ funds' = IF taken.type = "Sell" THEN Allocated(taken) ELSE funds
    /\ UNCHANGED <<order, listed, taken>>

OfferNotif ==
    /\ stage = "offered" /\ stage' = IF ValidOffer(offer) THEN "received" ELSE "refused"
    /\ UNCHANGED <<order, listed, taken, offer, funds>>

Next == NewMaker \/ QueryOrders \/ NewTaker \/ OfferNotif

Spec == Init /\ [][Next]_vars

-----------------------------------------------------------------------------
(* Properties                                                              *)

TypeOK ==
    /\ stage \in {"new", "listed", "read", "offered", "received", "refused"}
    /\ order \in OwnOrders \cup {Nothing}
    /\ listed \in N3xbOrders \cup {Nothing}
    /\ taken \in FatCrabOrders \cup Unread \cup {Nothing}
    /\ offer \in N3xbOffers \cup {Nothing}
    /\ funds \in 0..MaxSats \cup {Nothing}
    /\ (listed = Nothing) <=> stage = "new"
    /\ (taken = Nothing) <=> stage \in {"new", "listed"}
    /\ (offer = Nothing) <=> stage \in {"new", "listed", "read"}

Read == taken # Nothing /\ taken.type \notin Failures

\* A taker reads an order as what the maker made it: the type and a sell order
\* exactly, a buy order up to the last place, as it is rebuilt from its worth
\* and the inverse of its price.
OwnOrderIsRead ==
    order # Nothing /\ taken # Nothing =>
        /\ Read /\ taken.type = order.type
        /\ order.type = "Sell" => taken = order
        /\ WithinUlps(order.amount, taken.amount, 1)
        /\ WithinUlps(order.price, taken.price, 1)

\* The side that pays has allocated the sats of the offer, or one less: it
\* truncates where the offer rounds, and each computes them from its own order.
OfferIsFunded ==
    order # Nothing /\ offer # Nothing => offer.sats - funds \in 0..1

\* Whatever the order of a hash set, an order is read in one way only, and only
\* when it has a limit rate and all its obligations say the same.
ReadUnambiguously ==
    Read => /\ listed.rate # Nothing
            /\ listed.maker \cap {"FatCrab", "Onchain", "OtherNetwork"} =
                   IF taken.type = "Buy" THEN {"Onchain"} ELSE {"FatCrab"}
            /\ taken.type = "Buy" => listed.taker \cap {"Onchain", "OtherNetwork"} = {}
            /\ taken.type = "Sell" => "FatCrab" \notin listed.taker

\* The offer for an own order is for the obligations the maker listed, and the
\* maker does not refuse it.
OfferFits ==
    order # Nothing /\ offer # Nothing =>
        offer.maker \in listed.maker /\ offer.taker \in listed.taker /\ stage # "refused"
=============================================================================
