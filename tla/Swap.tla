-------------------------------- MODULE Swap ---------------------------------
(***************************************************************************)
(* What a trade promises: the exchange of bitcoin for Fatcrabs between a   *)
(* maker and a taker it chose, as a sequence of deeds and of claims to     *)
(* have done one's part.  The maker of a buy order, and the taker of a     *)
(* sell order, pays bitcoin; the other remits Fatcrabs, which this         *)
(* software does not see.                                                  *)
(***************************************************************************)
CONSTANTS Maker, Takers

VARIABLES steady,     \* users are careful, and nothing crashes
          payer,      \* "maker" or "taker"
          agreed,     \* takers whose offer was accepted
          taken,      \* takers that claimed to have done their part
          given,      \* takers the maker told that it did its part
          paid        \* payments of bitcoin, <<from, to>>

vars == <<steady, payer, agreed, taken, given, paid>>

Init ==
    /\ steady \in BOOLEAN
    /\ payer \in {"maker", "taker"}
    /\ agreed = {} /\ taken = {} /\ given = {} /\ paid = {}

\* The maker accepts one offer.  Without a memory of it, it may do so again.
Agree(t) ==
    /\ steady => agreed = {}
    /\ agreed' = agreed \cup {t}
    /\ UNCHANGED <<steady, payer, taken, given, paid>>

\* A taker claims its part only when it is agreed; if it is to pay, it did.
TakerClaims(t) ==
    /\ steady => t \in agreed /\ (payer = "taker" => <<t, Maker>> \in paid)
    /\ taken' = taken \cup {t}
    /\ UNCHANGED <<steady, payer, agreed, given, paid>>

\* A maker's bitcoin follows the claim of the taker, whatever its user does.
MakerPays(t) ==
    /\ payer = "maker" /\ t \in agreed \cap taken
    /\ paid' = paid \cup {<<Maker, t>>}
    /\ UNCHANGED <<steady, payer, agreed, taken, given>>

\* A taker's bitcoin is the first deed, and only follows the agreement.
TakerPays(t) ==
    /\ payer = "taker" /\ t \in agreed
    /\ steady => t \notin taken
    /\ paid' = paid \cup {<<t, Maker>>}
    /\ UNCHANGED <<steady, payer, agreed, taken, given>>

\* The maker claims its part after the taker; if it is to pay, it did.
MakerClaims(t) ==
    /\ t \in agreed
    /\ steady => t \in taken /\ (payer = "maker" => <<Maker, t>> \in paid)
    /\ given' = given \cup {t}
    /\ UNCHANGED <<steady, payer, agreed, taken, paid>>

Next == \E t \in Takers :
    Agree(t) \/ TakerClaims(t) \/ MakerPays(t) \/ TakerPays(t) \/ MakerClaims(t)

Spec == Init /\ [][Next]_vars
=============================================================================
