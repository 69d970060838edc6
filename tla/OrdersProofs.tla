---------------------------- MODULE OrdersProofs -----------------------------
(***************************************************************************)
(* TLAPS proofs about Orders.tla: an order is read in one way only and as  *)
(* what its maker made it, up to the last place of its numbers, and the    *)
(* offer for it is worth what the side that pays has allocated.  They hold *)
(* for numbers of any precision, the 53 bits of an f64 included.           *)
(*                                                                         *)
(* The loops of from_n3xb_order are folds, and powers of two and rounding  *)
(* are recursive: what is needed of them is proved by induction, as facts  *)
(* about least counterexamples, before the invariants.                     *)
(***************************************************************************)
EXTENDS Orders, FiniteSets, FiniteSetTheorems, WellFoundedInduction, TLAPS

-----------------------------------------------------------------------------
(* Induction, and the loops over obligations                               *)

\* Induction, as a fact about a set of natural numbers.
LEMMA NatInduct ==
  ASSUME NEW T, 0 \in T, \A n \in Nat : n \in T => n + 1 \in T
  PROVE  \A n \in Nat : n \in T
<1> DEFINE Bad == {n \in Nat : n \notin T}
           R == OpToRel(<, Nat)
<1> SUFFICES ASSUME Bad # {} PROVE FALSE
  OBVIOUS
<1>1. \E n \in Bad : \A i \in Bad : ~(<<i, n>> \in R)
  <2>1. IsWellFoundedOn(R, Nat) /\ Bad \subseteq Nat /\ Bad # {}
    BY NatLessThanWellFounded
  <2> HIDE DEF Bad, R
  <2>2. QED
    BY <2>1, WFMin, Zenon
<1>2. PICK n \in Bad : \A i \in Bad : ~(<<i, n>> \in R)
  BY <1>1
<1>3. n \in Nat /\ n \notin T /\ n # 0
  OBVIOUS
<1>4. n - 1 \in Nat /\ n - 1 + 1 = n /\ <<n - 1, n>> \in R
  BY <1>3 DEF OpToRel
<1>5. n - 1 \in T
  BY <1>2, <1>4
<1>6. QED
  BY <1>3, <1>4, <1>5

\* The steps of the two loops of from_n3xb_order as one operator.
Step(side, type, kind) ==
    IF side = "maker" THEN MakerStep(type, kind) ELSE TakerStep(type, kind)

\* The recursive function behind FoldLeft.
IsFold(g, side, base, kinds) ==
    g = [s \in SUBSET DOMAIN kinds |->
            IF s = {} THEN base ELSE Step(side, g[s \ {Max(s)}], kinds[Max(s)])]

\* A set of the first numbers has a greatest one.
LEMMA MaxIs ==
  ASSUME NEW n \in Nat
  PROVE  /\ \A s \in SUBSET (1..n) : s # {} => Max(s) \in s
         /\ \A s \in SUBSET (1..n + 1) : n + 1 \in s => Max(s) = n + 1
<1> DEFINE HasMax(s) == \E x \in s : \A y \in s : x >= y
           T == {i \in Nat : \A s \in SUBSET (1..i) : s # {} => HasMax(s)}
<1>1. 0 \in T
  <2>1. 1..0 = {}
    OBVIOUS
  <2>2. QED
    BY <2>1
<1>2. ASSUME NEW i \in Nat, i \in T PROVE i + 1 \in T
  <2> SUFFICES ASSUME NEW s \in SUBSET (1..i + 1), s # {} PROVE HasMax(s)
    OBVIOUS
  <2>1. CASE i + 1 \in s
    BY <2>1
  <2>2. CASE i + 1 \notin s
    <3>1. s \in SUBSET (1..i)
      BY <2>2
    <3>2. QED
      BY <1>2, <3>1
  <2>3. QED
    BY <2>1, <2>2
<1>3. \A i \in Nat : i \in T
  <2> HIDE DEF T
  <2>1. QED
    BY <1>1, <1>2, NatInduct
<1>4. ASSUME NEW s \in SUBSET (1..n), s # {} PROVE Max(s) \in s
  BY <1>3, <1>4 DEF Max
<1>5. ASSUME NEW s \in SUBSET (1..n + 1), n + 1 \in s PROVE Max(s) = n + 1
  <2>1. \A x \in s : x \in Nat /\ n + 1 >= x
    OBVIOUS
  <2>2. \A x \in s : x >= n + 1 => x = n + 1
    BY <2>1
  <2>3. QED
    BY <1>5, <2>1, <2>2 DEF Max
<1>6. QED
  BY <1>4, <1>5

\* The recursive function behind the loops exists.
LEMMA FoldExists ==
  ASSUME NEW side, NEW base, NEW kinds, NEW n \in Nat, DOMAIN kinds = 1..n
  PROVE  \E g : IsFold(g, side, base, kinds)
<1> DEFINE Upto(g, i) ==
             g = [s \in SUBSET (1..i) |->
                     IF s = {} THEN base ELSE Step(side, g[s \ {Max(s)}], kinds[Max(s)])]
           T == {i \in Nat : \E g : Upto(g, i)}
<1>1. 0 \in T
  <2>1. Upto([s \in SUBSET (1..0) |-> base], 0)
    <3>1. 1..0 = {}
      OBVIOUS
    <3>2. QED
      BY <3>1
  <2>2. QED
    BY <2>1
<1>2. ASSUME NEW i \in Nat, i \in T PROVE i + 1 \in T
  <2>1. PICK g : Upto(g, i)
    BY <1>2
  <2> DEFINE V(f, s) == IF s = {} THEN base ELSE Step(side, f[s \ {Max(s)}], kinds[Max(s)])
             h == [s \in SUBSET (1..i + 1) |->
                      IF s \in SUBSET (1..i)
                        THEN g[s]
                        ELSE Step(side, g[s \ {i + 1}], kinds[i + 1])]
  <2>2. ASSUME NEW s \in SUBSET (1..i + 1) PROVE h[s] = V(h, s)
    <3>1. CASE s \in SUBSET (1..i)
      <4>1. s # {} => Max(s) \in s
        BY <3>1, MaxIs
      <4>2. s # {} => s \ {Max(s)} \in SUBSET (1..i) /\ s \ {Max(s)} \in SUBSET (1..i + 1)
        BY <3>1
      <4>3. g[s] = V(g, s)
        BY <2>1, <3>1
      <4>4. s # {} => h[s \ {Max(s)}] = g[s \ {Max(s)}]
        BY <4>2
      <4>5. h[s] = g[s]
        BY <3>1
      <4> HIDE DEF h
      <4>6. QED
        BY <4>3, <4>4, <4>5
    <3>2. CASE s \notin SUBSET (1..i)
      <4>1. i + 1 \in s
        BY <3>2
      <4>2. Max(s) = i + 1
        BY <4>1, MaxIs
      <4>3. s \ {i + 1} \in SUBSET (1..i) /\ s \ {i + 1} \in SUBSET (1..i + 1)
        OBVIOUS
      <4>4. h[s \ {i + 1}] = g[s \ {i + 1}]
        BY <4>3
      <4>5. h[s] = Step(side, g[s \ {i + 1}], kinds[i + 1])
        BY <3>2
      <4> HIDE DEF h
      <4>6. QED
        BY <4>1, <4>2, <4>4, <4>5
    <3>3. QED
      BY <3>1, <3>2
  <2>3. h = [s \in SUBSET (1..i + 1) |-> V(h, s)]
    <3>1. h = [s \in SUBSET (1..i + 1) |-> h[s]]
      OBVIOUS
    <3> HIDE DEF h, V
    <3>2. QED
      BY <2>2, <3>1
  <2>4. Upto(h, i + 1)
    <3> HIDE DEF h
    <3>1. QED
      BY <2>3
  <2>5. QED
    <3> HIDE DEF h, Upto
    <3>1. QED
      BY <2>4
<1>3. n \in T
  <2> HIDE DEF T
  <2>1. QED
    BY <1>1, <1>2, NatInduct
<1>4. QED
  BY <1>3 DEF IsFold

\* What the loop knows after each step, for the recursive function behind it.
LEMMA FoldRuns ==
  ASSUME NEW side, NEW base, NEW kinds, NEW n \in Nat, DOMAIN kinds = 1..n,
         NEW g, IsFold(g, side, base, kinds)
  PROVE  /\ g[1..0] = base
         /\ \A i \in 0..n - 1 : g[1..i + 1] = Step(side, g[1..i], kinds[i + 1])
<1>1. g[1..0] = base
  <2>1. 1..0 = {}
    OBVIOUS
  <2>2. QED
    BY <2>1 DEF IsFold
<1>2. ASSUME NEW i \in 0..n - 1 PROVE g[1..i + 1] = Step(side, g[1..i], kinds[i + 1])
  <2> DEFINE s == 1..i + 1
             V(t) == IF t = {} THEN base ELSE Step(side, g[t \ {Max(t)}], kinds[Max(t)])
  <2>1. s \in SUBSET DOMAIN kinds /\ i + 1 \in s /\ s \ {i + 1} = 1..i
    OBVIOUS
  <2>2. Max(s) = i + 1
    BY <2>1, MaxIs
  <2>3. g = [t \in SUBSET DOMAIN kinds |-> V(t)]
    BY DEF IsFold
  <2> HIDE DEF s, V
  <2>4. g[s] = V(s)
    BY <2>1, <2>3
  <2>5. QED
    BY <2>1, <2>2, <2>4 DEF V, s
<1>3. QED
  BY <1>1, <1>2

\* What the loops know after each step.
IsMakerRun(v, kinds, n) ==
    /\ v[0] = "None" /\ MakerType(kinds) = v[n]
    /\ \A i \in 0..n - 1 : v[i + 1] = MakerStep(v[i], kinds[i + 1])

\* The loop over the kinds of the maker has such steps.
LEMMA MakerRuns ==
  ASSUME NEW kinds, NEW n \in Nat, DOMAIN kinds = 1..n
  PROVE  \E v : IsMakerRun(v, kinds, n)
<1> DEFINE MakerFold(g) ==
             g = [s \in SUBSET DOMAIN kinds |->
                     IF s = {} THEN "None" ELSE MakerStep(g[s \ {Max(s)}], kinds[Max(s)])]
           f == CHOOSE g : MakerFold(g)
           v == [i \in 0..n |-> f[1..i]]
<1>1. MakerType(kinds) = f[1..n]
  BY DEF MakerType, FoldLeft, MapThenFoldSet
<1>2. \A g : IsFold(g, "maker", "None", kinds) <=> MakerFold(g)
  BY DEF IsFold, Step
<1>3. \E g : IsFold(g, "maker", "None", kinds)
  BY FoldExists
<1>4. IsFold(f, "maker", "None", kinds)
  <2> HIDE DEF MakerFold
  <2>1. QED
    BY <1>2, <1>3
<1> HIDE DEF f
<1>5. /\ f[1..0] = "None"
      /\ \A i \in 0..n - 1 : f[1..i + 1] = Step("maker", f[1..i], kinds[i + 1])
  BY <1>4, FoldRuns
<1>6. v[0] = "None" /\ \A i \in 0..n - 1 : v[i + 1] = MakerStep(v[i], kinds[i + 1])
  <2>1. ASSUME NEW i \in 0..n - 1 PROVE v[i + 1] = MakerStep(v[i], kinds[i + 1])
    BY <1>5 DEF Step
  <2>2. v[0] = f[1..0]
    OBVIOUS
  <2>3. QED
    <3> HIDE DEF v
    <3>1. QED
      BY <1>5, <2>1, <2>2
<1>7. MakerType(kinds) = v[n]
  BY <1>1
<1>8. QED
  <2> HIDE DEF v
  <2>1. QED
    BY <1>6, <1>7 DEF IsMakerRun

\* The same of the loop over the kinds of the taker, from the type of the maker.
IsTakerRun(v, type, kinds, n) ==
    /\ v[0] = type /\ TakerType(type, kinds) = v[n]
    /\ \A i \in 0..n - 1 : v[i + 1] = TakerStep(v[i], kinds[i + 1])

\* It has such steps too.
LEMMA TakerRuns ==
  ASSUME NEW type, NEW kinds, NEW n \in Nat, DOMAIN kinds = 1..n
  PROVE  \E v : IsTakerRun(v, type, kinds, n)
<1> DEFINE TakerFold(g) ==
             g = [s \in SUBSET DOMAIN kinds |->
                     IF s = {} THEN type ELSE TakerStep(g[s \ {Max(s)}], kinds[Max(s)])]
           f == CHOOSE g : TakerFold(g)
           v == [i \in 0..n |-> f[1..i]]
<1>1. TakerType(type, kinds) = f[1..n]
  BY DEF TakerType, FoldLeft, MapThenFoldSet
<1>2. \A g : IsFold(g, "taker", type, kinds) <=> TakerFold(g)
  BY DEF IsFold, Step
<1>3. \E g : IsFold(g, "taker", type, kinds)
  BY FoldExists
<1>4. IsFold(f, "taker", type, kinds)
  <2> HIDE DEF TakerFold
  <2>1. QED
    BY <1>2, <1>3
<1> HIDE DEF f
<1>5. /\ f[1..0] = type
      /\ \A i \in 0..n - 1 : f[1..i + 1] = Step("taker", f[1..i], kinds[i + 1])
  BY <1>4, FoldRuns
<1>6. v[0] = type /\ \A i \in 0..n - 1 : v[i + 1] = TakerStep(v[i], kinds[i + 1])
  <2>1. ASSUME NEW i \in 0..n - 1 PROVE v[i + 1] = TakerStep(v[i], kinds[i + 1])
    BY <1>5 DEF Step
  <2>2. v[0] = f[1..0]
    OBVIOUS
  <2>3. QED
    <3> HIDE DEF v
    <3>1. QED
      BY <1>5, <2>1, <2>2
<1>7. TakerType(type, kinds) = v[n]
  BY <1>1
<1>8. QED
  <2> HIDE DEF v
  <2>1. QED
    BY <1>6, <1>7 DEF IsTakerRun

\* The kinds visited in the first n steps.
Seen(kinds, n) == {kinds[i] : i \in 1..n}

\* The kinds seen so far, none at first, grow by the one visited.
LEMMA SeenNext ==
  ASSUME NEW kinds, NEW n \in Nat
  PROVE  /\ Seen(kinds, 0) = {}
         /\ Seen(kinds, n + 1) = Seen(kinds, n) \cup {kinds[n + 1]}
<1>1. Seen(kinds, 0) = {}
  <2>1. 1..0 = {}
    OBVIOUS
  <2>2. QED
    BY <2>1 DEF Seen
<1>2. 1..n + 1 = (1..n) \cup {n + 1}
  OBVIOUS
<1>3. Seen(kinds, n + 1) = Seen(kinds, n) \cup {kinds[n + 1]}
  BY <1>2 DEF Seen
<1>4. QED
  BY <1>1, <1>3

\* What a step makes of the type known, kind by kind.
LEMMA MakerStepIs ==
  ASSUME NEW type \in {"None", "Buy", "Sell", "Err"}
  PROVE  /\ MakerStep(type, "Other") = type
         /\ MakerStep(type, "OtherNetwork") = "Err"
         /\ MakerStep(type, "FatCrab") = IF type \in {"None", "Sell"} THEN "Sell" ELSE "Err"
         /\ MakerStep(type, "Onchain") = IF type \in {"None", "Buy"} THEN "Buy" ELSE "Err"
<1>1. MakerStep(type, "Other") = type
  BY DEF MakerStep
<1>2. MakerStep(type, "OtherNetwork") = "Err"
  BY DEF MakerStep
<1>3. MakerStep(type, "FatCrab") = IF type \in {"None", "Sell"} THEN "Sell" ELSE "Err"
  BY DEF MakerStep
<1>4. MakerStep(type, "Onchain") = IF type \in {"None", "Buy"} THEN "Buy" ELSE "Err"
  BY DEF MakerStep
<1>5. QED
  BY <1>1, <1>2, <1>3, <1>4

\* What the kinds visited say of the type known.
LEMMA MakerTypeIs ==
  ASSUME NEW kinds, NEW n \in Nat, DOMAIN kinds = 1..n, Seen(kinds, n) \subseteq Kinds
  PROVE  /\ MakerType(kinds) \in {"None", "Buy", "Sell", "Err"}
         /\ MakerType(kinds) = "Buy" =>
                Seen(kinds, n) \subseteq {"Onchain", "Other"}
                /\ "Onchain" \in Seen(kinds, n)
         /\ MakerType(kinds) = "Sell" =>
                Seen(kinds, n) \subseteq {"FatCrab", "Other"}
                /\ "FatCrab" \in Seen(kinds, n)
<1>1. PICK v : IsMakerRun(v, kinds, n)
  BY MakerRuns
<1> DEFINE Says(type, seen) ==
             /\ type \in {"None", "Buy", "Sell", "Err"}
             /\ type = "None" => seen \subseteq {"Other"}
             /\ type = "Buy" => seen \subseteq {"Onchain", "Other"} /\ "Onchain" \in seen
             /\ type = "Sell" => seen \subseteq {"FatCrab", "Other"} /\ "FatCrab" \in seen
           T == {i \in Nat : i <= n => Says(v[i], Seen(kinds, i))}
<1>2. ASSUME NEW type, NEW seen, Says(type, seen), NEW kind \in Kinds
      PROVE  Says(MakerStep(type, kind), seen \cup {kind})
  <2>1. type \in {"None", "Buy", "Sell", "Err"}
    BY <1>2
  <2>2. CASE kind = "Other"
    <3>1. MakerStep(type, kind) = type
      BY <2>1, <2>2, MakerStepIs
    <3>2. QED
      BY <1>2, <2>2, <3>1
  <2>3. CASE kind = "OtherNetwork"
    <3>1. MakerStep(type, kind) = "Err"
      BY <2>1, <2>3, MakerStepIs
    <3>2. QED
      BY <3>1
  <2>4. CASE kind = "FatCrab"
    <3>1. MakerStep(type, kind) = IF type \in {"None", "Sell"} THEN "Sell" ELSE "Err"
      BY <2>1, <2>4, MakerStepIs
    <3>2. CASE type \in {"None", "Sell"}
      BY <1>2, <2>4, <3>1, <3>2
    <3>3. CASE type \notin {"None", "Sell"}
      BY <3>1, <3>3
    <3>4. QED
      BY <3>2, <3>3
  <2>5. CASE kind = "Onchain"
    <3>1. MakerStep(type, kind) = IF type \in {"None", "Buy"} THEN "Buy" ELSE "Err"
      BY <2>1, <2>5, MakerStepIs
    <3>2. CASE type \in {"None", "Buy"}
      BY <1>2, <2>5, <3>1, <3>2
    <3>3. CASE type \notin {"None", "Buy"}
      BY <3>1, <3>3
    <3>4. QED
      BY <3>2, <3>3
  <2>6. QED
    BY <2>2, <2>3, <2>4, <2>5 DEF Kinds
<1>3. Says(v[0], Seen(kinds, 0))
  <2>1. v[0] = "None" /\ Seen(kinds, 0) = {}
    BY <1>1, SeenNext DEF IsMakerRun
  <2>2. QED
    BY <2>1
<1>4. MakerType(kinds) = v[n]
  BY <1>1 DEF IsMakerRun
<1>5. ASSUME NEW i \in Nat, i \in T PROVE i + 1 \in T
  <2> HIDE DEF Says
  <2> SUFFICES ASSUME i + 1 <= n PROVE Says(v[i + 1], Seen(kinds, i + 1))
    OBVIOUS
  <2>1. Says(v[i], Seen(kinds, i))
    BY <1>5
  <2>2. v[i + 1] = MakerStep(v[i], kinds[i + 1])
    BY <1>1 DEF IsMakerRun
  <2>3. kinds[i + 1] \in Kinds
    BY DEF Seen
  <2>4. Seen(kinds, i + 1) = Seen(kinds, i) \cup {kinds[i + 1]}
    BY SeenNext
  <2>5. QED
    BY <1>2, <2>1, <2>2, <2>3, <2>4
<1>6. Says(v[n], Seen(kinds, n))
  <2>1. \A i \in Nat : i \in T
    <3>1. 0 \in T
      BY <1>3
    <3> HIDE DEF T
    <3>2. QED
      BY <1>5, <3>1, NatInduct
  <2> HIDE DEF Says
  <2>2. QED
    BY <2>1
<1>7. QED
  BY <1>4, <1>6

\* The same of a step over the kinds of the taker.
LEMMA TakerStepIs ==
  ASSUME NEW type \in {"None", "Buy", "Sell", "Err", "panic"}
  PROVE  /\ TakerStep(type, "Other") = type
         /\ type \in Failures => \A kind \in Kinds : TakerStep(type, kind) = type
         /\ type = "None" =>
                \A kind \in {"FatCrab", "Onchain", "OtherNetwork"} :
                    TakerStep(type, kind) = "panic"
         /\ type = "Buy" => TakerStep(type, "FatCrab") = "Buy"
         /\ type = "Sell" => TakerStep(type, "FatCrab") = "Err"
         /\ \A kind \in {"Onchain", "OtherNetwork"} :
                /\ type = "Buy" => TakerStep(type, kind) = "Err"
                /\ type = "Sell" => TakerStep(type, kind) = "Sell"
<1>1. TakerStep(type, "Other") = type
  BY DEF TakerStep
<1>2. ASSUME type \in Failures, NEW kind \in Kinds
      PROVE  TakerStep(type, kind) = type
  BY <1>2 DEF TakerStep, Failures, Kinds
<1>3. type = "None" =>
          \A kind \in {"FatCrab", "Onchain", "OtherNetwork"} :
              TakerStep(type, kind) = "panic"
  BY DEF TakerStep, Failures
<1>4. type = "Buy" => TakerStep(type, "FatCrab") = "Buy"
  BY DEF TakerStep, Failures
<1>5. type = "Sell" => TakerStep(type, "FatCrab") = "Err"
  BY DEF TakerStep, Failures
<1>6. ASSUME NEW kind \in {"Onchain", "OtherNetwork"}
      PROVE  /\ type = "Buy" => TakerStep(type, kind) = "Err"
             /\ type = "Sell" => TakerStep(type, kind) = "Sell"
  BY DEF TakerStep, Failures
<1>7. QED
  BY <1>1, <1>2, <1>3, <1>4, <1>5, <1>6

\* The same of the taker's kinds, which change no type but fail it.
LEMMA TakerTypeIs ==
  ASSUME NEW type \in {"None", "Buy", "Sell"},
         NEW kinds, NEW n \in Nat, DOMAIN kinds = 1..n, Seen(kinds, n) \subseteq Kinds
  PROVE  /\ TakerType(type, kinds) \in {type} \cup Failures
         /\ TakerType(type, kinds) = "Buy" => Seen(kinds, n) \subseteq {"FatCrab", "Other"}
         /\ TakerType(type, kinds) = "Sell" =>
                Seen(kinds, n) \subseteq {"Onchain", "OtherNetwork", "Other"}
<1>1. PICK v : IsTakerRun(v, type, kinds, n)
  BY TakerRuns
<1> DEFINE Says(known, seen) ==
             /\ known \in {type} \cup Failures
             /\ known = "Buy" => seen \subseteq {"FatCrab", "Other"}
             /\ known = "Sell" => seen \subseteq {"Onchain", "OtherNetwork", "Other"}
           T == {i \in Nat : i <= n => Says(v[i], Seen(kinds, i))}
<1>2. ASSUME NEW known, NEW seen, Says(known, seen), NEW kind \in Kinds
      PROVE  Says(TakerStep(known, kind), seen \cup {kind})
  <2>1. known \in {"None", "Buy", "Sell", "Err", "panic"}
    BY <1>2 DEF Failures
  <2>2. CASE kind = "Other"
    <3>1. TakerStep(known, kind) = known
      BY <2>1, <2>2, TakerStepIs
    <3>2. QED
      BY <1>2, <2>2, <3>1
  <2>3. CASE known \in Failures
    <3>1. TakerStep(known, kind) = known
      BY <2>1, <2>3, TakerStepIs
    <3>2. QED
      BY <1>2, <2>3, <3>1 DEF Failures
  <2>4. CASE known = "None" /\ kind # "Other"
    <3>1. kind \in {"FatCrab", "Onchain", "OtherNetwork"}
      BY <2>4 DEF Kinds
    <3>2. TakerStep(known, kind) = "panic"
      BY <2>1, <2>4, <3>1, TakerStepIs
    <3>3. QED
      BY <3>2 DEF Failures
  <2>5. CASE known = "Buy" /\ kind = "FatCrab"
    <3>1. TakerStep(known, kind) = known
      BY <2>1, <2>5, TakerStepIs
    <3>2. QED
      BY <1>2, <2>5, <3>1
  <2>6. CASE known = "Sell" /\ kind = "FatCrab"
    <3>1. TakerStep(known, kind) = "Err"
      BY <2>1, <2>6, TakerStepIs
    <3>2. QED
      BY <3>1 DEF Failures
  <2>7. CASE known = "Buy" /\ kind \in {"Onchain", "OtherNetwork"}
    <3>1. TakerStep(known, kind) = "Err"
      BY <2>1, <2>7, TakerStepIs
    <3>2. QED
      BY <3>1 DEF Failures
  <2>8. CASE known = "Sell" /\ kind \in {"Onchain", "OtherNetwork"}
    <3>1. TakerStep(known, kind) = known
      BY <2>1, <2>8, TakerStepIs
    <3>2. QED
      BY <1>2, <2>8, <3>1
  <2> HIDE DEF Says
  <2>9. kind = "Other" \/ kind = "FatCrab" \/ kind \in {"Onchain", "OtherNetwork"}
    BY DEF Kinds
  <2>10. known \in Failures \/ known = "None" \/ known = "Buy" \/ known = "Sell"
    BY <2>1 DEF Failures
  <2>11. QED
    BY <2>2, <2>3, <2>4, <2>5, <2>6, <2>7, <2>8, <2>9, <2>10, Zenon
<1>3. Says(v[0], Seen(kinds, 0))
  <2>1. v[0] = type /\ Seen(kinds, 0) = {}
    BY <1>1, SeenNext DEF IsTakerRun
  <2>2. QED
    BY <2>1
<1>4. TakerType(type, kinds) = v[n]
  BY <1>1 DEF IsTakerRun
<1>5. ASSUME NEW i \in Nat, i \in T PROVE i + 1 \in T
  <2> HIDE DEF Says
  <2> SUFFICES ASSUME i + 1 <= n PROVE Says(v[i + 1], Seen(kinds, i + 1))
    OBVIOUS
  <2>1. Says(v[i], Seen(kinds, i))
    BY <1>5
  <2>2. v[i + 1] = TakerStep(v[i], kinds[i + 1])
    BY <1>1 DEF IsTakerRun
  <2>3. kinds[i + 1] \in Kinds
    BY DEF Seen
  <2>4. Seen(kinds, i + 1) = Seen(kinds, i) \cup {kinds[i + 1]}
    BY SeenNext
  <2>5. QED
    BY <1>2, <2>1, <2>2, <2>3, <2>4
<1>6. Says(v[n], Seen(kinds, n))
  <2>1. \A i \in Nat : i \in T
    <3>1. 0 \in T
      BY <1>3
    <3> HIDE DEF T
    <3>2. QED
      BY <1>5, <3>1, NatInduct
  <2> HIDE DEF Says
  <2>2. QED
    BY <2>1
<1>7. QED
  BY <1>4, <1>6

\* A sequence of SetToSeqs visits the elements of the set and nothing else.
LEMMA Visits ==
  ASSUME NEW S, IsFiniteSet(S), NEW kinds \in SetToSeqs(S)
  PROVE  /\ Cardinality(S) \in Nat
         /\ DOMAIN kinds = 1..Cardinality(S)
         /\ \A i \in 1..Cardinality(S) : kinds[i] \in S
         /\ \A x \in S : \E i \in 1..Cardinality(S) : kinds[i] = x
<1> DEFINE n == Cardinality(S)
<1>1. n \in Nat
  BY FS_CardinalityType
<1>2. kinds \in [1..n -> S] /\ \A i, j \in 1..n : i # j => kinds[i] # kinds[j]
  BY DEF SetToSeqs
<1>3. kinds \in Injection(1..n, S)
  BY <1>2 DEF Injection, IsInjective
<1>4. Cardinality(1..n) = n
  BY <1>1, FS_Interval
<1>5. kinds \in Surjection(1..n, S)
  BY <1>3, <1>4, FS_Injection
<1>6. QED
  BY <1>1, <1>2, <1>5 DEF Surjection

-----------------------------------------------------------------------------
(* Powers of two                                                           *)

\* The values of TwoTo up to n.
UpTo(g, n) == /\ DOMAIN g = 0..n
              /\ \A i \in 0..n : g[i] = IF i = 0 THEN 1 ELSE 2 * g[i - 1]

\* The values up to n exist for every n,
LEMMA TwoToUpTo == \A n \in Nat : \E g : UpTo(g, n)
<1> DEFINE T == {n \in Nat : \E g : UpTo(g, n)}
<1>1. 0 \in T
  <2>1. UpTo([i \in 0..0 |-> 1], 0)
    BY DEF UpTo
  <2>2. QED
    BY <2>1
<1>2. ASSUME NEW n \in Nat, n \in T PROVE n + 1 \in T
  <2>1. PICK g : UpTo(g, n)
    BY <1>2
  <2> DEFINE h == [i \in 0..n + 1 |-> IF i <= n THEN g[i] ELSE 2 * g[n]]
  <2>2. ASSUME NEW i \in 0..n + 1 PROVE h[i] = IF i = 0 THEN 1 ELSE 2 * h[i - 1]
    <3>1. CASE i <= n
      BY <2>1, <3>1 DEF UpTo
    <3>2. CASE i = n + 1
      BY <3>2
    <3>3. QED
      BY <3>1, <3>2
  <2>3. UpTo(h, n + 1)
    BY <2>2 DEF UpTo
  <2>4. QED
    BY <2>3
<1>3. \A n \in Nat : n \in T
  <2> HIDE DEF T
  <2>1. QED
    BY <1>1, <1>2, NatInduct
<1>4. QED
  BY <1>3

\* and those for different n agree.
LEMMA UpToAgree ==
  ASSUME NEW m \in Nat, NEW n \in Nat, NEW g, UpTo(g, m), NEW h, UpTo(h, n)
  PROVE  \A i \in Nat : i <= m /\ i <= n => g[i] = h[i]
<1> DEFINE T == {i \in Nat : i <= m /\ i <= n => g[i] = h[i]}
<1>1. 0 \in T
  BY DEF UpTo
<1>2. ASSUME NEW i \in Nat, i \in T PROVE i + 1 \in T
  <2> SUFFICES ASSUME i + 1 <= m, i + 1 <= n PROVE g[i + 1] = h[i + 1]
    OBVIOUS
  <2>1. g[i] = h[i]
    BY <1>2
  <2>2. g[i + 1] = 2 * g[i + 1 - 1] /\ h[i + 1] = 2 * h[i + 1 - 1] /\ i + 1 - 1 = i
    BY DEF UpTo
  <2>3. QED
    BY <2>1, <2>2
<1>3. \A i \in Nat : i \in T
  <2> HIDE DEF T
  <2>1. QED
    BY <1>1, <1>2, NatInduct
<1>4. QED
  BY <1>3

\* TwoTo is the function its definition describes.
LEMMA TwoToIs == TwoTo[0] = 1 /\ \A n \in Nat : TwoTo[n + 1] = 2 * TwoTo[n]
<1> DEFINE G(n) == CHOOSE g : UpTo(g, n)
           V(f, n) == IF n = 0 THEN 1 ELSE 2 * f[n - 1]
           IsTwoTo(f) == f = [n \in Nat |-> V(f, n)]
           f == [n \in Nat |-> G(n)[n]]
<1>1. \A n \in Nat : UpTo(G(n), n)
  BY TwoToUpTo
<1> HIDE DEF G
<1>2. ASSUME NEW n \in Nat PROVE f[n] = V(f, n)
  <2>1. CASE n = 0
    BY <1>1, <2>1 DEF UpTo
  <2>2. CASE n # 0
    <3>1. n - 1 \in Nat /\ n - 1 <= n /\ n \in 0..n
      BY <2>2
    <3>2. UpTo(G(n), n) /\ UpTo(G(n - 1), n - 1)
      BY <1>1, <3>1
    <3>3. G(n)[n - 1] = G(n - 1)[n - 1]
      BY <3>1, <3>2, UpToAgree
    <3>4. G(n)[n] = 2 * G(n)[n - 1]
      BY <2>2, <3>1, <3>2 DEF UpTo
    <3>5. f[n] = G(n)[n] /\ f[n - 1] = G(n - 1)[n - 1]
      BY <3>1
    <3> HIDE DEF f
    <3>6. QED
      BY <2>2, <3>3, <3>4, <3>5
  <2>3. QED
    BY <2>1, <2>2
<1>3. IsTwoTo(f)
  <2>1. f = [n \in Nat |-> f[n]]
    OBVIOUS
  <2> HIDE DEF f, V
  <2>2. QED
    BY <1>2, <2>1
<1>4. TwoTo = CHOOSE g : IsTwoTo(g)
  BY DEF TwoTo
<1>5. IsTwoTo(TwoTo)
  <2> HIDE DEF IsTwoTo, f
  <2>1. QED
    BY <1>3, <1>4
<1>6. \A n \in Nat : TwoTo[n] = V(TwoTo, n)
  <2>1. TwoTo = [n \in Nat |-> V(TwoTo, n)]
    BY <1>5
  <2> HIDE DEF V
  <2>2. QED
    BY <2>1
<1>7. TwoTo[0] = 1
  BY <1>6
<1>8. ASSUME NEW n \in Nat PROVE TwoTo[n + 1] = 2 * TwoTo[n]
  <2>1. n + 1 \in Nat /\ n + 1 # 0 /\ n + 1 - 1 = n
    OBVIOUS
  <2>2. TwoTo[n + 1] = V(TwoTo, n + 1)
    BY <1>6, <2>1
  <2>3. QED
    BY <2>1, <2>2
<1>9. QED
  BY <1>7, <1>8

\* They are positive.
LEMMA TwoToType == \A n \in Nat : TwoTo[n] \in Nat \ {0}
<1> DEFINE T == {n \in Nat : TwoTo[n] \in Nat \ {0}}
<1>1. 0 \in T
  BY TwoToIs
<1>2. ASSUME NEW n \in Nat, n \in T PROVE n + 1 \in T
  BY <1>2, TwoToIs
<1>3. \A n \in Nat : n \in T
  <2> HIDE DEF T
  <2>1. QED
    BY <1>1, <1>2, NatInduct
<1>4. QED
  BY <1>3

\* Powers of a sum.
LEMMA TwoToPlus == \A a, b \in Nat : TwoTo[a + b] = TwoTo[a] * TwoTo[b]
<1> SUFFICES ASSUME NEW a \in Nat PROVE \A b \in Nat : TwoTo[a + b] = TwoTo[a] * TwoTo[b]
  OBVIOUS
<1> DEFINE T == {b \in Nat : TwoTo[a + b] = TwoTo[a] * TwoTo[b]}
<1>1. 0 \in T
  BY TwoToIs, TwoToType
<1>2. ASSUME NEW b \in Nat, b \in T PROVE b + 1 \in T
  <2>1. TwoTo[a + b] = TwoTo[a] * TwoTo[b]
    BY <1>2
  <2>2. TwoTo[a + b + 1] = 2 * TwoTo[a + b] /\ TwoTo[b + 1] = 2 * TwoTo[b]
    BY TwoToIs
  <2>3. TwoTo[a] \in Nat /\ TwoTo[b] \in Nat
    BY TwoToType
  <2>4. 2 * (TwoTo[a] * TwoTo[b]) = TwoTo[a] * (2 * TwoTo[b])
    BY <2>3
  <2>5. a + (b + 1) = a + b + 1
    OBVIOUS
  <2>6. QED
    BY <2>1, <2>2, <2>4, <2>5
<1>3. \A b \in Nat : b \in T
  <2> HIDE DEF T
  <2>1. QED
    BY <1>1, <1>2, NatInduct
<1>4. QED
  BY <1>3

\* A greater power has a greater exponent.
LEMMA TwoToGrows == \A a, b \in Nat : a < b => 2 * TwoTo[a] <= TwoTo[b]
<1> SUFFICES ASSUME NEW a \in Nat, NEW b \in Nat, a < b PROVE 2 * TwoTo[a] <= TwoTo[b]
  OBVIOUS
<1>1. b - a - 1 \in Nat /\ a + 1 \in Nat /\ (a + 1) + (b - a - 1) = b
  OBVIOUS
<1>2. TwoTo[b] = TwoTo[a + 1] * TwoTo[b - a - 1]
  BY <1>1, TwoToPlus
<1>3. TwoTo[a + 1] = 2 * TwoTo[a]
  BY TwoToIs
<1>4. TwoTo[a] \in Nat /\ TwoTo[b - a - 1] \in Nat \ {0}
  BY <1>1, TwoToType
<1>5. ASSUME NEW x \in Nat, NEW y \in Nat \ {0} PROVE x <= x * y
  OBVIOUS
<1>6. QED
  BY <1>2, <1>3, <1>4, <1>5

-----------------------------------------------------------------------------
(* Rounding                                                                *)

\* The least significand.
Half == TwoTo[Precision - 1]

\* What is known of it, and of the significands.
LEMMA HalfType ==
  /\ Half \in Nat /\ Half >= 2 /\ TwoTo[Precision] = 2 * Half
  /\ Significands = Half..2 * Half - 1
  /\ Half * Half = TwoTo[2 * Precision - 2]
<1>1. Precision - 1 \in Nat \ {0} /\ Precision - 1 + 1 = Precision
      /\ (Precision - 1) + (Precision - 1) = 2 * Precision - 2
  BY OrdersAssumption
<1>2. TwoTo[Precision] = 2 * Half
  BY <1>1, TwoToIs DEF Half
<1>3. Half \in Nat /\ Half >= 2
  <2>1. 2 * TwoTo[0] <= TwoTo[Precision - 1]
    BY <1>1, TwoToGrows
  <2>2. QED
    BY <1>1, <2>1, TwoToIs, TwoToType DEF Half
<1>4. Half * Half = TwoTo[2 * Precision - 2]
  BY <1>1, TwoToPlus DEF Half
<1>5. Significands = Half..2 * Half - 1
  BY <1>2 DEF Significands, Half
<1>6. QED
  BY <1>2, <1>3, <1>4, <1>5

\* What the quotient is.
LEMMA Division ==
  ASSUME NEW a \in Int, NEW b \in Nat \ {0}
  PROVE  /\ a \div b \in Int
         /\ (a \div b) * b <= a /\ a < (a \div b) * b + b
OBVIOUS

\* Only one number is the quotient.
LEMMA QuotientIs ==
  ASSUME NEW a \in Int, NEW b \in Nat \ {0}, NEW q \in Int, q * b <= a, a < q * b + b
  PROVE  a \div b = q
<1> DEFINE p == a \div b
<1>1. p \in Int /\ p * b <= a /\ a < p * b + b
  BY Division
<1> HIDE DEF p
<1>2. ASSUME p < q PROVE FALSE
  <2>1. (p + 1) * b <= q * b
    BY <1>1, <1>2
  <2>2. (p + 1) * b = p * b + b
    BY <1>1
  <2>3. QED
    BY <1>1, <2>1, <2>2
<1>3. ASSUME q < p PROVE FALSE
  <2>1. (q + 1) * b <= p * b
    BY <1>1, <1>3
  <2>2. (q + 1) * b = q * b + b
    OBVIOUS
  <2>3. QED
    BY <1>1, <2>1, <2>2
<1>4. p = q
  BY <1>1, <1>2, <1>3
<1>5. QED
  BY <1>4 DEF p

\* m * den is num but for half of den.
Near(num, den, m) == -den <= 2 * (num - m * den) /\ 2 * (num - m * den) <= den

\* What rounding a quotient gives: a neighbour, or a power of two just above.
LEMMA ToEvenRounds ==
  ASSUME NEW num \in Nat, NEW den \in Nat \ {0}, NEW e \in Int,
         num \div den \in Significands
  PROVE  \/ /\ \E m \in Significands : ToEven(num, den, e) = <<m, e>> /\ Near(num, den, m)
         \/ /\ ToEven(num, den, e) = <<Half, e + 1>>
            /\ Near(num, den, 2 * Half) /\ num < 2 * Half * den
<1> DEFINE q == num \div den
           p == q * den
           r == num - p
<1>1. q \in Half..2 * Half - 1 /\ q \in Nat /\ Half \in Nat
  BY HalfType
<1>2. r \in 0..den - 1 /\ num = p + r /\ p \in Int
  <2>1. p <= num /\ num < p + den
    BY Division
  <2>2. p \in Int
    BY <1>1
  <2> HIDE DEF p
  <2>3. QED
    BY <2>1, <2>2
<1>3. (q + 1) * den = p + den
  BY <1>1
<1>4. Half..2 * Half - 1 = Significands
  BY HalfType
<1>5. CASE 2 * r > den \/ (2 * r = den /\ q % 2 = 1)
  <2>1. Near(num, den, q + 1)
    <3> HIDE DEF p, q
    <3>1. QED
      BY <1>1, <1>2, <1>3, <1>5 DEF Near
  <2>2. CASE q + 1 \in Significands
    <3>1. ToEven(num, den, e) = <<q + 1, e>>
      BY <1>5, <2>2 DEF ToEven
    <3> HIDE DEF q
    <3>2. QED
      BY <2>1, <2>2, <3>1
  <2>3. CASE q + 1 \notin Significands
    <3>1. q + 1 = 2 * Half
      <4> HIDE DEF q
      <4>1. QED
        BY <1>1, <1>4, <2>3
    <3>2. ToEven(num, den, e) = <<(q + 1) \div 2, e + 1>>
      BY <1>5, <2>3 DEF ToEven
    <3>3. (2 * Half) \div 2 = Half
      BY <1>1
    <3>4. num < (q + 1) * den
      <4> HIDE DEF q, p
      <4>1. QED
        BY <1>2, <1>3
    <3> HIDE DEF q
    <3>5. QED
      BY <2>1, <3>1, <3>2, <3>3, <3>4
  <2>4. QED
    BY <2>2, <2>3
<1>6. CASE ~(2 * r > den \/ (2 * r = den /\ q % 2 = 1))
  <2>1. ToEven(num, den, e) = <<q, e>>
    BY <1>6 DEF ToEven
  <2>2. Near(num, den, q)
    <3>1. 2 * r <= den
      BY <1>2, <1>6
    <3>2. num - q * den = r
      <4> HIDE DEF q
      <4>1. QED
        BY <1>1, <1>2
    <3> HIDE DEF q
    <3>3. QED
      BY <1>2, <3>1, <3>2 DEF Near
  <2>3. QED
    BY <2>1, <2>2
<1>7. QED
  BY <1>5, <1>6

Up(k) == TwoTo[IF k > 0 THEN k ELSE 0]

\* The scale that is chosen.
Scales(n, d) == {k \in -2 * Precision..2 * Precision :
                    (n * Up(-k)) \div (d * Up(k)) \in Significands}

\* Rounding scales by one of them.
LEMMA NearestPicks ==
  ASSUME NEW n, NEW d, NEW e, Scales(n, d) # {}
  PROVE  \E k \in Scales(n, d) : Nearest(n, d, e) = ToEven(n * Up(-k), d * Up(k), e + k)
<1> DEFINE Fits(k) == (n * Up(-k)) \div (d * Up(k)) \in Significands
           c == CHOOSE k \in -2 * Precision..2 * Precision : Fits(k)
<1>1. Nearest(n, d, e) = ToEven(n * Up(-c), d * Up(c), e + c)
  BY DEF Nearest, Up
<1>2. c \in Scales(n, d)
  BY DEF Scales
<1> HIDE DEF c
<1>3. QED
  BY <1>1, <1>2

\* The significands of a product have a product of twice as many bits.
LEMMA ProductRange ==
  ASSUME NEW a \in Significands, NEW b \in Significands
  PROVE  a * b \in Nat /\ Half * Half <= a * b /\ a * b <= (2 * Half - 1) * (2 * Half - 1)
<1>1. Half \in Nat /\ a \in Half..2 * Half - 1 /\ b \in Half..2 * Half - 1
  BY HalfType
<1>2. ASSUME NEW w \in Nat, NEW x \in Nat, NEW y \in Nat, NEW z \in Nat, w <= x, y <= z
      PROVE  w * y <= x * z
  <2>1. w * y <= x * y
    BY <1>2
  <2>2. x * y <= x * z
    BY <1>2
  <2>3. w * y \in Nat /\ x * y \in Nat /\ x * z \in Nat
    OBVIOUS
  <2>4. QED
    BY <2>1, <2>2, <2>3
<1>3. a \in Nat /\ b \in Nat /\ 2 * Half - 1 \in Nat
  BY <1>1, HalfType
<1>4. QED
  BY <1>1, <1>2, <1>3

\* A quotient that is a significand lies between two multiples of the divisor.
LEMMA Between ==
  ASSUME NEW num \in Int, NEW den \in Nat \ {0}
  PROVE  num \div den \in Significands <=> Half * den <= num /\ num < 2 * Half * den
<1> DEFINE q == num \div den
<1>1. q \in Int /\ q * den <= num /\ num < q * den + den
  BY Division
<1>2. Half \in Nat /\ Significands = Half..2 * Half - 1
  BY HalfType
<1> HIDE DEF q
<1>3. ASSUME q \in Significands PROVE Half * den <= num /\ num < 2 * Half * den
  <2>1. q >= Half /\ q + 1 <= 2 * Half
    BY <1>1, <1>2, <1>3
  <2>2. q * den >= Half * den /\ (q + 1) * den <= 2 * Half * den
    BY <1>1, <1>2, <2>1
  <2>3. (q + 1) * den = q * den + den
    BY <1>1
  <2>4. q * den \in Int /\ Half * den \in Int /\ 2 * Half * den \in Int
    BY <1>1, <1>2
  <2>5. QED
    BY <1>1, <2>2, <2>3, <2>4
<1>4. ASSUME Half * den <= num, num < 2 * Half * den PROVE q \in Significands
  <2>1. ASSUME q + 1 <= Half PROVE FALSE
    <3>1. (q + 1) * den <= Half * den
      BY <1>1, <1>2, <2>1
    <3>2. (q + 1) * den = q * den + den /\ q * den \in Int /\ Half * den \in Int
      BY <1>1, <1>2
    <3>3. QED
      BY <1>1, <1>4, <3>1, <3>2
  <2>2. ASSUME q >= 2 * Half PROVE FALSE
    <3>1. q * den >= 2 * Half * den
      BY <1>1, <1>2, <2>2
    <3>2. q * den \in Int /\ 2 * Half * den \in Int
      BY <1>1, <1>2
    <3>3. QED
      BY <1>1, <1>4, <3>1, <3>2
  <2>3. QED
    BY <1>1, <1>2, <2>1, <2>2
<1>5. QED
  BY <1>3, <1>4 DEF q

\* The only scales a product can need.
LEMMA ProductScales ==
  ASSUME NEW a \in Significands, NEW b \in Significands,
         NEW k \in -2 * Precision..2 * Precision
  PROVE  k \in Scales(a * b, 1) <=> \/ k = Precision - 1 /\ a * b < 2 * (Half * Half)
                                    \/ k = Precision /\ a * b >= 2 * (Half * Half)
<1> DEFINE n == a * b
           S == Half * Half
<1>1. n \in Nat /\ S \in Nat /\ S <= n /\ n < 4 * S /\ S >= 2 * Half /\ Half \in Nat
      /\ Half >= 2
  <2>1. n \in Nat /\ S <= n /\ n <= (2 * Half - 1) * (2 * Half - 1)
    BY ProductRange
  <2>2. Half \in Nat /\ Half >= 2
    BY HalfType
  <2>3. (2 * Half - 1) * (2 * Half - 1) = 4 * S - 4 * Half + 1
    BY <2>2
  <2>4. S >= 2 * Half /\ S \in Nat
    BY <2>2
  <2> HIDE DEF n, S
  <2>5. QED
    BY <2>1, <2>2, <2>3, <2>4
<1>2. k \in Int /\ Precision \in Nat /\ Precision >= 2
  BY OrdersAssumption
<1>3. CASE k <= 0
  <2>1. -k \in Nat /\ Up(k) = 1 /\ Up(-k) = TwoTo[-k]
    BY <1>2, <1>3, TwoToIs DEF Up
  <2>2. Up(-k) \in Nat \ {0}
    BY <2>1, TwoToType
  <2> DEFINE u == Up(-k)
  <2>3. n * u >= n /\ n * u \in Nat
    <3> HIDE DEF n, u
    <3>1. QED
      BY <1>1, <2>2 DEF u
  <2>4. ~(n * u < 2 * Half * 1)
    <3> HIDE DEF n, u, S
    <3>1. QED
      BY <1>1, <2>3
  <2>5. (n * u) \div (1 * Up(k)) \notin Significands
    <3>1. 1 * Up(k) = 1 /\ n * u \in Int
      BY <2>1, <2>3
    <3> HIDE DEF n, u
    <3>2. QED
      BY <2>4, <3>1, Between
  <2>6. k # Precision /\ k # Precision - 1
    BY <1>2, <1>3
  <2>7. QED
    BY <2>5, <2>6 DEF Scales
<1>4. CASE k > 0
  <2>1. k \in Nat /\ ~(-k > 0) /\ Up(-k) = 1 /\ Up(k) = TwoTo[k]
    BY <1>2, <1>4, TwoToIs DEF Up
  <2> DEFINE D == TwoTo[k]
  <2>2. D \in Nat \ {0}
    BY <2>1, TwoToType
  <2>3. k \in Scales(n, 1) <=> Half * D <= n /\ n < 2 * Half * D
    <3>1. n * Up(-k) = n /\ 1 * Up(k) = D /\ n \in Int
      BY <1>1, <2>1, <2>2
    <3>2. k \in Scales(n, 1) <=> n \div D \in Significands
      BY <3>1 DEF Scales
    <3> HIDE DEF n, D
    <3>3. QED
      BY <2>2, <3>1, <3>2, Between
  <2>4. CASE k = Precision - 1
    <3>1. D = Half
      BY <2>4 DEF Half
    <3>2. Half * D = S /\ 2 * Half * D = 2 * S
      BY <1>1, <3>1
    <3> HIDE DEF n, S, D
    <3>3. QED
      BY <1>1, <1>2, <2>3, <2>4, <3>2 DEF n, S
  <2>5. CASE k = Precision
    <3>1. D = 2 * Half
      BY <2>5, HalfType
    <3>2. Half * D = 2 * S /\ 2 * Half * D = 4 * S
      BY <1>1, <3>1
    <3> HIDE DEF n, S, D
    <3>3. QED
      BY <1>1, <1>2, <2>3, <2>5, <3>2 DEF n, S
  <2>6. CASE k < Precision - 1
    <3>1. 2 * D <= Half
      BY <1>2, <2>1, <2>6, TwoToGrows DEF Half
    <3>2. (2 * D) * Half <= Half * Half /\ 2 * Half * D = (2 * D) * Half
      BY <1>1, <2>2, <3>1
    <3> HIDE DEF n, D
    <3>3. QED
      BY <1>1, <1>2, <2>2, <2>3, <2>6, <3>2 DEF n, S
  <2>7. CASE k > Precision
    <3>1. 2 * (2 * Half) <= D
      BY <1>2, <2>1, <2>7, TwoToGrows, HalfType
    <3>2. (4 * Half) * Half <= Half * D /\ (4 * Half) * Half = 4 * S
      BY <1>1, <2>2, <3>1
    <3> HIDE DEF n, D, S
    <3>3. QED
      BY <1>1, <1>2, <2>2, <2>3, <2>7, <3>2 DEF n
  <2>8. QED
    BY <1>2, <2>4, <2>5, <2>6, <2>7
<1>5. QED
  BY <1>2, <1>3, <1>4

\* A product, by the bits s that it has more than its factors: r * s * Half is
\* a * b but for half of s * Half, or for a quarter of it just under a power.
RoundsTo(a, b, s, r) ==
    /\ s \in {1, 2} /\ r \in Significands
    /\ Near(a * b, s * Half, r)
    /\ s = 2 /\ r = Half => 2 * (2 * (Half * Half) - a * b) <= Half

\* A product is rounded so,
LEMMA TimesRounds ==
  ASSUME NEW x \in Numbers, NEW y \in Numbers
  PROVE  \E s, r : /\ RoundsTo(x[1], y[1], s, r)
                   /\ Times(x, y) = <<r, x[2] + y[2] + Precision - 2 + s>>
<1> DEFINE a == x[1]
           b == y[1]
           n == a * b
           c == x[2] + y[2]
           S == Half * Half
<1>1. a \in Significands /\ b \in Significands /\ c \in Int /\ Precision \in Int
  BY OrdersAssumption DEF Numbers
<1>2. Half \in Nat /\ Half >= 2 /\ Significands = Half..2 * Half - 1 /\ S \in Nat
  BY HalfType
<1>3. n \in Nat /\ S <= n /\ n <= (2 * Half - 1) * (2 * Half - 1)
  BY <1>1, ProductRange
<1>4. Precision \in -2 * Precision..2 * Precision
      /\ Precision - 1 \in -2 * Precision..2 * Precision
  BY OrdersAssumption
<1>5. Scales(n, 1) # {}
  <2>1. Precision \in Scales(n, 1) \/ Precision - 1 \in Scales(n, 1)
    <3>1. n >= 2 * S \/ n < 2 * S
      <4> HIDE DEF n, S
      <4>1. QED
        BY <1>2, <1>3
    <3>2. QED
      BY <1>1, <1>4, <3>1, ProductScales
  <2>2. QED
    BY <2>1
<1>6. PICK k \in Scales(n, 1) : Nearest(n, 1, c) = ToEven(n * Up(-k), 1 * Up(k), c + k)
  BY <1>5, NearestPicks
<1>7. k \in -2 * Precision..2 * Precision /\ k \in Int
  BY <1>1, <1>6 DEF Scales
<1>8. Times(x, y) = ToEven(n * Up(-k), 1 * Up(k), c + k)
  BY <1>6 DEF Times
<1>9. \/ k = Precision - 1 /\ n < 2 * S
      \/ k = Precision /\ n >= 2 * S
  BY <1>1, <1>6, <1>7, ProductScales
<1>10. CASE k = Precision - 1 /\ n < 2 * S
  <2>1. Up(k) = Half /\ Up(-k) = 1
    BY <1>10, OrdersAssumption, TwoToIs DEF Up, Half
  <2>2. n * Up(-k) = n /\ 1 * Up(k) = Half
    BY <1>2, <1>3, <2>1
  <2>3. Times(x, y) = ToEven(n, Half, c + k) /\ n \div Half \in Significands
    BY <1>6, <1>8, <2>2 DEF Scales
  <2>4. \/ \E m \in Significands : ToEven(n, Half, c + k) = <<m, c + k>> /\ Near(n, Half, m)
        \/ ToEven(n, Half, c + k) = <<Half, c + k + 1>> /\ Near(n, Half, 2 * Half)
    <3> HIDE DEF n, c
    <3>1. Half \in Nat \ {0} /\ c + k \in Int
      BY <1>1, <1>2, <1>7
    <3>2. QED
      BY <1>3, <2>3, <3>1, ToEvenRounds
  <2>5. CASE \E m \in Significands :
                 ToEven(n, Half, c + k) = <<m, c + k>> /\ Near(n, Half, m)
    <3>1. PICK m \in Significands :
                  ToEven(n, Half, c + k) = <<m, c + k>> /\ Near(n, Half, m)
      BY <2>5
    <3>2. 1 * Half = Half /\ c + k = c + Precision - 2 + 1
      BY <1>1, <1>2, <1>10
    <3>3. RoundsTo(a, b, 1, m)
      BY <3>1, <3>2 DEF RoundsTo
    <3>4. QED
      BY <2>3, <3>1, <3>2, <3>3
  <2>6. CASE ToEven(n, Half, c + k) = <<Half, c + k + 1>> /\ Near(n, Half, 2 * Half)
    <3>1. c + k + 1 = c + Precision - 2 + 2
      BY <1>1, <1>10
    <3>2. Half \in Significands
      BY <1>2
    <3>3. 2 * (2 * S - n) <= Half /\ n < 2 * S
      <4>1. (2 * Half) * Half = 2 * S
        BY <1>2
      <4> HIDE DEF n, S
      <4>2. QED
        BY <1>2, <1>3, <1>10, <2>6, <4>1 DEF Near
    <3>4. Near(n, 2 * Half, Half)
      <4>1. Half * (2 * Half) = 2 * S
        BY <1>2
      <4> HIDE DEF n, S
      <4>2. QED
        BY <1>2, <1>3, <3>3, <4>1 DEF Near
    <3>5. RoundsTo(a, b, 2, Half)
      BY <3>2, <3>3, <3>4 DEF RoundsTo
    <3>6. QED
      BY <2>3, <2>6, <3>1, <3>5
  <2>7. QED
    BY <2>4, <2>5, <2>6
<1>11. CASE k = Precision /\ n >= 2 * S
  <2>1. Up(k) = 2 * Half /\ Up(-k) = 1
    <3>1. k > 0 /\ ~(-k > 0)
      BY <1>11, OrdersAssumption
    <3>2. QED
      BY <1>11, <3>1, TwoToIs, HalfType DEF Up
  <2>2. n * Up(-k) = n /\ 1 * Up(k) = 2 * Half
    BY <1>2, <1>3, <2>1
  <2>3. Times(x, y) = ToEven(n, 2 * Half, c + k) /\ n \div (2 * Half) \in Significands
    BY <1>6, <1>8, <2>2 DEF Scales
  <2>4. \/ \E m \in Significands :
              ToEven(n, 2 * Half, c + k) = <<m, c + k>> /\ Near(n, 2 * Half, m)
        \/ Near(n, 2 * Half, 2 * Half)
    <3> HIDE DEF n, c
    <3>1. 2 * Half \in Nat \ {0} /\ c + k \in Int
      BY <1>1, <1>2, <1>7
    <3>2. QED
      BY <1>3, <2>3, <3>1, ToEvenRounds
  <2>5. ~Near(n, 2 * Half, 2 * Half)
    <3>1. (2 * Half - 1) * (2 * Half - 1) = 4 * S - 4 * Half + 1
      BY <1>2
    <3>2. (2 * Half) * (2 * Half) = 4 * S
      BY <1>2
    <3> HIDE DEF n, S
    <3>3. QED
      BY <1>2, <1>3, <3>1, <3>2 DEF Near
  <2>6. PICK m \in Significands :
              ToEven(n, 2 * Half, c + k) = <<m, c + k>> /\ Near(n, 2 * Half, m)
    BY <2>4, <2>5
  <2>7. RoundsTo(a, b, 2, m)
    <3>1. 2 * (2 * S - n) <= Half
      <4> HIDE DEF n, S
      <4>1. QED
        BY <1>2, <1>3, <1>11
    <3>2. QED
      BY <2>6, <3>1 DEF RoundsTo
  <2>8. c + k = c + Precision - 2 + 2
    BY <1>1, <1>11
  <2>9. QED
    BY <2>3, <2>6, <2>7, <2>8
<1>12. QED
  BY <1>9, <1>10, <1>11

\* The only scale an inverse can need.
LEMMA InverseScales ==
  ASSUME NEW d \in Significands, NEW k \in -2 * Precision..2 * Precision
  PROVE  k \in Scales(1, d) <=> \/ k = -(2 * Precision - 2) /\ d = Half
                                \/ k = -(2 * Precision - 1) /\ d # Half
<1> DEFINE S == Half * Half
           j == -k
<1>1. Half \in Nat /\ Half >= 2 /\ d \in Half..2 * Half - 1 /\ d \in Nat /\ S \in Nat \ {0}
  BY HalfType
<1>2. k \in Int /\ Precision \in Nat /\ Precision >= 2
  BY OrdersAssumption
<1>3. S <= Half * d /\ (d = Half => Half * d = S) /\ (d # Half => S < Half * d)
      /\ 2 * Half * d < 4 * S /\ Half * d \in Nat /\ 2 * Half * d = 2 * (Half * d)
  <2>1. Half * d = S + Half * (d - Half) /\ Half * (d - Half) >= 0
    BY <1>1
  <2>2. d # Half => Half * (d - Half) > 0
    BY <1>1
  <2>3. 2 * Half * d <= 2 * Half * (2 * Half - 1)
        /\ 2 * Half * (2 * Half - 1) = 4 * S - 2 * Half
    BY <1>1
  <2>4. 2 * Half * d = 2 * (Half * d) /\ Half * d \in Nat
    BY <1>1
  <2> DEFINE p == Half * d
  <2> HIDE DEF S
  <2>5. QED
    BY <1>1, <2>1, <2>2, <2>3, <2>4 DEF S
<1>4. CASE k >= 0
  <2>1. Up(-k) = 1 /\ Up(k) = TwoTo[k]
    BY <1>2, <1>4, TwoToIs DEF Up
  <2>2. d * Up(k) \in Nat \ {0}
    <3>1. Up(k) \in Nat \ {0}
      BY <1>2, <1>4, <2>1, TwoToType
    <3>2. QED
      BY <1>1, <3>1
  <2> DEFINE D == d * Up(k)
  <2>3. ~(Half * D <= 1)
    <3> HIDE DEF D
    <3>1. QED
      BY <1>1, <2>2 DEF D
  <2>4. (1 * Up(-k)) \div D \notin Significands
    <3>1. 1 * Up(-k) = 1
      BY <2>1
    <3> HIDE DEF D
    <3>2. QED
      BY <2>2, <2>3, <3>1, Between DEF D
  <2>5. QED
    BY <1>2, <1>4, <2>4 DEF Scales
<1>5. CASE k < 0
  <2>1. j \in Nat /\ j > 0 /\ ~(k > 0) /\ Up(k) = 1 /\ Up(-k) = TwoTo[j]
    BY <1>2, <1>5, TwoToIs DEF Up
  <2> DEFINE N == TwoTo[j]
  <2>2. N \in Nat \ {0}
    BY <2>1, TwoToType
  <2>3. k \in Scales(1, d) <=> Half * d <= N /\ N < 2 * Half * d
    <3>1. 1 * Up(-k) = N /\ d * Up(k) = d
      BY <1>1, <2>1, <2>2
    <3>2. k \in Scales(1, d) <=> N \div d \in Significands
      BY <3>1 DEF Scales
    <3> HIDE DEF N
    <3>3. N \in Int /\ d \in Nat \ {0}
      BY <1>1, <2>2
    <3>4. N \div d \in Significands <=> Half * d <= N /\ N < 2 * Half * d
      BY <3>3, Between
    <3>5. QED
      BY <3>2, <3>4
  <2>4. 2 * Precision - 2 \in Nat /\ TwoTo[2 * Precision - 2] = S
    BY <1>2, HalfType
  <2>5. 2 * Precision - 1 \in Nat /\ TwoTo[2 * Precision - 1] = 2 * S
    <3>1. 2 * Precision - 1 = 2 * Precision - 2 + 1
      BY <1>2
    <3>2. QED
      BY <1>2, <2>4, <3>1, TwoToIs
  <2>6. CASE j = 2 * Precision - 2
    <3>1. N = S
      BY <2>4, <2>6
    <3> HIDE DEF N, S
    <3>2. QED
      BY <1>1, <1>2, <1>3, <2>3, <2>6, <3>1
  <2>7. CASE j = 2 * Precision - 1
    <3>1. N = 2 * S
      BY <2>5, <2>7
    <3>2. d # Half => 2 * S < 2 * (Half * d)
      BY <1>1, <1>3
    <3> HIDE DEF N, S
    <3>3. d # Half => Half * d <= 2 * S
      BY <1>1, <1>3
    <3>4. QED
      BY <1>1, <1>2, <1>3, <2>3, <2>7, <3>1, <3>2, <3>3
  <2>8. CASE j < 2 * Precision - 2
    <3>1. 2 * N <= S
      BY <2>1, <2>4, <2>8, TwoToGrows
    <3> HIDE DEF N, S
    <3>2. QED
      BY <1>1, <1>2, <1>3, <2>2, <2>3, <2>8, <3>1
  <2>9. CASE j > 2 * Precision - 1
    <3>1. 2 * (2 * S) <= N
      BY <2>1, <2>5, <2>9, TwoToGrows
    <3> HIDE DEF N, S
    <3>2. QED
      BY <1>1, <1>2, <1>3, <2>2, <2>3, <2>9, <3>1
  <2>10. QED
    BY <1>2, <2>1, <2>6, <2>7, <2>8, <2>9
<1>6. QED
  BY <1>2, <1>4, <1>5

\* An inverse, by its bits t: r * d is t * Half * Half but for half of d.
InverseTo(d, t, r) ==
    /\ t \in {1, 2} /\ r \in Significands
    /\ Near(t * (Half * Half), d, r)
    /\ t = 1 <=> d = Half
    /\ t = 1 <=> r = Half

\* An inverse is rounded so.
LEMMA OneOverRounds ==
  ASSUME NEW x \in Numbers
  PROVE  \E t, r : /\ InverseTo(x[1], t, r)
                   /\ OneOver(x) = <<r, -x[2] - (2 * Precision - 3 + t)>>
<1> DEFINE d == x[1]
           c == -x[2]
           S == Half * Half
<1>1. d \in Significands /\ c \in Int /\ Precision \in Nat /\ Precision >= 2
  BY OrdersAssumption DEF Numbers
<1>2. Half \in Nat /\ Half >= 2 /\ Significands = Half..2 * Half - 1 /\ S \in Nat
  BY HalfType
<1>3. d \in Nat \ {0} /\ d \in Half..2 * Half - 1
  BY <1>1, <1>2
<1>4. -(2 * Precision - 2) \in -2 * Precision..2 * Precision
      /\ -(2 * Precision - 1) \in -2 * Precision..2 * Precision
  BY <1>1
<1>5. Scales(1, d) # {}
  <2>1. -(2 * Precision - 2) \in Scales(1, d) \/ -(2 * Precision - 1) \in Scales(1, d)
    <3> HIDE DEF d
    <3>1. QED
      BY <1>1, <1>4, InverseScales
  <2>2. QED
    BY <2>1
<1>6. PICK k \in Scales(1, d) : Nearest(1, d, c) = ToEven(1 * Up(-k), d * Up(k), c + k)
  BY <1>5, NearestPicks
<1>7. k \in -2 * Precision..2 * Precision /\ k \in Int
  BY <1>1, <1>6 DEF Scales
<1>8. OneOver(x) = ToEven(1 * Up(-k), d * Up(k), c + k)
  BY <1>6 DEF OneOver
<1>9. \/ k = -(2 * Precision - 2) /\ d = Half
      \/ k = -(2 * Precision - 1) /\ d # Half
  BY <1>1, <1>6, <1>7, InverseScales
<1>10. ~(k > 0) /\ -k \in Nat /\ Up(k) = 1 /\ Up(-k) = TwoTo[-k]
  <2>1. ~(k > 0) /\ -k \in Nat /\ -k > 0
    BY <1>1, <1>7, <1>9
  <2>2. QED
    BY <2>1, TwoToIs DEF Up
<1>11. PICK t \in {1, 2} : /\ t = 1 <=> d = Half
                           /\ k = -(2 * Precision - 3 + t) /\ Up(-k) = t * S
  <2>1. CASE k = -(2 * Precision - 2) /\ d = Half
    <3>1. Up(-k) = S
      BY <1>1, <1>10, <2>1, HalfType
    <3>2. QED
      BY <1>1, <1>2, <2>1, <3>1
  <2>2. CASE k = -(2 * Precision - 1) /\ d # Half
    <3>1. 2 * Precision - 2 \in Nat /\ -k = 2 * Precision - 2 + 1
      BY <1>1, <2>2
    <3>2. Up(-k) = 2 * S
      BY <1>10, <3>1, TwoToIs, HalfType
    <3>3. k = -(2 * Precision - 3 + 2)
      BY <1>1, <2>2
    <3>4. QED
      BY <2>2, <3>2, <3>3
  <2>3. QED
    BY <1>9, <2>1, <2>2
<1>12. OneOver(x) = ToEven(t * S, d, c + k) /\ (t * S) \div d \in Significands
  <2>1. 1 * Up(-k) = t * S /\ d * Up(k) = d
    BY <1>2, <1>3, <1>10, <1>11
  <2>2. QED
    BY <1>6, <1>8, <2>1 DEF Scales
<1>13. \/ \E m \in Significands :
              ToEven(t * S, d, c + k) = <<m, c + k>> /\ Near(t * S, d, m)
       \/ Near(t * S, d, 2 * Half) /\ t * S < 2 * Half * d
  <2>1. t * S \in Nat /\ c + k \in Int
    BY <1>1, <1>2, <1>7
  <2> DEFINE N == t * S
  <2> HIDE DEF N, d, c
  <2>2. QED
    BY <1>3, <1>12, <2>1, ToEvenRounds DEF N
<1>14. S + Half <= Half * d \/ d = Half
  <2>1. d = Half \/ Half * (d - Half) >= Half
    BY <1>2, <1>3
  <2>2. Half * d = S + Half * (d - Half)
    BY <1>2, <1>3
  <2> HIDE DEF S
  <2>3. QED
    BY <1>2, <1>3, <2>1, <2>2
<1>15. ~(Near(t * S, d, 2 * Half) /\ t * S < 2 * Half * d)
  <2>1. (2 * Half) * d = 2 * (Half * d) /\ 2 * Half * d = 2 * (Half * d) /\ Half * d \in Int
    BY <1>2, <1>3
  <2>2. CASE t = 1
    <3>1. d = Half /\ t * S = S /\ Half * d = S
      BY <1>2, <1>11, <2>2
    <3>2. S >= 2 * Half
      BY <1>2
    <3> HIDE DEF S, d
    <3>3. QED
      BY <1>2, <2>1, <3>1, <3>2 DEF Near
  <2>3. CASE t = 2
    <3>1. d # Half /\ t * S = 2 * S
      BY <1>2, <1>11, <2>3
    <3> HIDE DEF S, d
    <3>2. QED
      BY <1>2, <1>3, <1>14, <2>1, <3>1 DEF Near
  <2>4. QED
    BY <2>2, <2>3
<1>16. PICK m \in Significands : ToEven(t * S, d, c + k) = <<m, c + k>> /\ Near(t * S, d, m)
  BY <1>13, <1>15
<1>17. m \in Nat /\ m >= Half
  BY <1>2
<1>18. t = 1 => m = Half
  <2> SUFFICES ASSUME t = 1, m # Half PROVE FALSE
    OBVIOUS
  <2>1. t * S = S /\ d = Half
    BY <1>2, <1>11
  <2>2. m * d = S + Half * (m - Half) /\ Half * (m - Half) >= Half
    BY <1>2, <1>17, <2>1
  <2> HIDE DEF S, d
  <2>3. QED
    BY <1>2, <1>16, <2>1, <2>2 DEF Near
<1>19. t = 2 => m # Half
  <2> SUFFICES ASSUME t = 2, m = Half PROVE FALSE
    OBVIOUS
  <2>1. t * S = 2 * S /\ d # Half
    BY <1>2, <1>11
  <2>2. (2 * Half + 1) * d <= (2 * Half + 1) * (2 * Half - 1)
    BY <1>2, <1>3
  <2>3. (2 * Half + 1) * d = 2 * (Half * d) + d
        /\ (2 * Half + 1) * (2 * Half - 1) = 4 * S - 1
    BY <1>2, <1>3
  <2>4. Half * d \in Int
    BY <1>2, <1>3
  <2> HIDE DEF S, d
  <2>5. QED
    BY <1>2, <1>3, <1>16, <2>1, <2>2, <2>3, <2>4 DEF Near
<1>20. InverseTo(d, t, m)
  BY <1>11, <1>16, <1>18, <1>19 DEF InverseTo
<1>21. OneOver(x) = <<m, -x[2] - (2 * Precision - 3 + t)>>
  <2>1. c + k = -x[2] - (2 * Precision - 3 + t)
    BY <1>1, <1>11
  <2>2. QED
    BY <1>12, <1>16, <2>1
<1>22. QED
  BY <1>20, <1>21

\* The inverse of the inverse, next to the number.
LEMMA InverseOfInverse ==
  ASSUME NEW m \in Significands, NEW t, NEW r, InverseTo(m, t, r),
         NEW u, NEW q, InverseTo(r, u, q)
  PROVE  u = t /\ m - q \in -1..1
<1> DEFINE S == Half * Half
<1>1. Half \in Nat /\ Half >= 2 /\ Significands = Half..2 * Half - 1 /\ S \in Nat
  BY HalfType
<1>2. m \in Nat /\ r \in Nat /\ q \in Nat /\ r >= Half /\ m < 2 * Half
  BY <1>1 DEF InverseTo
<1>3. u = t
  BY DEF InverseTo
<1>4. CASE t = 1
  BY <1>1, <1>3, <1>4 DEF InverseTo
<1>5. CASE t = 2
  <2>1. Near(2 * S, m, r) /\ Near(2 * S, r, q)
    BY <1>3, <1>5 DEF InverseTo
  <2>2. r * m = m * r /\ m * r \in Int /\ q * r \in Int
    BY <1>2
  <2>3. ASSUME q >= m + 2 PROVE FALSE
    <3>1. q * r >= (m + 2) * r /\ (m + 2) * r = m * r + 2 * r
      BY <1>2, <2>3
    <3> HIDE DEF S
    <3>2. QED
      BY <1>1, <1>2, <2>1, <2>2, <3>1 DEF Near
  <2>4. ASSUME m >= q + 2 PROVE FALSE
    <3>1. m * r >= (q + 2) * r /\ (q + 2) * r = q * r + 2 * r
      BY <1>2, <2>4
    <3> HIDE DEF S
    <3>2. QED
      BY <1>1, <1>2, <2>1, <2>2, <3>1 DEF Near
  <2>5. QED
    BY <1>2, <1>3, <2>3, <2>4
<1>6. QED
  BY <1>4, <1>5 DEF InverseTo

\* Multiplying by a power of two is exact.
LEMMA TimesPower ==
  ASSUME NEW a \in Significands, NEW s, NEW r, RoundsTo(a, Half, s, r)
  PROVE  s = 1 /\ r = a
<1> DEFINE S == Half * Half
<1>1. Half \in Nat /\ Half >= 2 /\ Significands = Half..2 * Half - 1 /\ S \in Nat
  BY HalfType
<1>2. a \in Nat /\ r \in Nat /\ r >= Half /\ a <= 2 * Half - 1 /\ a * Half \in Int
      /\ r * Half \in Int
  BY <1>1 DEF RoundsTo
<1>3. CASE s = 1
  <2>1. Near(a * Half, Half, r)
    <3>1. 1 * Half = Half
      BY <1>1
    <3>2. QED
      BY <1>3, <3>1 DEF RoundsTo
  <2>2. ASSUME r >= a + 1 PROVE FALSE
    <3>1. r * Half >= (a + 1) * Half /\ (a + 1) * Half = a * Half + Half
      BY <1>1, <1>2, <2>2
    <3>2. QED
      BY <1>1, <1>2, <2>1, <3>1 DEF Near
  <2>3. ASSUME a >= r + 1 PROVE FALSE
    <3>1. a * Half >= (r + 1) * Half /\ (r + 1) * Half = r * Half + Half
      BY <1>1, <1>2, <2>3
    <3>2. QED
      BY <1>1, <1>2, <2>1, <3>1 DEF Near
  <2>4. QED
    BY <1>2, <1>3, <2>2, <2>3
<1>4. CASE s = 2
  <2>1. Near(a * Half, 2 * Half, r) /\ (r = Half => 2 * (2 * S - a * Half) <= Half)
    BY <1>4 DEF RoundsTo
  <2>2. a * Half <= (2 * Half - 1) * Half /\ (2 * Half - 1) * Half = 2 * S - Half
    BY <1>1, <1>2
  <2>3. r = Half
    <3> SUFFICES ASSUME r >= Half + 1 PROVE FALSE
      BY <1>1, <1>2
    <3>1. r * (2 * Half) >= (Half + 1) * (2 * Half)
          /\ (Half + 1) * (2 * Half) = 2 * S + 2 * Half
      BY <1>1, <1>2
    <3>2. r * (2 * Half) \in Int
      BY <1>1, <1>2
    <3> HIDE DEF S
    <3>3. QED
      BY <1>1, <1>2, <2>1, <2>2, <3>1, <3>2 DEF Near
  <2> HIDE DEF S
  <2>4. QED
    BY <1>1, <1>2, <2>1, <2>2, <2>3
<1>5. QED
  BY <1>3, <1>4 DEF RoundsTo

\* A product with the inverse of m, where m is not a power of two, is short of
\* three halves of what it could be at most.
LEMMA KeyBound ==
  ASSUME NEW n \in Significands, NEW m \in Significands, NEW r \in Significands,
         m # Half, Near(2 * (Half * Half), m, r)
  PROVE  n * m + 2 * (r * Half) < 6 * (Half * Half)
<1> DEFINE S == Half * Half
           x == r * Half
           p == n * m
           k == m - Half
           l == 4 * S - (2 * Half - 1) * m
<1>1. Half \in Nat /\ Half >= 2 /\ m \in Nat /\ n \in Nat /\ r \in Nat
      /\ m > Half /\ m <= 2 * Half - 1 /\ n <= 2 * Half - 1
  BY HalfType
<1>2. S \in Nat /\ x \in Nat /\ p \in Nat /\ k \in Nat \ {0}
  BY <1>1
<1>3. l \in Int /\ l > 0
  <2>1. (2 * Half - 1) * m <= (2 * Half - 1) * (2 * Half - 1)
    BY <1>1
  <2>2. (2 * Half - 1) * (2 * Half - 1) = 4 * S - 4 * Half + 1
    BY <1>1
  <2>3. (2 * Half - 1) * m \in Int
    BY <1>1
  <2> HIDE DEF S
  <2>4. QED
    BY <1>1, <1>2, <2>1, <2>2, <2>3
<1>4. k * l > 0 /\ k * l \in Int
  <2> HIDE DEF k, l
  <2>1. QED
    BY <1>2, <1>3
<1>5. k * l = (6 * S - (2 * Half - 1) * m) * m - Half * m - 4 * (S * Half)
  BY <1>1
<1>6. 2 * x * m <= 4 * (S * Half) + Half * m
  <2>1. 2 * (r * m) <= 4 * S + m
    <3>1. r * m \in Int
      BY <1>1
    <3> HIDE DEF S
    <3>2. QED
      BY <1>1, <1>2, <3>1 DEF Near, S
  <2>2. Half * (2 * (r * m)) <= Half * (4 * S + m)
    <3>1. r * m \in Int
      BY <1>1
    <3> DEFINE y == 2 * (r * m)
               z == 4 * S + m
    <3>2. y \in Int /\ z \in Int /\ y <= z
      BY <1>1, <1>2, <2>1, <3>1
    <3> HIDE DEF y, z
    <3>3. Half * y <= Half * z
      BY <1>1, <3>2
    <3>4. QED
      BY <3>3 DEF y, z
  <2>3. Half * (2 * (r * m)) = 2 * x * m /\ Half * (4 * S + m) = 4 * (S * Half) + Half * m
    BY <1>1
  <2>4. QED
    BY <2>2, <2>3
<1>7. p <= (2 * Half - 1) * m
  BY <1>1
<1>8. 2 * x < 6 * S - (2 * Half - 1) * m
  <2> DEFINE y == 6 * S - (2 * Half - 1) * m
  <2>1. y \in Int
    BY <1>1, <1>2
  <2>2. 2 * x * m < y * m
    <3>1. y * m = k * l + Half * m + 4 * (S * Half)
      <4>1. Half * m \in Int /\ 4 * (S * Half) \in Int /\ y * m \in Int
        BY <1>1, <1>2, <2>1
      <4>2. k * l = y * m - Half * m - 4 * (S * Half)
        BY <1>5
      <4> HIDE DEF y, k, l, S
      <4>3. QED
        BY <1>4, <4>1, <4>2
    <3>2. 2 * x * m \in Int /\ Half * m \in Int /\ 4 * (S * Half) \in Int
      BY <1>1, <1>2
    <3> HIDE DEF y, x, k, l, S
    <3>3. QED
      BY <1>4, <1>6, <3>1, <3>2
  <2> HIDE DEF x, y
  <2>3. ~(2 * x >= y)
    <3> SUFFICES ASSUME 2 * x >= y PROVE FALSE
      OBVIOUS
    <3>1. 2 * x * m >= y * m
      BY <1>1, <1>2, <2>1
    <3>2. 2 * x * m \in Int /\ y * m \in Int
      BY <1>1, <1>2, <2>1
    <3>3. QED
      BY <2>2, <3>1, <3>2
  <2>4. QED
    BY <1>2, <2>1, <2>3 DEF y
<1>9. QED
  <2>1. (2 * Half - 1) * m \in Int
    BY <1>1
  <2> HIDE DEF S, x, p
  <2>2. p + 2 * x < 6 * S
    BY <1>2, <1>7, <1>8, <2>1
  <2>3. QED
    BY <2>2 DEF S, x, p

\* Half of a bound, times a number.
LEMMA Scaled ==
  ASSUME NEW a \in Nat, NEW b \in Int, NEW c \in Nat, -c <= 2 * b, 2 * b <= c
  PROVE  a * b \in Int /\ a * c \in Nat /\ -(a * c) <= 2 * (a * b) /\ 2 * (a * b) <= a * c
<1>1. a * (2 * b) <= a * c /\ a * (-c) <= a * (2 * b)
  OBVIOUS
<1>2. QED
  BY <1>1

\* What a number, times one and times its inverse, is short of itself.
LEMMA Residue ==
  ASSUME NEW n \in Significands, NEW m \in Significands,
         NEW s, NEW w, RoundsTo(n, m, s, w), NEW r, InverseTo(m, 2, r),
         NEW z, NEW a, RoundsTo(w, r, z, a)
  PROVE  \E d \in Int :
            /\ d = (2 * n - a * s * z) * (Half * Half)
            /\ 2 * d <= n * m + s * (r * Half) + s * z * (Half * Half)
            /\ -2 * d <= n * m + s * (r * Half) + s * z * (Half * Half)
            /\ z = 2 /\ a = Half =>
                 -2 * d <= n * m + s * (r * Half) + s * (Half * Half)
<1> DEFINE S == Half * Half
           e == n * m - w * (s * Half)
           f == 2 * S - r * m
           g == w * r - a * (z * Half)
           d == n * f + r * e + (s * Half) * g
<1>1. Half \in Nat /\ Half >= 2 /\ S \in Nat /\ n \in Nat /\ m \in Nat /\ r \in Nat
      /\ w \in Nat
      /\ a \in Nat /\ s \in {1, 2} /\ z \in {1, 2}
  BY HalfType DEF RoundsTo, InverseTo
<1>2. e \in Int /\ f \in Int /\ g \in Int /\ s * Half \in Nat /\ z * Half \in Nat
  BY <1>1
<1>3. /\ -(s * Half) <= 2 * e /\ 2 * e <= s * Half
      /\ -m <= 2 * f /\ 2 * f <= m
      /\ -(z * Half) <= 2 * g /\ 2 * g <= z * Half
  BY DEF RoundsTo, InverseTo, Near
<1>4. d = (2 * n - a * s * z) * S
  BY <1>1
<1>5. n * f \in Int /\ n * m \in Nat /\ -(n * m) <= 2 * (n * f) /\ 2 * (n * f) <= n * m
  <2> HIDE DEF f
  <2>1. QED
    BY <1>1, <1>2, <1>3, Scaled
<1>6. r * e \in Int /\ r * (s * Half) \in Nat
      /\ -(r * (s * Half)) <= 2 * (r * e) /\ 2 * (r * e) <= r * (s * Half)
  <2> DEFINE b == s * Half
  <2> HIDE DEF e, b
  <2>1. QED
    BY <1>1, <1>2, <1>3, Scaled DEF b
<1>7. (s * Half) * g \in Int /\ (s * Half) * (z * Half) \in Nat
      /\ -((s * Half) * (z * Half)) <= 2 * ((s * Half) * g)
      /\ 2 * ((s * Half) * g) <= (s * Half) * (z * Half)
  <2> DEFINE b == s * Half
             c == z * Half
  <2> HIDE DEF g, b, c
  <2>1. QED
    BY <1>2, <1>3, Scaled DEF b, c
<1>8. r * (s * Half) = s * (r * Half) /\ (s * Half) * (z * Half) = s * z * S
  BY <1>1
<1>9. d \in Int
  BY <1>5, <1>6, <1>7
<1>10. 2 * d <= n * m + s * (r * Half) + s * z * S
       /\ -2 * d <= n * m + s * (r * Half) + s * z * S
  BY <1>5, <1>6, <1>7, <1>8
<1>11. ASSUME z = 2, a = Half PROVE -2 * d <= n * m + s * (r * Half) + s * S
  <2>1. 2 * (2 * S - w * r) <= Half
    BY <1>11 DEF RoundsTo
  <2>2. g = w * r - 2 * S
    BY <1>1, <1>11
  <2>3. -Half <= 2 * g
    <3>1. w * r \in Int
      BY <1>1
    <3> HIDE DEF S, g
    <3>2. QED
      BY <1>1, <2>1, <2>2, <3>1
  <2>4. -(s * S) <= 2 * ((s * Half) * g)
    <3>1. (s * Half) * (-Half) <= (s * Half) * (2 * g)
      <4> DEFINE b == s * Half
      <4> HIDE DEF g, b
      <4>1. b \in Nat /\ -Half \in Int /\ 2 * g \in Int
        BY <1>1, <1>2 DEF b
      <4>2. QED
        BY <2>3, <4>1 DEF b
    <3>2. (s * Half) * (-Half) = -(s * S) /\ (s * Half) * (2 * g) = 2 * ((s * Half) * g)
      BY <1>1, <1>2
    <3>3. QED
      BY <3>1, <3>2
  <2>5. s * S \in Nat
    BY <1>1
  <2>6. QED
    BY <1>5, <1>6, <1>7, <1>8, <2>4, <2>5
<1>12. QED
  BY <1>4, <1>9, <1>10, <1>11

\* The significands n and a of two numbers, e more in the exponent of the
\* second, are next to each other.
Neighbours(n, a, e) == \/ e = 0 /\ n - a \in -1..1
                       \/ e = -1 /\ 2 * n - a \in -2..2
                       \/ e = 1 /\ n - 2 * a \in -1..1

\* A number, times one and times its inverse, is next to itself.
LEMMA BackAgain ==
  ASSUME NEW n \in Significands, NEW m \in Significands,
         NEW s, NEW w, RoundsTo(n, m, s, w), NEW t, NEW r, InverseTo(m, t, r),
         NEW z, NEW a, RoundsTo(w, r, z, a)
  PROVE  Neighbours(n, a, s + z - t - 1)
<1> DEFINE S == Half * Half
           x == r * Half
           p == n * m
<1>1. Half \in Nat /\ Half >= 2 /\ S \in Nat \ {0} /\ n \in Nat /\ m \in Nat
      /\ r \in Nat /\ a \in Nat
      /\ n >= Half /\ n < 2 * Half /\ a >= Half /\ a < 2 * Half /\ w \in Significands
      /\ w < 2 * Half
      /\ s \in {1, 2} /\ z \in {1, 2} /\ t \in {1, 2} /\ r \in Significands
  BY HalfType DEF RoundsTo, InverseTo
<1>2. CASE t = 1
  <2>1. m = Half /\ r = Half
    BY <1>2 DEF InverseTo
  <2>2. s = 1 /\ w = n
    BY <2>1, TimesPower
  <2>3. z = 1 /\ a = n
    BY <2>1, <2>2, TimesPower
  <2>4. QED
    BY <1>1, <1>2, <2>2, <2>3 DEF Neighbours
<1>3. CASE t = 2
  <2>1. p + 2 * x < 6 * S
    BY <1>1, <1>3, KeyBound DEF InverseTo
  <2>2. PICK d \in Int : /\ d = (2 * n - a * s * z) * S
                         /\ 2 * d <= p + s * x + s * z * S
                         /\ -2 * d <= p + s * x + s * z * S
                         /\ z = 2 /\ a = Half => -2 * d <= p + s * x + s * S
    BY <1>3, Residue
  <2>3. p \in Nat /\ x \in Nat
    BY <1>1
  <2>4. ASSUME NEW c \in Nat, NEW v \in Int, v >= c PROVE v * S >= c * S
    BY <1>1, <2>4
  <2>5. ASSUME NEW v \in Int PROVE v * S \in Int /\ (-v) * S = -(v * S)
    BY <1>1
  <2>6. CASE s + z = 3
    <3> DEFINE v == n - a
    <3>1. v \in Int /\ s * z = 2 /\ (2 * n - a * s * z) = 2 * v
      BY <1>1, <2>6
    <3>2. d = 2 * (v * S)
      BY <1>1, <2>2, <3>1
    <3> HIDE DEF v, S, x, p
    <3>3. 2 * d < 8 * S /\ -2 * d < 8 * S
      BY <1>1, <2>1, <2>2, <2>3, <2>6, <3>1
    <3>4. ~(v >= 2) /\ ~(-v >= 2)
      BY <1>1, <2>4, <2>5, <3>1, <3>2, <3>3
    <3>5. v \in -1..1
      BY <3>1, <3>4
    <3>6. QED
      BY <1>1, <1>3, <2>6, <3>5 DEF Neighbours, v
  <2>7. CASE s = 1 /\ z = 1
    <3> DEFINE v == 2 * n - a
    <3>1. v \in Int /\ (2 * n - a * s * z) = v
      BY <1>1, <2>7
    <3>2. d = v * S
      BY <1>1, <2>2, <3>1
    <3>3. p <= 2 * S
      <4>1. 2 * (p - w * Half) <= Half
        <5>1. 1 * Half = Half
          BY <1>1
        <5>2. QED
          BY <2>7, <5>1 DEF RoundsTo, Near
      <4>2. w * Half <= (2 * Half - 1) * Half /\ (2 * Half - 1) * Half = 2 * S - Half
            /\ w * Half \in Int
        BY <1>1, HalfType
      <4> HIDE DEF p, S
      <4>3. QED
        BY <1>1, <2>3, <4>1, <4>2
    <3>4. x < 2 * S
      <4>1. r * Half <= (2 * Half - 1) * Half /\ (2 * Half - 1) * Half = 2 * S - Half
        BY <1>1, HalfType
      <4> HIDE DEF S
      <4>2. QED
        BY <1>1, <2>3, <4>1
    <3> HIDE DEF v, S, x, p
    <3>5. 2 * d < 6 * S /\ -2 * d < 6 * S
      BY <1>1, <2>2, <2>3, <2>7, <3>3, <3>4
    <3>6. ~(v >= 3) /\ ~(-v >= 3)
      BY <1>1, <2>4, <2>5, <3>1, <3>2, <3>5
    <3>7. v \in -2..2
      BY <3>1, <3>6
    <3>8. QED
      BY <1>1, <1>3, <2>7, <3>7 DEF Neighbours, v
  <2>8. CASE s = 2 /\ z = 2
    <3> DEFINE v == n - 2 * a
    <3>1. v \in Int /\ (2 * n - a * s * z) = 2 * v /\ v <= -1
      BY <1>1, <2>8
    <3>2. d = 2 * (v * S)
      BY <1>1, <2>2, <3>1
    <3>3. -2 * d < 10 * S /\ (a = Half => -2 * d < 8 * S)
      <4> HIDE DEF v, S, x, p
      <4>1. QED
        BY <1>1, <2>1, <2>2, <2>3, <2>8
    <3>4. ~(-v >= 3)
      <4> HIDE DEF v, S, x, p
      <4>1. QED
        BY <1>1, <2>4, <2>5, <3>1, <3>2, <3>3
    <3>5. v # -2
      <4> SUFFICES ASSUME v = -2 PROVE FALSE
        OBVIOUS
      <4>1. a = Half
        BY <1>1
      <4>2. -2 * d = 8 * S
        BY <1>1, <3>2
      <4>3. QED
        BY <3>3, <4>1, <4>2
    <3>6. v \in -1..1
      <4> HIDE DEF v
      <4>1. QED
        BY <3>1, <3>4, <3>5
    <3>7. QED
      BY <1>1, <1>3, <2>8, <3>6 DEF Neighbours
  <2>9. QED
    BY <1>1, <2>6, <2>7, <2>8
<1>4. QED
  BY <1>1, <1>2, <1>3

\* A product is a number.
LEMMA TimesType ==
  ASSUME NEW x \in Numbers, NEW y \in Numbers
  PROVE  Times(x, y) \in Numbers
<1>1. PICK s, r : /\ RoundsTo(x[1], y[1], s, r)
                  /\ Times(x, y) = <<r, x[2] + y[2] + Precision - 2 + s>>
  BY TimesRounds
<1>2. x[2] + y[2] + Precision - 2 + s \in Int
  BY <1>1, OrdersAssumption DEF Numbers, RoundsTo
<1>3. QED
  BY <1>1, <1>2 DEF Numbers, RoundsTo

\* So are inverses.
LEMMA OneOverType ==
  ASSUME NEW x \in Numbers
  PROVE  OneOver(x) \in Numbers
<1>1. PICK t, r : /\ InverseTo(x[1], t, r)
                  /\ OneOver(x) = <<r, -x[2] - (2 * Precision - 3 + t)>>
  BY OneOverRounds
<1>2. -x[2] - (2 * Precision - 3 + t) \in Int
  BY <1>1, OrdersAssumption DEF Numbers, InverseTo
<1>3. QED
  BY <1>1, <1>2 DEF Numbers, InverseTo

\* y is next to x.
NextTo(x, y) == Neighbours(x[1], y[1], y[2] - x[2])

\* A number times another one and times its inverse is next to itself: the amount
\* of a buy order, which the taker rebuilds from its worth and its inverse price.
LEMMA RoundTrip ==
  ASSUME NEW x \in Numbers, NEW y \in Numbers
  PROVE  NextTo(x, Times(Times(x, y), OneOver(y)))
<1> DEFINE w == Times(x, y)
           v == OneOver(y)
           u == Times(w, v)
<1>1. x[1] \in Significands /\ y[1] \in Significands /\ x[2] \in Int /\ y[2] \in Int
      /\ Precision \in Int /\ w \in Numbers /\ v \in Numbers
  BY OrdersAssumption, TimesType, OneOverType DEF Numbers
<1>2. PICK s, n : RoundsTo(x[1], y[1], s, n) /\ w = <<n, x[2] + y[2] + Precision - 2 + s>>
  BY TimesRounds
<1>3. PICK t, r : InverseTo(y[1], t, r) /\ v = <<r, -y[2] - (2 * Precision - 3 + t)>>
  BY OneOverRounds
<1> HIDE DEF w, v
<1>4. PICK z, a : RoundsTo(w[1], v[1], z, a) /\ u = <<a, w[2] + v[2] + Precision - 2 + z>>
  BY <1>1, TimesRounds
<1>5. Neighbours(x[1], a, s + z - t - 1)
  BY <1>1, <1>2, <1>3, <1>4, BackAgain
<1>6. s \in Int /\ z \in Int /\ t \in Int
  BY <1>2, <1>3, <1>4 DEF RoundsTo, InverseTo
<1>7. u[1] = a /\ u[2] - x[2] = s + z - t - 1
  BY <1>1, <1>2, <1>3, <1>4, <1>6
<1>8. QED
  BY <1>5, <1>7 DEF NextTo, w, v

\* The inverse of the inverse is next to the number: the price of a buy order.
LEMMA OneOverTwice ==
  ASSUME NEW x \in Numbers
  PROVE  NextTo(x, OneOver(OneOver(x)))
<1> DEFINE w == OneOver(x)
           v == OneOver(w)
<1>1. x[1] \in Significands /\ x[2] \in Int /\ Precision \in Int /\ w \in Numbers
  BY OrdersAssumption, OneOverType DEF Numbers
<1>2. PICK t, r : InverseTo(x[1], t, r) /\ w = <<r, -x[2] - (2 * Precision - 3 + t)>>
  BY OneOverRounds
<1> HIDE DEF w
<1>3. PICK u, q : InverseTo(w[1], u, q) /\ v = <<q, -w[2] - (2 * Precision - 3 + u)>>
  BY <1>1, OneOverRounds
<1>4. u = t /\ x[1] - q \in -1..1
  BY <1>1, <1>2, <1>3, InverseOfInverse
<1>5. t \in Int
  BY <1>2 DEF InverseTo
<1>6. v[1] = q /\ v[2] - x[2] = 0
  BY <1>1, <1>2, <1>3, <1>4, <1>5
<1>7. QED
  BY <1>4, <1>6 DEF NextTo, Neighbours, w

\* One of the two orders of magnitude that are next to each other.
LEMMA NextToWithin ==
  ASSUME NEW x \in Numbers, NEW y \in Numbers, NextTo(x, y)
  PROVE  WithinUlps(x, y, 1)
<1>1. x[1] \in Int /\ y[1] \in Int /\ x[2] \in Int /\ y[2] \in Int
  BY HalfType DEF Numbers
<1>2. TwoTo[0] = 1 /\ TwoTo[1] = 2
  BY TwoToIs
<1>3. CASE y[2] - x[2] = 0
  <2>1. ~(x[2] < y[2]) /\ x[2] - y[2] = 0 /\ y[2] - y[2] = 0 /\ x[1] - y[1] \in -1..1
    BY <1>1, <1>3 DEF NextTo, Neighbours
  <2>2. WithinUlps(x, y, 1) <=>
            x[1] * TwoTo[x[2] - y[2]] - y[1] * TwoTo[y[2] - y[2]]
                \in -1 * TwoTo[x[2] - y[2]]..1 * TwoTo[x[2] - y[2]]
    BY <2>1 DEF WithinUlps
  <2>3. QED
    BY <1>1, <1>2, <2>1, <2>2
<1>4. CASE y[2] - x[2] = -1
  <2>1. ~(x[2] < y[2]) /\ x[2] - y[2] = 1 /\ y[2] - y[2] = 0 /\ 2 * x[1] - y[1] \in -2..2
    BY <1>1, <1>4 DEF NextTo, Neighbours
  <2>2. WithinUlps(x, y, 1) <=>
            x[1] * TwoTo[x[2] - y[2]] - y[1] * TwoTo[y[2] - y[2]]
                \in -1 * TwoTo[x[2] - y[2]]..1 * TwoTo[x[2] - y[2]]
    BY <2>1 DEF WithinUlps
  <2>3. TwoTo[x[2] - y[2]] = 2 /\ TwoTo[y[2] - y[2]] = 1
    BY <1>2, <2>1
  <2>4. x[1] * 2 - y[1] * 1 \in -1 * 2..1 * 2
    BY <1>1, <2>1
  <2>5. QED
    BY <2>2, <2>3, <2>4
<1>5. CASE y[2] - x[2] = 1
  <2>1. x[2] < y[2] /\ x[2] - x[2] = 0 /\ y[2] - x[2] = 1 /\ x[1] - 2 * y[1] \in -1..1
    BY <1>1, <1>5 DEF NextTo, Neighbours
  <2>2. WithinUlps(x, y, 1) <=>
            x[1] * TwoTo[x[2] - x[2]] - y[1] * TwoTo[y[2] - x[2]]
                \in -1 * TwoTo[x[2] - x[2]]..1 * TwoTo[x[2] - x[2]]
    BY <2>1 DEF WithinUlps
  <2>3. TwoTo[x[2] - x[2]] = 1 /\ TwoTo[y[2] - x[2]] = 2
    BY <1>2, <2>1
  <2>4. x[1] * 1 - y[1] * 2 \in -1 * 1..1 * 1
    BY <1>1, <2>1
  <2>5. QED
    BY <2>2, <2>3, <2>4
<1>6. QED
  BY <1>3, <1>4, <1>5 DEF NextTo, Neighbours

\* A number is next to itself.
LEMMA Itself ==
  ASSUME NEW x \in Numbers
  PROVE  NextTo(x, x)
BY HalfType DEF NextTo, Neighbours, Numbers

-----------------------------------------------------------------------------
(* Whole sats                                                              *)

\* Sats are natural numbers.
LEMMA SatsType ==
  ASSUME NEW x \in Numbers
  PROVE  Truncated(x) \in Nat /\ Rounded(x) \in Nat
<1>1. x[1] \in Nat /\ x[2] \in Int
  BY HalfType DEF Numbers
<1>2. CASE x[2] >= 0
  BY <1>1, <1>2, TwoToType DEF Truncated, Rounded
<1>3. CASE x[2] < 0
  <2>1. TwoTo[-x[2]] \in Nat \ {0} /\ TwoTo[1 - x[2]] \in Nat \ {0}
    BY <1>1, <1>3, TwoToType
  <2>2. ASSUME NEW a \in Nat, NEW b \in Nat \ {0} PROVE a \div b \in Nat
    OBVIOUS
  <2>3. x[1] \div TwoTo[-x[2]] \in Nat
    BY <1>1, <2>1, <2>2
  <2>4. 2 * x[1] + TwoTo[-x[2]] \in Nat
    BY <1>1, <2>1
  <2>5. (2 * x[1] + TwoTo[-x[2]]) \div TwoTo[1 - x[2]] \in Nat
    BY <2>1, <2>2, <2>4
  <2>6. ~(x[2] >= 0)
    BY <1>1, <1>3
  <2>7. QED
    BY <2>3, <2>5, <2>6 DEF Truncated, Rounded
<1>4. QED
  BY <1>1, <1>2, <1>3

\* The offer rounds what the allocation truncates.
LEMMA RoundedOrTruncated ==
  ASSUME NEW x \in Numbers
  PROVE  Rounded(x) - Truncated(x) \in 0..1
<1>1. x[1] \in Nat /\ x[2] \in Int
  BY HalfType DEF Numbers
<1>2. CASE x[2] >= 0
  BY <1>1, <1>2, TwoToType DEF Truncated, Rounded
<1>3. CASE x[2] < 0
  <2> DEFINE d == TwoTo[-x[2]]
             a == x[1]
             r == (2 * a + d) \div (2 * d)
             f == a \div d
  <2>1. d \in Nat \ {0} /\ TwoTo[1 - x[2]] = 2 * d
    <3>1. -x[2] \in Nat /\ 1 - x[2] = -x[2] + 1
      BY <1>1, <1>3
    <3>2. QED
      BY <3>1, TwoToIs, TwoToType
  <2>2. Rounded(x) = r /\ Truncated(x) = f
    BY <1>1, <1>3, <2>1 DEF Rounded, Truncated
  <2> a \in Int /\ 2 * a + d \in Int /\ 2 * d \in Nat \ {0}
    BY <1>1, <2>1
  <2> HIDE DEF d, a
  <2>3. f \in Int /\ f * d <= a /\ a < f * d + d
    BY <2>1, Division
  <2>4. r \in Int /\ r * (2 * d) <= 2 * a + d /\ 2 * a + d < r * (2 * d) + 2 * d
    BY Division
  <2> HIDE DEF r, f
  <2>5. r * (2 * d) = 2 * (r * d) /\ r * d \in Int /\ f * d \in Int
    BY <2>1, <2>3, <2>4
  <2>6. ASSUME r >= f + 2 PROVE FALSE
    <3>1. r * d >= (f + 2) * d /\ (f + 2) * d = f * d + 2 * d
      BY <2>1, <2>3, <2>4, <2>6
    <3>2. QED
      BY <1>1, <2>1, <2>3, <2>4, <2>5, <3>1 DEF a
  <2>7. ASSUME f >= r + 1 PROVE FALSE
    <3>1. f * d >= (r + 1) * d /\ (r + 1) * d = r * d + d
      BY <2>1, <2>3, <2>4, <2>7
    <3>2. QED
      BY <1>1, <2>1, <2>3, <2>4, <2>5, <3>1 DEF a
  <2>8. QED
    BY <2>2, <2>3, <2>4, <2>6, <2>7
<1>4. QED
  BY <1>1, <1>2, <1>3

\* An amount of sats below MaxSats has two bits after the point at least.
LEMMA FewSats ==
  ASSUME NEW x \in Numbers, Truncated(x) < MaxSats
  PROVE  x[2] <= -2
<1>1. x[1] \in Nat /\ x[2] \in Int /\ x[1] >= Half /\ Half \in Nat /\ MaxSats \in Nat
      /\ 2 * MaxSats <= Half
      /\ MaxSats > 0
  BY HalfType, OrdersAssumption DEF Numbers
<1>2. CASE x[2] >= 0
  <2>1. Truncated(x) = x[1] * TwoTo[x[2]] /\ TwoTo[x[2]] \in Nat \ {0}
    BY <1>1, <1>2, TwoToType DEF Truncated
  <2>2. x[1] * TwoTo[x[2]] >= x[1]
    BY <1>1, <2>1
  <2>3. QED
    BY <1>1, <2>1, <2>2
<1>3. CASE x[2] = -1
  <2>1. Truncated(x) = x[1] \div 2
    BY <1>3, TwoToIs DEF Truncated
  <2>2. QED
    BY <1>1, <2>1
<1>4. QED
  BY <1>1, <1>2, <1>3

\* Sats are rounded to what a neighbour of the amount is truncated to, or to one more.
LEMMA NextToRounded ==
  ASSUME NEW x \in Numbers, Truncated(x) < MaxSats, NEW y \in Numbers, NextTo(x, y)
  PROVE  Rounded(y) - Truncated(x) \in 0..1
<1> DEFINE d == TwoTo[-x[2] - 2]
           a == x[1]
           b == y[1]
           f == a \div (4 * d)
<1>1. a \in Nat /\ b \in Nat /\ x[2] \in Int /\ y[2] \in Int /\ -x[2] - 2 \in Nat
  BY HalfType, FewSats DEF Numbers
<1>2. d \in Nat \ {0} /\ TwoTo[-x[2] - 1] = 2 * d /\ TwoTo[-x[2]] = 4 * d
      /\ TwoTo[1 - x[2]] = 8 * d
      /\ TwoTo[2 - x[2]] = 16 * d
  <2>1. -x[2] - 1 = -x[2] - 2 + 1 /\ -x[2] = -x[2] - 1 + 1 /\ 1 - x[2] = -x[2] + 1
        /\ 2 - x[2] = 1 - x[2] + 1 /\ -x[2] - 1 \in Nat /\ -x[2] \in Nat /\ 1 - x[2] \in Nat
    BY <1>1
  <2>2. d \in Nat \ {0}
    BY <1>1, TwoToType
  <2>3. TwoTo[-x[2] - 1] = 2 * d
    BY <1>1, <2>1, TwoToIs
  <2>4. TwoTo[-x[2]] = 2 * TwoTo[-x[2] - 1]
    BY <1>1, <2>1, TwoToIs
  <2>5. TwoTo[1 - x[2]] = 2 * TwoTo[-x[2]]
    BY <1>1, <2>1, TwoToIs
  <2>6. TwoTo[2 - x[2]] = 2 * TwoTo[1 - x[2]]
    BY <1>1, <2>1, TwoToIs
  <2> HIDE DEF d
  <2>7. QED
    BY <2>2, <2>3, <2>4, <2>5, <2>6
<1>3. Truncated(x) = f
  <2>1. ~(x[2] >= 0)
    BY <1>1
  <2>2. QED
    BY <1>2, <2>1 DEF Truncated
<1> HIDE DEF d, a, b
<1>4. f \in Int /\ f * (4 * d) <= a /\ a < f * (4 * d) + 4 * d
  <2>1. a \in Int /\ 4 * d \in Nat \ {0}
    BY <1>1, <1>2 DEF a
  <2>2. QED
    BY <2>1, Division
<1> HIDE DEF f
<1>5. f * (4 * d) = 4 * (f * d) /\ f * d \in Int
  BY <1>2, <1>4
<1>6. ASSUME NEW r \in Int, r * d \in Int,
             4 * (r * d) <= a + 2 * d + 1, a + 2 * d - 1 < 4 * (r * d) + 4 * d
      PROVE  r - f \in 0..1
  <2>1. ASSUME r >= f + 2 PROVE FALSE
    <3>1. r * d >= (f + 2) * d /\ (f + 2) * d = f * d + 2 * d
      BY <1>2, <1>4, <2>1
    <3>2. QED
      BY <1>1, <1>2, <1>4, <1>5, <1>6, <3>1
  <2>2. ASSUME f >= r + 1 PROVE FALSE
    <3>1. f * d >= (r + 1) * d /\ (r + 1) * d = r * d + d
      BY <1>2, <1>4, <1>6, <2>2
    <3>2. QED
      BY <1>1, <1>2, <1>4, <1>5, <1>6, <3>1
  <2>3. QED
    BY <1>4, <1>6, <2>1, <2>2
<1>7. CASE y[2] - x[2] = 0
  <2> DEFINE r == (2 * b + 4 * d) \div (8 * d)
  <2>1. y[2] = x[2] /\ ~(y[2] >= 0) /\ a - b \in -1..1
    <3>1. y[2] = x[2] /\ ~(y[2] >= 0)
      BY <1>1, <1>7
    <3>2. a - b \in -1..1
      BY <1>7 DEF NextTo, Neighbours, a, b
    <3>3. QED
      BY <3>1, <3>2
  <2>2. Rounded(y) = r
    BY <1>2, <2>1 DEF Rounded, b
  <2>3. r \in Int /\ r * (8 * d) <= 2 * b + 4 * d /\ 2 * b + 4 * d < r * (8 * d) + 8 * d
    <3>1. 2 * b + 4 * d \in Int /\ 8 * d \in Nat \ {0}
      BY <1>1, <1>2 DEF b
    <3>2. QED
      BY <3>1, Division
  <2> HIDE DEF r
  <2>4. r * (8 * d) = 8 * (r * d) /\ r * d \in Int
    BY <1>2, <2>3
  <2>5. 4 * (r * d) <= a + 2 * d + 1 /\ a + 2 * d - 1 < 4 * (r * d) + 4 * d
    BY <1>1, <1>2, <2>1, <2>3, <2>4
  <2>6. QED
    BY <1>3, <1>6, <2>2, <2>3, <2>4, <2>5
<1>8. CASE y[2] - x[2] = 1
  <2> DEFINE r == (2 * b + 2 * d) \div (4 * d)
  <2>1. -y[2] = -x[2] - 1 /\ 1 - y[2] = -x[2] /\ ~(y[2] >= 0) /\ a - 2 * b \in -1..1
    BY <1>1, <1>8 DEF NextTo, Neighbours, a, b
  <2>2. Rounded(y) = r
    BY <1>2, <2>1 DEF Rounded, b
  <2>3. r \in Int /\ r * (4 * d) <= 2 * b + 2 * d /\ 2 * b + 2 * d < r * (4 * d) + 4 * d
    <3>1. 2 * b + 2 * d \in Int /\ 4 * d \in Nat \ {0}
      BY <1>1, <1>2 DEF b
    <3>2. QED
      BY <3>1, Division
  <2> HIDE DEF r
  <2>4. r * (4 * d) = 4 * (r * d) /\ r * d \in Int
    BY <1>2, <2>3
  <2>5. 4 * (r * d) <= a + 2 * d + 1 /\ a + 2 * d - 1 < 4 * (r * d) + 4 * d
    BY <1>1, <1>2, <2>1, <2>3, <2>4
  <2>6. QED
    BY <1>3, <1>6, <2>2, <2>3, <2>4, <2>5
<1>9. CASE y[2] - x[2] = -1
  <2> DEFINE r == (2 * b + 8 * d) \div (16 * d)
  <2>1. -y[2] = 1 - x[2] /\ 1 - y[2] = 2 - x[2] /\ ~(y[2] >= 0) /\ 2 * a - b \in -2..2
    BY <1>1, <1>9 DEF NextTo, Neighbours, a, b
  <2>2. Rounded(y) = r
    BY <1>2, <2>1 DEF Rounded, b
  <2>3. r \in Int /\ r * (16 * d) <= 2 * b + 8 * d /\ 2 * b + 8 * d < r * (16 * d) + 16 * d
    <3>1. 2 * b + 8 * d \in Int /\ 16 * d \in Nat \ {0}
      BY <1>1, <1>2 DEF b
    <3>2. QED
      BY <3>1, Division
  <2> HIDE DEF r
  <2>4. r * (16 * d) = 16 * (r * d) /\ r * d \in Int
    BY <1>2, <2>3
  <2>5. 4 * (r * d) <= a + 2 * d + 1 /\ a + 2 * d - 1 < 4 * (r * d) + 4 * d
    BY <1>1, <1>2, <2>1, <2>3, <2>4
  <2>6. QED
    BY <1>3, <1>6, <2>2, <2>3, <2>4, <2>5
<1>10. QED
  BY <1>7, <1>8, <1>9 DEF NextTo, Neighbours

-----------------------------------------------------------------------------
(* Reading an order                                                        *)

\* The hash sets of kinds are finite, and a loop over one visits it all.
LEMMA VisitsKinds ==
  ASSUME NEW S \in SUBSET Kinds, NEW kinds \in SetToSeqs(S)
  PROVE  \E n \in Nat : DOMAIN kinds = 1..n /\ Seen(kinds, n) = S
<1>1. IsFiniteSet(Kinds)
  <2>1. IsFiniteSet({"FatCrab"}) /\ IsFiniteSet({"Onchain"})
        /\ IsFiniteSet({"OtherNetwork"})
        /\ IsFiniteSet({"Other"})
    BY FS_Singleton
  <2>2. Kinds = (({"FatCrab"} \cup {"Onchain"}) \cup {"OtherNetwork"}) \cup {"Other"}
    BY DEF Kinds
  <2>3. QED
    BY <2>1, <2>2, FS_Union
<1>2. IsFiniteSet(S)
  BY <1>1, FS_Subset
<1>3. /\ Cardinality(S) \in Nat
      /\ DOMAIN kinds = 1..Cardinality(S)
      /\ \A i \in 1..Cardinality(S) : kinds[i] \in S
      /\ \A x \in S : \E i \in 1..Cardinality(S) : kinds[i] = x
  BY <1>2, Visits
<1>4. Seen(kinds, Cardinality(S)) = S
  BY <1>3 DEF Seen
<1>5. QED
  BY <1>3, <1>4

AsBuy(n) == [type |-> "Buy", price |-> OneOver(n.rate), amount |-> Times(n.amount, n.rate)]
AsSell(n) == [type |-> "Sell", price |-> n.rate, amount |-> n.amount]

\* An order of a known type has been asked for its limit rate.
LEMMA RateIsThere ==
  ASSUME NEW n, n.maker \in SUBSET Kinds, NEW makerKinds \in SetToSeqs(n.maker),
         MakerType(makerKinds) \in {"Buy", "Sell"}, ~RateMissed(n, makerKinds)
  PROVE  n.rate # Nothing
<1>1. PICK k \in Nat : DOMAIN makerKinds = 1..k /\ Seen(makerKinds, k) = n.maker
  BY VisitsKinds
<1>2. /\ n.maker \subseteq {"Onchain", "FatCrab", "Other"}
      /\ "Onchain" \in n.maker \/ "FatCrab" \in n.maker
  BY <1>1, MakerTypeIs
<1>3. PICK i \in 1..k : makerKinds[i] \in {"FatCrab", "Onchain"}
  BY <1>1, <1>2 DEF Seen
<1>4. \A j \in 1..i - 1 : makerKinds[j] # "OtherNetwork"
  <2>1. \A j \in 1..i - 1 : j \in 1..k
    OBVIOUS
  <2>2. \A j \in 1..k : makerKinds[j] \in n.maker
    BY <1>1 DEF Seen
  <2>3. QED
    BY <1>2, <2>1, <2>2
<1>5. QED
  BY <1>1, <1>3, <1>4 DEF RateMissed

\* The three ways a reading ends.
LEMMA ReadingIs ==
  ASSUME NEW n, n.maker \in SUBSET Kinds, n.taker \in SUBSET Kinds,
         NEW makerKinds \in SetToSeqs(n.maker), NEW takerKinds \in SetToSeqs(n.taker),
         NEW t, t = FromN3xbOrder(n, makerKinds, takerKinds)
  PROVE  \/ t \in Unread
         \/ t = AsBuy(n) /\ MakerType(makerKinds) = "Buy"
            /\ TakerType("Buy", takerKinds) = "Buy" /\ n.rate # Nothing
         \/ t = AsSell(n) /\ MakerType(makerKinds) = "Sell"
            /\ TakerType("Sell", takerKinds) = "Sell" /\ n.rate # Nothing
<1> DEFINE maker == MakerType(makerKinds)
           type == IF RateMissed(n, makerKinds) THEN "panic"
                   ELSE IF maker = "Err" THEN "Err" ELSE TakerType(maker, takerKinds)
<1>1. maker \in {"None", "Buy", "Sell", "Err"}
  <2>1. PICK k \in Nat : DOMAIN makerKinds = 1..k /\ Seen(makerKinds, k) \subseteq Kinds
    BY VisitsKinds
  <2>2. QED
    BY <2>1, MakerTypeIs
<1>2. ASSUME maker # "Err" PROVE TakerType(maker, takerKinds) \in {maker} \cup Failures
  <2>1. PICK k \in Nat : DOMAIN takerKinds = 1..k /\ Seen(takerKinds, k) \subseteq Kinds
    BY VisitsKinds
  <2>2. maker \in {"None", "Buy", "Sell"}
    BY <1>1, <1>2
  <2> HIDE DEF maker
  <2>3. QED
    BY <2>1, <2>2, TakerTypeIs
<1>3. t = CASE type = "Buy" -> AsBuy(n)
            [] type = "Sell" -> AsSell(n)
            [] OTHER -> [type |-> IF type = "panic" THEN "panic" ELSE "Err"]
  BY DEF FromN3xbOrder, AsBuy, AsSell
<1>4. CASE type = "Buy"
  <2>1. maker = "Buy" /\ TakerType("Buy", takerKinds) = "Buy"
        /\ ~RateMissed(n, makerKinds)
    <3> HIDE DEF maker
    <3>1. QED
      BY <1>1, <1>2, <1>4 DEF Failures
  <2>2. t = AsBuy(n)
    BY <1>3, <1>4
  <2>3. n.rate # Nothing
    BY <2>1, RateIsThere
  <2>4. QED
    BY <2>1, <2>2, <2>3
<1>5. CASE type = "Sell"
  <2>1. maker = "Sell" /\ TakerType("Sell", takerKinds) = "Sell"
        /\ ~RateMissed(n, makerKinds)
    <3> HIDE DEF maker
    <3>1. QED
      BY <1>1, <1>2, <1>5 DEF Failures
  <2>2. t = AsSell(n)
    BY <1>3, <1>5
  <2>3. n.rate # Nothing
    BY <2>1, RateIsThere
  <2>4. QED
    BY <2>1, <2>2, <2>3
<1>6. CASE type # "Buy" /\ type # "Sell"
  <2>1. t = [type |-> IF type = "panic" THEN "panic" ELSE "Err"]
    BY <1>3, <1>6
  <2> HIDE DEF type
  <2>2. QED
    BY <2>1 DEF Unread, Failures
<1>7. QED
  BY <1>4, <1>5, <1>6

\* Whatever is read is an order or a failure.
LEMMA ReadingType ==
  ASSUME NEW n \in N3xbOrders,
         NEW makerKinds \in SetToSeqs(n.maker), NEW takerKinds \in SetToSeqs(n.taker),
         NEW t, t = FromN3xbOrder(n, makerKinds, takerKinds)
  PROVE  t \in FatCrabOrders \cup Unread
<1>1. n.rate \in Numbers \cup {Nothing} /\ n.amount \in Numbers /\ n.maker \in SUBSET Kinds
      /\ n.taker \in SUBSET Kinds
  BY DEF N3xbOrders
<1>2. ASSUME n.rate \in Numbers PROVE AsBuy(n) \in FatCrabOrders /\ AsSell(n) \in FatCrabOrders
  <2>1. OneOver(n.rate) \in Numbers /\ Times(n.amount, n.rate) \in Numbers
    BY <1>1, <1>2, TimesType, OneOverType
  <2>2. QED
    BY <1>1, <1>2, <2>1 DEF AsBuy, AsSell, FatCrabOrders
<1>3. t \in Unread \/ ((t = AsBuy(n) \/ t = AsSell(n)) /\ n.rate # Nothing)
  BY <1>1, ReadingIs
<1>4. QED
  BY <1>1, <1>2, <1>3

\* An order is read only when its obligations agree.
LEMMA ReadingAgrees ==
  ASSUME NEW n, n.maker \in SUBSET Kinds, n.taker \in SUBSET Kinds,
         NEW makerKinds \in SetToSeqs(n.maker), NEW takerKinds \in SetToSeqs(n.taker),
         NEW t, t = FromN3xbOrder(n, makerKinds, takerKinds), t.type \notin Failures
  PROVE  /\ n.rate # Nothing
         /\ n.maker \cap {"FatCrab", "Onchain", "OtherNetwork"} =
                IF t.type = "Buy" THEN {"Onchain"} ELSE {"FatCrab"}
         /\ t.type = "Buy" => n.taker \cap {"Onchain", "OtherNetwork"} = {}
         /\ t.type = "Sell" => "FatCrab" \notin n.taker
<1>1. PICK k \in Nat : DOMAIN makerKinds = 1..k /\ Seen(makerKinds, k) = n.maker
  BY VisitsKinds
<1>2. PICK l \in Nat : DOMAIN takerKinds = 1..l /\ Seen(takerKinds, l) = n.taker
  BY VisitsKinds
<1>3. t \notin Unread
  BY DEF Unread
<1>4. CASE t = AsBuy(n) /\ MakerType(makerKinds) = "Buy"
           /\ TakerType("Buy", takerKinds) = "Buy" /\ n.rate # Nothing
  <2>1. t.type = "Buy"
    BY <1>4 DEF AsBuy
  <2>2. n.maker \subseteq {"Onchain", "Other"} /\ "Onchain" \in n.maker
    BY <1>1, <1>4, MakerTypeIs
  <2>3. n.taker \subseteq {"FatCrab", "Other"}
    BY <1>2, <1>4, TakerTypeIs
  <2>4. QED
    BY <1>4, <2>1, <2>2, <2>3
<1>5. CASE t = AsSell(n) /\ MakerType(makerKinds) = "Sell"
           /\ TakerType("Sell", takerKinds) = "Sell" /\ n.rate # Nothing
  <2>1. t.type = "Sell"
    BY <1>5 DEF AsSell
  <2>2. n.maker \subseteq {"FatCrab", "Other"} /\ "FatCrab" \in n.maker
    BY <1>1, <1>5, MakerTypeIs
  <2>3. n.taker \subseteq {"Onchain", "OtherNetwork", "Other"}
    BY <1>2, <1>5, TakerTypeIs
  <2>4. QED
    BY <1>5, <2>1, <2>2, <2>3
<1>6. QED
  BY <1>3, <1>4, <1>5, ReadingIs

\* A loop over one kind is one step.
LEMMA OneKind ==
  ASSUME NEW x \in Kinds, NEW kinds \in SetToSeqs({x})
  PROVE  /\ MakerType(kinds) = MakerStep("None", x)
         /\ \A type : TakerType(type, kinds) = TakerStep(type, x)
<1>1. Cardinality({x}) = 1 /\ IsFiniteSet({x})
  BY FS_Singleton
<1>2. DOMAIN kinds = 1..1 /\ \A i \in 1..1 : kinds[i] \in {x}
  BY <1>1, Visits
<1>3. kinds[1] = x
  BY <1>2
<1>4. MakerType(kinds) = MakerStep("None", x)
  <2>1. PICK v : IsMakerRun(v, kinds, 1)
    BY <1>2, MakerRuns
  <2>2. v[0] = "None" /\ MakerType(kinds) = v[1] /\ v[0 + 1] = MakerStep(v[0], kinds[0 + 1])
    BY <2>1 DEF IsMakerRun
  <2>3. QED
    BY <1>3, <2>2
<1>5. ASSUME NEW type PROVE TakerType(type, kinds) = TakerStep(type, x)
  <2>1. PICK v : IsTakerRun(v, type, kinds, 1)
    BY <1>2, TakerRuns
  <2>2. v[0] = type /\ TakerType(type, kinds) = v[1]
        /\ v[0 + 1] = TakerStep(v[0], kinds[0 + 1])
    BY <2>1 DEF IsTakerRun
  <2>3. QED
    BY <1>3, <2>2
<1>6. QED
  BY <1>4, <1>5

\* A maker's own order.
LEMMA OwnOrderIs ==
  ASSUME NEW o \in OwnOrders
  PROVE  /\ o \in FatCrabOrders /\ o.amount \in Numbers /\ o.price \in Numbers
         /\ o.type \in {"Buy", "Sell"}
         /\ Allocated(o) \in 1..MaxSats - 1
         /\ N3xbOrder(o) \in N3xbOrders /\ N3xbOrder(o).rate # Nothing
<1>1. Floats \subseteq Numbers
  BY OrdersAssumption DEF Floats, Numbers
<1>2. o \in [type : {"Buy", "Sell"}, amount : Floats, price : Floats]
      /\ Truncated(Times(o.amount, o.price)) \in 1..MaxSats - 1
  BY DEF OwnOrders
<1>3. o \in FatCrabOrders /\ o.amount \in Numbers /\ o.price \in Numbers
      /\ o.type \in {"Buy", "Sell"}
  BY <1>1, <1>2 DEF FatCrabOrders
<1>4. Times(o.amount, o.price) \in Numbers /\ OneOver(o.price) \in Numbers
  BY <1>3, TimesType, OneOverType
<1>5. N3xbOrder(o) \in N3xbOrders /\ N3xbOrder(o).rate \in Numbers
  BY <1>3, <1>4 DEF N3xbOrder, N3xbOrders, Kinds
<1>6. QED
  BY <1>2, <1>3, <1>5, OrdersAssumption DEF Allocated

\* An own order is read as what it is.
LEMMA OwnReading ==
  ASSUME NEW o \in OwnOrders, NEW n, n = N3xbOrder(o),
         NEW makerKinds \in SetToSeqs(n.maker), NEW takerKinds \in SetToSeqs(n.taker),
         NEW t, t = FromN3xbOrder(n, makerKinds, takerKinds)
  PROVE  /\ t.type = o.type /\ t \in FatCrabOrders
         /\ o.type = "Sell" => t = o
         /\ o.type = "Buy" =>
                /\ t.amount = Times(Times(o.amount, o.price), OneOver(o.price))
                /\ t.price = OneOver(OneOver(o.price))
<1>1. /\ o \in FatCrabOrders /\ o.amount \in Numbers /\ o.price \in Numbers
      /\ o.type \in {"Buy", "Sell"} /\ n \in N3xbOrders /\ n.rate # Nothing
  BY OwnOrderIs
<1>2. t \in FatCrabOrders \cup Unread
  BY <1>1, ReadingType
<1>3. CASE o.type = "Buy"
  <2>1. n = [maker |-> {"Onchain"}, taker |-> {"FatCrab"},
             amount |-> Times(o.amount, o.price), rate |-> OneOver(o.price)]
    BY <1>3 DEF N3xbOrder
  <2>2. makerKinds \in SetToSeqs({"Onchain"}) /\ takerKinds \in SetToSeqs({"FatCrab"})
    BY <2>1
  <2>3. MakerType(makerKinds) = MakerStep("None", "Onchain")
        /\ TakerType("Buy", takerKinds) = TakerStep("Buy", "FatCrab")
    BY <2>2, OneKind DEF Kinds
  <2>4. MakerType(makerKinds) = "Buy" /\ TakerType("Buy", takerKinds) = "Buy"
    BY <2>3 DEF MakerStep, TakerStep, Failures
  <2>5. t = [type |-> "Buy", price |-> OneOver(n.rate), amount |-> Times(n.amount, n.rate)]
    BY <1>1, <2>4 DEF FromN3xbOrder, RateMissed
  <2>6. n.rate = OneOver(o.price) /\ n.amount = Times(o.amount, o.price)
    BY <2>1
  <2>7. t.type = "Buy" /\ t.price = OneOver(n.rate) /\ t.amount = Times(n.amount, n.rate)
    BY <2>5
  <2>8. t \notin Unread
    BY <2>7 DEF Unread, Failures
  <2>9. QED
    BY <1>2, <1>3, <2>6, <2>7, <2>8
<1>4. CASE o.type = "Sell"
  <2>1. n = [maker |-> {"FatCrab"}, taker |-> {"Onchain"},
             amount |-> o.amount, rate |-> o.price]
    BY <1>4 DEF N3xbOrder
  <2>2. makerKinds \in SetToSeqs({"FatCrab"}) /\ takerKinds \in SetToSeqs({"Onchain"})
    BY <2>1
  <2>3. MakerType(makerKinds) = MakerStep("None", "FatCrab")
        /\ TakerType("Sell", takerKinds) = TakerStep("Sell", "Onchain")
    BY <2>2, OneKind DEF Kinds
  <2>4. MakerType(makerKinds) = "Sell" /\ TakerType("Sell", takerKinds) = "Sell"
    BY <2>3 DEF MakerStep, TakerStep, Failures
  <2>5. t = [type |-> "Sell", price |-> n.rate, amount |-> n.amount]
    BY <1>1, <2>4 DEF FromN3xbOrder, RateMissed
  <2>6. n.rate = o.price /\ n.amount = o.amount
    BY <2>1
  <2>7. t.type = "Sell" /\ t.price = o.price /\ t.amount = o.amount
    BY <2>5, <2>6
  <2>8. t \notin Unread
    BY <2>7 DEF Unread, Failures
  <2>9. t = o
    BY <1>1, <1>2, <1>4, <2>7, <2>8 DEF FatCrabOrders
  <2>10. QED
    BY <1>1, <1>4, <2>9
<1>5. QED
  BY <1>1, <1>3, <1>4

-----------------------------------------------------------------------------
(* An order on its way                                                     *)

\* What is on the relays is the maker's order, or another program's.
Listing ==
    /\ stage = "new" => order # Nothing
    /\ order = Nothing => listed \in ForeignOrders
    /\ order # Nothing /\ stage # "new" => listed = N3xbOrder(order)

\* What the taker has comes from what is on the relays, its kinds in some order.
Reading ==
    taken # Nothing =>
        \E makerKinds \in SetToSeqs(listed.maker), takerKinds \in SetToSeqs(listed.taker) :
            taken = FromN3xbOrder(listed, makerKinds, takerKinds)

\* The offer is for what the taker has.
Offering == offer # Nothing => taken.type \notin Failures /\ offer = N3xbOffer(taken)

\* Each side has allocated for the order it has.
Funding ==
    /\ order # Nothing /\ stage # "new" /\ order.type = "Buy" => funds = Allocated(order)
    /\ offer # Nothing /\ taken.type = "Sell" => funds = Allocated(taken)

\* No offer for an own order is refused.
Accepting == order # Nothing => stage # "refused"

OrdersInv == TypeOK /\ Listing /\ Reading /\ Offering /\ Funding /\ Accepting

\* A taken order that is not a failure is an order.
LEMMA TakenIs ==
  ASSUME TypeOK, taken # Nothing, taken.type \notin Failures
  PROVE  taken \in FatCrabOrders
BY DEF TypeOK, Unread

\* What is on the relays is known by the time it is read.
LEMMA ListedIs ==
  ASSUME TypeOK, stage # "new"
  PROVE  listed \in N3xbOrders /\ listed.maker \in SUBSET Kinds
         /\ listed.taker \in SUBSET Kinds
BY DEF TypeOK, N3xbOrders

\* An own order that was read is the order of the maker.
LEMMA OwnTaken ==
  ASSUME TypeOK, Listing, Reading, order # Nothing, taken # Nothing
  PROVE  /\ order \in OwnOrders /\ taken.type = order.type /\ taken \in FatCrabOrders
         /\ order.type = "Sell" => taken = order
         /\ order.type = "Buy" =>
                /\ taken.amount =
                       Times(Times(order.amount, order.price), OneOver(order.price))
                /\ taken.price = OneOver(OneOver(order.price))
<1>1. order \in OwnOrders /\ stage # "new" /\ listed = N3xbOrder(order)
  BY DEF TypeOK, Listing
<1>2. PICK makerKinds \in SetToSeqs(listed.maker), takerKinds \in SetToSeqs(listed.taker) :
          taken = FromN3xbOrder(listed, makerKinds, takerKinds)
  BY DEF Reading
<1>3. QED
  BY <1>1, <1>2, OwnReading

\* A number times a power of two is exact; one sat is one sat.
LEMMA OneSat == One \in Numbers /\ Times(One, One) = One /\ Truncated(One) = 1
<1>1. One = <<Half, 1 - Precision>> /\ Half \in Significands /\ Half \in Nat \ {0}
      /\ Precision \in Nat /\ Precision >= 2
  BY HalfType, OrdersAssumption DEF One, Half
<1>2. One \in Numbers /\ One[1] = Half /\ One[2] = 1 - Precision
  BY <1>1 DEF Numbers
<1>3. PICK s, r : /\ RoundsTo(One[1], One[1], s, r)
                  /\ Times(One, One) = <<r, One[2] + One[2] + Precision - 2 + s>>
  BY <1>2, TimesRounds
<1>4. s = 1 /\ r = Half
  BY <1>1, <1>2, <1>3, TimesPower
<1>5. One[2] + One[2] + Precision - 2 + s = 1 - Precision
  BY <1>1, <1>2, <1>4
<1>6. Times(One, One) = One
  BY <1>1, <1>3, <1>4, <1>5
<1>7. Truncated(One) = Half \div Half
  <2>1. -(1 - Precision) = Precision - 1 /\ ~(1 - Precision >= 0)
    BY <1>1
  <2>2. QED
    BY <1>2, <2>1 DEF Truncated, Half
<1>8. Half \div Half = 1
  BY <1>1, QuotientIs
<1>9. QED
  BY <1>2, <1>6, <1>7, <1>8

\* What a taker of a sell order allocates.
LEMMA TakerFunds ==
  ASSUME TypeOK, Listing, Reading, taken # Nothing, taken.type = "Sell"
  PROVE  Allocated(taken) \in 0..MaxSats
<1>1. CASE order # Nothing
  <2>1. order \in OwnOrders /\ taken = order
    BY <1>1, OwnTaken
  <2>2. QED
    BY <2>1, OwnOrderIs, OrdersAssumption
<1>2. CASE order = Nothing
  <2>1. stage # "new" /\ listed \in ForeignOrders
    BY <1>2 DEF Listing
  <2>2. PICK makerKinds \in SetToSeqs(listed.maker),
             takerKinds \in SetToSeqs(listed.taker) :
            taken = FromN3xbOrder(listed, makerKinds, takerKinds)
    BY DEF Reading
  <2>3. listed.maker \in SUBSET Kinds /\ listed.taker \in SUBSET Kinds
    BY <2>1, ListedIs
  <2>4. \/ taken \in Unread \/ taken = AsBuy(listed)
        \/ taken = AsSell(listed) /\ listed.rate # Nothing
    BY <2>2, <2>3, ReadingIs
  <2>5. taken = AsSell(listed) /\ listed.rate # Nothing
    BY <2>4 DEF Unread, Failures, AsBuy
  <2>6. taken.amount = One /\ taken.price = One
    BY <2>1, <2>5 DEF AsSell, ForeignOrders
  <2>7. QED
    BY <2>6, OneSat, OrdersAssumption DEF Allocated
<1>3. QED
  BY <1>1, <1>2

\* An offer is made of the two obligations of its order.
LEMMA OfferType ==
  ASSUME NEW o \in FatCrabOrders
  PROVE  N3xbOffer(o) \in N3xbOffers
<1>1. Times(o.amount, o.price) \in Numbers
  BY TimesType DEF FatCrabOrders
<1>2. Rounded(Times(o.amount, o.price)) \in Nat
  BY <1>1, SatsType
<1>3. QED
  BY <1>2 DEF N3xbOffer, N3xbOffers, Kinds

\* OrdersInv holds at the start.
LEMMA OrdersInit == Init => OrdersInv
<1> SUFFICES ASSUME Init PROVE OrdersInv
  OBVIOUS
<1>1. \A o \in OwnOrders : o \in FatCrabOrders
  BY OwnOrderIs
<1>2. ForeignOrders \subseteq N3xbOrders
  BY OneSat DEF ForeignOrders, N3xbOrders
<1>3. Nothing \notin OwnOrders /\ Nothing \notin N3xbOrders
  BY <1>1, OrdersAssumption
<1>4. CASE stage = "new" /\ order \in OwnOrders /\ listed = Nothing
  BY <1>3, <1>4 DEF Init, OrdersInv, TypeOK, Listing, Reading, Offering, Funding, Accepting
<1>5. CASE stage = "listed" /\ order = Nothing /\ listed \in ForeignOrders
  BY <1>2, <1>3, <1>5
     DEF Init, OrdersInv, TypeOK, Listing, Reading, Offering, Funding, Accepting
<1>6. QED
  BY <1>4, <1>5 DEF Init

\* Every step keeps OrdersInv.
LEMMA OrdersNext == OrdersInv /\ [Next]_vars => OrdersInv'
<1> SUFFICES ASSUME OrdersInv, [Next]_vars PROVE OrdersInv'
  OBVIOUS
<1> USE DEF OrdersInv
<1>1. CASE NewMaker
  <2>1. order \in OwnOrders /\ order # Nothing /\ order.type \in {"Buy", "Sell"}
        /\ taken = Nothing /\ offer = Nothing
    BY <1>1, OwnOrderIs DEF NewMaker, TypeOK, Listing
  <2>2. N3xbOrder(order) \in N3xbOrders /\ Allocated(order) \in 0..MaxSats
    BY <2>1, OwnOrderIs, OrdersAssumption
  <2>3. stage' = "listed" /\ listed' = N3xbOrder(order) /\ UNCHANGED <<order, taken, offer>>
        /\ funds' = IF order.type = "Buy" THEN Allocated(order) ELSE funds
    BY <1>1 DEF NewMaker
  <2>4. TypeOK'
    <3>1. listed' # Nothing
      BY <2>2, <2>3, OrdersAssumption
    <3>2. QED
      BY <2>1, <2>2, <2>3, <3>1 DEF TypeOK
  <2>5. Listing' /\ Reading' /\ Offering' /\ Accepting'
    BY <2>1, <2>3 DEF Listing, Reading, Offering, Accepting
  <2>6. Funding'
    BY <2>1, <2>3 DEF Funding, Allocated
  <2>7. QED
    BY <2>4, <2>5, <2>6
<1>2. CASE QueryOrders
  <2>1. PICK makerKinds \in SetToSeqs(listed.maker),
             takerKinds \in SetToSeqs(listed.taker) :
            taken' = FromN3xbOrder(listed, makerKinds, takerKinds)
    BY <1>2 DEF QueryOrders
  <2>2. stage = "listed" /\ stage' = "read" /\ UNCHANGED <<order, listed, offer, funds>>
        /\ offer = Nothing
    BY <1>2 DEF QueryOrders, TypeOK
  <2>3. taken' \in FatCrabOrders \cup Unread
    BY <2>1, <2>2, ListedIs, ReadingType
  <2>4. TypeOK'
    BY <2>2, <2>3, OrdersAssumption DEF TypeOK
  <2>5. Reading'
    BY <2>1, <2>2 DEF Reading
  <2>6. Listing' /\ Offering' /\ Accepting'
    BY <2>2 DEF Listing, Offering, Accepting
  <2>7. Funding'
    BY <2>2 DEF Funding, Allocated
  <2>8. QED
    BY <2>4, <2>5, <2>6, <2>7
<1>3. CASE NewTaker
  <2>1. stage = "read" /\ taken.type \notin Failures /\ stage' = "offered"
        /\ offer' = N3xbOffer(taken) /\ UNCHANGED <<order, listed, taken>>
        /\ funds' = IF taken.type = "Sell" THEN Allocated(taken) ELSE funds
    BY <1>3 DEF NewTaker
  <2>2. taken # Nothing /\ offer = Nothing
    BY <2>1 DEF TypeOK
  <2>3. taken \in FatCrabOrders
    BY <2>1, <2>2, TakenIs
  <2>4. N3xbOffer(taken) \in N3xbOffers /\ taken.type \in {"Buy", "Sell"}
    BY <2>3, OfferType DEF FatCrabOrders
  <2>5. offer' \in N3xbOffers /\ offer' # Nothing
    BY <2>1, <2>4, OrdersAssumption
  <2>6. taken.type = "Sell" => Allocated(taken) \in 0..MaxSats
    BY <2>2, TakerFunds
  <2>7. TypeOK'
    BY <2>1, <2>2, <2>5, <2>6 DEF TypeOK
  <2>8. Listing' /\ Reading' /\ Offering' /\ Accepting'
    BY <2>1 DEF Listing, Reading, Offering, Accepting
  <2>9. Funding'
    <3>1. ASSUME order # Nothing, order.type = "Buy" PROVE funds' = Allocated(order)
      <4>1. taken.type = "Buy"
        BY <2>2, <3>1, OwnTaken
      <4>2. QED
        BY <2>1, <3>1, <4>1 DEF Funding
    <3>2. ASSUME taken.type = "Sell" PROVE funds' = Allocated(taken)
      BY <2>1, <3>2
    <3>3. QED
      BY <2>1, <3>1, <3>2 DEF Funding, Allocated
  <2>10. QED
    BY <2>7, <2>8, <2>9
<1>4. CASE OfferNotif
  <2>1. stage = "offered" /\ stage' = (IF ValidOffer(offer) THEN "received" ELSE "refused")
        /\ UNCHANGED <<order, listed, taken, offer, funds>>
    BY <1>4 DEF OfferNotif
  <2>2. taken # Nothing /\ offer # Nothing
    BY <2>1 DEF TypeOK
  <2>3. ValidOffer(offer)
    <3>1. offer = N3xbOffer(taken) /\ taken.type \in {"Buy", "Sell"}
      BY <2>2, TakenIs DEF Offering, FatCrabOrders
    <3>2. QED
      BY <3>1 DEF N3xbOffer, ValidOffer
  <2>4. TypeOK'
    BY <2>1 DEF TypeOK
  <2>5. Listing' /\ Reading' /\ Offering' /\ Accepting'
    BY <2>1, <2>3 DEF Listing, Reading, Offering, Accepting
  <2>6. Funding'
    BY <2>1 DEF Funding, Allocated
  <2>7. QED
    BY <2>4, <2>5, <2>6
<1>5. CASE UNCHANGED vars
  BY <1>5 DEF vars, TypeOK, Listing, Reading, Offering, Funding, Accepting, Allocated
<1>6. QED
  BY <1>1, <1>2, <1>3, <1>4, <1>5 DEF Next

\* An own order is read as what it is.
LEMMA InvIsRead == OrdersInv => OwnOrderIsRead
<1> SUFFICES ASSUME OrdersInv, order # Nothing, taken # Nothing
             PROVE  /\ Read /\ taken.type = order.type
                    /\ order.type = "Sell" => taken = order
                    /\ WithinUlps(order.amount, taken.amount, 1)
                    /\ WithinUlps(order.price, taken.price, 1)
  BY DEF OwnOrderIsRead
<1>1. /\ order \in OwnOrders /\ taken.type = order.type /\ taken \in FatCrabOrders
      /\ order.type = "Sell" => taken = order
      /\ order.type = "Buy" =>
             /\ taken.amount = Times(Times(order.amount, order.price), OneOver(order.price))
             /\ taken.price = OneOver(OneOver(order.price))
  BY OwnTaken DEF OrdersInv
<1>2. order.amount \in Numbers /\ order.price \in Numbers /\ order.type \in {"Buy", "Sell"}
  BY <1>1, OwnOrderIs
<1>3. taken.amount \in Numbers /\ taken.price \in Numbers
  BY <1>1 DEF FatCrabOrders
<1>4. NextTo(order.amount, taken.amount) /\ NextTo(order.price, taken.price)
  <2>1. CASE order.type = "Sell"
    BY <1>1, <1>2, <2>1, Itself
  <2>2. CASE order.type = "Buy"
    BY <1>1, <1>2, <2>2, RoundTrip, OneOverTwice
  <2>3. QED
    BY <1>2, <2>1, <2>2
<1>5. WithinUlps(order.amount, taken.amount, 1) /\ WithinUlps(order.price, taken.price, 1)
  BY <1>2, <1>3, <1>4, NextToWithin
<1>6. Read
  BY <1>1, <1>2 DEF Read, Failures
<1>7. QED
  BY <1>1, <1>5, <1>6

\* The side that pays has the sats of the offer, or one less.
LEMMA InvIsFunded == OrdersInv => OfferIsFunded
<1> SUFFICES ASSUME OrdersInv, order # Nothing, offer # Nothing
             PROVE  offer.sats - funds \in 0..1
  BY DEF OfferIsFunded
<1>1. taken # Nothing /\ stage # "new"
  BY DEF OrdersInv, TypeOK
<1>2. /\ order \in OwnOrders /\ taken.type = order.type /\ taken \in FatCrabOrders
      /\ order.type = "Sell" => taken = order
      /\ order.type = "Buy" =>
             /\ taken.amount = Times(Times(order.amount, order.price), OneOver(order.price))
             /\ taken.price = OneOver(OneOver(order.price))
  BY <1>1, OwnTaken DEF OrdersInv
<1>3. /\ order.amount \in Numbers /\ order.price \in Numbers
      /\ order.type \in {"Buy", "Sell"}
      /\ Allocated(order) < MaxSats
  BY <1>2, OwnOrderIs, OrdersAssumption
<1>4. offer.sats = Rounded(Times(taken.amount, taken.price))
  BY DEF OrdersInv, Offering, N3xbOffer
<1>5. CASE order.type = "Sell"
  <2>1. funds = Truncated(Times(taken.amount, taken.price))
    BY <1>2, <1>5 DEF OrdersInv, Funding, Allocated
  <2>2. Times(taken.amount, taken.price) \in Numbers
    BY <1>2, <1>3, <1>5, TimesType
  <2>3. QED
    BY <1>4, <2>1, <2>2, RoundedOrTruncated
<1>6. CASE order.type = "Buy"
  <2> DEFINE w == Times(order.amount, order.price)
             r == OneOver(order.price)
             v == Times(taken.amount, taken.price)
  <2>1. w \in Numbers /\ r \in Numbers
    BY <1>3, TimesType, OneOverType
  <2>2. v = Times(Times(w, r), OneOver(r))
    BY <1>2, <1>6
  <2>3. funds = Truncated(w) /\ Truncated(w) < MaxSats
    BY <1>1, <1>3, <1>6 DEF OrdersInv, Funding, Allocated
  <2>4. NextTo(w, v) /\ v \in Numbers
    <3> HIDE DEF w, r, v
    <3>1. QED
      BY <2>1, <2>2, RoundTrip, TimesType, OneOverType
  <2>5. Rounded(v) - Truncated(w) \in 0..1
    <3> HIDE DEF w, v
    <3>1. QED
      BY <2>1, <2>3, <2>4, NextToRounded
  <2>6. QED
    BY <1>4, <2>3, <2>5
<1>7. QED
  BY <1>3, <1>5, <1>6

\* An order is read in one way only.
LEMMA InvUnambiguous == OrdersInv => ReadUnambiguously
<1> SUFFICES ASSUME OrdersInv, Read
             PROVE  /\ listed.rate # Nothing
                    /\ listed.maker \cap {"FatCrab", "Onchain", "OtherNetwork"} =
                           IF taken.type = "Buy" THEN {"Onchain"} ELSE {"FatCrab"}
                    /\ taken.type = "Buy" =>
                           listed.taker \cap {"Onchain", "OtherNetwork"} = {}
                    /\ taken.type = "Sell" => "FatCrab" \notin listed.taker
  BY DEF ReadUnambiguously
<1>1. taken # Nothing /\ taken.type \notin Failures /\ stage # "new"
  BY DEF OrdersInv, TypeOK, Read
<1>2. PICK makerKinds \in SetToSeqs(listed.maker), takerKinds \in SetToSeqs(listed.taker) :
          taken = FromN3xbOrder(listed, makerKinds, takerKinds)
  BY <1>1 DEF OrdersInv, Reading
<1>3. listed.maker \in SUBSET Kinds /\ listed.taker \in SUBSET Kinds
  BY <1>1, ListedIs DEF OrdersInv
<1>4. QED
  BY <1>1, <1>2, <1>3, ReadingAgrees

\* The offer is for what the maker listed.
LEMMA InvFits == OrdersInv => OfferFits
<1> SUFFICES ASSUME OrdersInv, order # Nothing, offer # Nothing
             PROVE  offer.maker \in listed.maker /\ offer.taker \in listed.taker
                    /\ stage # "refused"
  BY DEF OfferFits
<1>1. taken # Nothing /\ stage # "new" /\ stage # "refused"
  BY DEF OrdersInv, TypeOK, Accepting
<1>2. taken.type = order.type /\ order \in OwnOrders
  BY <1>1, OwnTaken DEF OrdersInv
<1>3. offer = N3xbOffer(taken) /\ listed = N3xbOrder(order)
      /\ order.type \in {"Buy", "Sell"}
  BY <1>1, <1>2, OwnOrderIs DEF OrdersInv, Offering, Listing
<1>4. QED
  BY <1>1, <1>2, <1>3 DEF N3xbOffer, N3xbOrder

\* OrdersInv is invariant.
LEMMA OrdersInvariance == Spec => []OrdersInv
BY OrdersInit, OrdersNext, PTL DEF Spec

\* The variables have their types, and none is Nothing when its stage is past.
THEOREM OrdersTypeOK == Spec => []TypeOK
<1>1. OrdersInv => TypeOK
  BY DEF OrdersInv
<1>2. QED
  BY <1>1, OrdersInvariance, PTL

\* The type of an own order and a sell order altogether are read as they are, the
\* amount and the price of a buy order up to a unit in the last place.
THEOREM OrdersOwnOrderIsRead == Spec => []OwnOrderIsRead
BY InvIsRead, OrdersInvariance, PTL

\* The sats of the offer for an own order (create_n3xb_offer) are those the maker
\* of a buy order or the taker of a sell order allocated, or one more.
THEOREM OrdersOfferIsFunded == Spec => []OfferIsFunded
BY InvIsFunded, OrdersInvariance, PTL

\* from_n3xb_order reads an order in one way only, whatever the order in which it
\* visits the obligations, and only one with a limit rate and whose obligations agree.
THEOREM OrdersReadUnambiguously == Spec => []ReadUnambiguously
BY InvUnambiguous, OrdersInvariance, PTL

\* The offer for an own order is for the listed obligations, and
\* validate_n3xb_offer does not refuse it.
THEOREM OrdersOfferFits == Spec => []OfferFits
BY InvFits, OrdersInvariance, PTL
==============================================================================
