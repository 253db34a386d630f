-------------------------- MODULE CatalogueProofs ---------------------------
(***************************************************************************)
(* Catalogue, for every tree of allergens, all contents of the CSV files,  *)
(* all picks, questions and similarities: nothing with an allergen of the  *)
(* pet is suggested, nothing better is left out, the three verdicts agree, *)
(* and fresh caches resolve every id.                                      *)
(***************************************************************************)
EXTENDS Catalogue, Recursion, FiniteSetTheorems

-----------------------------------------------------------------------------
(* The tree of allergens.                                                  *)

Layer(tree, a, n) ==
  LET Below[k \in Nat] ==
        IF k = 0 THEN Children(tree, {a}) ELSE Below[k - 1] \cup Children(tree, Below[k - 1])
  IN  Below[n]

Chain(tree, a, n) ==
  LET Up[k \in Nat] ==
        IF k = 0 THEN {a} ELSE Up[k - 1] \cup {tree[b].parent : b \in Up[k - 1] \cap DOMAIN tree}
  IN  Up[n]

(* What lies under an allergen, one layer after the other.                 *)
LEMMA Layers ==
  ASSUME NEW tree, NEW a
  PROVE  /\ Layer(tree, a, 0) = Children(tree, {a})
         /\ \A n \in Nat : Layer(tree, a, n + 1)
                             = Layer(tree, a, n) \cup Children(tree, Layer(tree, a, n))
<1> DEFINE V == SUBSET DOMAIN tree
           first == Children(tree, {a})
           More(g) == g \cup Children(tree, g)
           step == [n \in Nat |-> [g \in V |-> More(g)]]
<1>1. first \in V /\ step \in [Nat -> [V -> V]]
  BY DEF Children
<1>2. PICK f \in [Nat -> V] : f[0] = first /\ \A n \in Nat \ {0} : f[n] = step[n][f[n - 1]]
  <2> HIDE DEF V, first, step
  <2>1. Recursive(V, first, step) # {}
    BY <1>1, RecursiveExists
  <2> QED BY <2>1 DEF Recursive
<1>3. \A n \in Nat : f[n] = IF n = 0 THEN first ELSE More(f[n - 1])
  <2> SUFFICES ASSUME NEW n \in Nat, n # 0 PROVE f[n] = More(f[n - 1])
    BY <1>2
  <2>1. n - 1 \in Nat
    OBVIOUS
  <2>2. f[n] = step[n][f[n - 1]] /\ f[n - 1] \in V
    <3> HIDE DEF V, first, step
    <3> QED BY <1>2, <2>1
  <2> HIDE DEF V, More
  <2> QED BY <2>2 DEF step
<1>4. f = [k \in Nat |-> IF k = 0 THEN Children(tree, {a}) ELSE f[k - 1] \cup Children(tree, f[k - 1])]
  <2> HIDE DEF V
  <2> QED BY <1>2, <1>3
<1> DEFINE Below == CHOOSE Below : Below = [k \in Nat |->
                      IF k = 0 THEN Children(tree, {a}) ELSE Below[k - 1] \cup Children(tree, Below[k - 1])]
<1>5. Below = [k \in Nat |->
        IF k = 0 THEN Children(tree, {a}) ELSE Below[k - 1] \cup Children(tree, Below[k - 1])]
  BY <1>4, Zenon
<1>6. \A n : Layer(tree, a, n) = Below[n]
  BY DEF Layer
<1> HIDE DEF Below
<1>7. \A n \in Nat : n + 1 \in Nat /\ n + 1 # 0 /\ (n + 1) - 1 = n
  OBVIOUS
<1>8. Below[0] = Children(tree, {a})
      /\ \A n \in Nat : Below[n + 1] = Below[n] \cup Children(tree, Below[n])
  BY <1>5, <1>7
<1> QED BY <1>6, <1>8, Zenon

(* What an allergen lies under.                                            *)
LEMMA Chains ==
  ASSUME NEW tree, NEW a
  PROVE  /\ Chain(tree, a, 0) = {a}
         /\ \A n \in Nat : Chain(tree, a, n + 1) = Chain(tree, a, n)
              \cup {tree[b].parent : b \in Chain(tree, a, n) \cap DOMAIN tree}
<1> DEFINE V == SUBSET ({a} \cup {tree[b].parent : b \in DOMAIN tree})
           More(g) == g \cup {tree[b].parent : b \in g \cap DOMAIN tree}
           step == [n \in Nat |-> [g \in V |-> More(g)]]
<1>1. {a} \in V /\ step \in [Nat -> [V -> V]]
  OBVIOUS
<1>2. PICK f \in [Nat -> V] : f[0] = {a} /\ \A n \in Nat \ {0} : f[n] = step[n][f[n - 1]]
  <2> HIDE DEF V, step
  <2>1. Recursive(V, {a}, step) # {}
    BY <1>1, RecursiveExists
  <2> QED BY <2>1 DEF Recursive
<1>3. \A n \in Nat : f[n] = IF n = 0 THEN {a} ELSE More(f[n - 1])
  <2> SUFFICES ASSUME NEW n \in Nat, n # 0 PROVE f[n] = More(f[n - 1])
    BY <1>2
  <2>1. n - 1 \in Nat
    OBVIOUS
  <2>2. f[n] = step[n][f[n - 1]] /\ f[n - 1] \in V
    <3> HIDE DEF V, step
    <3> QED BY <1>2, <2>1
  <2> HIDE DEF V, More
  <2> QED BY <2>2 DEF step
<1>4. f = [k \in Nat |->
             IF k = 0 THEN {a} ELSE f[k - 1] \cup {tree[b].parent : b \in f[k - 1] \cap DOMAIN tree}]
  <2> HIDE DEF V
  <2> QED BY <1>2, <1>3
<1> DEFINE Up == CHOOSE Up : Up = [k \in Nat |->
                   IF k = 0 THEN {a}
                   ELSE Up[k - 1] \cup {tree[b].parent : b \in Up[k - 1] \cap DOMAIN tree}]
<1>5. Up = [k \in Nat |->
        IF k = 0 THEN {a} ELSE Up[k - 1] \cup {tree[b].parent : b \in Up[k - 1] \cap DOMAIN tree}]
  BY <1>4, Zenon
<1>6. \A n : Chain(tree, a, n) = Up[n]
  BY DEF Chain
<1> HIDE DEF Up
<1>7. \A n \in Nat : n + 1 \in Nat /\ n + 1 # 0 /\ (n + 1) - 1 = n
  OBVIOUS
<1>8. Up[0] = {a} /\ \A n \in Nat :
        Up[n + 1] = Up[n] \cup {tree[b].parent : b \in Up[n] \cap DOMAIN tree}
  BY <1>5, <1>7
<1> QED BY <1>6, <1>8, Zenon

(* Each layer holds those before it, and those of a child.                 *)
LEMMA LayersGrow ==
  ASSUME NEW tree, NEW n \in Nat
  PROVE  \A b : /\ Children(tree, {b}) \subseteq Layer(tree, b, n)
                /\ \A c \in Children(tree, {b}) : Layer(tree, c, n) \subseteq Layer(tree, b, n + 1)
<1> DEFINE Held == {k \in Nat : \A b :
              /\ Children(tree, {b}) \subseteq Layer(tree, b, k)
              /\ \A c \in Children(tree, {b}) : Layer(tree, c, k) \subseteq Layer(tree, b, k + 1)}
<1>1. 0 \in Held
  <2> SUFFICES ASSUME NEW b, NEW c \in Children(tree, {b})
               PROVE  Layer(tree, c, 0) \subseteq Layer(tree, b, 0 + 1)
    BY Layers
  <2>1. Layer(tree, b, 0 + 1) = Layer(tree, b, 0) \cup Children(tree, Layer(tree, b, 0))
    BY Layers
  <2> QED BY <2>1, Layers DEF Children
<1>2. ASSUME NEW k \in Held PROVE k + 1 \in Held
  <2>1. k \in Nat /\ k + 1 \in Nat
    OBVIOUS
  <2>2. ASSUME NEW b
        PROVE  /\ Children(tree, {b}) \subseteq Layer(tree, b, k + 1)
               /\ \A c \in Children(tree, {b}) : Layer(tree, c, k + 1) \subseteq Layer(tree, b, (k + 1) + 1)
    <3>1. Layer(tree, b, k + 1) = Layer(tree, b, k) \cup Children(tree, Layer(tree, b, k))
      BY <2>1, Layers
    <3>2. Layer(tree, b, (k + 1) + 1) = Layer(tree, b, k + 1) \cup Children(tree, Layer(tree, b, k + 1))
      BY <2>1, Layers
    <3>3. ASSUME NEW c \in Children(tree, {b})
          PROVE  Layer(tree, c, k + 1) \subseteq Layer(tree, b, (k + 1) + 1)
      <4>1. Layer(tree, c, k + 1) = Layer(tree, c, k) \cup Children(tree, Layer(tree, c, k))
        BY <2>1, Layers
      <4>2. Layer(tree, c, k) \subseteq Layer(tree, b, k + 1)
        OBVIOUS
      <4> QED BY <3>2, <4>1, <4>2 DEF Children
    <3> QED BY <3>1, <3>3
  <2> QED BY <2>1, <2>2
<1>3. Held = Nat
  <2> HIDE DEF Held
  <2>1. Held \in SUBSET Nat
    BY DEF Held
  <2> QED BY <1>1, <1>2, <2>1, Induction
<1> QED BY <1>3

(* Whoever has an allergen above another in a chain of n has that one in   *)
(* the layers below, n deep.                                               *)
LEMMA ChainsMeetLayers ==
  ASSUME NEW tree, NEW n \in Nat
  PROVE  \A a \in DOMAIN tree : \A b \in Chain(tree, a, n) \cap DOMAIN tree :
           a = b \/ a \in Layer(tree, b, n)
<1> DEFINE Held == {k \in Nat : \A a \in DOMAIN tree : \A b \in Chain(tree, a, k) \cap DOMAIN tree :
                                  a = b \/ a \in Layer(tree, b, k)}
<1>1. \A b : \A k \in Nat : Layer(tree, b, k) \subseteq Layer(tree, b, k + 1)
  <2> SUFFICES ASSUME NEW b, NEW k \in Nat PROVE Layer(tree, b, k) \subseteq Layer(tree, b, k + 1)
    OBVIOUS
  <2>1. Layer(tree, b, k + 1) = Layer(tree, b, k) \cup Children(tree, Layer(tree, b, k))
    BY Layers
  <2> QED BY <2>1
<1>2. \A a : \A k \in Nat : Chain(tree, a, k + 1)
        = Chain(tree, a, k) \cup {tree[c].parent : c \in Chain(tree, a, k) \cap DOMAIN tree}
  BY Chains, ZenonT(40)
<1>3. 0 \in Held
  BY Chains
<1>4. ASSUME NEW k \in Held PROVE k + 1 \in Held
  <2>1. k \in Nat /\ k + 1 \in Nat
    OBVIOUS
  <2> SUFFICES ASSUME NEW a \in DOMAIN tree, NEW b \in Chain(tree, a, k + 1) \cap DOMAIN tree, a # b
               PROVE  a \in Layer(tree, b, k + 1)
    BY <2>1
  <2>2. Layer(tree, b, k) \subseteq Layer(tree, b, k + 1)
    BY <1>1, <2>1, Zenon
  <2>3. CASE b \in Chain(tree, a, k)
    BY <2>2, <2>3
  <2>4. CASE b \notin Chain(tree, a, k)
    <3>1. PICK c \in Chain(tree, a, k) \cap DOMAIN tree : tree[c].parent = b
      <4>1. Chain(tree, a, k + 1)
              = Chain(tree, a, k) \cup {tree[c].parent : c \in Chain(tree, a, k) \cap DOMAIN tree}
        BY <1>2, <2>1, Zenon
      <4> QED BY <2>4, <4>1
    <3>2. c \in Children(tree, {b})
      BY <3>1 DEF Children
    <3>3. a = c \/ a \in Layer(tree, c, k)
      BY <3>1
    <3>4. Children(tree, {b}) \subseteq Layer(tree, b, k)
          /\ Layer(tree, c, k) \subseteq Layer(tree, b, k + 1)
      BY <2>1, <3>2, LayersGrow
    <3> QED BY <2>2, <3>2, <3>3, <3>4
  <2> QED BY <2>3, <2>4
<1>5. Held = Nat
  <2> HIDE DEF Held
  <2>1. Held \in SUBSET Nat
    BY DEF Held
  <2> QED BY <1>3, <1>4, <2>1, Induction
<1> QED BY <1>5

LEMMA LiesUnderIsChain ==
  ASSUME NEW tree, TreeOK(tree), NEW a, NEW n
  PROVE  /\ Cardinality(DOMAIN tree) \in Nat
         /\ LiesUnder(tree, a, n) <=>
              \E b \in Chain(tree, a, Cardinality(DOMAIN tree)) \cap DOMAIN tree : tree[b].name = n
BY FS_CardinalityType DEF TreeOK, LiesUnder, Chain

(* Who has an allergen of that name and all its descendants has everything *)
(* that lies under it.                                                     *)
LEMMA DescendantsLieUnder ==
  ASSUME NEW tree, TreeOK(tree), NEW a \in DOMAIN tree, NEW n, LiesUnder(tree, a, n)
  PROVE  \E b \in DOMAIN tree : tree[b].name = n /\ a \in {b} \cup _descendant_ids(tree, b)
<1>1. PICK b \in Chain(tree, a, Cardinality(DOMAIN tree)) \cap DOMAIN tree : tree[b].name = n
  BY LiesUnderIsChain
<1>2. a = b \/ a \in Layer(tree, b, Cardinality(DOMAIN tree))
  BY LiesUnderIsChain, ChainsMeetLayers
<1>3. _descendant_ids(tree, b) = Layer(tree, b, Cardinality(DOMAIN tree))
  BY DEF _descendant_ids, Layer
<1> QED BY <1>1, <1>2, <1>3

(* As has a set that has the child of every allergen in it, and one of the *)
(* name.                                                                   *)
LEMMA SpreadOutLiesUnder ==
  ASSUME NEW tree, TreeOK(tree), NEW ids, NEW c \in ids \cap DOMAIN tree,
         \A a \in DOMAIN tree : tree[a].parent \in ids => a \in ids,
         NEW a \in DOMAIN tree, LiesUnder(tree, a, tree[c].name)
  PROVE  a \in ids
<1> DEFINE Held == {k \in Nat : Chain(tree, a, k) \cap ids \cap DOMAIN tree # {} => a \in ids}
<1>1. 0 \in Held
  BY Chains
<1>2. ASSUME NEW k \in Held PROVE k + 1 \in Held
  <2>1. k \in Nat /\ k + 1 \in Nat
    OBVIOUS
  <2> SUFFICES ASSUME NEW b \in Chain(tree, a, k + 1) \cap ids \cap DOMAIN tree
               PROVE  a \in ids
    BY <2>1
  <2>2. Chain(tree, a, k + 1)
          = Chain(tree, a, k) \cup {tree[d].parent : d \in Chain(tree, a, k) \cap DOMAIN tree}
    BY <2>1, Chains
  <2> QED BY <2>2
<1>3. Held = Nat
  <2> HIDE DEF Held
  <2>1. Held \in SUBSET Nat
    BY DEF Held
  <2> QED BY <1>1, <1>2, <2>1, Induction
<1>4. PICK b \in Chain(tree, a, Cardinality(DOMAIN tree)) \cap DOMAIN tree : tree[b].name = tree[c].name
  BY LiesUnderIsChain
<1>5. b \in ids
  BY <1>4 DEF TreeOK
<1>6. Cardinality(DOMAIN tree) \in Held
  BY <1>3, LiesUnderIsChain
<1> QED BY <1>4, <1>5, <1>6

-----------------------------------------------------------------------------
(* Rates.                                                                  *)

LEMMA ConstantTypes ==
  /\ Low \in Int /\ High \in Int /\ Low < High /\ High - Low \in Nat
  /\ Limit \in Nat \ {0} /\ Sims \subseteq Int
BY CatalogueConstantsOK

LEMMA RateBounds ==
  ASSUME NEW s \in Int, NEW t \in Int
  PROVE  /\ match_rate(s) \in 0..(High - Low)
         /\ s <= t => match_rate(s) <= match_rate(t)
BY ConstantTypes DEF match_rate, Smaller

LEMMA MaxIsGreatest ==
  ASSUME NEW top \in Nat, NEW T \in SUBSET (0..top), T # {}
  PROVE  Max(T) \in T /\ \A y \in T : y <= Max(T)
<1>1. T \in SUBSET Nat /\ \A y \in T : y <= top
  OBVIOUS
<1>2. PICK x \in T : \A y \in T : y <= x
  BY <1>1, Greatest
<1>3. \A y \in T : x >= y
  BY <1>1, <1>2
<1>4. Max(T) \in T /\ \A y \in T : Max(T) >= y
  BY <1>3 DEF Max
<1> QED BY <1>1, <1>4

(* The rate of a product is the one it had or that of one of the rows, and *)
(* none of these is higher.                                                *)
RatedBy(new, known, rows, sim) ==
  /\ new \in Rates /\ DOMAIN new = (DOMAIN known) \cup Bought(rows)
  /\ \A p \in DOMAIN known : known[p] <= new[p]
  /\ \A r \in rows : match_rate(sim[r]) <= new[purchase[r].product]
  /\ \A p \in DOMAIN new :
       \/ p \in DOMAIN known /\ new[p] = known[p]
       \/ \E r \in rows : purchase[r].product = p /\ new[p] = match_rate(sim[r])

LEMMA RatesAre ==
  ASSUME NEW known \in Rates, NEW rows \in SUBSET DOMAIN purchase,
         NEW sim, \A r \in rows : sim[r] \in Int,
         Bought(rows) \subseteq Products
  PROVE  RatedBy(BestRates(known, rows, sim), known, rows, sim)
<1> DEFINE new == BestRates(known, rows, sim)
           top == High - Low
           Of(p) == {match_rate(sim[r]) : r \in {s \in rows : purchase[s].product = p}}
                      \cup {known[x] : x \in (DOMAIN known) \cap {p}}
<1>1. DOMAIN new = (DOMAIN known) \cup Bought(rows) /\ \A p \in DOMAIN new : new[p] = Max(Of(p))
  BY DEF BestRates
<1>2. DOMAIN known \subseteq Products /\ \A p \in DOMAIN known : known[p] \in 0..top
  BY DEF Rates
<1>3. \A r \in rows : match_rate(sim[r]) \in 0..top
  BY RateBounds
<1>4. ASSUME NEW p \in DOMAIN new
      PROVE  Of(p) \in SUBSET (0..top) /\ Of(p) # {}
  <2> HIDE DEF new, top
  <2>1. Of(p) \in SUBSET (0..top)
    BY <1>2, <1>3
  <2>2. CASE p \in DOMAIN known
    BY <2>1, <2>2
  <2>3. CASE p \in Bought(rows)
    BY <2>1, <2>3 DEF Bought
  <2> QED BY <1>1, <2>1, <2>2, <2>3
<1>5. ASSUME NEW p \in DOMAIN new
      PROVE  new[p] \in Of(p) /\ new[p] \in 0..top /\ \A y \in Of(p) : y <= new[p]
  <2>1. top \in Nat
    BY ConstantTypes
  <2> HIDE DEF new, Of, top
  <2> QED BY <1>1, <1>4, <2>1, MaxIsGreatest
<1>6. new \in Rates
  <2>1. new = [p \in DOMAIN new |-> new[p]]
    BY DEF BestRates
  <2> HIDE DEF new, Of
  <2>2. new \in [DOMAIN new -> 0..top]
    BY <1>5, <2>1
  <2>3. DOMAIN new \subseteq Products
    BY <1>1, <1>2
  <2> QED BY <2>2, <2>3 DEF Rates
<1>7. ASSUME NEW p \in DOMAIN known PROVE known[p] <= new[p]
  <2>1. p \in DOMAIN new /\ known[p] \in Of(p)
    BY <1>1
  <2> HIDE DEF new, Of
  <2> QED BY <1>5, <2>1
<1>8. ASSUME NEW r \in rows PROVE match_rate(sim[r]) <= new[purchase[r].product]
  <2>1. purchase[r].product \in DOMAIN new /\ match_rate(sim[r]) \in Of(purchase[r].product)
    BY <1>1 DEF Bought
  <2> HIDE DEF new, Of
  <2> QED BY <1>5, <2>1
<1>9. ASSUME NEW p \in DOMAIN new
      PROVE  \/ p \in DOMAIN known /\ new[p] = known[p]
             \/ \E r \in rows : purchase[r].product = p /\ new[p] = match_rate(sim[r])
  <2>1. new[p] \in Of(p)
    BY <1>5
  <2> HIDE DEF new
  <2> QED BY <2>1
<1> HIDE DEF Of, new
<1>10. RatedBy(new, known, rows, sim)
  BY <1>1, <1>6, <1>7, <1>8, <1>9 DEF RatedBy
<1> QED BY <1>10 DEF new

-----------------------------------------------------------------------------
(* Requests.                                                               *)

(* The step of a request tells what it has in hand.                        *)
LEMMA StepTells ==
  ASSUME request \in Requests
  PROVE  /\ request.step = "idle" => request = Idle
         /\ request.step = "pets" => request.owner \in Owners
         /\ request.step = "profile" =>
              request.pet \in DOMAIN pet /\ request.but \in Products \cup {Nothing}
         /\ request.step = "search" => request \in Searching
         /\ request.step = "asked" => request.profile \in Profile
         /\ request.step = "lookup" => request.hits \in SUBSET Nat
         /\ request.step = "pick" => request \in Picking
         /\ request.step = "buy" =>
              request \in [step: {"buy"}, drawn: SUBSET Nat, row: Nat]
BY DEF Requests, Elsewhere, Profiling, Searching, Picking, Idle

(* Steps that neither change the tables nor search.                        *)
LEMMA RequestKeepsIInv ==
  ASSUME IInv, UNCHANGED <<tables, wanted, cache, loading>>, request' \in Requests,
         request'.step # "search", DrawnLeft', cache # Down
  PROVE  IInv'
<1> USE DEF IInv, tables, masters
<1>4. Served'
  BY DEF Served
<1>1. TypeOK'
  BY DEF TypeOK, Requests, Elsewhere, Profiling, Searching, Picking, Products, Rates
<1>2. PicksKept'
  BY DEF PicksKept, Ids
<1>3. ProfileHasPicks' /\ RatedPass' /\ RatesHold'
  BY DEF ProfileHasPicks, RatedPass, RatesHold
<1> QED BY <1>1, <1>2, <1>3, <1>4

(* Steps of which the request under way sees nothing.                      *)
LEMMA TablesKeepIInv ==
  ASSUME IInv, UNCHANGED <<tables, wanted, request>>, loading' \in BOOLEAN,
         \/ cache' = cache
         \/ request = Idle /\ TreeOK(cache'.allergen)
  PROVE  IInv'
<1> USE DEF IInv, tables, masters
<1>5. Served'
  BY DEF Served
<1>1. TypeOK'
  <2>1. Requests' = Requests
    BY DEF Requests, Elsewhere, Profiling, Searching, Picking, Products, Rates
  <2>2. cache' # Down => TreeOK(cache'.allergen)
    BY DEF TypeOK
  <2> QED BY <2>1, <2>2 DEF TypeOK
<1>2. PicksKept' /\ ProfileHasPicks' /\ DrawnLeft'
  BY DEF PicksKept, ProfileHasPicks, DrawnLeft, Ids
<1>3. RatedPass'
  BY DEF RatedPass, PassesAllergy, AllergensOf
<1>4. RatesHold'
  BY DEF RatesHold, Searched
<1> QED BY <1>1, <1>2, <1>3, <1>4, <1>5

LEMMA IdleKeepsIInv ==
  ASSUME IInv, UNCHANGED <<tables, wanted, loading>>, request' = Idle, cache' \in {cache, Down}
  PROVE  IInv'
<1> USE DEF IInv, tables, masters, Idle
<1>1. TypeOK'
  BY DEF TypeOK, Requests, Elsewhere, Profiling, Searching, Picking
<1>2. PicksKept'
  BY DEF PicksKept, Ids
<1>3. ProfileHasPicks' /\ RatedPass' /\ RatesHold' /\ DrawnLeft' /\ Served'
  BY DEF ProfileHasPicks, RatedPass, RatesHold, DrawnLeft, Served
<1> QED BY <1>1, <1>2, <1>3

LEMMA InitIInv == Init => IInv
<1> SUFFICES ASSUME Init PROVE IInv
  OBVIOUS
<1>1. PICK l \in Loads :
        /\ allergen = l.allergen /\ carries = l.carries
        /\ product = l.product /\ pet = l.pet /\ purchase = l.purchase
        /\ wanted = PickedIn(l)
  BY DEF Init
<1>2. TreeOK(allergen) /\ RowsOK(allergen, carries, product, pet, purchase) /\ SpreadOut(allergen, pet)
  BY <1>1, CatalogueConstantsOK
<1>3. request = Idle /\ cache = Down /\ loading = FALSE
  BY DEF Init
<1>4. wanted \in [DOMAIN pet -> SUBSET Names]
  BY <1>1, <1>2 DEF PickedIn, NameOf, TreeOK, RowsOK
<1>5. TypeOK
  BY <1>2, <1>3, <1>4 DEF TypeOK, Requests, Elsewhere, Profiling, Searching, Picking, Idle
<1>6. PicksKept
  <2> SUFFICES ASSUME NEW q \in DOMAIN pet, NEW a \in Ids, NEW n \in wanted[q],
                      LiesUnder(allergen, a, n)
               PROVE  a \in pet[q].allergies
    BY DEF PicksKept
  <2>1. PICK c \in pet[q].allergies : allergen[c].name = n
    BY <1>1 DEF PickedIn, NameOf
  <2>2. c \in pet[q].allergies \cap DOMAIN allergen
    BY <1>2, <2>1 DEF RowsOK
  <2> QED BY <1>2, <2>1, <2>2, SpreadOutLiesUnder DEF SpreadOut, Ids
<1>7. ProfileHasPicks /\ RatedPass /\ RatesHold /\ DrawnLeft /\ Served
  BY <1>3 DEF ProfileHasPicks, RatedPass, RatesHold, DrawnLeft, Served, Idle
<1> QED BY <1>5, <1>6, <1>7 DEF IInv

LEMMA MinIsLeast ==
  ASSUME NEW T \in SUBSET Nat, T # {}
  PROVE  Min(T) \in T
<1>1. PICK x \in T : \A y \in T : x <= y
  BY Least
<1> QED BY <1>1 DEF Min

LEMMA BeginKeepsIInv == ASSUME NEW u \in Owners PROVE IInv /\ Begin(u) => IInv'
<1> SUFFICES ASSUME IInv, Begin(u) PROVE IInv'
  OBVIOUS
<1>1. UNCHANGED <<tables, wanted, cache, loading>> /\ cache # Down
      /\ request' = [step |-> "pets", owner |-> u]
  BY DEF Begin
<1>2. request' \in Requests /\ request'.step # "search" /\ DrawnLeft'
  BY <1>1 DEF Requests, Elsewhere, Profiling, Searching, Picking, DrawnLeft
<1> QED BY <1>1, <1>2, RequestKeepsIInv

LEMMA PrimaryPetKeepsIInv == IInv /\ primary_pet => IInv'
<1> SUFFICES ASSUME IInv, primary_pet PROVE IInv'
  OBVIOUS
<1> DEFINE own == {q \in DOMAIN pet : pet[q].owner = request.owner /\ pet[q].active}
<1>1. UNCHANGED <<tables, wanted, cache, loading>> /\ cache # Down
  BY DEF primary_pet, IInv, Served, Idle
<1>2. CASE request' = Idle
  BY <1>1, <1>2, IdleKeepsIInv
<1>3. CASE own # {} /\ request' = [step |-> "profile", pet |-> Min(own), but |-> Nothing]
  <2>1. Min(own) \in DOMAIN pet
    <3>1. own \in SUBSET Nat
      BY DEF IInv, TypeOK, RowsOK
    <3>2. Min(own) \in own
      BY <1>3, <3>1, MinIsLeast
    <3> QED BY <3>2
  <2> HIDE DEF own
  <2>2. request' \in Requests /\ request'.step # "search" /\ DrawnLeft'
    BY <1>3, <2>1 DEF Requests, Elsewhere, Profiling, Searching, Picking, DrawnLeft
  <2> QED BY <1>1, <2>2, RequestKeepsIInv
<1> QED BY <1>2, <1>3 DEF primary_pet

LEMMA SimilarReviewsKeepsIInv ==
  ASSUME NEW u \in Owners PROVE IInv /\ similar_reviews_for(u) => IInv'
<1> SUFFICES ASSUME IInv, similar_reviews_for(u) PROVE IInv'
  OBVIOUS
<1> DEFINE detail == get_user_detail(u)
<1>1. UNCHANGED <<tables, wanted, cache, loading>> /\ cache # Down
  BY DEF similar_reviews_for
<1>2. PICK latest \in detail.reviewed :
        request' = [step |-> "profile", pet |-> Min(detail.pets), but |-> purchase[latest].product]
  BY DEF similar_reviews_for
<1>3. latest \in DOMAIN purchase /\ pet[purchase[latest].pet].owner = u
  BY <1>2 DEF get_user_detail
<1>4. purchase[latest].pet \in DOMAIN pet /\ purchase[latest].product \in Products
  BY <1>3 DEF IInv, TypeOK, RowsOK, Products
<1>5. Min(detail.pets) \in DOMAIN pet
  <2>1. detail.pets \in SUBSET DOMAIN pet /\ purchase[latest].pet \in detail.pets
    BY <1>3, <1>4 DEF get_user_detail
  <2>2. DOMAIN pet \subseteq Nat
    BY DEF IInv, TypeOK, RowsOK
  <2> HIDE DEF detail
  <2>3. Min(detail.pets) \in detail.pets
    BY <2>1, <2>2, MinIsLeast
  <2> QED BY <2>1, <2>3
<1> HIDE DEF detail
<1>6. request' \in Requests /\ request'.step # "search" /\ DrawnLeft'
  BY <1>2, <1>4, <1>5 DEF Requests, Elsewhere, Profiling, Searching, Picking, DrawnLeft
<1> QED BY <1>1, <1>6, RequestKeepsIInv

LEMMA AskKeepsIInv == ASSUME NEW question \in Questions PROVE IInv /\ Ask(question) => IInv'
<1> SUFFICES ASSUME IInv, Ask(question) PROVE IInv'
  OBVIOUS
<1>1. UNCHANGED <<tables, wanted, cache, loading>> /\ cache # Down
  BY DEF Ask
<1>2. PICK name \in SUBSET question.allergy :
        request' = [step |-> "asked", profile |-> [question EXCEPT !.allergy = name]]
  BY DEF Ask
<1>3. [question EXCEPT !.allergy = name] \in Profile
  BY CatalogueConstantsOK DEF Profile
<1>4. request' \in Requests /\ request'.step # "search" /\ DrawnLeft'
  BY <1>2, <1>3 DEF Requests, Elsewhere, Profiling, Searching, Picking, DrawnLeft
<1> QED BY <1>1, <1>4, RequestKeepsIInv

LEMMA SearchAskedKeepsIInv == IInv /\ search_asked => IInv'
<1> SUFFICES ASSUME IInv, search_asked PROVE IInv'
  OBVIOUS
<1>1. UNCHANGED <<tables, wanted, cache, loading>> /\ cache # Down
  BY DEF search_asked, IInv, Served, Idle
<1>2. PICK hits \in SUBSET Hits(request.profile) : request' = [step |-> "lookup", hits |-> hits]
  BY DEF search_asked
<1>3. hits \in SUBSET Nat
  BY DEF Hits, IInv, TypeOK, RowsOK
<1>4. request' \in Requests /\ request'.step # "search" /\ DrawnLeft'
  BY <1>2, <1>3 DEF Requests, Elsewhere, Profiling, Searching, Picking, DrawnLeft
<1> QED BY <1>1, <1>4, RequestKeepsIInv

LEMMA LookupKeepsIInv == IInv /\ find_products_by_purchase_ids => IInv'
<1> SUFFICES ASSUME IInv, find_products_by_purchase_ids PROVE IInv'
  OBVIOUS
<1> DEFINE found == Bought(request.hits \cap DOMAIN purchase)
<1>1. UNCHANGED <<tables, wanted, cache, loading>> /\ cache # Down
  <2>1. request.step = "lookup" /\ UNCHANGED <<tables, wanted, cache, loading>>
    BY DEF find_products_by_purchase_ids
  <2> QED BY <2>1 DEF IInv, Served, Idle
<1>2. CASE request' = Idle
  BY <1>1, <1>2, IdleKeepsIInv
<1>3. CASE request' = [step |-> "pick", attempt |-> 0, error |-> "", valid |-> found]
  <2>1. found \in SUBSET Products
    BY DEF Bought, IInv, TypeOK, RowsOK, Products
  <2>2. 0 \in 0..MaxRetries
    BY CatalogueConstantsOK
  <2> HIDE DEF found
  <2>3. request' \in Requests /\ request'.step # "search" /\ DrawnLeft'
    BY <1>3, <2>1, <2>2 DEF Requests, Elsewhere, Profiling, Searching, Picking, DrawnLeft
  <2> QED BY <1>1, <2>3, RequestKeepsIInv
<1> QED BY <1>2, <1>3 DEF find_products_by_purchase_ids

LEMMA RecommendKeepsIInv == IInv /\ recommend => IInv'
<1> SUFFICES ASSUME IInv, recommend PROVE IInv'
  OBVIOUS
<1>1. UNCHANGED <<tables, wanted, cache, loading>> /\ cache # Down
  BY DEF recommend, IInv, Served, Idle
<1>2. CASE request' = Idle
  BY <1>1, <1>2, IdleKeepsIInv
<1>3. ASSUME NEW error \in {"call", "ids", "number"}, request.attempt # MaxRetries,
             request' = [request EXCEPT !.attempt = @ + 1, !.error = error]
      PROVE  IInv'
  <2>1. request \in Picking
    BY StepTells DEF recommend, IInv, TypeOK
  <2>2. request.attempt + 1 \in 0..MaxRetries
    <3>1. MaxRetries \in Nat /\ request.attempt \in 0..MaxRetries
      BY <2>1, CatalogueConstantsOK DEF Picking
    <3> QED BY <1>3, <3>1
  <2>3. request' \in Picking
    BY <1>3, <2>1, <2>2 DEF Picking
  <2>4. request' \in Requests /\ request'.step # "search" /\ DrawnLeft'
    BY <2>3 DEF Picking, Requests, Elsewhere, Profiling, Searching, DrawnLeft
  <2> QED BY <1>1, <2>4, RequestKeepsIInv
<1> QED BY <1>2, <1>3 DEF recommend, Fails

LEMMA SampleKeepsIInv == IInv /\ sample => IInv'
<1> SUFFICES ASSUME IInv, sample PROVE IInv'
  OBVIOUS
<1> DEFINE products == {p \in DOMAIN product : /\ product[p].active = 1
                                              /\ DemoAnimal \in product[p].animals
                                              /\ DemoName \notin product[p].says}
<1>1. UNCHANGED <<tables, wanted, cache, loading>> /\ cache # Down
  BY DEF sample, IInv, Served, Idle
<1>2. CASE request' = Idle
  BY <1>1, <1>2, IdleKeepsIInv
<1>3. ASSUME NEW drawn \in kSubset(DemoCount, products),
             request' = [step |-> "buy", drawn |-> drawn, row |-> 0]
      PROVE  IInv'
  <2>1. drawn \in SUBSET Products /\ Cardinality(drawn) = DemoCount
    BY DEF kSubset, Products
  <2>2. IsFiniteSet(drawn) /\ drawn \in SUBSET Nat
    BY <2>1, FS_Subset DEF IInv, TypeOK, RowsOK, Products
  <2>3. drawn # {} /\ DemoCount \in Nat
    BY <2>1, CatalogueConstantsOK, FS_EmptySet
  <2>4. request' \in Requests /\ request'.step # "search" /\ DrawnLeft'
    <3> HIDE DEF products
    <3>1. request'.step = "buy" /\ request'.drawn = drawn /\ request' \in Requests
      BY <1>3, <2>2 DEF Requests, Elsewhere, Profiling, Searching, Picking
    <3>2. DrawnLeft'
      BY <2>1, <2>2, <2>3, <3>1 DEF DrawnLeft
    <3> QED BY <3>1, <3>2
  <2> QED BY <1>1, <2>4, RequestKeepsIInv
<1> QED BY <1>2, <1>3 DEF sample

-----------------------------------------------------------------------------
(* The search for a pet.                                                   *)

(* pet_profile: the names in the profile are those of the pet's allergens, *)
(* and from fresh caches those of everything under the picks.              *)
LEMMA PetProfileKeepsIInv == IInv /\ pet_profile => IInv'
<1> SUFFICES ASSUME IInv, pet_profile PROVE IInv'
  OBVIOUS
<1> DEFINE q == pet[request.pet]
           profile == [animal |-> q.animal, size |-> q.size,
                       allergy |-> NameOf(cache.allergen, q.allergies)]
           free == IF Fresh THEN wanted[request.pet] ELSE Unknown
           none == [p \in {} |-> 0]
<1>1. /\ UNCHANGED <<tables, wanted, cache, loading>> /\ cache # Down
      /\ request.pet \in DOMAIN pet /\ request.but \in Products \cup {Nothing}
  BY StepTells DEF pet_profile, IInv, TypeOK, Served, Idle
<1>2. CASE request' = Idle
  BY <1>1, <1>2, IdleKeepsIInv
<1>3. ASSUME NEW queries \in 1..2, Cached(q.allergies),
             request' = [step |-> "search", left |-> queries, but |-> request.but,
                         profile |-> profile, best |-> none, ideal |-> none, free |-> free]
      PROVE  IInv'
  <2>1. q \in PetRow /\ q.allergies \subseteq Ids
    BY <1>1 DEF IInv, TypeOK, RowsOK, Ids
  <2>2. profile \in Profile
    <3>1. TreeOK(cache.allergen)
      BY <1>1 DEF IInv, TypeOK
    <3>2. NameOf(cache.allergen, q.allergies) \subseteq Names
      BY <1>3, <3>1 DEF TreeOK, NameOf, Cached
    <3> QED BY <2>1, <3>2 DEF Profile, PetRow
  <2>3. none \in Rates /\ DOMAIN none = {}
    <3>1. none \in [{} -> 0..(High - Low)] /\ {} \in SUBSET Products
      OBVIOUS
    <3> QED BY <3>1 DEF Rates
  <2>4. free \in {Unknown} \cup SUBSET Names
    BY <1>1 DEF IInv, TypeOK
  <2>5. free # Unknown => \A a \in Ids, n \in free :
          LiesUnder(allergen, a, n) => allergen[a].name \in profile.allergy
    <3> SUFFICES ASSUME free # Unknown, NEW a \in Ids, NEW n \in free, LiesUnder(allergen, a, n)
                 PROVE  allergen[a].name \in profile.allergy
      OBVIOUS
    <3>1. Fresh /\ wanted[request.pet] # Unknown /\ n \in wanted[request.pet]
      OBVIOUS
    <3>2. a \in q.allergies
      BY <1>1, <3>1 DEF IInv, PicksKept
    <3> QED BY <3>1, <3>2 DEF Fresh, NameOf
  <2> HIDE DEF q, profile, free, none
  <2>6. request'.step = "search" /\ request'.profile = profile /\ request'.free = free
        /\ request'.best = none /\ request'.ideal = none
    BY <1>3
  <2>7. request' \in Searching
    BY <1>1, <1>3, <2>2, <2>3, <2>4 DEF Searching
  <2>8. TypeOK'
    <3>1. request' \in Requests'
      BY <1>1, <2>7 DEF Searching, Requests, Elsewhere, Profiling, Picking, Products, Rates, tables, masters
    <3> QED BY <1>1, <3>1 DEF IInv, TypeOK, tables, masters
  <2>9. PicksKept' /\ Served'
    BY <1>1 DEF IInv, PicksKept, Served, Ids, tables, masters
  <2>10. ProfileHasPicks'
    BY <1>1, <2>5, <2>6 DEF ProfileHasPicks, Ids, tables, masters
  <2>11. RatedPass' /\ RatesHold' /\ DrawnLeft'
    BY <2>3, <2>6 DEF RatedPass, RatesHold, OutrankedOnly, DrawnLeft
  <2> QED BY <2>8, <2>9, <2>10, <2>11 DEF IInv
<1> QED BY <1>2, <1>3 DEF pet_profile

(* What is found for a question, each of its products once, is found for a *)
(* row of each of these products.                                          *)
LEMMA HitsAreProducts ==
  ASSUME NEW hits, IsFiniteSet(Bought(hits)),
         \A r, s \in hits : purchase[r].product = purchase[s].product => r = s
  PROVE  Cardinality(Bought(hits)) = Cardinality(hits)
<1> DEFINE row == [p \in Bought(hits) |-> CHOOSE r \in hits : purchase[r].product = p]
<1>1. ASSUME NEW p \in Bought(hits) PROVE row[p] \in hits /\ purchase[row[p]].product = p
  BY DEF Bought
<1>2. row \in [Bought(hits) -> hits]
  BY <1>1
<1>3. \A r \in hits : purchase[r].product \in Bought(hits)
  BY DEF Bought
<1> HIDE DEF row
<1>4. \A r \in hits : row[purchase[r].product] = r
  BY <1>1, <1>3
<1>5. row \in Injection(Bought(hits), hits)
  BY <1>1, <1>2 DEF Injection, IsInjective
<1>6. row \in Surjection(Bought(hits), hits)
  BY <1>2, <1>3, <1>4 DEF Surjection
<1>7. ExistsBijection(Bought(hits), hits)
  BY <1>5, <1>6 DEF ExistsBijection, Bijection
<1> QED BY <1>7, FS_Bijection

(* A further question leaves a product without its best rate only if as    *)
(* many others as the question may find have one that is not lower.        *)
LEMMA SearchOutranks ==
  ASSUME NEW best \in Rates, NEW ideal \in Rates, NEW N \in Nat, OutrankedOnly(best, ideal, N),
         NEW rows \in SUBSET DOMAIN purchase, Bought(rows) \subseteq Products, IsFiniteSet(Products),
         NEW sim, \A r \in rows : sim[r] \in Int,
         NEW hits, search(hits, rows, sim, N)
  PROVE  OutrankedOnly(BestRates(best, hits, sim), BestRates(ideal, rows, sim), N)
<1> DEFINE nb == BestRates(best, hits, sim)
           ni == BestRates(ideal, rows, sim)
<1>1. /\ hits \in SUBSET DOMAIN purchase /\ hits \subseteq rows
      /\ Bought(hits) \subseteq Products /\ Bought(hits) \subseteq Bought(rows)
      /\ \A r \in hits : sim[r] \in Int
  BY DEF search, Bought
<1>2. /\ nb \in Rates /\ DOMAIN nb = (DOMAIN best) \cup Bought(hits)
      /\ \A p \in DOMAIN best : best[p] <= nb[p]
      /\ \A r \in hits : match_rate(sim[r]) <= nb[purchase[r].product]
      /\ \A p \in DOMAIN nb :
           \/ p \in DOMAIN best /\ nb[p] = best[p]
           \/ \E r \in hits : purchase[r].product = p /\ nb[p] = match_rate(sim[r])
  <2>1. RatedBy(nb, best, hits, sim)
    BY <1>1, RatesAre
  <2> HIDE DEF nb
  <2> QED BY <2>1 DEF RatedBy
<1>3. /\ ni \in Rates /\ DOMAIN ni = (DOMAIN ideal) \cup Bought(rows)
      /\ \A p \in DOMAIN ideal : ideal[p] <= ni[p]
      /\ \A r \in rows : match_rate(sim[r]) <= ni[purchase[r].product]
      /\ \A p \in DOMAIN ni :
           \/ p \in DOMAIN ideal /\ ni[p] = ideal[p]
           \/ \E r \in rows : purchase[r].product = p /\ ni[p] = match_rate(sim[r])
  <2>1. RatedBy(ni, ideal, rows, sim)
    BY RatesAre
  <2> HIDE DEF ni
  <2> QED BY <2>1 DEF RatedBy
<1> HIDE DEF nb, ni
<1>4. \A f \in Rates : \A p \in DOMAIN f : f[p] \in Int
  BY ConstantTypes DEF Rates
<1>5. /\ DOMAIN best \subseteq DOMAIN ideal /\ \A p \in DOMAIN best : best[p] <= ideal[p]
      /\ \A p \in DOMAIN ideal :
           \/ p \in DOMAIN best /\ best[p] = ideal[p]
           \/ \E others \in SUBSET (DOMAIN best \ {p}) :
                Cardinality(others) = N /\ \A o \in others : ideal[p] <= best[o]
  BY DEF OutrankedOnly
<1>6. DOMAIN nb \subseteq DOMAIN ni
  BY <1>1, <1>2, <1>3, <1>5
<1>7. ASSUME NEW p \in DOMAIN nb PROVE nb[p] <= ni[p]
  <2>1. CASE p \in DOMAIN best /\ nb[p] = best[p]
    <3>1. p \in DOMAIN ideal /\ best[p] <= ideal[p] /\ ideal[p] <= ni[p] /\ p \in DOMAIN ni
      BY <1>3, <1>5, <2>1
    <3>2. best[p] \in Int /\ ideal[p] \in Int /\ ni[p] \in Int
      BY <1>3, <1>4, <2>1, <3>1
    <3> QED BY <2>1, <3>1, <3>2
  <2>2. CASE \E r \in hits : purchase[r].product = p /\ nb[p] = match_rate(sim[r])
    BY <1>1, <1>3, <2>2
  <2> QED BY <1>2, <2>1, <2>2
<1>8. ASSUME NEW p \in DOMAIN ni
      PROVE  \/ p \in DOMAIN nb /\ nb[p] = ni[p]
             \/ \E others \in SUBSET (DOMAIN nb \ {p}) :
                  Cardinality(others) = N /\ \A o \in others : ni[p] <= nb[o]
  <2>1. ASSUME p \in DOMAIN nb, ni[p] <= nb[p] PROVE nb[p] = ni[p]
    BY <1>2, <1>3, <1>4, <1>7, <2>1
  <2>2. CASE p \in DOMAIN ideal /\ ni[p] = ideal[p]
    <3>1. CASE p \in DOMAIN best /\ best[p] = ideal[p]
      BY <1>2, <2>1, <2>2, <3>1
    <3>2. ASSUME NEW others \in SUBSET (DOMAIN best \ {p}), Cardinality(others) = N,
                 \A o \in others : ideal[p] <= best[o]
          PROVE  \E few \in SUBSET (DOMAIN nb \ {p}) :
                   Cardinality(few) = N /\ \A o \in few : ni[p] <= nb[o]
      <4>1. others \in SUBSET (DOMAIN nb \ {p})
        BY <1>2
      <4>2. ASSUME NEW o \in others PROVE ni[p] <= nb[o]
        <5>1. o \in DOMAIN best /\ o \in DOMAIN nb /\ ideal[p] <= best[o] /\ best[o] <= nb[o]
          BY <1>2, <3>2
        <5>2. ideal[p] \in Int /\ best[o] \in Int /\ nb[o] \in Int
          BY <1>2, <1>4, <2>2, <5>1
        <5> QED BY <2>2, <5>1, <5>2
      <4> QED BY <3>2, <4>1, <4>2
    <3> QED BY <1>5, <2>2, <3>1, <3>2
  <2>3. ASSUME NEW r \in rows, purchase[r].product = p, ni[p] = match_rate(sim[r])
        PROVE  \/ p \in DOMAIN nb /\ nb[p] = ni[p]
               \/ \E others \in SUBSET (DOMAIN nb \ {p}) :
                    Cardinality(others) = N /\ \A o \in others : ni[p] <= nb[o]
    <3>1. ASSUME NEW s \in hits, sim[r] <= sim[s]
          PROVE  /\ purchase[s].product \in DOMAIN nb
                 /\ ni[p] <= nb[purchase[s].product]
      <4>1. match_rate(sim[r]) <= match_rate(sim[s])
        BY <1>1, <3>1, RateBounds
      <4>2. match_rate(sim[s]) <= nb[purchase[s].product] /\ purchase[s].product \in DOMAIN nb
        BY <1>2 DEF Bought
      <4>3. match_rate(sim[r]) \in Int /\ match_rate(sim[s]) \in Int /\ nb[purchase[s].product] \in Int
        BY <1>1, <1>2, <1>4, <4>2, RateBounds, ConstantTypes
      <4> QED BY <2>3, <4>1, <4>2, <4>3
    <3>2. CASE p \in Bought(hits)
      <4>1. PICK s \in hits : purchase[s].product = p
        BY <3>2 DEF Bought
      <4>2. sim[r] <= sim[s]
        BY <2>3, <4>1 DEF search, BestOfProduct
      <4> QED BY <2>1, <3>1, <4>1, <4>2
    <3>3. CASE p \notin Bought(hits)
      <4>1. IsFiniteSet(Bought(hits)) /\ IsFiniteSet(Bought(rows))
        BY <1>1, FS_Subset
      <4>2. \A s, t \in hits : purchase[s].product = purchase[t].product => s = t
        BY <1>1 DEF search, BestOfProduct
      <4>3. Cardinality(Bought(hits)) = Cardinality(hits)
        BY <4>1, <4>2, HitsAreProducts
      <4>4. Cardinality(Bought(hits)) < Cardinality(Bought(rows))
        <5>1. p \in Bought(rows)
          BY <2>3 DEF Bought
        <5>2. Bought(hits) # Bought(rows) /\ Bought(hits) \subseteq Bought(rows)
          BY <1>1, <3>3, <5>1
        <5>3. Cardinality(Bought(hits)) \in Nat /\ Cardinality(Bought(rows)) \in Nat
          BY <4>1, FS_CardinalityType
        <5>4. /\ Cardinality(Bought(hits)) <= Cardinality(Bought(rows))
              /\ Cardinality(Bought(hits)) # Cardinality(Bought(rows))
          BY <4>1, <5>2, FS_Subset
        <5> QED BY <5>3, <5>4
      <4>5. Cardinality(Bought(hits)) = N
        <5>1. Cardinality(hits) = Smaller(N, Cardinality(Bought(rows)))
          BY DEF search
        <5>2. Cardinality(Bought(hits)) \in Nat /\ Cardinality(Bought(rows)) \in Nat
          BY <4>1, FS_CardinalityType
        <5> QED BY <4>3, <4>4, <5>1, <5>2 DEF Smaller
      <4>6. Bought(hits) \in SUBSET (DOMAIN nb \ {p})
        BY <1>2, <3>3
      <4>7. ASSUME NEW o \in Bought(hits) PROVE ni[p] <= nb[o]
        <5>1. PICK s \in hits : purchase[s].product = o
          BY DEF Bought
        <5>2. sim[r] <= sim[s]
          BY <2>3, <3>3 DEF search
        <5> QED BY <3>1, <5>1, <5>2
      <4> QED BY <4>5, <4>6, <4>7
    <3> QED BY <3>2, <3>3
  <2> QED BY <1>3, <2>2, <2>3
<1> QED BY <1>6, <1>7, <1>8 DEF OutrankedOnly, nb, ni

LEMMA CandidatesKeepsIInv == IInv /\ candidates => IInv'
<1> SUFFICES ASSUME IInv, candidates PROVE IInv'
  OBVIOUS
<1> DEFINE rows == Hits(request.profile)
<1>1. request.step = "search" /\ request.left > 0 /\ UNCHANGED <<tables, indexed, cache, loading, wanted>>
  BY DEF candidates
<1>2. PICK sim \in [rows -> Sims] : \E hits \in SUBSET rows :
           /\ search(hits, rows, sim, Searched)
           /\ request' = [request EXCEPT !.left = @ - 1,
                            !.best = BestRates(@, hits, sim),
                            !.ideal = BestRates(@, rows, sim)]
  BY DEF candidates
<1>3. PICK hits \in SUBSET rows :
           /\ search(hits, rows, sim, Searched)
           /\ request' = [request EXCEPT !.left = @ - 1,
                            !.best = BestRates(@, hits, sim),
                            !.ideal = BestRates(@, rows, sim)]
  BY <1>2
<1>4. request \in Searching
  BY <1>1, StepTells DEF IInv, TypeOK
<1>5. /\ rows \in SUBSET DOMAIN purchase /\ IsFiniteSet(Products)
      /\ \A r \in rows : purchase[r].product \in Products
                         /\ PassesAllergy(purchase[r].product, request.profile.allergy)
  BY DEF Hits, build_where, IInv, TypeOK, RowsOK, Products
<1>6. Searched \in Nat
  BY ConstantTypes DEF Searched
<1>7. \A r \in rows : sim[r] \in Int
  BY <1>2, ConstantTypes
<1> DEFINE nb == BestRates(request.best, hits, sim)
           ni == BestRates(request.ideal, rows, sim)
<1> HIDE DEF rows
<1>8. Bought(rows) \subseteq Products /\ Bought(hits) \subseteq Products
  BY <1>3, <1>5 DEF Bought
<1>9. request.best \in Rates /\ request.ideal \in Rates
  BY <1>4 DEF Searching
<1>10. RatedBy(nb, request.best, hits, sim) /\ RatedBy(ni, request.ideal, rows, sim)
  <2>1. hits \in SUBSET DOMAIN purchase /\ \A r \in hits : sim[r] \in Int
    BY <1>3, <1>5, <1>7
  <2> QED BY <1>5, <1>7, <1>8, <1>9, <2>1, RatesAre
<1>11. OutrankedOnly(nb, ni, Searched)
  <2>1. OutrankedOnly(request.best, request.ideal, Searched)
    BY <1>1 DEF IInv, RatesHold
  <2> QED BY <1>3, <1>5, <1>6, <1>7, <1>8, <1>9, <2>1, SearchOutranks
<1>12. request' = [request EXCEPT !.left = @ - 1, !.best = nb, !.ideal = ni]
  BY <1>3
<1> HIDE DEF nb, ni
<1>13. /\ request' \in Searching /\ request'.best = nb /\ request'.ideal = ni
       /\ request'.but = request.but /\ request'.free = request.free
       /\ request'.profile = request.profile /\ request'.step = "search"
  <2>1. nb \in Rates /\ ni \in Rates
    BY <1>10 DEF RatedBy
  <2>2. request.left - 1 \in 0..2
    BY <1>1, <1>4 DEF Searching
  <2> QED BY <1>4, <1>12, <2>1, <2>2 DEF Searching
<1>14. TypeOK'
  <2>1. request' \in Requests'
    BY <1>1, <1>13 DEF Searching, Requests, Elsewhere, Profiling, Picking, Products, Rates, tables, masters
  <2> QED BY <1>1, <2>1 DEF IInv, TypeOK, tables, masters
<1>15. PicksKept' /\ Served'
  <2>1. cache # Down
    BY <1>1 DEF IInv, Served, Idle
  <2> QED BY <1>1, <2>1 DEF IInv, PicksKept, Served, Ids, tables, masters
<1>16. ProfileHasPicks'
  BY <1>1, <1>13 DEF IInv, ProfileHasPicks, Ids, tables, masters
<1>17. RatedPass'
  <2>1. ASSUME NEW p \in DOMAIN nb PROVE PassesAllergy(p, request.profile.allergy)
    <3>1. CASE p \in DOMAIN request.best
      BY <1>1, <3>1 DEF IInv, RatedPass
    <3>2. CASE p \in Bought(hits)
      BY <1>3, <1>5, <3>2 DEF Bought
    <3> QED BY <1>10, <3>1, <3>2 DEF RatedBy
  <2> QED BY <1>1, <1>13, <2>1 DEF RatedPass, PassesAllergy, AllergensOf, tables, masters
<1>18. RatesHold' /\ DrawnLeft'
  BY <1>11, <1>13 DEF RatesHold, DrawnLeft, Searched
<1> QED BY <1>14, <1>15, <1>16, <1>17, <1>18 DEF IInv

LEMMA AnsweredKeepsIInv == IInv /\ candidates_for_queries => IInv'
BY IdleKeepsIInv DEF candidates_for_queries

-----------------------------------------------------------------------------
(* Members, administrators, operators.                                     *)

(* What the server resolves from fresh caches is all that lies under the   *)
(* picks.                                                                  *)
LEMMA ResolvedCoversPicks ==
  ASSUME TypeOK, Fresh, NEW names, NEW n \in names, NEW a \in Ids, LiesUnder(allergen, a, n)
  PROVE  a \in resolve_allergen_ids(names)
<1>1. PICK b \in DOMAIN allergen :
        allergen[b].name = n /\ a \in {b} \cup _descendant_ids(allergen, b)
  BY DescendantsLieUnder DEF TypeOK, Ids
<1> QED BY <1>1 DEF Fresh, resolve_allergen_ids

LEMMA ProductsKeepIInv ==
  ASSUME IInv, UNCHANGED <<masters, pet, purchase, cache, loading, request, wanted>>,
         RowsOK(allergen, carries, product, pet, purchase)',
         Products \subseteq Products',
         \A p \in Products : product'[p].ingredients = product[p].ingredients
  PROVE  IInv'
<1> USE DEF masters
<1>1. Rates \subseteq Rates'
  BY DEF Rates
<1>2. request' \in Requests'
  <2>1. request \in Requests
    BY DEF IInv, TypeOK
  <2>2. /\ Elsewhere \subseteq Elsewhere' /\ Profiling \subseteq Profiling'
        /\ Searching \subseteq Searching' /\ Picking \subseteq Picking'
    <3>1. Elsewhere \subseteq Elsewhere'
      BY DEF Elsewhere
    <3>2. Profiling \subseteq Profiling'
      BY DEF Profiling
    <3>3. Searching \subseteq Searching'
      BY <1>1 DEF Searching
    <3>4. Picking \subseteq Picking'
      BY DEF Picking
    <3> QED BY <3>1, <3>2, <3>3, <3>4
  <2> QED BY <2>1, <2>2 DEF Requests
<1>3. TypeOK'
  BY <1>2 DEF IInv, TypeOK
<1>4. PicksKept' /\ ProfileHasPicks' /\ DrawnLeft' /\ Served'
  BY DEF IInv, PicksKept, ProfileHasPicks, DrawnLeft, Served, Ids
<1>5. RatedPass'
  <2> SUFFICES ASSUME request.step = "search", NEW p \in DOMAIN request.best
               PROVE  PassesAllergy(p, request.profile.allergy)'
    BY DEF RatedPass, PassesAllergy
  <2>1. request \in Searching
    BY StepTells DEF IInv, TypeOK
  <2>2. p \in Products
    BY <2>1 DEF Searching, Rates
  <2>3. PassesAllergy(p, request.profile.allergy)
    BY DEF IInv, RatedPass
  <2> QED BY <2>2, <2>3 DEF PassesAllergy, AllergensOf
<1>6. RatesHold'
  BY DEF IInv, RatesHold, Searched
<1> QED BY <1>3, <1>4, <1>5, <1>6 DEF IInv

LEMMA UpdateProductKeepsIInv ==
  ASSUME NEW p, NEW active \in 0..1, NEW verified \in 0..1
  PROVE  IInv /\ update_product(p, active, verified) => IInv'
<1> SUFFICES ASSUME IInv, update_product(p, active, verified) PROVE IInv'
  OBVIOUS
<1>1. /\ p \in Products /\ UNCHANGED <<masters, pet, purchase, cache, loading, request, wanted>>
      /\ product' = [product EXCEPT ![p].active = active, ![p].verified = verified]
  BY DEF update_product, Products
<1>2. product \in [Products -> Product]
  BY DEF IInv, TypeOK, RowsOK, Products
<1>3. /\ product' \in [Products -> Product] /\ Products' = Products
      /\ \A o \in Products : product'[o].ingredients = product[o].ingredients
  BY <1>1, <1>2 DEF Product, Products
<1>4. RowsOK(allergen, carries, product, pet, purchase)'
  BY <1>1, <1>3 DEF IInv, TypeOK, RowsOK, Products, masters
<1> QED BY <1>1, <1>3, <1>4, ProductsKeepIInv

LEMMA CreateProductKeepsIInv ==
  ASSUME NEW p \in NewProducts, NEW active \in 0..1, NEW verified \in 0..1
  PROVE  IInv /\ create_product(p, active, verified) => IInv'
<1> SUFFICES ASSUME IInv, create_product(p, active, verified) PROVE IInv'
  OBVIOUS
<1> DEFINE row == [active |-> active, verified |-> verified, ingredients |-> {},
                   animals |-> {}, says |-> {}]
<1>1. /\ p \notin Products /\ UNCHANGED <<masters, pet, purchase, cache, loading, request, wanted>>
      /\ product' = [x \in Products \cup {p} |-> IF x # p THEN product[x] ELSE row]
  BY DEF create_product, Products
<1>2. product \in [Products -> Product] /\ IsFiniteSet(Products) /\ Products \subseteq Nat \ {0}
  BY DEF IInv, TypeOK, RowsOK, Products
<1>3. row \in Product
  BY DEF Product
<1> HIDE DEF row
<1>4. /\ Products' = Products \cup {p} /\ product' \in [Products' -> Product]
      /\ \A o \in Products : product'[o] = product[o]
  BY <1>1, <1>2, <1>3 DEF Products
<1>5. IsFiniteSet(Products') /\ Products' \subseteq Nat \ {0}
  <2>1. NewProducts \subseteq Nat \ {0}
    BY CatalogueConstantsOK
  <2> QED BY <1>2, <1>4, <2>1, FS_AddElement
<1>6. RowsOK(allergen, carries, product, pet, purchase)'
  BY <1>1, <1>4, <1>5 DEF IInv, TypeOK, RowsOK, Products, masters
<1> QED BY <1>1, <1>4, <1>6, ProductsKeepIInv

(* Pets and purchases change, or are new.                                  *)
LEMMA PetsKeepIInv ==
  ASSUME IInv, UNCHANGED <<masters, product, cache, loading>>, DOMAIN pet \subseteq DOMAIN pet',
         RowsOK(allergen, carries, product, pet, purchase)',
         wanted' \in [DOMAIN pet' -> {Unknown} \cup SUBSET Names], PicksKept',
         \/ request' = request
         \/ request' \in Elsewhere /\ DrawnLeft' /\ cache # Down
  PROVE  IInv'
<1> USE DEF masters
<1>1. request' \in Requests'
  <2>1. CASE request' = request
    <3>1. request' \in Requests
      BY <2>1 DEF IInv, TypeOK
    <3>2. Elsewhere' = Elsewhere /\ Searching' = Searching /\ Picking' = Picking
      BY DEF Elsewhere, Searching, Picking, Rates, Products
    <3>3. Profiling \subseteq Profiling'
      BY DEF Profiling, Products
    <3> QED BY <3>1, <3>2, <3>3 DEF Requests
  <2>2. CASE request' \in Elsewhere
    BY <2>2 DEF Requests, Elsewhere
  <2> QED BY <2>1, <2>2
<1>2. TypeOK'
  BY <1>1 DEF IInv, TypeOK
<1>3. Served'
  BY DEF IInv, Served, Idle
<1>4. ProfileHasPicks' /\ RatedPass' /\ RatesHold' /\ DrawnLeft'
  <2>1. CASE request' = request
    BY <2>1 DEF IInv, ProfileHasPicks, RatedPass, RatesHold, DrawnLeft, Ids, PassesAllergy,
                AllergensOf, Searched
  <2>2. CASE request' \in Elsewhere /\ DrawnLeft'
    BY <2>2 DEF Elsewhere, ProfileHasPicks, RatedPass, RatesHold
  <2> QED BY <2>1, <2>2
<1> QED BY <1>2, <1>3, <1>4 DEF IInv

LEMMA UpdateCustomerKeepsIInv ==
  ASSUME NEW q, NEW names \in Picks
  PROVE  IInv /\ update_customer(q, names) => IInv'
<1> SUFFICES ASSUME IInv, update_customer(q, names) PROVE IInv'
  OBVIOUS
<1> DEFINE ids == resolve_allergen_ids(names)
           picked == IF Fresh THEN names ELSE Unknown
<1>1. /\ UNCHANGED <<masters, product, purchase, cache, loading, request>>
      /\ q \in DOMAIN pet /\ ids \subseteq DOMAIN allergen
      /\ pet' = [pet EXCEPT ![q].allergies = ids]
      /\ wanted' = [wanted EXCEPT ![q] = picked]
  BY DEF update_customer
<1>2. /\ pet \in [DOMAIN pet -> PetRow] /\ DOMAIN pet \subseteq Nat
      /\ \A x \in DOMAIN pet : pet[x].allergies \subseteq DOMAIN allergen
      /\ DOMAIN allergen \subseteq Nat
      /\ wanted \in [DOMAIN pet -> {Unknown} \cup SUBSET Names]
  BY DEF IInv, TypeOK, RowsOK, TreeOK
<1>3. picked \in {Unknown} \cup SUBSET Names
  BY CatalogueConstantsOK
<1>4. \A a \in Ids, n \in picked : picked # Unknown /\ LiesUnder(allergen, a, n) => a \in ids
  BY ResolvedCoversPicks DEF IInv
<1> HIDE DEF ids, picked
<1>5. /\ pet' \in [DOMAIN pet -> PetRow] /\ DOMAIN pet' = DOMAIN pet
      /\ \A x \in DOMAIN pet : pet'[x].allergies = IF x = q THEN ids ELSE pet[x].allergies
  BY <1>1, <1>2 DEF PetRow
<1>6. RowsOK(allergen, carries, product, pet, purchase)'
  BY <1>1, <1>2, <1>5 DEF IInv, TypeOK, RowsOK, masters
<1>7. /\ wanted' \in [DOMAIN pet' -> {Unknown} \cup SUBSET Names]
      /\ \A x \in DOMAIN pet : wanted'[x] = IF x = q THEN picked ELSE wanted[x]
  BY <1>1, <1>2, <1>3, <1>5
<1>8. PicksKept'
  BY <1>1, <1>4, <1>5, <1>7 DEF IInv, PicksKept, Ids, masters
<1> QED BY <1>1, <1>5, <1>6, <1>7, <1>8, PetsKeepIInv

LEMMA RegisterKeepsIInv == IInv /\ register => IInv'
<1> SUFFICES ASSUME IInv, register PROVE IInv'
  OBVIOUS
<1>1. /\ cache # Down /\ DemoPet \notin DOMAIN pet
      /\ UNCHANGED <<masters, product, purchase, cache, loading>>
  BY DEF register
<1>2. CASE request' = Idle /\ UNCHANGED <<pet, wanted>>
  BY <1>1, <1>2, IdleKeepsIInv DEF tables, masters
<1> DEFINE ids == resolve_allergen_ids({DemoName})
           blank == [owner |-> DemoOwner, animal |-> DemoAnimal, size |-> DemoSize,
                     allergies |-> {}, active |-> TRUE]
           row == [blank EXCEPT !.allergies = ids]
           picked == IF Fresh THEN {DemoName} ELSE Unknown
<1>3. ASSUME ids \subseteq DOMAIN allergen,
             pet' = [x \in DOMAIN pet \cup {DemoPet} |-> IF x = DemoPet THEN row ELSE pet[x]],
             wanted' = [x \in DOMAIN pet \cup {DemoPet} |->
                          IF x # DemoPet THEN wanted[x] ELSE picked],
             request' = [step |-> "draw"]
      PROVE  IInv'
  <2>1. /\ pet \in [DOMAIN pet -> PetRow] /\ DOMAIN pet \subseteq Nat
        /\ \A x \in DOMAIN pet : pet[x].allergies \subseteq DOMAIN allergen
        /\ DOMAIN allergen \subseteq Nat
        /\ wanted \in [DOMAIN pet -> {Unknown} \cup SUBSET Names]
    BY DEF IInv, TypeOK, RowsOK, TreeOK
  <2>2. picked \in {Unknown} \cup SUBSET Names
    BY CatalogueConstantsOK
  <2>3. \A a \in Ids, n \in picked : picked # Unknown /\ LiesUnder(allergen, a, n) => a \in ids
    BY ResolvedCoversPicks DEF IInv
  <2> HIDE DEF ids, picked
  <2>4. row \in PetRow /\ row.allergies = ids
    <3>1. ids \in SUBSET Nat
      BY <1>3, <2>1
    <3>2. DemoOwner \in Owners /\ DemoAnimal \in Animals /\ DemoSize \in 0..5
      BY CatalogueConstantsOK
    <3> QED BY <3>1, <3>2 DEF PetRow
  <2> HIDE DEF row, blank
  <2>5. /\ DOMAIN pet' = (DOMAIN pet) \cup {DemoPet} /\ pet' \in [DOMAIN pet' -> PetRow]
        /\ \A x \in DOMAIN pet : pet'[x] = pet[x]
        /\ pet'[DemoPet] = row
    BY <1>1, <1>3, <2>1, <2>4
  <2>6. RowsOK(allergen, carries, product, pet, purchase)'
    <3>1. DemoPet \in Nat
      BY CatalogueConstantsOK
    <3>2. \A x \in DOMAIN pet' : pet'[x].allergies \subseteq DOMAIN allergen
      BY <1>3, <2>1, <2>4, <2>5
    <3> QED BY <1>1, <2>1, <2>5, <3>1, <3>2 DEF IInv, TypeOK, RowsOK, masters
  <2>7. /\ wanted' \in [DOMAIN pet' -> {Unknown} \cup SUBSET Names]
        /\ \A x \in DOMAIN pet : wanted'[x] = wanted[x]
        /\ wanted'[DemoPet] = picked
    BY <1>1, <1>3, <2>1, <2>2, <2>5
  <2>8. PicksKept'
    <3> SUFFICES ASSUME NEW x \in DOMAIN pet', wanted'[x] # Unknown,
                        NEW a \in Ids, NEW n \in wanted'[x], LiesUnder(allergen, a, n)
                 PROVE  a \in pet'[x].allergies
      BY <1>1 DEF PicksKept, Ids, masters
    <3>1. CASE x = DemoPet
      BY <2>3, <2>4, <2>5, <2>7, <3>1
    <3>2. CASE x \in DOMAIN pet
      BY <2>5, <2>7, <3>2 DEF IInv, PicksKept
    <3> QED BY <2>5, <3>1, <3>2
  <2>9. request' \in Elsewhere /\ DrawnLeft'
    BY <1>3 DEF Elsewhere, DrawnLeft
  <2> QED BY <1>1, <2>5, <2>6, <2>7, <2>8, <2>9, PetsKeepIInv
<1> QED BY <1>2, <1>3 DEF register, SignsUp

LEMMA BuyKeepsIInv == IInv /\ buy => IInv'
<1> SUFFICES ASSUME IInv, buy PROVE IInv'
  OBVIOUS
<1>1. /\ request.step = "buy" /\ request.row = 0 /\ cache # Down
      /\ UNCHANGED <<masters, product, pet, cache, loading, wanted>>
  BY DEF buy, IInv, Served, Idle
<1>2. /\ request \in [step: {"buy"}, drawn: SUBSET Nat, row: Nat]
      /\ IsFiniteSet(request.drawn) /\ request.drawn # {} /\ Cardinality(request.drawn) <= DemoCount
  BY <1>1, StepTells DEF IInv, TypeOK, DrawnLeft
<1>3. CASE request' = Idle /\ UNCHANGED purchase
  BY <1>1, <1>3, IdleKeepsIInv DEF tables, masters
<1> DEFINE r == DemoRows[DemoCount + 1 - Cardinality(request.drawn)]
<1>4. ASSUME NEW p \in request.drawn, DemoPet \in DOMAIN pet, p \in DOMAIN product,
             purchase' = [x \in DOMAIN purchase \cup {r} |->
                            IF x # r THEN purchase[x]
                            ELSE [product |-> p, pet |-> DemoPet,
                                  size |-> NoSize, rating |-> 0]],
             request' = [request EXCEPT !.drawn = @ \ {p}, !.row = r]
      PROVE  IInv'
  <2>1. Cardinality(request.drawn) \in 1..DemoCount
    <3>1. Cardinality(request.drawn) \in Nat /\ Cardinality(request.drawn) # 0
      BY <1>2, FS_CardinalityType, FS_EmptySet
    <3>2. DemoCount \in Nat
      BY CatalogueConstantsOK
    <3> QED BY <1>2, <3>1, <3>2
  <2>2. r \in Nat \ {0}
    <3> HIDE DEF r
    <3>1. DemoCount \in Nat /\ DemoRows \in [1..DemoCount -> Nat \ {0}]
      BY CatalogueConstantsOK
    <3>2. DemoCount + 1 - Cardinality(request.drawn) \in 1..DemoCount
      BY <2>1, <3>1
    <3> QED BY <3>1, <3>2 DEF r
  <2> DEFINE new == [product |-> p, pet |-> DemoPet, size |-> NoSize, rating |-> 0]
  <2>3. /\ purchase \in [DOMAIN purchase -> PurchaseRow] /\ DOMAIN purchase \subseteq Nat
        /\ pet \in [DOMAIN pet -> PetRow] /\ DOMAIN pet \subseteq Nat /\ DOMAIN product \subseteq Nat
        /\ \A x \in DOMAIN purchase :
             purchase[x].product \in DOMAIN product /\ purchase[x].pet \in DOMAIN pet
    BY DEF IInv, TypeOK, RowsOK
  <2>4. new \in PurchaseRow /\ new.product \in DOMAIN product /\ new.pet \in DOMAIN pet
    BY <1>4, <2>3 DEF PurchaseRow, NoSize
  <2>5. purchase' = [x \in DOMAIN purchase \cup {r} |-> IF x # r THEN purchase[x] ELSE new]
    BY <1>4
  <2> HIDE DEF new, r
  <2>6. /\ DOMAIN purchase' \subseteq Nat /\ purchase' \in [DOMAIN purchase' -> PurchaseRow]
        /\ \A x \in DOMAIN purchase' :
             purchase'[x].product \in DOMAIN product /\ purchase'[x].pet \in DOMAIN pet
    BY <2>2, <2>3, <2>4, <2>5
  <2>7. RowsOK(allergen, carries, product, pet, purchase)'
    BY <1>1, <2>6 DEF IInv, TypeOK, RowsOK, masters
  <2>8. request' \in Elsewhere /\ DrawnLeft'
    <3>1. /\ request'.step = "buy" /\ request'.row = r /\ request'.drawn = request.drawn \ {p}
          /\ request' \in [step: {"buy"}, drawn: SUBSET Nat, row: Nat]
      BY <1>2, <1>4, <2>2
    <3>2. /\ IsFiniteSet(request.drawn \ {p})
          /\ Cardinality(request.drawn \ {p}) = Cardinality(request.drawn) - 1
      BY <1>2, <1>4, FS_RemoveElement
    <3>3. Cardinality(request.drawn \ {p}) <= DemoCount
      <4>1. DemoCount \in Nat
        BY CatalogueConstantsOK
      <4> QED BY <2>1, <3>2, <4>1
    <3>4. DrawnLeft'
      BY <2>2, <3>1, <3>2, <3>3 DEF DrawnLeft
    <3> QED BY <3>1, <3>4 DEF Elsewhere
  <2>9. PicksKept'
    BY <1>1 DEF IInv, PicksKept, Ids, masters
  <2>10. wanted' \in [DOMAIN pet' -> {Unknown} \cup SUBSET Names]
    BY <1>1 DEF IInv, TypeOK
  <2> QED BY <1>1, <2>7, <2>8, <2>9, <2>10, PetsKeepIInv
<1>5. PICK p \in request.drawn :
        IF DemoPet \in DOMAIN pet /\ p \in DOMAIN product /\ r \notin DOMAIN purchase
        THEN /\ purchase' = [x \in DOMAIN purchase \cup {r} |->
                               IF x # r THEN purchase[x]
                               ELSE [product |-> p, pet |-> DemoPet,
                                     size |-> NoSize, rating |-> 0]]
             /\ request' = [request EXCEPT !.drawn = @ \ {p}, !.row = r]
        ELSE request' = Idle /\ UNCHANGED purchase
  BY Zenon DEF buy
<1> HIDE DEF r
<1>6. CASE DemoPet \in DOMAIN pet /\ p \in DOMAIN product /\ r \notin DOMAIN purchase
  <2>1. /\ purchase' = [x \in DOMAIN purchase \cup {r} |->
                          IF x # r THEN purchase[x]
                          ELSE [product |-> p, pet |-> DemoPet,
                                size |-> NoSize, rating |-> 0]]
        /\ request' = [request EXCEPT !.drawn = @ \ {p}, !.row = r]
    BY <1>5, <1>6
  <2> QED BY <1>4, <1>6, <2>1, Zenon
<1> QED BY <1>3, <1>5, <1>6

LEMMA WriteReviewKeepsIInv == IInv /\ write_review => IInv'
<1> SUFFICES ASSUME IInv, write_review PROVE IInv'
  OBVIOUS
<1>1. /\ request.step = "buy" /\ request.row # 0 /\ cache # Down
      /\ UNCHANGED <<masters, product, pet, cache, loading, wanted>>
  BY DEF write_review, IInv, Served, Idle
<1>2. /\ request \in [step: {"buy"}, drawn: SUBSET Nat, row: Nat]
      /\ IsFiniteSet(request.drawn) /\ Cardinality(request.drawn) <= DemoCount
  BY <1>1, StepTells DEF IInv, TypeOK, DrawnLeft
<1>3. CASE request' = Idle /\ UNCHANGED purchase
  BY <1>1, <1>3, IdleKeepsIInv DEF tables, masters
<1>4. ASSUME request.row \in DOMAIN purchase,
             purchase' = [purchase EXCEPT ![request.row].rating = MinRating],
             request' = IF request.drawn = {} THEN Idle ELSE [request EXCEPT !.row = 0]
      PROVE  IInv'
  <2>1. /\ purchase \in [DOMAIN purchase -> PurchaseRow] /\ DOMAIN purchase \subseteq Nat
        /\ \A x \in DOMAIN purchase :
             purchase[x].product \in DOMAIN product /\ purchase[x].pet \in DOMAIN pet
    BY DEF IInv, TypeOK, RowsOK
  <2>2. MinRating \in 0..5
    BY CatalogueConstantsOK
  <2>3. /\ DOMAIN purchase' = DOMAIN purchase /\ purchase' \in [DOMAIN purchase -> PurchaseRow]
        /\ \A x \in DOMAIN purchase :
             purchase'[x].product = purchase[x].product /\ purchase'[x].pet = purchase[x].pet
    BY <1>4, <2>1, <2>2 DEF PurchaseRow
  <2>4. RowsOK(allergen, carries, product, pet, purchase)'
    BY <1>1, <2>1, <2>3 DEF IInv, TypeOK, RowsOK, masters
  <2>5. request' \in Elsewhere /\ DrawnLeft'
    <3>1. CASE request.drawn = {}
      BY <1>4, <3>1 DEF Elsewhere, DrawnLeft, Idle
    <3>2. CASE request.drawn # {}
      BY <1>2, <1>4, <3>2 DEF Elsewhere, DrawnLeft
    <3> QED BY <3>1, <3>2
  <2>6. PicksKept'
    BY <1>1 DEF IInv, PicksKept, Ids, masters
  <2>7. wanted' \in [DOMAIN pet' -> {Unknown} \cup SUBSET Names]
    BY <1>1 DEF IInv, TypeOK
  <2> QED BY <1>1, <2>4, <2>5, <2>6, <2>7, PetsKeepIInv
<1> QED BY <1>3, <1>4 DEF write_review

-----------------------------------------------------------------------------
(* Operators.                                                              *)

(* The tables of every load are as Init has them: what the pets then have  *)
(* are the picks.                                                          *)
LEMMA LoadsAreOK ==
  ASSUME NEW l \in Loads
  PROVE  /\ TreeOK(l.allergen) /\ RowsOK(l.allergen, l.carries, l.product, l.pet, l.purchase)
         /\ PickedIn(l) \in [DOMAIN l.pet -> SUBSET Names]
         /\ \A q \in DOMAIN l.pet, a \in DOMAIN l.allergen : \A n \in PickedIn(l)[q] :
              LiesUnder(l.allergen, a, n) => a \in l.pet[q].allergies
<1>1. /\ TreeOK(l.allergen) /\ RowsOK(l.allergen, l.carries, l.product, l.pet, l.purchase)
      /\ SpreadOut(l.allergen, l.pet)
  BY CatalogueConstantsOK
<1>2. PickedIn(l) \in [DOMAIN l.pet -> SUBSET Names]
  BY <1>1 DEF PickedIn, NameOf, TreeOK, RowsOK
<1>3. ASSUME NEW q \in DOMAIN l.pet, NEW a \in DOMAIN l.allergen, NEW n \in PickedIn(l)[q],
             LiesUnder(l.allergen, a, n)
      PROVE  a \in l.pet[q].allergies
  <2>1. PICK c \in l.pet[q].allergies : l.allergen[c].name = n
    BY DEF PickedIn, NameOf
  <2>2. c \in l.pet[q].allergies \cap DOMAIN l.allergen
    BY <1>1, <2>1 DEF RowsOK
  <2> QED BY <1>1, <1>3, <2>1, <2>2, SpreadOutLiesUnder DEF SpreadOut
<1> QED BY <1>1, <1>2, <1>3

(* load_csv waits for a request that is reading: no other holds on to what *)
(* it drops.                                                               *)
LEMMA LoadKeepsIInv == ASSUME NEW l \in Loads PROVE IInv /\ load_csv(l) => IInv'
<1> SUFFICES ASSUME IInv, load_csv(l) PROVE IInv'
  OBVIOUS
<1>1. ~Reading /\ UNCHANGED <<cache, request>> /\ loading' = FALSE /\ TablesOf(l)
  BY DEF load_csv
<1>2. request \in Elsewhere
  <2>1. ASSUME NEW x \in Profiling PROVE x.step = "profile"
    BY DEF Profiling
  <2>2. ASSUME NEW x \in Searching PROVE x.step = "search"
    BY DEF Searching
  <2>3. ASSUME NEW x \in Picking PROVE x.step = "pick"
    BY Zenon DEF Picking
  <2>4. request \in Requests /\ request.step \notin {"profile", "search", "pick"}
    BY <1>1 DEF IInv, TypeOK, Reading
  <2> QED BY <2>1, <2>2, <2>3, <2>4 DEF Requests
<1>3. wanted' \in [DOMAIN pet' -> {Unknown} \cup SUBSET Names]
  BY <1>1, LoadsAreOK DEF TablesOf
<1>4. TypeOK'
  <2>1. request' \in Requests'
    BY <1>1, <1>2 DEF Requests, Elsewhere
  <2>2. TreeOK(allergen)' /\ RowsOK(allergen, carries, product, pet, purchase)'
    BY <1>1, LoadsAreOK DEF TablesOf
  <2> QED BY <1>1, <1>3, <2>1, <2>2 DEF IInv, TypeOK
<1>5. PicksKept'
  BY <1>1, LoadsAreOK DEF TablesOf, PicksKept, Ids
<1>6. request.step # "search"
  BY <1>1 DEF Reading
<1>7. ProfileHasPicks' /\ RatedPass' /\ RatesHold' /\ DrawnLeft' /\ Served'
  BY <1>1, <1>6 DEF IInv, ProfileHasPicks, RatedPass, RatesHold, DrawnLeft, Served, Idle
<1> QED BY <1>4, <1>5, <1>7 DEF IInv

LEMMA NextKeepsIInv == IInv /\ [Next]_vars => IInv'
<1> SUFFICES ASSUME IInv, [Next]_vars PROVE IInv'
  OBVIOUS
<1> USE DEF tables
<1>0. loading \in BOOLEAN
  BY DEF IInv, TypeOK
<1>1. CASE UNCHANGED vars
  BY <1>0, <1>1, TablesKeepIInv DEF vars
<1>2. CASE \E u \in Owners : Begin(u) \/ similar_reviews_for(u)
  BY <1>2, BeginKeepsIInv, SimilarReviewsKeepsIInv
<1>3. CASE register
  BY <1>3, RegisterKeepsIInv
<1>4. CASE \E question \in Questions : Ask(question)
  BY <1>4, AskKeepsIInv
<1>5. CASE Handle
  BY <1>5, PrimaryPetKeepsIInv, PetProfileKeepsIInv, CandidatesKeepsIInv, AnsweredKeepsIInv,
     SearchAskedKeepsIInv, LookupKeepsIInv, RecommendKeepsIInv, SampleKeepsIInv, BuyKeepsIInv,
     WriteReviewKeepsIInv DEF Handle
<1>6. CASE \E q \in EditedPets, names \in Picks : update_customer(q, names)
  BY <1>6, UpdateCustomerKeepsIInv
<1>7. ASSUME NEW p \in AdminProducts, inactive_product(p) PROVE IInv'
  <2>1. product[p].verified \in 0..1
    BY <1>7 DEF inactive_product, IInv, TypeOK, RowsOK, Product
  <2> QED BY <1>7, <2>1, UpdateProductKeepsIInv DEF inactive_product
<1>8. ASSUME NEW p \in AdminProducts, NEW v \in Patches, update_product(p, v[1], v[2]) PROVE IInv'
  <2>1. v[1] \in 0..1 /\ v[2] \in 0..1
    BY CatalogueConstantsOK
  <2> QED BY <1>8, <2>1, UpdateProductKeepsIInv
<1>9. ASSUME NEW p \in NewProducts, NEW v \in Patches, create_product(p, v[1], v[2]) PROVE IInv'
  <2>1. v[1] \in 0..1 /\ v[2] \in 0..1
    BY CatalogueConstantsOK
  <2> QED BY <1>9, <2>1, CreateProductKeepsIInv
<1>10. CASE \E l \in Loads : load_csv(l)
  BY <1>10, LoadKeepsIInv
<1>11. CASE reindex
  BY <1>0, <1>11, TablesKeepIInv DEF reindex
<1>12. CASE init_from_db
  <2>1. TreeOK(allergen)
    BY DEF IInv, TypeOK
  <2>2. cache'.allergen = allergen /\ UNCHANGED <<tables, loading, wanted, request>>
    BY <1>12 DEF init_from_db
  <2>3. request = Idle
    BY <1>12 DEF init_from_db, IInv, Served
  <2> QED BY <1>0, <2>1, <2>2, <2>3, TablesKeepIInv
<1>13. CASE Stop
  BY <1>13, IdleKeepsIInv DEF Stop
<1>14. CASE begin_load \/ load_fails
  BY <1>14, TablesKeepIInv DEF begin_load, load_fails
<1>15. CASE deadlock
  <2>1. CASE request' = Idle /\ UNCHANGED loading
    BY <1>15, <2>1, IdleKeepsIInv DEF deadlock
  <2>2. CASE loading' = FALSE /\ UNCHANGED request
    BY <1>15, <2>2, TablesKeepIInv DEF deadlock
  <2> QED BY <1>15, <2>1, <2>2 DEF deadlock
<1> QED BY <1>1, <1>2, <1>3, <1>4, <1>5, <1>6, <1>7, <1>8, <1>9, <1>10, <1>11, <1>12, <1>13,
           <1>14, <1>15 DEF Next

-----------------------------------------------------------------------------
(* The type invariant and everything the invariants below need hold in     *)
(* every reachable state.                                                  *)
THEOREM SpecIInv == Spec => []IInv
<1>1. Init => IInv
  BY InitIInv
<1>2. IInv /\ [Next]_vars => IInv'
  BY NextKeepsIInv
<1> QED BY <1>1, <1>2, PTL DEF Spec

(* The tables keep their references, the caches a tree, and a request what *)
(* its step needs: no search holds a product that is not there, no profile *)
(* a pet that load_csv dropped, whatever the members, the administrators   *)
(* and the operators do between its steps.                                 *)
THEOREM SpecTypeOK == Spec => []TypeOK
<1>1. IInv => TypeOK
  BY DEF IInv
<1> QED BY <1>1, SpecIInv, PTL

-----------------------------------------------------------------------------
(* What the invariant gives.                                               *)

LEMMA AllergensAreThere ==
  ASSUME RowsOK(allergen, carries, product, pet, purchase), NEW p \in Products
  PROVE  AllergensOf(p, carries) \subseteq Ids
BY DEF RowsOK, Product, AllergensOf, Ids, Products

(* Nothing that a search for a pet answers, of any of its answers, has an  *)
(* allergen that is or lies under one picked for the pet.                  *)
THEOREM SpecSuggestedAreFree == Spec => []SuggestedAreFree
<1>1. ASSUME IInv PROVE SuggestedAreFree
  <2> SUFFICES ASSUME Answering, request.free # Unknown,
                      NEW answer \in Answers(request.best), NEW p \in answer,
                      NEW a \in AllergensOf(p, carries), NEW n \in request.free,
                      LiesUnder(allergen, a, n)
               PROVE  FALSE
    BY DEF SuggestedAreFree, FreeOf
  <2>1. request.step = "search" /\ request \in Searching
    BY <1>1, StepTells DEF Answering, IInv, TypeOK
  <2>2. p \in DOMAIN request.best /\ p \in Products
    BY <2>1 DEF Answers, Shown, Searching, Rates
  <2>3. a \in Ids
    BY <1>1, <2>2, AllergensAreThere DEF IInv, TypeOK
  <2>4. allergen[a].name \in request.profile.allergy
    BY <1>1, <2>1, <2>3 DEF IInv, ProfileHasPicks
  <2>5. allergen[a].name \in NameOf(allergen, AllergensOf(p, carries))
    BY DEF NameOf
  <2>6. PassesAllergy(p, request.profile.allergy)
    BY <1>1, <2>1, <2>2 DEF IInv, RatedPass
  <2> QED BY <2>4, <2>5, <2>6 DEF PassesAllergy
<1> QED BY <1>1, SpecIInv, PTL

(* The verdict from the caches, the verdict of the view and the filter of  *)
(* the search are the same while the caches are fresh: ids go to names and *)
(* back, for names are unique.                                             *)
THEOREM SpecThreePlacesAgree == Spec => []ThreePlacesAgree
<1>1. ASSUME IInv PROVE ThreePlacesAgree
  <2> SUFFICES ASSUME Fresh, NEW q \in DOMAIN pet, NEW p \in Products, InView(q, p),
                      product[p].ingredients # {}
               PROVE  /\ judge(p, pet[q].allergies) = v_product_safety(q, p)
                      /\ PassesAllergy(p, NameOf(allergen, pet[q].allergies))
                           = (judge(p, pet[q].allergies) # "warn")
    BY Zenon DEF ThreePlacesAgree
  <2> DEFINE ids == pet[q].allergies
             all == AllergensOf(p, carries)
  <2>1. _hit_allergens(p, ids) = all \cap ids
    BY DEF _hit_allergens, Fresh
  <2>2. judge(p, ids) = v_product_safety(q, p)
    BY <2>1 DEF judge, v_product_safety
  <2>3. (judge(p, ids) # "warn") <=> all \cap ids = {}
    BY <2>1 DEF judge
  <2>4. ids \subseteq Ids /\ all \subseteq Ids
    BY <1>1, AllergensAreThere DEF IInv, TypeOK, RowsOK, Ids
  <2>5. \A a, b \in Ids : allergen[a].name = allergen[b].name => a = b
    BY <1>1 DEF IInv, TypeOK, TreeOK, Ids
  <2> HIDE DEF ids, all
  <2>6. PassesAllergy(p, NameOf(allergen, ids)) <=> all \cap ids = {}
    <3>1. NameOf(allergen, ids) \cap NameOf(allergen, all) = {} <=> all \cap ids = {}
      BY <2>4, <2>5 DEF NameOf
    <3> QED BY <3>1 DEF PassesAllergy, all
  <2>7. PassesAllergy(p, NameOf(allergen, ids)) = (judge(p, ids) # "warn")
    BY <2>3, <2>6 DEF PassesAllergy
  <2> QED BY <2>2, <2>7 DEF ids
<1> QED BY <1>1, SpecIInv, PTL

(* With fresh caches a request for a pet is not dropped for an id that     *)
(* they do not know: only a server that stops ends it there.               *)
THEOREM SpecCachedIdsResolve == Spec => CachedIdsResolve
<1>1. ASSUME IInv, [Next]_vars, request.step = "profile", request' = Idle, Fresh
      PROVE  cache' = Down
  <2>1. request' # request
    BY <1>1 DEF Idle
  <2>2. CASE pet_profile
    <3>1. request.pet \in DOMAIN pet
      BY <1>1, StepTells DEF IInv, TypeOK
    <3>2. pet[request.pet].allergies \subseteq DOMAIN cache.allergen
      BY <1>1, <3>1 DEF IInv, TypeOK, RowsOK, Fresh
    <3>3. request'.step = "search"
      BY <2>2, <3>2 DEF pet_profile, Cached
    <3> QED BY <1>1, <3>3 DEF Idle
  <2>3. ~Free
    BY <1>1 DEF Free, Idle
  <2>4. CASE Stop
    BY <2>4 DEF Stop
  <2>5. CASE Handle /\ ~pet_profile
    BY <1>1, <2>5 DEF Handle, primary_pet, candidates, candidates_for_queries, Answering,
       search_asked, find_products_by_purchase_ids, recommend, sample, buy, write_review
  <2>6. \A q, names : ~update_customer(q, names)
    BY <2>1 DEF update_customer
  <2>7. \A p, v, w : ~update_product(p, v, w) /\ ~inactive_product(p) /\ ~create_product(p, v, w)
    BY <2>1 DEF update_product, inactive_product, create_product
  <2>8. /\ ~reindex /\ ~init_from_db
        /\ ~begin_load /\ ~load_fails /\ ~deadlock /\ \A l : ~load_csv(l)
    BY <1>1, <2>1 DEF reindex, init_from_db, begin_load, load_fails, deadlock, load_csv
  <2>9. /\ \A u : ~Begin(u) /\ ~similar_reviews_for(u)
        /\ ~register /\ \A question : ~Ask(question)
    BY <2>3 DEF Begin, similar_reviews_for, register, Ask
  <2>10. Next
    BY <1>1, <2>1 DEF vars
  <2> QED BY <2>2, <2>4, <2>5, <2>6, <2>7, <2>8, <2>9, <2>10 DEF Next
<1>2. IInv /\ [Next]_vars => (request.step = "profile" /\ request' = Idle => ~Fresh \/ cache' = Down)
  BY <1>1
<1> QED BY <1>2, SpecIInv, PTL DEF Spec, CachedIdsResolve

-----------------------------------------------------------------------------
(* The answer to several questions, each cut on its own.                   *)

(* Whoever is rated below its best row has as many above it as are shown,  *)
(* the one left out not counted.                                           *)
LEMMA EnoughAbove ==
  ASSUME IInv, Answering, NEW p \in Shown(request.ideal),
         ~(p \in DOMAIN request.best /\ request.best[p] = request.ideal[p])
  PROVE  \E above \in SUBSET (Shown(request.best) \ {p}) :
           /\ IsFiniteSet(above) /\ Cardinality(above) \in Nat /\ Limit <= Cardinality(above)
           /\ \A o \in above : request.ideal[p] <= request.best[o]
<1>1. request.step = "search" /\ request \in Searching
  BY StepTells DEF Answering, IInv, TypeOK
<1>2. OutrankedOnly(request.best, request.ideal, Searched)
  BY <1>1 DEF IInv, RatesHold
<1>3. PICK others \in SUBSET (DOMAIN request.best \ {p}) :
        Cardinality(others) = Searched /\ \A o \in others : request.ideal[p] <= request.best[o]
  BY <1>2 DEF OutrankedOnly, Shown
<1>4. others \subseteq Products /\ IsFiniteSet(Products) /\ Nothing \notin Products
  BY <1>1, <1>3 DEF Searching, Rates, IInv, TypeOK, RowsOK, Products, Nothing
<1>5. IsFiniteSet(others) /\ IsFiniteSet(others \ {request.but}) /\ Cardinality(others) \in Nat
  BY <1>4, FS_Subset, FS_CardinalityType
<1>6. Cardinality(others \ {request.but}) \in Nat
  BY <1>5, FS_CardinalityType
<1>7. Limit <= Cardinality(others \ {request.but})
  <2>1. CASE request.but \in others
    <3>1. Cardinality(others) = Limit + 1
      BY <1>3, <1>4, <2>1 DEF Searched
    <3>2. Cardinality(others \ {request.but}) = Cardinality(others) - 1
      BY <1>5, <2>1, FS_RemoveElement
    <3> QED BY <1>6, <3>1, <3>2, ConstantTypes
  <2>2. CASE request.but \notin others
    <3>1. others \ {request.but} = others
      BY <2>2
    <3>2. Cardinality(others) >= Limit
      BY <1>3, ConstantTypes DEF Searched
    <3> QED BY <1>5, <3>1, <3>2, ConstantTypes
  <2> QED BY <2>1, <2>2
<1>8. others \ {request.but} \in SUBSET (Shown(request.best) \ {p})
  BY DEF Shown
<1> QED BY <1>3, <1>5, <1>6, <1>7, <1>8

(* For every Limit, every number of products and any rates, the answers    *)
(* that are put together from the cut ones are those that would be taken   *)
(* from all rows: as many, for the same rates, and none better is left.    *)
THEOREM SpecNothingBetterLeftOut == Spec => []NothingBetterLeftOut
<1>1. ASSUME IInv PROVE NothingBetterLeftOut
  <2> SUFFICES ASSUME Answering, NEW answer \in Answers(request.best)
               PROVE  /\ Cardinality(answer) = Smaller(Limit, Cardinality(Shown(request.ideal)))
                      /\ \A p \in answer :
                           /\ request.best[p] = request.ideal[p]
                           /\ \A o \in Shown(request.ideal) \ answer :
                                request.ideal[o] <= request.ideal[p]
    BY DEF NothingBetterLeftOut
  <2> DEFINE best == request.best
             ideal == request.ideal
             above(p, T) == /\ T \subseteq Shown(best) \ {p}
                            /\ IsFiniteSet(T) /\ Cardinality(T) \in Nat /\ Limit <= Cardinality(T)
                            /\ \A o \in T : ideal[p] <= best[o]
  <2>1. request.step = "search" /\ request \in Searching
    BY <1>1, StepTells DEF Answering, IInv, TypeOK
  <2>2. /\ DOMAIN best \subseteq DOMAIN ideal /\ \A p \in DOMAIN best : best[p] <= ideal[p]
        /\ Shown(best) \subseteq Shown(ideal) /\ Shown(best) \subseteq DOMAIN best
        /\ Shown(ideal) \subseteq DOMAIN ideal
    BY <1>1, <2>1 DEF IInv, RatesHold, OutrankedOnly, Shown
  <2>3. /\ \A p \in DOMAIN best : best[p] \in Int
        /\ \A p \in DOMAIN ideal : ideal[p] \in Int
        /\ DOMAIN ideal \subseteq Products
    BY <2>1, ConstantTypes DEF Searching, Rates
  <2>4. IsFiniteSet(Shown(ideal)) /\ IsFiniteSet(Shown(best))
    <3>1. IsFiniteSet(Products)
      BY <1>1 DEF IInv, TypeOK, RowsOK, Products
    <3>2. Shown(ideal) \subseteq Products /\ Shown(best) \subseteq Products
      BY <2>2, <2>3
    <3> QED BY <3>1, <3>2, FS_Subset
  <2>5. /\ answer \subseteq Shown(best) /\ Cardinality(answer) = Smaller(Limit, Cardinality(Shown(best)))
        /\ \A p \in answer : \A o \in Shown(best) \ answer : best[o] <= best[p]
    BY DEF Answers
  <2>6. /\ Cardinality(Shown(best)) \in Nat /\ Cardinality(Shown(ideal)) \in Nat
        /\ Cardinality(Shown(best)) <= Cardinality(Shown(ideal))
        /\ IsFiniteSet(answer) /\ Cardinality(answer) \in Nat
    BY <2>2, <2>4, <2>5, FS_Subset, FS_CardinalityType
  <2>7. Cardinality(answer) <= Limit /\ Limit \in Nat
    BY <2>5, <2>6, ConstantTypes DEF Smaller
  <2>8. \A p \in Shown(ideal) : (p \in DOMAIN best /\ best[p] = ideal[p]) \/ \E T : above(p, T)
    BY <1>1, EnoughAbove
  <2> HIDE DEF best, ideal, above
  <2>9. Cardinality(answer) = Smaller(Limit, Cardinality(Shown(ideal)))
    <3>1. CASE Shown(best) = Shown(ideal)
      BY <2>5, <3>1
    <3>2. CASE Shown(best) # Shown(ideal)
      <4>1. PICK p \in Shown(ideal) : p \notin Shown(best)
        BY <2>2, <3>2
      <4>2. p \notin DOMAIN best
        BY <4>1 DEF Shown, best, ideal
      <4>3. PICK T : above(p, T)
        BY <2>8, <4>1, <4>2
      <4>4. Limit <= Cardinality(Shown(best))
        <5>1. T \subseteq Shown(best) /\ Cardinality(T) \in Nat /\ Limit <= Cardinality(T)
          BY <4>3 DEF above
        <5>2. Cardinality(T) <= Cardinality(Shown(best))
          BY <2>4, <5>1, FS_Subset
        <5> QED BY <2>6, <2>7, <5>1, <5>2
      <4> QED BY <2>5, <2>6, <2>7, <4>4 DEF Smaller
    <3> QED BY <3>1, <3>2
  <2>10. ASSUME NEW p \in answer PROVE best[p] = ideal[p]
    <3> SUFFICES ASSUME best[p] # ideal[p] PROVE FALSE
      OBVIOUS
    <3>1. p \in Shown(ideal) /\ p \in DOMAIN best /\ p \in DOMAIN ideal
      BY <2>2, <2>5
    <3>2. best[p] \in Int /\ ideal[p] \in Int /\ best[p] < ideal[p]
      BY <2>2, <2>3, <3>1
    <3>3. PICK T : above(p, T)
      BY <2>8, <3>1
    <3>4. T \subseteq Shown(best) /\ p \notin T /\ IsFiniteSet(T) /\ Cardinality(T) \in Nat
          /\ Limit <= Cardinality(T) /\ \A o \in T : ideal[p] <= best[o]
      BY <3>3 DEF above
    <3>5. T \subseteq answer
      <4> SUFFICES ASSUME NEW o \in T, o \notin answer PROVE FALSE
        OBVIOUS
      <4>1. o \in Shown(best) \ answer /\ best[o] \in Int
        BY <2>2, <2>3, <3>4
      <4>2. best[o] <= best[p] /\ ideal[p] <= best[o]
        BY <2>5, <3>4, <4>1
      <4> QED BY <3>2, <4>1, <4>2
    <3>6. Cardinality(T \cup {p}) = Cardinality(T) + 1
      BY <3>4, FS_AddElement
    <3>7. Cardinality(T \cup {p}) <= Cardinality(answer)
      <4>1. T \cup {p} \subseteq answer
        BY <3>5
      <4> QED BY <2>6, <4>1, FS_Subset
    <3> QED BY <2>6, <2>7, <3>4, <3>6, <3>7
  <2>11. ASSUME NEW p \in answer, NEW o \in Shown(ideal) \ answer PROVE ideal[o] <= ideal[p]
    <3>1. best[p] = ideal[p] /\ best[p] \in Int /\ ideal[o] \in Int
      BY <2>2, <2>3, <2>5, <2>10
    <3>2. CASE o \in DOMAIN best /\ best[o] = ideal[o]
      <4>1. o \in Shown(best)
        BY <3>2 DEF Shown, best, ideal
      <4>2. best[o] <= best[p]
        BY <2>5, <4>1
      <4> QED BY <3>1, <3>2, <4>2
    <3>3. ASSUME NEW T, above(o, T) PROVE ideal[o] <= ideal[p]
      <4>1. T \subseteq Shown(best) /\ IsFiniteSet(T) /\ Cardinality(T) \in Nat
            /\ Limit <= Cardinality(T) /\ \A t \in T : ideal[o] <= best[t]
        BY <3>3 DEF above
      <4>2. CASE T \subseteq answer
        <5>1. Cardinality(T) <= Cardinality(answer) /\ (Cardinality(T) = Cardinality(answer) => T = answer)
          BY <2>6, <4>2, FS_Subset
        <5>2. T = answer
          BY <2>6, <2>7, <4>1, <5>1
        <5> QED BY <3>1, <4>1, <5>2
      <4>3. ASSUME NEW t \in T, t \notin answer PROVE ideal[o] <= ideal[p]
        <5>1. t \in Shown(best) \ answer /\ best[t] \in Int
          BY <2>2, <2>3, <4>1, <4>3
        <5>2. best[t] <= best[p] /\ ideal[o] <= best[t]
          BY <2>5, <4>1, <5>1
        <5> QED BY <3>1, <5>1, <5>2
      <4> QED BY <4>2, <4>3
    <3> QED BY <2>8, <3>2, <3>3
  <2> QED BY <2>9, <2>10, <2>11 DEF best, ideal
<1> QED BY <1>1, SpecIInv, PTL
=============================================================================
