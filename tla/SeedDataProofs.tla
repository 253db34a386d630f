--------------------------- MODULE SeedDataProofs ---------------------------
(***************************************************************************)
(* SeedData, for every number of members, pets, products and purchases,    *)
(* every calendar, every review.csv and every tree of allergens: the times *)
(* of different rows fit together, purchases suit the animals, ages        *)
(* advance, and load_csv takes what was generated.                         *)
(***************************************************************************)
EXTENDS SeedData, Recursion, SequenceTheorems, FiniteSetTheorems

rows == <<user, pet, pet_breed, pet_allergy, product, orders>>

-----------------------------------------------------------------------------
(* The tools.                                                              *)

LEMMA EarlierLater ==
  ASSUME NEW a \in Int, NEW b \in Int
  PROVE  /\ Earlier(a, b) \in {a, b} /\ Earlier(a, b) <= a /\ Earlier(a, b) <= b
         /\ Later(a, b) \in {a, b} /\ a <= Later(a, b) /\ b <= Later(a, b)
BY DEF Earlier, Later

(* A draw is between its ends, and the first one if these are crossed.     *)
LEMMA DrawBounds ==
  ASSUME NEW start \in Nat, NEW end \in Int, NEW t \in Draw(start, end)
  PROVE  t \in Nat /\ start <= t /\ (start <= end => t <= end)
BY DEF Draw

(* The day of an instant has it between its two.                           *)
LEMMA DayHasInstant ==
  ASSUME NEW t \in Nat
  PROVE  DayOf(t) \in Nat /\ AsDt(DayOf(t)) <= t /\ t <= EndOf(DayOf(t))
BY DEF DayOf, AsDt, EndOf

LEMMA NowIsLast ==
  /\ Today \in Nat /\ Now \in Nat
  /\ \A day \in Days : AsDt(day) \in Nat /\ AsDt(day) <= EndOf(day) /\ EndOf(day) <= Now
  /\ \A t \in Nat : t <= Now => DayOf(t) \in Days
<1>1. Today \in Nat
  BY SeedConstantsOK
<1>2. Now \in Nat
  BY <1>1 DEF Now
<1>3. ASSUME NEW day \in Days
      PROVE  AsDt(day) \in Nat /\ AsDt(day) <= EndOf(day) /\ EndOf(day) <= Now
  BY <1>1 DEF Now, Days, AsDt, EndOf
<1>4. ASSUME NEW t \in Nat, t <= Now PROVE DayOf(t) \in Days
  <2>1. DayOf(t) \in Nat /\ 2 * DayOf(t) <= 2 * Today + 1
    BY <1>1, <1>2, <1>4, DayHasInstant DEF Now, AsDt
  <2> QED BY <1>1, <2>1 DEF Days
<1> QED BY <1>1, <1>2, <1>3, <1>4

(* What a table is.                                                        *)
LEMMA Table ==
  ASSUME NEW Row, NEW table \in Seq(Row)
  PROVE  /\ Len(table) \in Nat /\ DOMAIN table = 1..Len(table) /\ DOMAIN table \subseteq Nat
         /\ \A i \in DOMAIN table : table[i] \in Row
         /\ table # <<>> => DOMAIN table # {}
<1>1. Len(table) \in Nat /\ DOMAIN table = 1..Len(table)
  BY LenProperties
<1>2. \A i \in 1..Len(table) : table[i] \in Row
  OBVIOUS
<1>3. table # <<>> => Len(table) # 0
  BY EmptySeq
<1>4. Len(table) # 0 => 1 \in 1..Len(table)
  BY <1>1
<1>5. 1..Len(table) \subseteq Nat
  BY <1>1
<1> QED BY <1>1, <1>2, <1>3, <1>4, <1>5

(* A table with a further row.                                             *)
LEMMA Appended ==
  ASSUME NEW Row, NEW table \in Seq(Row), NEW row \in Row
  PROVE  LET new == Append(table, row)
         IN  /\ new \in Seq(Row) /\ Len(new) = Len(table) + 1
             /\ DOMAIN new = DOMAIN table \cup {Len(new)} /\ Len(new) \notin DOMAIN table
             /\ \A i \in DOMAIN table : new[i] = table[i]
             /\ new[Len(new)] = row
<1> DEFINE new == Append(table, row)
<1>1. new \in Seq(Row) /\ Len(new) = Len(table) + 1
      /\ \A i \in 1..Len(table) : new[i] = table[i]
      /\ new[Len(table) + 1] = row
  BY AppendProperties
<1>2. DOMAIN new = 1..Len(new) /\ DOMAIN table = 1..Len(table) /\ Len(table) \in Nat
  BY <1>1, LenProperties
<1> HIDE DEF new
<1>3. DOMAIN new = DOMAIN table \cup {Len(new)} /\ Len(new) \notin DOMAIN table
  BY <1>1, <1>2
<1> QED BY <1>1, <1>2, <1>3 DEF new

(* The month in which an animal is never turns back.                       *)
LEMMA AgesGrow ==
  ASSUME NEW birth \in Days, NEW d \in Days, NEW e \in Days, d <= e
  PROVE  AgeMonths(birth, d) \in Nat /\ AgeMonths(birth, d) <= AgeMonths(birth, e)
<1>1. Calendar[d] \in [month: Nat, day: Nat] /\ Calendar[e] \in [month: Nat, day: Nat]
      /\ Calendar[birth] \in [month: Nat, day: Nat]
  BY SeedConstantsOK
<1>2. ASSUME NEW md \in Nat, NEW me \in Nat, NEW mb \in Nat,
             NEW nd \in Nat, NEW ne \in Nat, NEW nb \in Nat,
             md < me \/ (md = me /\ nd <= ne)
      PROVE  md - mb - (IF nd < nb THEN 1 ELSE 0) <= me - mb - (IF ne < nb THEN 1 ELSE 0)
  BY <1>2
<1>3. \/ Calendar[d].month < Calendar[e].month
      \/ Calendar[d].month = Calendar[e].month /\ Calendar[d].day <= Calendar[e].day
  BY CalendarOK
<1>4. MonthsPassed(birth, d) <= MonthsPassed(birth, e)
  BY <1>1, <1>2, <1>3 DEF MonthsPassed
<1>5. MonthsPassed(birth, d) \in Int /\ MonthsPassed(birth, e) \in Int
  BY <1>1 DEF MonthsPassed
<1> QED BY <1>4, <1>5 DEF AgeMonths, Later

(* What lies under an allergen are allergens.                              *)
LEMMA DescendantsAreAllergens ==
  ASSUME NEW a \in Allergens
  PROVE  Descendants(a) \subseteq Allergens
<1> DEFINE V == [Allergens -> SUBSET Allergens]
           first == [b \in Allergens |-> {b}]
           Up(g) == [b \in Allergens |-> {b} \cup UNION {g[c] : c \in {d \in Allergens : Parent[d] = b}}]
           step == [n \in Nat |-> [g \in V |-> Up(g)]]
<1>1. first \in V /\ step \in [Nat -> [V -> V]]
  OBVIOUS
<1>2. PICK f \in [Nat -> V] : f[0] = first /\ \A n \in Nat \ {0} : f[n] = step[n][f[n - 1]]
  <2> HIDE DEF V, first, step
  <2>1. Recursive(V, first, step) # {}
    BY <1>1, RecursiveExists
  <2> QED BY <2>1 DEF Recursive
<1>3. \A n \in Nat : f[n] = [b \in Allergens |->
        IF n = 0 THEN {b}
        ELSE {b} \cup UNION {f[n - 1][c] : c \in {d \in Allergens : Parent[d] = b}}]
  <2> SUFFICES ASSUME NEW n \in Nat
               PROVE  f[n] = [b \in Allergens |->
                        IF n = 0 THEN {b}
                        ELSE {b} \cup UNION {f[n - 1][c] : c \in {d \in Allergens : Parent[d] = b}}]
    OBVIOUS
  <2>1. CASE n = 0
    BY <1>2, <2>1
  <2>2. CASE n # 0
    <3>1. n - 1 \in Nat
      BY <2>2
    <3>2. f[n] = step[n][f[n - 1]] /\ f[n - 1] \in V
      <4> HIDE DEF V, first, step
      <4> QED BY <1>2, <2>2, <3>1
    <3> QED BY <2>2, <3>2
  <2> QED BY <2>1, <2>2
<1>4. f = [n \in Nat |-> [b \in Allergens |->
        IF n = 0 THEN {b}
        ELSE {b} \cup UNION {f[n - 1][c] : c \in {d \in Allergens : Parent[d] = b}}]]
  <2> HIDE DEF V, first, step
  <2> QED BY <1>2, <1>3
<1>5. Below = [n \in Nat |-> [b \in Allergens |->
        IF n = 0 THEN {b}
        ELSE {b} \cup UNION {Below[n - 1][c] : c \in {d \in Allergens : Parent[d] = b}}]]
  BY <1>4 DEF Below
<1> DEFINE Typed == {n \in Nat : Below[n] \in V}
<1>6. Typed = Nat
  <2>1. 0 \in Typed
    BY <1>5
  <2>2. ASSUME NEW n \in Typed PROVE n + 1 \in Typed
    <3>1. n + 1 \in Nat /\ n + 1 # 0 /\ (n + 1) - 1 = n
      OBVIOUS
    <3>2. Below[n + 1] = Up(Below[n])
      BY <1>5, <3>1
    <3> QED BY <3>1, <3>2
  <2>3. Typed \in SUBSET Nat
    OBVIOUS
  <2> HIDE DEF Typed
  <2> QED BY <2>1, <2>2, <2>3, Induction
<1>7. Cardinality(Allergens) \in Nat
  BY AllergensOK, FS_CardinalityType
<1> QED BY <1>6, <1>7 DEF Descendants

-----------------------------------------------------------------------------
(* The rows of allergen.csv.                                               *)

Waits(a, done) == ~({Parent[a]} \ {NoParent} \subseteq done)

(* A list of different items with a further one.                           *)
LEMMA OneMore ==
  ASSUME NEW S, NEW seq \in Seq(S), NEW a \in S, Distinct(seq), a \notin Elements(seq)
  PROVE  /\ Append(seq, a) \in Seq(S) /\ Distinct(Append(seq, a))
         /\ Elements(Append(seq, a)) = Elements(seq) \cup {a}
<1>1. ASSUME NEW old, NEW new, NEW last,
             DOMAIN new = (DOMAIN old) \cup {last}, last \notin DOMAIN old,
             \A i \in DOMAIN old : new[i] = old[i], new[last] = a
      PROVE  /\ Elements(new) = Elements(old) \cup {a}
             /\ Distinct(old) /\ a \notin Elements(old) => Distinct(new)
  <2>1. Elements(new) \subseteq Elements(old) \cup {a}
    BY <1>1, Zenon DEF Elements
  <2>2. Elements(old) \cup {a} \subseteq Elements(new)
    BY <1>1 DEF Elements
  <2>3. Distinct(old) /\ a \notin Elements(old) => Distinct(new)
    BY <1>1 DEF Distinct, Elements
  <2> QED BY <2>1, <2>2, <2>3
<1>2. LET new == Append(seq, a)
      IN  /\ new \in Seq(S) /\ DOMAIN new = (DOMAIN seq) \cup {Len(new)}
          /\ Len(new) \notin DOMAIN seq
          /\ \A i \in DOMAIN seq : new[i] = seq[i]
          /\ new[Len(new)] = a
  BY Appended
<1> QED BY <1>1, <1>2, Zenon

(* One round has every item that is ready once.                            *)
LEMMA ReadyItems ==
  ASSUME NEW items \in Seq(Allergens), \A i, j \in DOMAIN items : items[i] = items[j] => i = j,
         NEW done
  PROVE  /\ Ready(items, done) \in Seq(Allergens) /\ Distinct(Ready(items, done))
         /\ Elements(Ready(items, done)) = {a \in Elements(items) : a \notin done /\ ~Waits(a, done)}
<1> DEFINE V == Seq(Allergens)
           Kept(i, out) == IF i \in DOMAIN items /\ items[i] \notin done /\ ~Waits(items[i], done)
                           THEN Append(out, items[i]) ELSE out
           step == [i \in Nat |-> [out \in V |-> Kept(i, out)]]
<1>1. <<>> \in V /\ step \in [Nat -> [V -> V]]
  <2>1. ASSUME NEW i \in Nat, NEW out \in V PROVE Kept(i, out) \in V
    <3>1. i \in DOMAIN items => items[i] \in Allergens
      BY Table
    <3> QED BY <3>1, AppendProperties
  <2> QED BY <2>1, EmptySeq
<1>2. PICK f \in [Nat -> V] : f[0] = <<>> /\ \A n \in Nat \ {0} : f[n] = step[n][f[n - 1]]
  <2> HIDE DEF V, step
  <2>1. Recursive(V, <<>>, step) # {}
    BY <1>1, RecursiveExists
  <2> QED BY <2>1 DEF Recursive
<1>3. \A i \in Nat : f[i] = IF i = 0 THEN <<>> ELSE Kept(i, f[i - 1])
  <2> SUFFICES ASSUME NEW i \in Nat, i # 0 PROVE f[i] = Kept(i, f[i - 1])
    BY <1>2
  <2>1. i - 1 \in Nat
    OBVIOUS
  <2>2. f[i] = step[i][f[i - 1]] /\ f[i - 1] \in V
    <3> HIDE DEF V, step
    <3> QED BY <1>2, <2>1
  <2> HIDE DEF Kept
  <2> QED BY <2>2 DEF step
<1> DEFINE F == CHOOSE F : F = [i \in Nat |->
                  IF i = 0 THEN <<>>
                  ELSE IF /\ i \in DOMAIN items /\ items[i] \notin done
                          /\ {Parent[items[i]]} \ {NoParent} \subseteq done
                       THEN Append(F[i - 1], items[i]) ELSE F[i - 1]]
<1>4. f = [i \in Nat |->
             IF i = 0 THEN <<>>
             ELSE IF /\ i \in DOMAIN items /\ items[i] \notin done
                     /\ {Parent[items[i]]} \ {NoParent} \subseteq done
                  THEN Append(f[i - 1], items[i]) ELSE f[i - 1]]
  BY <1>2, <1>3 DEF Waits
<1>5. F = [i \in Nat |->
             IF i = 0 THEN <<>>
             ELSE IF /\ i \in DOMAIN items /\ items[i] \notin done
                     /\ {Parent[items[i]]} \ {NoParent} \subseteq done
                  THEN Append(F[i - 1], items[i]) ELSE F[i - 1]]
  BY <1>4
<1>6. Ready(items, done) = F[Len(items)]
  BY DEF Ready
<1> HIDE DEF F
<1>7. F[0] = <<>> /\ \A i \in Nat : F[i + 1] = Kept(i + 1, F[i])
  <2>1. \A i \in Nat : F[i] = IF i = 0 THEN <<>> ELSE Kept(i, F[i - 1])
    BY <1>5 DEF Waits
  <2>2. \A i \in Nat : i + 1 \in Nat /\ i + 1 # 0 /\ (i + 1) - 1 = i
    OBVIOUS
  <2> HIDE DEF Kept
  <2> QED BY <2>1, <2>2
<1> DEFINE Fits(k) == k \in DOMAIN items /\ items[k] \notin done /\ ~Waits(items[k], done)
           Upto(i) == {k \in DOMAIN items : k <= i /\ Fits(k)}
           Chosen(i) == {items[j] : j \in Upto(i)}
           Good == {i \in Nat : F[i] \in V /\ Distinct(F[i]) /\ Elements(F[i]) = Chosen(i)}
<1>8. Good = Nat
  <2>1. 0 \in Good
    <3>1. DOMAIN items \subseteq Nat /\ 0 \notin DOMAIN items
      BY Table
    <3>2. Chosen(0) = {}
      BY <3>1
    <3>3. Elements(<<>>) = {} /\ Distinct(<<>>)
      BY DEF Elements, Distinct
    <3> QED BY <1>1, <1>7, <3>2, <3>3
  <2>2. ASSUME NEW i \in Good PROVE i + 1 \in Good
    <3>1. i \in Nat /\ F[i] \in V /\ Distinct(F[i]) /\ Elements(F[i]) = Chosen(i)
          /\ F[i + 1] = Kept(i + 1, F[i])
      BY <1>7
    <3>2. DOMAIN items \subseteq Nat /\ i + 1 \in Nat
          /\ \A k \in Nat : k <= i + 1 <=> (k <= i \/ k = i + 1)
      <4>1. DOMAIN items \subseteq Nat
        BY Table
      <4>2. i \in Nat
        BY <3>1
      <4> HIDE DEF Good
      <4> QED BY <4>1, <4>2
    <3>3. CASE i + 1 \in DOMAIN items /\ items[i + 1] \notin done /\ ~Waits(items[i + 1], done)
      <4>1. items[i + 1] \in Allergens /\ F[i + 1] = Append(F[i], items[i + 1])
        BY <3>1, <3>3, Table
      <4>2. Chosen(i + 1) = Chosen(i) \cup {items[i + 1]}
        <5>1. Upto(i + 1) = Upto(i) \cup {i + 1}
          <6>1. Fits(i + 1) /\ i + 1 \in DOMAIN items /\ i + 1 <= i + 1
            BY <3>2, <3>3
          <6> HIDE DEF Fits
          <6> QED BY <3>2, <6>1
        <5> HIDE DEF Upto
        <5> QED BY <5>1
      <4>3. items[i + 1] \notin Chosen(i)
        BY <3>2, <3>3
      <4>4. F[i + 1] \in V /\ Distinct(F[i + 1]) /\ Elements(F[i + 1]) = Chosen(i + 1)
        <5> HIDE DEF F, Chosen
        <5> HIDE DEF V
        <5>1. F[i] \in Seq(Allergens)
          BY <3>1 DEF V
        <5>2. F[i + 1] \in Seq(Allergens) /\ Distinct(F[i + 1])
              /\ Elements(F[i + 1]) = Elements(F[i]) \cup {items[i + 1]}
          <6>1. items[i + 1] \notin Elements(F[i])
            BY <3>1, <4>3
          <6>2. Distinct(F[i])
            BY <3>1
          <6>3. /\ Append(F[i], items[i + 1]) \in Seq(Allergens)
                /\ Distinct(Append(F[i], items[i + 1]))
                /\ Elements(Append(F[i], items[i + 1])) = Elements(F[i]) \cup {items[i + 1]}
            BY <4>1, <5>1, <6>1, <6>2, OneMore
          <6> QED BY <4>1, <6>3
        <5> QED BY <3>1, <4>2, <5>2 DEF V
      <4> HIDE DEF Chosen
      <4> QED BY <3>2, <4>4
    <3>4. CASE ~(i + 1 \in DOMAIN items /\ items[i + 1] \notin done /\ ~Waits(items[i + 1], done))
      <4>1. F[i + 1] = F[i]
        BY <3>1, <3>4
      <4>2. Upto(i + 1) = Upto(i)
        <5>1. ~Fits(i + 1)
          BY <3>4
        <5> HIDE DEF Fits
        <5> QED BY <3>2, <5>1
      <4>3. Chosen(i + 1) = Chosen(i)
        <5> HIDE DEF Upto
        <5> QED BY <4>2
      <4> HIDE DEF Chosen
      <4> QED BY <3>1, <4>1, <4>3
    <3> QED BY <3>3, <3>4
  <2> HIDE DEF Good
  <2>3. Good \in SUBSET Nat
    BY DEF Good
  <2> QED BY <2>1, <2>2, <2>3, Induction
<1>9. Len(items) \in Good
  BY <1>8, Table
<1>10. Chosen(Len(items)) = {a \in Elements(items) : a \notin done /\ ~Waits(a, done)}
  <2>1. DOMAIN items = 1..Len(items) /\ Len(items) \in Nat
    BY Table
  <2>2. \A k \in DOMAIN items : k <= Len(items)
    BY <2>1
  <2> QED BY <2>2 DEF Elements
<1> HIDE DEF Chosen, V
<1> QED BY <1>6, <1>9, <1>10 DEF V

(* What ParentsFirst asks for, of the rows that are out so far.            *)
InOrder(out) ==
  /\ Distinct(out)
  /\ \A i \in DOMAIN out : Parent[out[i]] \in {NoParent} \cup {out[j] : j \in 1..(i - 1)}

(* A further round of items that are not out and wait for nothing.         *)
LEMMA OneMoreRound ==
  ASSUME NEW out \in Seq(Allergens), NEW round \in Seq(Allergens),
         InOrder(out), Distinct(round), Elements(out) \cap Elements(round) = {},
         \A a \in Elements(round) : Parent[a] \in {NoParent} \cup Elements(out)
  PROVE  /\ out \o round \in Seq(Allergens) /\ InOrder(out \o round)
         /\ Elements(out \o round) = Elements(out) \cup Elements(round)
<1>1. /\ out \o round \in Seq(Allergens) /\ Len(out \o round) = Len(out) + Len(round)
      /\ \A i \in 1..Len(out) + Len(round) :
           (out \o round)[i] = IF i <= Len(out) THEN out[i] ELSE round[i - Len(out)]
  BY ConcatProperties
<1>2. DOMAIN (out \o round) = 1..Len(out \o round)
  BY <1>1, LenProperties
<1>3. /\ Len(out) \in Nat /\ DOMAIN out = 1..Len(out)
      /\ Len(round) \in Nat /\ DOMAIN round = 1..Len(round)
  BY Table
<1>4. ASSUME NEW m \in Nat, NEW n \in Nat, NEW s, NEW t, NEW new,
             DOMAIN s = 1..m, DOMAIN t = 1..n, DOMAIN new = 1..(m + n),
             \A i \in 1..(m + n) : new[i] = IF i <= m THEN s[i] ELSE t[i - m],
             InOrder(s), Distinct(t), Elements(s) \cap Elements(t) = {},
             \A a \in Elements(t) : Parent[a] \in {NoParent} \cup Elements(s)
      PROVE  InOrder(new) /\ Elements(new) = Elements(s) \cup Elements(t)
  <2>1. \A i \in 1..m : i \in 1..(m + n) /\ new[i] = s[i]
    BY <1>4
  <2>2. \A i \in 1..n : m + i \in 1..(m + n) /\ new[m + i] = t[i]
    BY <1>4
  <2>3. \A i \in 1..(m + n) : i \in 1..m \/ (i - m \in 1..n /\ i = m + (i - m))
    BY <1>4
  <2>4. Elements(new) \subseteq Elements(s) \cup Elements(t)
    <3> SUFFICES ASSUME NEW i \in 1..(m + n) PROVE new[i] \in Elements(s) \cup Elements(t)
      BY <1>4 DEF Elements
    <3>1. CASE i \in 1..m
      BY <1>4, <2>1, <3>1 DEF Elements
    <3>2. CASE i - m \in 1..n /\ i = m + (i - m)
      BY <1>4, <2>2, <3>2 DEF Elements
    <3> QED BY <2>3, <3>1, <3>2
  <2>5. Elements(s) \subseteq Elements(new)
    BY <1>4, <2>1 DEF Elements
  <2>6. Elements(t) \subseteq Elements(new)
    BY <1>4, <2>2 DEF Elements
  <2>7. ASSUME NEW i \in 1..(m + n), NEW j \in 1..(m + n), new[i] = new[j] PROVE i = j
    <3>1. CASE i \in 1..m /\ j \in 1..m
      BY <1>4, <2>1, <2>7, <3>1 DEF InOrder, Distinct
    <3>2. CASE ~(i \in 1..m) /\ ~(j \in 1..m)
      <4>1. i - m \in 1..n /\ j - m \in 1..n /\ t[i - m] = t[j - m]
        BY <2>2, <2>3, <2>7, <3>2
      <4>2. i - m = j - m
        BY <1>4, <4>1 DEF Distinct
      <4> QED BY <4>2
    <3>3. ASSUME NEW k \in 1..m, NEW l \in 1..n PROVE s[k] # t[l]
      <4>1. s[k] \in Elements(s) /\ t[l] \in Elements(t)
        BY <1>4, Zenon DEF Elements
      <4> QED BY <1>4, <4>1
    <3> QED BY <2>1, <2>2, <2>3, <2>7, <3>1, <3>2, <3>3
  <2>8. ASSUME NEW i \in 1..(m + n)
        PROVE  Parent[new[i]] \in {NoParent} \cup {new[j] : j \in 1..(i - 1)}
    <3>1. CASE i \in 1..m
      <4>1. Parent[s[i]] \in {NoParent} \cup {s[j] : j \in 1..(i - 1)}
        BY <1>4, <3>1 DEF InOrder
      <4>2. \A j \in 1..(i - 1) : new[j] = s[j]
        BY <2>1, <3>1
      <4> QED BY <2>1, <3>1, <4>1, <4>2
    <3>2. CASE i - m \in 1..n /\ i = m + (i - m)
      <4>1. Parent[t[i - m]] \in {NoParent} \cup {s[j] : j \in 1..m}
        BY <1>4, <3>2 DEF Elements
      <4>2. \A j \in 1..m : j \in 1..(i - 1) /\ new[j] = s[j]
        BY <2>1, <3>2
      <4>3. new[i] = t[i - m]
        BY <2>2, <3>2
      <4> QED BY <4>1, <4>2, <4>3
    <3> QED BY <2>3, <3>1, <3>2
  <2> QED BY <1>4, <2>4, <2>5, <2>6, <2>7, <2>8 DEF InOrder, Distinct
<1>5. InOrder(out \o round) /\ Elements(out \o round) = Elements(out) \cup Elements(round)
  <2> DEFINE new == out \o round
             m == Len(out)
             n == Len(round)
  <2>1. m \in Nat /\ n \in Nat /\ DOMAIN out = 1..m /\ DOMAIN round = 1..n
    BY <1>3
  <2>2. DOMAIN new = 1..(m + n)
    BY <1>1, <1>2
  <2>3. \A i \in 1..(m + n) : new[i] = IF i <= m THEN out[i] ELSE round[i - m]
    BY <1>1
  <2> HIDE DEF new, m, n
  <2>4. InOrder(new) /\ Elements(new) = Elements(out) \cup Elements(round)
    BY <1>4, <2>1, <2>2, <2>3
  <2> QED BY <2>4 DEF new
<1> QED BY <1>1, <1>5

(* Of a file with every allergen once, topo_sort makes rows in which each  *)
(* parent comes before its children: after n rounds all that lie less than *)
(* n deep are out.                                                         *)
LEMMA RowsInOrder ==
  ASSUME NEW file \in Seq(Allergens), Distinct(file), \A a \in Allergens : a \in Elements(file),
         NEW depth \in [Allergens -> 0..(Cardinality(Allergens) - 1)],
         \A a \in Allergens : Parent[a] # NoParent => depth[Parent[a]] < depth[a]
  PROVE  ParentsFirst(topo_sort(file))
<1> DEFINE V == Seq(Allergens)
           More(out) == out \o Ready(file, Elements(out))
           step == [n \in Nat |-> [out \in V |-> More(out)]]
<1>1. ASSUME NEW out \in V
      PROVE  /\ Ready(file, Elements(out)) \in Seq(Allergens)
             /\ Distinct(Ready(file, Elements(out)))
             /\ Elements(Ready(file, Elements(out)))
                  = {a \in Elements(file) : a \notin Elements(out) /\ ~Waits(a, Elements(out))}
  BY ReadyItems DEF Distinct
<1>2. <<>> \in V /\ step \in [Nat -> [V -> V]]
  <2>1. ASSUME NEW out \in V PROVE More(out) \in V
    BY <1>1, ConcatProperties
  <2> QED BY <2>1, EmptySeq
<1>3. PICK f \in [Nat -> V] : f[0] = <<>> /\ \A n \in Nat \ {0} : f[n] = step[n][f[n - 1]]
  <2> HIDE DEF V, step
  <2>1. Recursive(V, <<>>, step) # {}
    BY <1>2, RecursiveExists
  <2> QED BY <2>1 DEF Recursive
<1>4. \A n \in Nat : f[n] = IF n = 0 THEN <<>> ELSE More(f[n - 1])
  <2> SUFFICES ASSUME NEW n \in Nat, n # 0 PROVE f[n] = More(f[n - 1])
    BY <1>3
  <2>1. n - 1 \in Nat
    OBVIOUS
  <2>2. f[n] = step[n][f[n - 1]] /\ f[n - 1] \in V
    <3> HIDE DEF V, step
    <3> QED BY <1>3, <2>1
  <2> HIDE DEF More
  <2> QED BY <2>2 DEF step
<1> DEFINE Out == CHOOSE Out : Out = [n \in Nat |->
                    IF n = 0 THEN <<>> ELSE Out[n - 1] \o Ready(file, Elements(Out[n - 1]))]
<1>5. f = [n \in Nat |-> IF n = 0 THEN <<>> ELSE f[n - 1] \o Ready(file, Elements(f[n - 1]))]
  BY <1>3, <1>4
<1>6. Out = [n \in Nat |->
              IF n = 0 THEN <<>> ELSE Out[n - 1] \o Ready(file, Elements(Out[n - 1]))]
  BY <1>5, Zenon
<1>7. topo_sort(file) = Out[Len(file)]
  BY DEF topo_sort
<1> HIDE DEF Out
<1>8. Out[0] = <<>> /\ \A n \in Nat : Out[n + 1] = More(Out[n])
  <2>1. \A n \in Nat : n + 1 \in Nat /\ n + 1 # 0 /\ (n + 1) - 1 = n
    OBVIOUS
  <2> QED BY <1>6, <2>1
<1> DEFINE Good == {n \in Nat : /\ Out[n] \in V /\ InOrder(Out[n])
                                /\ \A a \in Allergens : depth[a] < n => a \in Elements(Out[n])}
<1>9. Good = Nat
  <2>1. 0 \in Good
    <3>1. InOrder(<<>>)
      BY DEF InOrder, Distinct
    <3>2. \A a \in Allergens : ~(depth[a] < 0)
      BY AllergensOK, FS_CardinalityType
    <3> QED BY <1>2, <1>8, <3>1, <3>2
  <2>2. ASSUME NEW n \in Good PROVE n + 1 \in Good
    <3> DEFINE out == Out[n]
               round == Ready(file, Elements(out))
    <3>1. n \in Nat /\ out \in V /\ InOrder(out)
          /\ \A a \in Allergens : depth[a] < n => a \in Elements(out)
      OBVIOUS
    <3>2. /\ round \in V /\ Distinct(round)
          /\ Elements(round) = {a \in Elements(file) : a \notin Elements(out) /\ ~Waits(a, Elements(out))}
      <4> HIDE DEF out
      <4> QED BY <1>1, <3>1
    <3>3. Out[n + 1] = out \o round
      BY <1>8, <3>1
    <3> HIDE DEF out, round
    <3>4. /\ Out[n + 1] \in V /\ InOrder(Out[n + 1])
          /\ Elements(Out[n + 1]) = Elements(out) \cup Elements(round)
      <4>1. Elements(out) \cap Elements(round) = {}
        BY <3>2
      <4>2. \A a \in Elements(round) : Parent[a] \in {NoParent} \cup Elements(out)
        BY <3>2 DEF Waits
      <4> QED BY <3>1, <3>2, <3>3, <4>1, <4>2, OneMoreRound, ZenonT(40)
    <3>5. ASSUME NEW a \in Allergens, depth[a] < n + 1 PROVE a \in Elements(Out[n + 1])
      <4>1. Parent[a] # NoParent => Parent[a] \in Elements(out)
        <5> SUFFICES ASSUME Parent[a] # NoParent PROVE Parent[a] \in Elements(out)
          OBVIOUS
        <5>1. Parent[a] \in Allergens /\ depth[Parent[a]] < depth[a]
          BY SeedConstantsOK
        <5>2. \A x \in 0..(Cardinality(Allergens) - 1) : x \in Int
          BY AllergensOK, FS_CardinalityType
        <5>3. depth[a] \in Int /\ depth[Parent[a]] \in Int
          BY <5>1, <5>2
        <5>4. depth[Parent[a]] < n
          <6>1. \A x, y \in Int, m \in Nat : x < y /\ y < m + 1 => x < m
            OBVIOUS
          <6>2. n \in Nat /\ depth[a] < n + 1
            BY <3>1, <3>5
          <6> HIDE DEF Good
          <6> QED BY <5>1, <5>3, <6>1, <6>2, Zenon
        <5> QED BY <3>1, <5>1, <5>4
      <4>2. ~Waits(a, Elements(out))
        BY <4>1 DEF Waits
      <4> QED BY <3>2, <3>4, <4>2
    <3>6. n + 1 \in Nat
      <4> HIDE DEF Good
      <4> QED BY <3>1
    <3> HIDE DEF V, InOrder, Elements
    <3> QED BY <3>4, <3>5, <3>6
  <2> HIDE DEF Good
  <2>3. Good \in SUBSET Nat
    BY DEF Good
  <2> QED BY <2>1, <2>2, <2>3, Induction
<1>10. Len(file) \in Nat /\ Len(file) = Cardinality(Allergens)
  <2>1. Len(file) \in Nat /\ DOMAIN file = 1..Len(file) /\ file \in [1..Len(file) -> Allergens]
    BY LenProperties
  <2>2. file \in Bijection(1..Len(file), Allergens)
    BY <2>1 DEF Bijection, Injection, Surjection, IsInjective, Distinct, Elements
  <2> QED BY <2>1, <2>2, FS_CountingElements DEF ExistsBijection
<1> DEFINE sorted == Out[Len(file)]
<1>11. sorted \in Seq(Allergens) /\ InOrder(sorted) /\ \A a \in Allergens : a \in Elements(sorted)
  <2>1. Len(file) \in Good
    BY <1>9, <1>10
  <2>2. \A a \in Allergens : depth[a] < Len(file)
    BY <1>10
  <2> QED BY <2>1, <2>2
<1> HIDE DEF sorted
<1>12. Elements(sorted) \subseteq Allergens
  BY <1>11, Table DEF Elements
<1> QED BY <1>7, <1>11, <1>12 DEF ParentsFirst, InOrder, sorted

(* load_csv puts the rows of allergen in order, whatever that of the file. *)
LEMMA AllergensAreInOrder == AllergensFit
<1> SUFFICES ASSUME NEW file \in AllergenFiles PROVE ParentsFirst(topo_sort(file))
  BY DEF AllergensFit
<1>1. file \in Seq(Allergens)
  BY SeedConstantsOK
<1>2. Distinct(file) /\ \A a \in Allergens : a \in Elements(file)
  BY AllergensOK DEF Distinct, Elements
<1>3. PICK depth \in [Allergens -> 0..(Cardinality(Allergens) - 1)] :
        \A a \in Allergens : Parent[a] # NoParent => depth[Parent[a]] < depth[a]
  BY AllergensOK
<1> QED BY <1>1, <1>2, <1>3, RowsInOrder

-----------------------------------------------------------------------------
(* Steps that leave the rows of the tables as they are.                    *)

LEMMA RowsKeptKeepIInv ==
  ASSUME IInv, UNCHANGED <<rows, source>>, TypeOK', TablesInOrder', SeedLoads'
  PROVE  IInv'
<1> USE DEF IInv, rows, orders
<1>1. PetsFitOwners' /\ ProductsListed' /\ PurchasesFitRows' /\ AgesRight'
  BY DEF PetsFitOwners, ProductsListed, PurchasesFitRows, AgesRight
<1>2. PurchasesSuitAnimals'
  BY DEF PurchasesSuitAnimals, For, LiveProducts
<1>3. UidsNumbered' /\ IdsKept'
  BY DEF UidsNumbered, Uids, IdsKept
<1>4. KeysHold' /\ ReferencesHold'
  BY DEF KeysHold, Distinct, ReferencesHold
<1> QED BY <1>1, <1>2, <1>3, <1>4

LEMMA InitIInv == Init => IInv
<1> SUFFICES ASSUME Init PROVE IInv
  OBVIOUS
<1> USE DEF Init
<1>1. DOMAIN user = {} /\ DOMAIN pet = {} /\ DOMAIN product = {} /\ DOMAIN purchase = {}
  OBVIOUS
<1>2. TypeOK
  BY SeedConstantsOK, EmptySeq DEF TypeOK
<1>3. TablesInOrder
  BY SeedConstantsOK DEF TablesInOrder
<1>4. UidsNumbered
  <2>1. Uids = 1..0
    BY <1>1 DEF Uids
  <2> QED BY <2>1 DEF UidsNumbered
<1>5. PurchasesFitRows /\ AgesRight /\ PurchasesSuitAnimals /\ IdsKept
  BY <1>1 DEF PurchasesFitRows, AgesRight, PurchasesSuitAnimals, IdsKept
<1>6. PetsFitOwners /\ ProductsListed
  BY <1>1 DEF PetsFitOwners, ProductsListed
<1>7. KeysHold /\ ReferencesHold
  BY <1>1 DEF KeysHold, Distinct, ReferencesHold
<1>8. SeedLoads
  BY DEF SeedLoads
<1> QED BY <1>2, <1>3, <1>4, <1>5, <1>6, <1>7, <1>8 DEF IInv

LEMMA NextMemberKeepsIInv == IInv /\ NextMember => IInv'
<1> SUFFICES ASSUME IInv, NextMember PROVE IInv'
  OBVIOUS
<1> USE DEF IInv, NextMember, database, orders
<1>1. TypeOK'
  BY SeedConstantsOK, SMTT(30) DEF TypeOK, TablesInOrder
<1>2. TablesInOrder'
  BY SeedConstantsOK, SMTT(30) DEF TypeOK, TablesInOrder
<1>3. SeedLoads'
  BY DEF SeedLoads
<1> QED BY <1>1, <1>2, <1>3, RowsKeptKeepIInv DEF rows

LEMMA ReadSourceKeepsIInv == IInv /\ ReadSource => IInv'
<1> SUFFICES ASSUME IInv, ReadSource PROVE IInv'
  OBVIOUS
<1> USE DEF IInv, ReadSource, people, database, orders
<1>1. purchase = <<>> /\ DOMAIN purchase = {} /\ Len(source') \in Nat
  <2>1. source' \in Seq(SourceRow)
    BY SeedConstantsOK
  <2> QED BY <2>1, LenProperties DEF TablesInOrder
<1>2. TypeOK'
  BY DEF TypeOK
<1>3. TablesInOrder'
  BY <1>1 DEF TablesInOrder
<1>4. PetsFitOwners' /\ ProductsListed' /\ UidsNumbered'
  BY DEF PetsFitOwners, ProductsListed, UidsNumbered, Uids
<1>5. PurchasesFitRows' /\ AgesRight' /\ PurchasesSuitAnimals' /\ IdsKept'
  BY <1>1 DEF PurchasesFitRows, AgesRight, PurchasesSuitAnimals, IdsKept
<1>6. KeysHold' /\ ReferencesHold' /\ SeedLoads'
  BY <1>1 DEF KeysHold, Distinct, ReferencesHold, SeedLoads
<1> QED BY <1>2, <1>3, <1>4, <1>5, <1>6

(* SourceDone, Crash, WriteFiles, SignUp and Done.                         *)
LEMMA PhaseKeepsIInv ==
  IInv /\ (SourceDone \/ Crash \/ WriteFiles \/ SignUp \/ Done) => IInv'
<1> SUFFICES ASSUME IInv, SourceDone \/ Crash \/ WriteFiles \/ SignUp \/ Done PROVE IInv'
  OBVIOUS
<1> USE DEF IInv
<1>1. UNCHANGED <<rows, source, turn>>
  BY DEF SourceDone, Crash, WriteFiles, SignUp, Done, vars, people, orders, rows
<1>2. TypeOK' /\ TablesInOrder' /\ SeedLoads'
  <2>1. CASE SourceDone
    BY <1>1, <2>1 DEF SourceDone, TypeOK, TablesInOrder, SeedLoads, rows, orders, database
  <2>2. CASE Crash
    BY <1>1, <2>2 DEF Crash, TypeOK, TablesInOrder, SeedLoads, rows, orders, database
  <2>3. CASE WriteFiles
    BY <1>1, <2>3 DEF WriteFiles, TypeOK, TablesInOrder, SeedLoads, rows, orders, database
  <2>4. CASE SignUp
    BY <1>1, <2>4, SMTT(30) DEF SignUp, TypeOK, TablesInOrder, SeedLoads, rows, orders
  <2>5. CASE Done
    BY <1>1, <2>5 DEF Done, vars, TypeOK, TablesInOrder, SeedLoads, rows, orders, database
  <2> QED BY <2>1, <2>2, <2>3, <2>4, <2>5
<1> QED BY <1>1, <1>2, RowsKeptKeepIInv

(* What load_csv finds of the rows that were written is in order.          *)
LEMMA LoadKeepsIInv == IInv /\ Load => IInv'
<1> SUFFICES ASSUME IInv, Load PROVE IInv'
  OBVIOUS
<1> USE DEF IInv
<1>1. ChecksHold
  <2>1. ASSUME NEW i \in DOMAIN user
        PROVE  \A t \in {user[i].last_login, user[i].withdrawn} \ {Never} : user[i].created <= t
    BY <2>1 DEF PetsFitOwners, MemberTimes
  <2>2. ASSUME NEW i \in DOMAIN pet
        PROVE  /\ pet[i].size \in 1..5 /\ AsDt(pet[i].birth) <= pet[i].created
               /\ pet[i].inactive # Never => pet[i].created <= pet[i].inactive
    <3>1. pet[i] \in PetRow
      BY DEF TypeOK
    <3> QED BY <3>1 DEF PetsFitOwners, PetTimes, PetRow
  <2>3. ASSUME NEW k \in DOMAIN purchase
        PROVE  purchase[k].age_month >= 0 /\ purchase[k].size \in 1..5
    <3>1. purchase[k] \in PurchaseRow
      BY DEF TypeOK
    <3> QED BY <3>1 DEF PurchaseRow
  <2> QED BY <2>1, <2>2, <2>3 DEF ChecksHold
<1>2. phase' = "loaded" /\ UNCHANGED <<people, product, orders, source, database>>
  BY <1>1, AllergensAreInOrder DEF Load
<1>3. TypeOK' /\ TablesInOrder' /\ SeedLoads'
  BY <1>2 DEF Load, TypeOK, TablesInOrder, SeedLoads, people, orders, database
<1> QED BY <1>2, <1>3, RowsKeptKeepIInv DEF rows, people

-----------------------------------------------------------------------------
(* Members and pets.                                                       *)

LEMMA Ends ==
  /\ AsDt(ServiceOpen) \in Nat /\ AsDt(RecentFrom) \in Nat
  /\ EndOf(OpenUntil) \in Nat /\ EndOf(DormantUntil) \in Nat /\ EndOf(Today) = Now
  /\ AsDt(ServiceOpen) <= EndOf(OpenUntil) /\ AsDt(ServiceOpen) <= Now /\ EndOf(OpenUntil) <= Now
  /\ AsDt(RecentFrom) <= Now /\ EndOf(DormantUntil) <= Now
<1>1. /\ ServiceOpen \in Nat /\ Today \in Nat /\ OpenUntil \in Nat
      /\ RecentFrom \in Nat /\ DormantUntil \in Nat
      /\ ServiceOpen <= OpenUntil /\ OpenUntil <= Today /\ RecentFrom <= Today
      /\ DormantUntil <= Today
  BY SeedConstantsOK
<1> QED BY <1>1 DEF AsDt, EndOf, Now

(* The times that are drawn for a member come one after the other.         *)
LEMMA DrawnMember ==
  ASSUME NEW created \in Draw(AsDt(ServiceOpen), EndOf(OpenUntil)),
         NEW last_login \in {Never} \cup Draw(created, EndOf(DormantUntil))
                              \cup Draw(Later(created, AsDt(RecentFrom)), Now),
         NEW withdrawn \in {Never} \cup Draw(IF last_login = Never THEN created ELSE last_login, Now),
         NEW u, u.created = created, u.last_login = last_login, u.withdrawn = withdrawn
  PROVE  /\ created \in Nat /\ last_login \in Nat \cup {Never} /\ withdrawn \in Nat \cup {Never}
         /\ MemberTimes(u)
<1>1. created \in Nat /\ AsDt(ServiceOpen) <= created /\ created <= Now
  BY Ends, NowIsLast, DrawBounds
<1>2. last_login # Never => last_login \in Nat /\ created <= last_login /\ last_login <= Now
  <2>1. CASE last_login \in Draw(created, EndOf(DormantUntil))
    BY <1>1, <2>1, Ends, NowIsLast DEF Draw
  <2>2. CASE last_login \in Draw(Later(created, AsDt(RecentFrom)), Now)
    <3>1. /\ Later(created, AsDt(RecentFrom)) \in Nat /\ created <= Later(created, AsDt(RecentFrom))
          /\ Later(created, AsDt(RecentFrom)) <= Now
      BY <1>1, Ends DEF Later
    <3> QED BY <1>1, <2>2, <3>1, NowIsLast, DrawBounds
  <2> QED BY <2>1, <2>2
<1>3. withdrawn # Never =>
        withdrawn \in Nat /\ created <= withdrawn /\ withdrawn <= Now /\ last_login <= withdrawn
  <2> SUFFICES ASSUME withdrawn # Never
               PROVE  withdrawn \in Nat /\ created <= withdrawn /\ withdrawn <= Now
                      /\ last_login <= withdrawn
    OBVIOUS
  <2>1. CASE last_login = Never
    <3>1. withdrawn \in Draw(created, Now)
      BY <2>1
    <3>2. withdrawn \in Nat /\ created <= withdrawn /\ withdrawn <= Now
      BY <1>1, <3>1, NowIsLast, DrawBounds
    <3> QED BY <2>1, <3>2 DEF Never
  <2>2. CASE last_login # Never
    <3>1. withdrawn \in Draw(last_login, Now)
      BY <2>2
    <3> QED BY <1>1, <1>2, <2>2, <3>1, NowIsLast, DrawBounds
  <2> QED BY <2>1, <2>2
<1> QED BY <1>1, <1>2, <1>3 DEF MemberTimes

(* A new uid is one above those there are.                                 *)
LEMMA NewUid ==
  ASSUME NEW n \in Nat, Uids = 1..n
  PROVE  Cardinality(Uids) + 1 = n + 1
<1>1. Cardinality(1..n) = IF 1 > n THEN 0 ELSE n - 1 + 1
  BY FS_Interval
<1> QED BY <1>1

LEMMA GenUserKeepsIInv == IInv /\ GenUser => IInv'
<1> SUFFICES ASSUME IInv, GenUser PROVE IInv'
  OBVIOUS
<1> USE DEF IInv
<1>1. PICK provider \in Providers, created \in Draw(AsDt(ServiceOpen), EndOf(OpenUntil)) :
      \E uid \in Shareable(provider) \cup {Cardinality(Uids) + 1},
         last_login \in {Never} \cup Draw(created, EndOf(DormantUntil))
                              \cup Draw(Later(created, AsDt(RecentFrom)), Now) :
      \E withdrawn \in {Never} \cup Draw(IF last_login = Never THEN created ELSE last_login, Now) :
        user' = Append(user, [provider |-> provider, auth_uid |-> uid, created |-> created,
                              last_login |-> last_login, withdrawn |-> withdrawn])
  BY DEF GenUser
<1>2. PICK uid \in Shareable(provider) \cup {Cardinality(Uids) + 1},
           last_login \in {Never} \cup Draw(created, EndOf(DormantUntil))
                              \cup Draw(Later(created, AsDt(RecentFrom)), Now) :
        \E withdrawn \in {Never} \cup Draw(IF last_login = Never THEN created ELSE last_login, Now) :
          user' = Append(user, [provider |-> provider, auth_uid |-> uid, created |-> created,
                                last_login |-> last_login, withdrawn |-> withdrawn])
  BY <1>1
<1>18. PICK withdrawn \in {Never} \cup Draw(IF last_login = Never THEN created ELSE last_login, Now) :
         user' = Append(user, [provider |-> provider, auth_uid |-> uid, created |-> created,
                               last_login |-> last_login, withdrawn |-> withdrawn])
  BY <1>2
<1> DEFINE u == [provider |-> provider, auth_uid |-> uid, created |-> created,
                 last_login |-> last_login, withdrawn |-> withdrawn]
<1>3. PICK n \in Nat : Uids = 1..n
  BY DEF UidsNumbered
<1>4. uid \in Uids \cup {n + 1} /\ (uid \in Shareable(provider) \/ uid = n + 1)
  BY <1>3, NewUid DEF Shareable
<1>5. u \in UserRow /\ MemberTimes(u)
  <2>1. uid \in Nat
    BY <1>3, <1>4
  <2>2. MemberTimes(u) /\ created \in Nat /\ last_login \in Nat \cup {Never}
        /\ withdrawn \in Nat \cup {Never}
    <3>1. u.created = created /\ u.last_login = last_login /\ u.withdrawn = withdrawn
      OBVIOUS
    <3> HIDE DEF u
    <3> QED BY <3>1, DrawnMember
  <2> QED BY <2>1, <2>2 DEF UserRow
<1> HIDE DEF u
<1>6. /\ user' \in Seq(UserRow) /\ Len(user') = Len(user) + 1
      /\ DOMAIN user' = DOMAIN user \cup {Len(user')} /\ Len(user') \notin DOMAIN user
      /\ \A i \in DOMAIN user : user'[i] = user[i]
      /\ user'[Len(user')] = u
  <2>1. user \in Seq(UserRow) /\ user' = Append(user, u)
    BY <1>18 DEF u, TypeOK
  <2> QED BY <1>5, <2>1, Appended
<1>7. /\ phase = "users" /\ phase' = IF Len(user) + 1 = NUsers THEN "pets" ELSE "users"
      /\ UNCHANGED <<turn, pet, pet_breed, pet_allergy, product, orders, source, database>>
  BY DEF GenUser
<1>8. DOMAIN pet = {} /\ DOMAIN purchase = {}
  BY <1>7 DEF TablesInOrder
<1>9. TypeOK'
  BY <1>6, <1>7 DEF TypeOK, orders, database
<1>10. TablesInOrder'
  <2>1. Len(user) \in Nat /\ NUsers \in Nat /\ NUsers > 0 /\ turn \in 1..(NUsers + 1)
    BY SeedConstantsOK, LenProperties DEF TypeOK
  <2>2. turn <= NUsers
    BY <1>7 DEF TablesInOrder
  <2> QED BY <1>6, <1>7, <2>1, <2>2 DEF TablesInOrder, orders
<1>11. PetsFitOwners'
  BY <1>5, <1>6, <1>7, <1>8 DEF PetsFitOwners, MemberTimes
<1>12. ProductsListed' /\ PurchasesFitRows' /\ PurchasesSuitAnimals' /\ AgesRight' /\ IdsKept'
  BY <1>7, <1>8 DEF ProductsListed, PurchasesFitRows, PurchasesSuitAnimals, AgesRight, IdsKept, orders
<1>13. u.auth_uid = uid /\ u.provider = provider
  BY DEF u
<1>14. UidsNumbered'
  <2>1. Uids' = Uids \cup {uid}
    BY <1>6, <1>13 DEF Uids
  <2>2. CASE uid \in Uids
    BY <1>3, <2>1, <2>2 DEF UidsNumbered
  <2>3. CASE uid = n + 1
    <3>1. Uids' = 1..(n + 1)
      BY <1>3, <2>1, <2>3
    <3> QED BY <3>1 DEF UidsNumbered
  <2> QED BY <1>4, <2>2, <2>3
<1>15. KeysHold'
  <2>1. ASSUME NEW i \in DOMAIN user
        PROVE  <<user[i].provider, user[i].auth_uid>> # <<provider, uid>>
    <3>1. CASE uid \in Shareable(provider)
      BY <3>1 DEF Shareable
    <3>2. CASE uid = n + 1
      <4>1. user[i].auth_uid \in 1..n
        BY <1>3 DEF Uids
      <4> QED BY <3>2, <4>1
    <3> QED BY <1>4, <3>1, <3>2
  <2>2. ASSUME NEW i \in DOMAIN user', NEW j \in DOMAIN user',
               <<user'[i].provider, user'[i].auth_uid>> = <<user'[j].provider, user'[j].auth_uid>>
        PROVE  i = j
    <3>1. CASE i \in DOMAIN user /\ j \in DOMAIN user
      BY <1>6, <2>2, <3>1 DEF KeysHold, Distinct
    <3> QED BY <1>6, <1>13, <2>1, <2>2, <3>1
  <2>3. Distinct([i \in DOMAIN user |-> <<user[i].provider, user[i].auth_uid>>])'
    BY <2>2 DEF Distinct
  <2> QED BY <1>7, <1>8, <2>3 DEF KeysHold, Distinct, orders
<1>16. ReferencesHold'
  BY <1>7, <1>8 DEF ReferencesHold, orders
<1>17. SeedLoads'
  BY <1>7 DEF SeedLoads
<1> QED BY <1>9, <1>10, <1>11, <1>12, <1>14, <1>15, <1>16, <1>17

(* A member who registers pets has done so in between.                     *)
LEMMA CeilingBounds ==
  ASSUME NEW u \in UserRow, MemberTimes(u), Registers(u)
  PROVE  /\ Ceiling(u) \in Nat /\ u.created <= Ceiling(u) /\ Ceiling(u) <= u.last_login
         /\ u.withdrawn # Never => Ceiling(u) <= u.withdrawn
         /\ Ceiling(u) <= Now
BY NowIsLast DEF Registers, Ceiling, MemberTimes, UserRow, Earlier

(* The birthday that is drawn is a day before all of them.                 *)
LEMMA BornBefore ==
  ASSUME NEW u \in UserRow, MemberTimes(u), Registers(u), NEW drawn \in BirthDays,
         NEW birth \in Birthdays(u, drawn)
  PROVE  birth \in Days /\ AsDt(birth) <= Ceiling(u)
<1>1. CASE AsDt(drawn) <= Ceiling(u)
  BY <1>1, SeedConstantsOK DEF Birthdays
<1>2. CASE ~(AsDt(drawn) <= Ceiling(u))
  <2> DEFINE first == Later(DayOf(u.created), DayOf(Ceiling(u)) - Lifetime)
             last == DayOf(Ceiling(u))
  <2>1. last \in Days /\ AsDt(last) <= Ceiling(u) /\ u.created \in Nat /\ Ceiling(u) \in Nat
    BY CeilingBounds, NowIsLast, DayHasInstant DEF UserRow
  <2>2. DayOf(u.created) \in Nat /\ DayOf(u.created) <= last
    <3>1. DayOf(u.created) \in Nat /\ 2 * DayOf(u.created) <= u.created
          /\ Ceiling(u) <= 2 * last + 1 /\ last \in Nat /\ u.created <= Ceiling(u)
      BY <2>1, CeilingBounds, DayHasInstant DEF AsDt, EndOf
    <3> HIDE DEF last
    <3> QED BY <2>1, <3>1
  <2>3. first \in Nat /\ first <= last
    <3>1. last \in Nat /\ Lifetime \in Nat
      BY <2>1, SeedConstantsOK DEF Days
    <3> HIDE DEF last
    <3> QED BY <2>2, <3>1 DEF Later, last
  <2>4. birth \in Draw(first, last)
    BY <1>2 DEF Birthdays
  <2>5. birth \in Nat /\ birth <= last
    <3>1. last \in Int
      BY <2>1 DEF Days
    <3> HIDE DEF first, last
    <3> QED BY <2>3, <2>4, <3>1, DrawBounds
  <2> HIDE DEF first, last
  <2>6. Today \in Nat /\ last \in Nat /\ last <= Today
    BY <2>1, NowIsLast DEF Days
  <2> QED BY <2>1, <2>5, <2>6 DEF Days, AsDt
<1> QED BY <1>1, <1>2

LEMMA DrawnPet ==
  ASSUME NEW u \in UserRow, MemberTimes(u), Registers(u), NEW drawn \in BirthDays,
         NEW birth \in Birthdays(u, drawn),
         NEW created \in Draw(Registrable(u, birth), Ceiling(u)),
         NEW inactive \in {Never} \cup Draw(created, Ceiling(u)),
         NEW p, p.birth = birth, p.created = created, p.inactive = inactive
  PROVE  /\ birth \in Days /\ created \in Nat /\ inactive \in Nat \cup {Never}
         /\ created <= Now /\ PetTimes(p, u)
<1>1. birth \in Days /\ AsDt(birth) <= Ceiling(u) /\ AsDt(birth) \in Nat
  BY BornBefore, NowIsLast
<1>2. /\ Registrable(u, birth) \in Nat /\ Registrable(u, birth) <= Ceiling(u)
      /\ u.created <= Registrable(u, birth) /\ AsDt(birth) <= Registrable(u, birth)
  BY <1>1, CeilingBounds DEF Registrable, Later, UserRow
<1>3. created \in Nat /\ Registrable(u, birth) <= created /\ created <= Ceiling(u)
  BY <1>2, CeilingBounds, DrawBounds
<1>4. inactive # Never => inactive \in Nat /\ created <= inactive /\ inactive <= Ceiling(u)
  <2> SUFFICES ASSUME inactive # Never
               PROVE  inactive \in Nat /\ created <= inactive /\ inactive <= Ceiling(u)
    OBVIOUS
  <2>1. inactive \in Draw(created, Ceiling(u)) /\ Ceiling(u) \in Int
    BY CeilingBounds
  <2> QED BY <1>3, <2>1, DrawBounds
<1>5. /\ Ceiling(u) \in Nat /\ Ceiling(u) <= u.last_login /\ Ceiling(u) <= Now
      /\ u.withdrawn # Never => Ceiling(u) <= u.withdrawn
      /\ u.created \in Nat /\ u.last_login \in Int /\ u.withdrawn \in Int /\ Now \in Nat
  BY CeilingBounds, NowIsLast DEF UserRow, Never
<1> QED BY <1>1, <1>2, <1>3, <1>4, <1>5 DEF PetTimes

LEMMA SizesAreSizes ==
  ASSUME NEW animal \in Animals, NEW breeds \in SUBSET Breeds
  PROVE  Sizes(animal, breeds) \subseteq 1..5
BY SeedConstantsOK DEF Sizes, Earlier, Later

(* A link table with the links of a further row.                           *)
LEMMA Linked ==
  ASSUME NEW A, NEW B, NEW L \in SUBSET (A \X B), NEW more, A \subseteq more,
         NEW id \in more, NEW C \in SUBSET B
  PROVE  L \cup ({id} \X C) \in SUBSET (more \X B)
<1>1. \A x \in L : x \in more \X B
  OBVIOUS
<1>2. \A x \in {id} \X C : x \in more \X B
  OBVIOUS
<1> QED BY <1>1, <1>2

LEMMA GenPetKeepsIInv == IInv /\ GenPet => IInv'
<1> SUFFICES ASSUME IInv, GenPet PROVE IInv'
  OBVIOUS
<1> USE DEF IInv
<1> DEFINE u == user[turn]
           id == Len(pet) + 1
<1>1. /\ phase = "pets" /\ turn \in DOMAIN user /\ Registers(u)
      /\ UNCHANGED <<phase, turn, user, product, orders, source, database>>
  <2>1. Len(user) = NUsers /\ turn \in Nat /\ 1 <= turn /\ turn <= NUsers /\ DOMAIN user = 1..Len(user)
    BY SeedConstantsOK, LenProperties DEF GenPet, TypeOK, TablesInOrder
  <2> QED BY <2>1 DEF GenPet
<1>2. u \in UserRow /\ MemberTimes(u)
  BY <1>1 DEF TypeOK, PetsFitOwners
<1>3. PICK animal \in Animals, drawn \in BirthDays :
      \E breeds \in BreedPicks(animal), birth \in Birthdays(u, drawn),
         picked \in {as \in SUBSET Allergens : Cardinality(as) <= MaxPicks} :
      \E size \in Sizes(animal, breeds), created \in Draw(Registrable(u, birth), Ceiling(u)) :
      \E inactive \in {Never} \cup Draw(created, Ceiling(u)) :
        /\ pet' = Append(pet, [user |-> turn, animal |-> animal, birth |-> birth,
                               size |-> size, created |-> created, inactive |-> inactive])
        /\ pet_breed' = pet_breed \cup ({id} \X breeds)
        /\ pet_allergy' = pet_allergy \cup ({id} \X UNION {Descendants(a) : a \in picked})
  BY DEF GenPet
<1>4. PICK breeds \in BreedPicks(animal), birth \in Birthdays(u, drawn),
           picked \in {as \in SUBSET Allergens : Cardinality(as) <= MaxPicks} :
      \E size \in Sizes(animal, breeds), created \in Draw(Registrable(u, birth), Ceiling(u)) :
      \E inactive \in {Never} \cup Draw(created, Ceiling(u)) :
        /\ pet' = Append(pet, [user |-> turn, animal |-> animal, birth |-> birth,
                               size |-> size, created |-> created, inactive |-> inactive])
        /\ pet_breed' = pet_breed \cup ({id} \X breeds)
        /\ pet_allergy' = pet_allergy \cup ({id} \X UNION {Descendants(a) : a \in picked})
  BY <1>3
<1>5. PICK size \in Sizes(animal, breeds), created \in Draw(Registrable(u, birth), Ceiling(u)) :
      \E inactive \in {Never} \cup Draw(created, Ceiling(u)) :
        pet' = Append(pet, [user |-> turn, animal |-> animal, birth |-> birth,
                            size |-> size, created |-> created, inactive |-> inactive])
  BY <1>4
<1>6. PICK inactive \in {Never} \cup Draw(created, Ceiling(u)) :
        pet' = Append(pet, [user |-> turn, animal |-> animal, birth |-> birth,
                            size |-> size, created |-> created, inactive |-> inactive])
  BY <1>5
<1> DEFINE p == [user |-> turn, animal |-> animal, birth |-> birth,
                 size |-> size, created |-> created, inactive |-> inactive]
<1>7. p \in PetRow /\ PetTimes(p, u) /\ p.user = turn /\ p.animal = animal /\ p.size \in 1..5
  <2>1. size \in 1..5 /\ turn \in Nat
    <3>1. breeds \in SUBSET Breeds
      BY DEF BreedPicks
    <3>2. size \in 1..5
      <4> HIDE DEF u
      <4> QED BY <3>1, SizesAreSizes
    <3> QED BY <3>2 DEF TypeOK
  <2>2. /\ birth \in Days /\ created \in Nat /\ inactive \in Nat \cup {Never} /\ PetTimes(p, u)
    <3>1. p.birth = birth /\ p.created = created /\ p.inactive = inactive
      OBVIOUS
    <3> HIDE DEF p, u
    <3> QED BY <1>1, <1>2, <3>1, DrawnPet
  <2> QED BY <2>1, <2>2 DEF PetRow
<1> HIDE DEF p
<1>8. /\ pet' \in Seq(PetRow) /\ Len(pet') = id
      /\ DOMAIN pet' = DOMAIN pet \cup {id} /\ id \notin DOMAIN pet
      /\ \A i \in DOMAIN pet : pet'[i] = pet[i]
      /\ pet'[id] = p
  <2>1. pet \in Seq(PetRow) /\ pet' = Append(pet, p)
    BY <1>6 DEF p, TypeOK
  <2> QED BY <1>7, <2>1, Appended
<1>9. DOMAIN purchase = {} /\ product = <<>>
  BY <1>1 DEF TablesInOrder
<1>10. /\ pet_breed' \subseteq (DOMAIN pet') \X Breeds /\ pet_allergy' \subseteq (DOMAIN pet') \X Allergens
  <2>1. breeds \subseteq Breeds /\ picked \subseteq Allergens
    BY DEF BreedPicks
  <2>2. UNION {Descendants(a) : a \in picked} \subseteq Allergens
    BY <2>1, DescendantsAreAllergens
  <2>3. id \in DOMAIN pet' /\ DOMAIN pet \subseteq DOMAIN pet'
    BY <1>8
  <2>4. pet_breed' = pet_breed \cup ({id} \X breeds)
        /\ pet_allergy' = pet_allergy \cup ({id} \X UNION {Descendants(a) : a \in picked})
    BY <1>4
  <2> DEFINE under == UNION {Descendants(a) : a \in picked}
  <2>5. pet_breed \in SUBSET ((DOMAIN pet) \X Breeds) /\ pet_allergy \in SUBSET ((DOMAIN pet) \X Allergens)
    BY DEF ReferencesHold
  <2> HIDE DEF id, under
  <2>6. pet_breed \cup ({id} \X breeds) \in SUBSET ((DOMAIN pet') \X Breeds)
    BY <2>1, <2>3, <2>5, Linked
  <2>7. under \in SUBSET Allergens
    BY <2>2 DEF under
  <2>8. pet_allergy \cup ({id} \X under) \in SUBSET ((DOMAIN pet') \X Allergens)
    BY <2>3, <2>5, <2>7, Linked
  <2> QED BY <2>4, <2>6, <2>8 DEF under
<1>11. TypeOK'
  <2>1. DOMAIN pet' \subseteq Nat
    <3>1. DOMAIN pet' = 1..Len(pet') /\ Len(pet') \in Nat
      BY <1>8, LenProperties
    <3> QED BY <3>1
  <2>2. pet_breed' \subseteq Nat \X Breeds /\ pet_allergy' \subseteq Nat \X Allergens
    <3>1. \A x \in (DOMAIN pet') \X Breeds : x \in Nat \X Breeds
      BY <2>1
    <3>2. \A x \in (DOMAIN pet') \X Allergens : x \in Nat \X Allergens
      BY <2>1
    <3> QED BY <1>10, <3>1, <3>2
  <2> QED BY <1>1, <1>8, <2>2 DEF TypeOK, orders, database
<1>12. TablesInOrder'
  BY <1>1 DEF TablesInOrder, orders
<1>13. PetsFitOwners'
  BY <1>1, <1>7, <1>8 DEF PetsFitOwners
<1>14. ProductsListed' /\ PurchasesFitRows' /\ PurchasesSuitAnimals' /\ AgesRight' /\ IdsKept'
  BY <1>1, <1>9 DEF ProductsListed, PurchasesFitRows, PurchasesSuitAnimals, AgesRight, IdsKept, orders
<1>15. UidsNumbered' /\ KeysHold' /\ SeedLoads'
  BY <1>1 DEF UidsNumbered, Uids, KeysHold, Distinct, SeedLoads, orders
<1>16. ReferencesHold'
  <2>1. ASSUME NEW i \in DOMAIN pet' PROVE pet'[i].user \in DOMAIN user /\ pet'[i].animal \in Animals
    BY <1>1, <1>7, <1>8, <2>1 DEF ReferencesHold
  <2> QED BY <1>1, <1>9, <1>10, <2>1 DEF ReferencesHold, orders
<1> QED BY <1>11, <1>12, <1>13, <1>14, <1>15, <1>16

LEMMA GenProductKeepsIInv == IInv /\ GenProduct => IInv'
<1> SUFFICES ASSUME IInv, GenProduct PROVE IInv'
  OBVIOUS
<1> USE DEF IInv
<1>1. PICK kind \in Kinds, created \in Draw(AsDt(ServiceOpen), EndOf(Today)) :
        product' = Append(product, [category |-> kind.category, animals |-> kind.animals,
                                    is_active |-> kind.is_active, created |-> created])
  BY DEF GenProduct
<1> DEFINE p == [category |-> kind.category, animals |-> kind.animals,
                 is_active |-> kind.is_active, created |-> created]
<1>2. p \in ProductRow /\ p.created <= Now
  <2>1. created \in Nat /\ created <= Now
    BY Ends, NowIsLast, DrawBounds
  <2>2. kind \in [category: Nat, animals: SUBSET Animals, is_active: {0, 1}]
    BY SeedConstantsOK
  <2> QED BY <2>1, <2>2 DEF ProductRow
<1>3. /\ phase = "products" /\ Len(product) < NProducts
      /\ UNCHANGED <<phase, people, orders, source, database>>
  BY DEF GenProduct
<1> HIDE DEF p
<1>4. /\ product' \in Seq(ProductRow)
      /\ DOMAIN product' = DOMAIN product \cup {Len(product')} /\ product'[Len(product')] = p
      /\ \A j \in DOMAIN product : product'[j] = product[j]
  <2>1. product \in Seq(ProductRow) /\ product' = Append(product, p)
    BY <1>1 DEF p, TypeOK
  <2> QED BY <1>2, <2>1, Appended
<1>5. DOMAIN purchase = {}
  BY <1>3 DEF TablesInOrder
<1>6. TypeOK'
  BY <1>3, <1>4 DEF TypeOK, people, orders, database
<1>7. TablesInOrder'
  BY <1>3 DEF TablesInOrder, people, orders
<1>8. ProductsListed'
  BY <1>2, <1>4 DEF ProductsListed
<1>9. PetsFitOwners' /\ UidsNumbered' /\ SeedLoads'
  BY <1>3 DEF PetsFitOwners, UidsNumbered, Uids, SeedLoads, people
<1>10. PurchasesFitRows' /\ PurchasesSuitAnimals' /\ AgesRight' /\ IdsKept'
  BY <1>3, <1>5 DEF PurchasesFitRows, PurchasesSuitAnimals, AgesRight, IdsKept, orders
<1>11. KeysHold' /\ ReferencesHold'
  BY <1>3, <1>5 DEF KeysHold, Distinct, ReferencesHold, people, orders
<1> QED BY <1>6, <1>7, <1>8, <1>9, <1>10, <1>11

-----------------------------------------------------------------------------
(* Purchases.                                                              *)

LEMMA RowTypes ==
  ASSUME TypeOK
  PROVE  /\ \A i \in DOMAIN pet : pet[i] \in PetRow
         /\ \A j \in DOMAIN product : product[j] \in ProductRow
         /\ \A k \in DOMAIN purchase : purchase[k] \in PurchaseRow
         /\ source \in Seq(SourceRow)
<1>1. source \in Seq(SourceRow)
  <2>1. <<>> \in Seq(SourceRow)
    BY EmptySeq
  <2> QED BY <2>1, SeedConstantsOK DEF TypeOK
<1> QED BY <1>1, Table DEF TypeOK

LEMMA FloorBounds ==
  ASSUME IInv, NEW i \in DOMAIN pet, NEW j \in DOMAIN product,
         pet[i].created <= Now
  PROVE  /\ Floor(i, j) \in Nat /\ Floor(i, j) <= Now
         /\ pet[i].created <= Floor(i, j) /\ product[j].created <= Floor(i, j)
<1>1. pet[i].created \in Nat /\ product[j].created \in Nat /\ product[j].created <= Now
  <2>1. pet[i] \in PetRow /\ product[j] \in ProductRow
    BY RowTypes DEF IInv
  <2> QED BY <2>1 DEF IInv, PetRow, ProductRow, ProductsListed
<1> QED BY <1>1 DEF Floor, Later

LEMMA PetsArePast ==
  ASSUME IInv, NEW i \in DOMAIN pet
  PROVE  pet[i].created <= Now /\ pet[i] \in PetRow
<1>1. /\ pet[i] \in PetRow /\ user[pet[i].user] \in UserRow
      /\ PetTimes(pet[i], user[pet[i].user]) /\ MemberTimes(user[pet[i].user])
  BY DEF IInv, TypeOK, PetsFitOwners
<1> DEFINE u == user[pet[i].user]
<1>2. pet[i].created \in Nat /\ u.last_login \in Nat \cup {Never} /\ pet[i].created <= u.last_login
  BY <1>1 DEF PetRow, UserRow, PetTimes
<1>3. u.last_login # Never => u.last_login <= Now
  BY <1>1 DEF MemberTimes
<1> HIDE DEF u
<1>4. u.last_login # Never
  BY <1>2 DEF Never
<1> QED BY <1>1, <1>2, <1>3, <1>4, NowIsLast

(* A purchase of a pet and a product that are there, and suit.             *)
LEMMA BoughtKeepsIInv ==
  ASSUME IInv, phase \in {"source", "purchases"},
         NEW id \in Nat, id \notin Ids, NEW i \in DOMAIN pet, NEW j \in DOMAIN product,
         NEW at \in Nat, Floor(i, j) <= at, at <= Now,
         NEW reviewed \in Nat, at <= reviewed, reviewed <= Now,
         purchase' = Append(purchase, Bought(id, i, j, at)), review' = Append(review, reviewed),
         UNCHANGED <<phase, people, product, source, database>>,
         phase = "source" => Len(purchase) < Len(source) /\ id = source[Len(purchase) + 1].id,
         \/ pet[i].animal \in product[j].animals
         \/ phase = "source" /\ product[j].animals = {}
         \/ phase = "purchases" /\ For(pet[i].animal) \cap LiveProducts = {}
  PROVE  IInv'
<1> USE DEF IInv
<1> DEFINE o == Bought(id, i, j, at)
           n == Len(purchase) + 1
<1>1. pet[i] \in PetRow /\ pet[i].created <= Floor(i, j) /\ product[j].created <= Floor(i, j)
      /\ Floor(i, j) \in Nat
  BY PetsArePast, FloorBounds
<1>2. o \in PurchaseRow
  <2>1. DayOf(at) \in Days /\ pet[i].birth \in Days /\ pet[i].size \in 1..5
    BY <1>1, NowIsLast DEF PetRow
  <2>2. AgeMonths(pet[i].birth, DayOf(at)) \in Nat
    BY <2>1, AgesGrow DEF Days
  <2>3. i \in Nat /\ j \in Nat
    <3>1. DOMAIN pet = 1..Len(pet) /\ DOMAIN product = 1..Len(product)
      BY LenProperties DEF TypeOK
    <3> QED BY <3>1
  <2> QED BY <2>1, <2>2, <2>3 DEF PurchaseRow, Bought
<1>3. /\ purchase' \in Seq(PurchaseRow) /\ Len(purchase') = n
      /\ DOMAIN purchase' = DOMAIN purchase \cup {n} /\ n \notin DOMAIN purchase
      /\ \A k \in DOMAIN purchase : purchase'[k] = purchase[k]
      /\ purchase'[n] = o
  BY <1>2, Appended, SMTT(30) DEF TypeOK
<1>4. /\ review' \in Seq(Nat) /\ Len(review') = n /\ DOMAIN review' = DOMAIN review \cup {n}
      /\ \A k \in DOMAIN review : review'[k] = review[k]
      /\ review'[n] = reviewed
  <2>1. review \in Seq(Nat) /\ Len(review) = Len(purchase)
    BY DEF TypeOK, TablesInOrder
  <2> QED BY <2>1, Appended
<1>5. /\ o.id = id /\ o.pet = i /\ o.product = j /\ o.at = at
      /\ o.age_month = AgeMonths(pet[i].birth, DayOf(at))
  BY DEF Bought
<1>6. UNCHANGED <<phase, turn, user, pet, pet_breed, pet_allergy, product, source, database>>
  BY DEF people
<1>7. n \in Nat /\ Len(source) \in Nat /\ DOMAIN purchase = 1..(n - 1)
      /\ (phase = "source" => n <= Len(source)) /\ (phase = "purchases" => n > Len(source))
  <2>1. Len(purchase) \in Nat /\ DOMAIN purchase = 1..Len(purchase)
    BY LenProperties DEF TypeOK
  <2>2. Len(source) \in Nat
    BY RowTypes, Table
  <2>3. phase = "purchases" => Len(source) <= Len(purchase)
    BY DEF TablesInOrder
  <2> QED BY <2>1, <2>2, <2>3
<1> HIDE DEF o, n
<1>8. TypeOK'
  BY <1>3, <1>4, <1>6 DEF TypeOK, database
<1>9. TablesInOrder'
  BY <1>3, <1>4, <1>6, <1>7 DEF TablesInOrder
<1>10. PetsFitOwners' /\ ProductsListed' /\ UidsNumbered' /\ SeedLoads'
  BY <1>6 DEF PetsFitOwners, ProductsListed, UidsNumbered, Uids, SeedLoads
<1>11. PurchasesFitRows'
  <2>1. pet[i].created <= at /\ product[j].created <= at
    <3>1. pet[i].created \in Nat /\ product[j].created \in Nat
      <4>1. product[j] \in ProductRow
        BY RowTypes
      <4> QED BY <1>1, <4>1 DEF PetRow, ProductRow
    <3> QED BY <1>1, <3>1
  <2> QED BY <1>3, <1>4, <1>5, <1>6, <2>1 DEF PurchasesFitRows
<1>12. PurchasesSuitAnimals'
  <2>1. \A animal : For(animal)' = For(animal) /\ LiveProducts' = LiveProducts
    BY <1>6 DEF For, LiveProducts
  <2> QED BY <1>3, <1>5, <1>6, <1>7, <2>1 DEF PurchasesSuitAnimals
<1>13. AgesRight'
  BY <1>3, <1>5, <1>6 DEF AgesRight
<1>14. IdsKept'
  <2>1. PICK highest \in Nat : \A k \in DOMAIN purchase : purchase[k].id <= highest
    BY DEF IdsKept
  <2>2. Later(highest, id) \in Nat
        /\ \A k \in DOMAIN purchase' : purchase'[k].id <= Later(highest, id)
    <3>1. \A k \in DOMAIN purchase : purchase[k].id \in Nat
      BY RowTypes DEF PurchaseRow
    <3> QED BY <1>3, <1>5, <2>1, <3>1 DEF Later
  <2>3. \A k \in DOMAIN purchase' : k <= Len(source') => purchase'[k].id = source'[k].id
    <3>1. phase = "source" => id = source[n].id
      BY DEF n
    <3> QED BY <1>3, <1>5, <1>6, <1>7, <3>1 DEF IdsKept
  <2> QED BY <2>2, <2>3 DEF IdsKept
<1>15. KeysHold'
  <2>1. \A k \in DOMAIN purchase : purchase[k].id # id
    BY DEF Ids
  <2>2. \A k, l \in DOMAIN purchase : purchase[k].id = purchase[l].id => k = l
    BY DEF KeysHold, Distinct
  <2>3. \A k, l \in DOMAIN purchase' : purchase'[k].id = purchase'[l].id => k = l
    BY <1>3, <1>5, <2>1, <2>2
  <2> QED BY <1>6, <2>3 DEF KeysHold, Distinct
<1>16. ReferencesHold'
  BY <1>3, <1>5, <1>6 DEF ReferencesHold
<1> QED BY <1>8, <1>9, <1>10, <1>11, <1>12, <1>13, <1>14, <1>15, <1>16

(* Every row of review.csv is moved to a pet, if there is one.             *)
LEMMA SourcePetIsPet ==
  ASSUME NEW row \in SourceRow, pet \in Seq(PetRow), pet # <<>>
  PROVE  SourcePet(row) \in DOMAIN pet
<1> DEFINE same_user == {i \in DOMAIN pet : pet[i].user = row.customer}
           Off(i) == IF pet[i].size < row.size THEN row.size - pet[i].size ELSE pet[i].size - row.size
           offs == {Off(i) : i \in DOMAIN pet}
<1>1. DOMAIN pet \in SUBSET Nat /\ DOMAIN pet # {}
  BY Table
<1>2. \A i \in DOMAIN pet : Off(i) \in Nat
  <2>1. row.size \in 1..5 /\ \A i \in DOMAIN pet : pet[i].size \in 1..5
    <3>1. \A i \in DOMAIN pet : pet[i] \in PetRow
      BY Table
    <3> QED BY <3>1 DEF SourceRow, PetRow
  <2> QED BY <2>1
<1>3. CASE row.pet \in DOMAIN pet
  BY <1>3 DEF SourcePet
<1>4. CASE row.pet \notin DOMAIN pet /\ same_user # {}
  <2>1. \E i \in same_user : \A j \in same_user : i <= j
    <3>1. same_user \in SUBSET Nat /\ same_user # {}
      BY <1>1, <1>4
    <3> HIDE DEF same_user
    <3> QED BY <3>1, Least
  <2> DEFINE i == CHOOSE i \in same_user : \A j \in same_user : i <= j
  <2>2. i \in same_user
    BY <2>1
  <2>3. SourcePet(row) = i
    BY <1>4 DEF SourcePet
  <2> QED BY <2>2, <2>3
<1>5. CASE row.pet \notin DOMAIN pet /\ same_user = {}
  <2> DEFINE Nearest(i) == \A j \in DOMAIN pet : Off(i) < Off(j) \/ (Off(i) = Off(j) /\ i <= j)
  <2>1. PICK least \in offs : \A off \in offs : least <= off
    <3>1. offs \in SUBSET Nat /\ offs # {}
      BY <1>1, <1>2
    <3> HIDE DEF offs
    <3> QED BY <3>1, Least
  <2> DEFINE near == {i \in DOMAIN pet : Off(i) = least}
  <2>2. PICK i \in near : \A j \in near : i <= j
    <3>1. near \in SUBSET Nat /\ near # {}
      BY <1>1, <2>1
    <3> HIDE DEF near
    <3> QED BY <3>1, Least
  <2>3. ASSUME NEW j \in DOMAIN pet PROVE Off(i) < Off(j) \/ (Off(i) = Off(j) /\ i <= j)
    <3>1. Off(i) = least /\ Off(j) \in Nat /\ least \in Nat /\ least <= Off(j)
      BY <1>2, <2>1, <2>2
    <3>2. Off(j) = least => i <= j
      BY <2>2
    <3> HIDE DEF Off
    <3> QED BY <3>1, <3>2
  <2>4. \E x \in DOMAIN pet : Nearest(x)
    <3>1. i \in DOMAIN pet /\ Nearest(i)
      BY <2>2, <2>3
    <3> QED BY <3>1
  <2>5. SourcePet(row) = CHOOSE x \in DOMAIN pet : Nearest(x)
    BY <1>5 DEF SourcePet
  <2> HIDE DEF Nearest
  <2> QED BY <2>4, <2>5
<1> QED BY <1>3, <1>4, <1>5

(* A moved row takes a product for its animal, or one for any.             *)
LEMMA SourceProductsSuit ==
  ASSUME IInv, NEW row \in SourceRow, row.product \in DOMAIN product, NEW animal,
         NEW j \in SourceProducts(row, animal)
  PROVE  j \in DOMAIN product /\ (animal \in product[j].animals \/ product[j].animals = {})
BY DEF SourceProducts, For

(* It is moved to a time when its pet and its product are there.           *)
LEMMA SourceTimesBounds ==
  ASSUME NEW row \in SourceRow, NEW floor \in Nat, floor <= Now, NEW at \in SourceTimes(row, floor)
  PROVE  at \in Nat /\ floor <= at /\ at <= Now
<1> DEFINE day_end == Earlier(EndOf(row.day), Now)
<1>1. /\ AsDt(row.day) \in Nat /\ EndOf(row.day) \in Nat /\ Now \in Nat
      /\ AsDt(row.day) <= EndOf(row.day) /\ EndOf(row.day) <= Now
  <2>1. row.day \in Days
    BY DEF SourceRow
  <2> QED BY <2>1, NowIsLast DEF EndOf, Days
<1>2. day_end = EndOf(row.day)
  BY <1>1 DEF Earlier
<1>3. CASE floor <= day_end
  <2>1. at \in Draw(Later(AsDt(row.day), floor), EndOf(row.day))
    BY <1>2, <1>3 DEF SourceTimes
  <2>2. Later(AsDt(row.day), floor) \in Nat /\ floor <= Later(AsDt(row.day), floor)
        /\ Later(AsDt(row.day), floor) <= EndOf(row.day)
    BY <1>1, <1>2, <1>3 DEF Later
  <2>3. at \in Nat /\ Later(AsDt(row.day), floor) <= at /\ at <= EndOf(row.day)
    BY <1>1, <2>1, <2>2, DrawBounds
  <2> QED BY <1>1, <2>2, <2>3
<1>4. CASE ~(floor <= day_end)
  <2>1. at \in Draw(floor, Now)
    BY <1>4 DEF SourceTimes
  <2> QED BY <1>1, <2>1, DrawBounds
<1> QED BY <1>3, <1>4

LEMMA MoveRowKeepsIInv == IInv /\ MoveRow => IInv'
<1> SUFFICES ASSUME IInv, MoveRow PROVE IInv'
  OBVIOUS
<1> DEFINE n == Len(purchase) + 1
           row == source[n]
           i == SourcePet(row)
<1>1. /\ phase = "source" /\ Len(purchase) < Len(source) /\ pet # <<>>
      /\ UNCHANGED <<phase, people, product, source, database>>
  BY DEF MoveRow
<1>2. PICK j \in SourceProducts(row, pet[i].animal) :
      \E at \in SourceTimes(row, Floor(i, j)) :
        purchase' = Append(purchase, Bought(row.id, i, j, at)) /\ review' = Append(review, at)
  BY DEF MoveRow
<1>3. PICK at \in SourceTimes(row, Floor(i, j)) :
        purchase' = Append(purchase, Bought(row.id, i, j, at)) /\ review' = Append(review, at)
  BY <1>2
<1>4. /\ source \in Seq(SourceRow) /\ Len(purchase) \in Nat /\ Len(source) \in Nat
      /\ DOMAIN source = 1..Len(source) /\ DOMAIN purchase = 1..Len(purchase)
  <2>1. purchase \in Seq(PurchaseRow) /\ source \in Seq(SourceRow)
    BY RowTypes DEF IInv, TypeOK
  <2> QED BY <2>1, Table
<1>5. n \in DOMAIN source /\ n \notin DOMAIN purchase /\ DOMAIN purchase \subseteq DOMAIN source
  BY <1>1, <1>4
<1>6. row \in SourceRow
  BY <1>4, <1>5, Table
<1>7. i \in DOMAIN pet
  <2>1. pet \in Seq(PetRow)
    BY DEF IInv, TypeOK
  <2> HIDE DEF row
  <2> QED BY <1>1, <1>6, <2>1, SourcePetIsPet
<1>8. row.product \in DOMAIN product
  <2>1. product \in Seq(ProductRow) /\ Len(product) = NProducts
    BY <1>1 DEF IInv, TypeOK, TablesInOrder
  <2>2. DOMAIN product = 1..NProducts
    BY <2>1, Table
  <2> QED BY <1>6, <2>2 DEF SourceRow
<1>9. j \in DOMAIN product /\ (pet[i].animal \in product[j].animals \/ product[j].animals = {})
  <2> HIDE DEF row, i
  <2> QED BY <1>2, <1>6, <1>8, SourceProductsSuit
<1>10. Floor(i, j) \in Nat /\ Floor(i, j) <= Now
  <2> HIDE DEF i
  <2> QED BY <1>7, <1>9, PetsArePast, FloorBounds
<1>11. at \in Nat /\ Floor(i, j) <= at /\ at <= Now
  <2> HIDE DEF i, row
  <2> QED BY <1>6, <1>10, SourceTimesBounds
<1>12. row.id \in Nat /\ row.id \notin Ids
  <2>1. ASSUME NEW k \in DOMAIN purchase PROVE purchase[k].id # row.id
    <3>1. purchase[k].id = source[k].id /\ k # n /\ k \in DOMAIN source
      BY <1>4, <1>5 DEF IInv, IdsKept
    <3>2. \A a, b \in DOMAIN source : source[a].id = source[b].id => a = b
      <4>1. source \in SourceFiles \/ source = <<>>
        BY DEF IInv, TypeOK
      <4>2. source = <<>> => DOMAIN source = {}
        OBVIOUS
      <4> QED BY <4>1, <4>2, SeedConstantsOK
    <3> QED BY <1>5, <3>1, <3>2
  <2>2. row.id \in Nat
    BY <1>6 DEF SourceRow
  <2> QED BY <2>1, <2>2 DEF Ids
<1> DEFINE id == row.id
<1>13. id = source[n].id
  OBVIOUS
<1> HIDE DEF i, row, id
<1>14. id \in Nat /\ id \notin Ids
       /\ purchase' = Append(purchase, Bought(id, i, j, at)) /\ review' = Append(review, at)
  BY <1>3, <1>12 DEF id
<1> QED BY <1>1, <1>7, <1>9, <1>11, <1>13, <1>14, BoughtKeepsIInv

(* One above the highest id is free.                                       *)
LEMMA NextIdIsFree ==
  ASSUME IInv
  PROVE  NextId \in Nat /\ NextId \notin Ids
<1>1. Ids \in SUBSET Nat
  BY RowTypes DEF IInv, Ids, PurchaseRow
<1>2. CASE purchase = <<>>
  BY <1>2 DEF NextId, Ids
<1>3. CASE purchase # <<>>
  <2>1. Ids # {}
    <3>1. DOMAIN purchase # {}
      BY <1>3, Table DEF IInv, TypeOK
    <3> QED BY <3>1 DEF Ids
  <2>2. \E highest \in Nat : \A n \in Ids : n <= highest
    BY DEF IInv, IdsKept, Ids
  <2>3. \E m \in Ids : \A n \in Ids : n <= m
    BY <1>1, <2>1, <2>2, Greatest
  <2> DEFINE m == CHOOSE m \in Ids : \A n \in Ids : n <= m
  <2>4. m \in Ids /\ \A n \in Ids : n <= m
    BY <2>3
  <2>5. NextId = m + 1
    BY <1>3 DEF NextId
  <2> HIDE DEF m
  <2>6. m \in Nat /\ ~(m + 1 <= m)
    BY <1>1, <2>4
  <2> QED BY <2>4, <2>5, <2>6
<1> QED BY <1>2, <1>3

LEMMA GenPurchaseKeepsIInv == IInv /\ GenPurchase => IInv'
<1> SUFFICES ASSUME IInv, GenPurchase PROVE IInv'
  OBVIOUS
<1>1. /\ phase = "purchases"
      /\ UNCHANGED <<phase, people, product, source, database>>
  BY DEF GenPurchase
<1>2. PICK i \in LivePets : \E j \in Candidates(pet[i].animal) :
      \E at \in Draw(Floor(i, j), Now), days \in ReviewDays :
        /\ purchase' = Append(purchase, Bought(NextId, i, j, at))
        /\ review' = Append(review, Earlier(Now, at + 2 * days))
  BY DEF GenPurchase
<1>3. PICK j \in Candidates(pet[i].animal) :
      \E at \in Draw(Floor(i, j), Now), days \in ReviewDays :
        /\ purchase' = Append(purchase, Bought(NextId, i, j, at))
        /\ review' = Append(review, Earlier(Now, at + 2 * days))
  BY <1>2
<1>4. PICK at \in Draw(Floor(i, j), Now), days \in ReviewDays :
        /\ purchase' = Append(purchase, Bought(NextId, i, j, at))
        /\ review' = Append(review, Earlier(Now, at + 2 * days))
  BY <1>3
<1>5. i \in DOMAIN pet /\ j \in DOMAIN product
  BY <1>2, <1>3 DEF LivePets, Candidates, For, LiveProducts
<1>6. pet[i].animal \in product[j].animals \/ For(pet[i].animal) \cap LiveProducts = {}
  BY <1>3 DEF Candidates, For
<1>7. Floor(i, j) \in Nat /\ Floor(i, j) <= Now
  BY <1>5, PetsArePast, FloorBounds
<1>8. at \in Nat /\ Floor(i, j) <= at /\ at <= Now
  BY <1>4, <1>7, NowIsLast, DrawBounds
<1> DEFINE reviewed == Earlier(Now, at + 2 * days)
<1>9. reviewed \in Nat /\ at <= reviewed /\ reviewed <= Now
  <2>1. days \in Nat
    BY SeedConstantsOK
  <2> QED BY <1>8, <2>1, NowIsLast DEF Earlier
<1>10. NextId \in Nat /\ NextId \notin Ids
  BY NextIdIsFree
<1> HIDE DEF reviewed
<1>11. purchase' = Append(purchase, Bought(NextId, i, j, at)) /\ review' = Append(review, reviewed)
  BY <1>4 DEF reviewed
<1> QED BY <1>1, <1>5, <1>6, <1>8, <1>9, <1>10, <1>11, BoughtKeepsIInv

-----------------------------------------------------------------------------
LEMMA NextKeepsIInv == IInv /\ [Next]_vars => IInv'
<1> SUFFICES ASSUME IInv, [Next]_vars PROVE IInv'
  OBVIOUS
<1>1. CASE UNCHANGED vars
  BY <1>1, RowsKeptKeepIInv
     DEF vars, people, orders, database, rows, IInv, TypeOK, TablesInOrder, SeedLoads
<1> QED BY <1>1, GenUserKeepsIInv, GenPetKeepsIInv, NextMemberKeepsIInv, GenProductKeepsIInv,
           ReadSourceKeepsIInv, MoveRowKeepsIInv, GenPurchaseKeepsIInv, PhaseKeepsIInv,
           LoadKeepsIInv DEF Next

-----------------------------------------------------------------------------
(* Every state of the generator, of the load and of the sign-ups after it  *)
(* has the tables as IInv says.                                            *)
THEOREM SpecIInv == Spec => []IInv
BY InitIInv, NextKeepsIInv, PTL DEF Spec

(* The tables hold rows of their types, whatever gen_seed.py draws.        *)
THEOREM SpecTypeOK == Spec => []TypeOK
<1>1. IInv => TypeOK
  BY DEF IInv
<1> QED BY <1>1, SpecIInv, PTL

(* gen_users and gen_pets never draw a time that crosses another: nobody   *)
(* registers a pet before signing up, before it is born, after withdrawing.*)
THEOREM SpecPetsFitOwners == Spec => []PetsFitOwners
<1>1. IInv => PetsFitOwners
  BY DEF IInv
<1> QED BY <1>1, SpecIInv, PTL

(* A purchase of gen_purchases, moved over from review.csv or new, is of a *)
(* pet and a product that were there, and is reviewed later than made.     *)
THEOREM SpecPurchasesFitRows == Spec => []PurchasesFitRows
<1>1. IInv => PurchasesFitRows
  BY DEF IInv
<1> QED BY <1>1, SpecIInv, PTL

(* A product for other animals is bought only where nothing on sale is for *)
(* this one; from_source never moves a purchase to one.                    *)
THEOREM SpecPurchasesSuitAnimals == Spec => []PurchasesSuitAnimals
<1>1. IInv => PurchasesSuitAnimals
  BY DEF IInv
<1> QED BY <1>1, SpecIInv, PTL

(* age_months gives a later purchase for a pet no lower an age.            *)
THEOREM SpecAgesAdvance == Spec => []AgesAdvance
<1>1. ASSUME IInv PROVE AgesAdvance
  <2> SUFFICES ASSUME NEW k \in DOMAIN purchase, NEW l \in DOMAIN purchase,
                      purchase[k].pet = purchase[l].pet, purchase[k].at <= purchase[l].at
               PROVE  purchase[k].age_month <= purchase[l].age_month
    BY DEF AgesAdvance
  <2> DEFINE birth == pet[purchase[k].pet].birth
             d == DayOf(purchase[k].at)
             e == DayOf(purchase[l].at)
  <2>1. /\ purchase[k].age_month = AgeMonths(birth, d)
        /\ purchase[l].age_month = AgeMonths(birth, e)
    BY <1>1 DEF IInv, AgesRight
  <2>2. /\ purchase[k].at \in Nat /\ purchase[k].at <= Now
        /\ purchase[l].at \in Nat /\ purchase[l].at <= Now
        /\ purchase[k].pet \in DOMAIN pet
    BY <1>1, RowTypes DEF IInv, PurchaseRow, PurchasesFitRows
  <2>3. d \in Days /\ e \in Days
    BY <2>2, NowIsLast
  <2>4. birth \in Days
    <3>1. \A i \in DOMAIN pet : pet[i] \in PetRow
      BY <1>1, RowTypes DEF IInv
    <3>2. pet[purchase[k].pet] \in PetRow
      BY <2>2, <3>1
    <3> QED BY <3>2 DEF PetRow
  <2>5. d <= e
    BY <2>2 DEF DayOf
  <2> HIDE DEF birth, d, e
  <2> QED BY <2>1, <2>3, <2>4, <2>5, AgesGrow
<1> QED BY <1>1, SpecIInv, PTL

(* The database never refuses what the generator wrote: keys, references   *)
(* and CHECKs hold, and topo_sort puts parents before their children.      *)
THEOREM SpecSeedLoads == Spec => []SeedLoads
<1>1. IInv => SeedLoads
  BY DEF IInv
<1> QED BY <1>1, SpecIInv, PTL

=============================================================================
