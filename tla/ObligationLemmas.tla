---------------------------- MODULE ObligationLemmas ----------------------------
(***************************************************************************)
(* What the methods of an obligation and the handlers' use of them do to an *)
(* account, for any slots and any reserves: which fields they keep, that the *)
(* result has its type, and that the slot arrays stay consistent.          *)
(***************************************************************************)
EXTENDS ObligationHandlers, ReserveLemmas, FiniteSetTheorems

(***************************************************************************)
(* Sums over finite sets.  MapThenSumSet is a recursive function that CHOOSE *)
(* picks, so that what it returns is shown by induction over the subsets.  *)
(***************************************************************************)
\* The sum of f over S, as Lending's SumOver and the values of ObligationState are.
Total(f, S) == MapThenSumSet(LAMBDA x : f[x], S)

\* The member the fold takes first.
Some(s) == CHOOSE x \in s : TRUE

\* g adds the terms of f over every subset of S.
Adds(f, S, g) ==
  g = [s \in SUBSET S |-> IF s = {} THEN 0 ELSE f[Some(s)] + g[s \ {Some(s)}]]

Adder(f, S) == CHOOSE g : Adds(f, S, g)

\* The sum is what the recursion in the library's fold leaves for the whole set.
LEMMA TotalIter ==
  ASSUME NEW f, NEW S
  PROVE  Total(f, S) = Adder(f, S)[S]
  BY DEF Total, MapThenSumSet, MapThenFoldSet, Adder, Adds, Some

\* Any nonempty family of subsets of a finite set has a member none of whose
\* own subsets is in the family: what the inductions below need.
LEMMA LeastSubset ==
  ASSUME NEW S, IsFiniteSet(S), NEW Bad \in SUBSET (SUBSET S), Bad # {}
  PROVE  \E s \in Bad : \A t \in SUBSET s : t # s => t \notin Bad
  <1>1. Bad \subseteq FiniteSubsetsOf(S)
    BY FS_FiniteSubsetsOfFinite
  <1>2. PICK s \in Bad : \A t \in Bad : <<t, s>> \notin StrictSubsetOrdering(S)
    BY <1>1, FS_StrictSubsetOrderingWellFounded, WFMin
  <1>3. ASSUME NEW t \in SUBSET s, t # s
        PROVE  t \notin Bad
    <2>1. <<t, s>> \in StrictSubsetOrdering(S)
      BY <1>3 DEF StrictSubsetOrdering
    <2> QED BY <1>2, <2>1
  <1> QED BY <1>3

\* Two functions that add the same terms agree on the sets both know.
LEMMA AddsUnique ==
  ASSUME NEW f, NEW S, IsFiniteSet(S), NEW T \in SUBSET S, NEW U, T \subseteq U,
         NEW g, NEW h, Adds(f, S, g), Adds(f, U, h)
  PROVE  g[T] = h[T]
  <1> DEFINE Bad == {s \in SUBSET S : s \subseteq U /\ g[s] # h[s]}
  <1> SUFFICES ASSUME Bad # {} PROVE FALSE
    OBVIOUS
  <1>1. PICK s \in Bad : \A t \in SUBSET s : t # s => t \notin Bad
    <2> HIDE DEF Bad
    <2>1. Bad \in SUBSET (SUBSET S)
      BY DEF Bad
    <2> QED BY <2>1, LeastSubset
  <1>2. s \in SUBSET S /\ s \in SUBSET U /\ g[s] # h[s]
    OBVIOUS
  <1>3. s # {}
    BY <1>2 DEF Adds
  <1>4. PICK x \in s : x = Some(s)
    BY <1>3 DEF Some
  <1>5. g[s] = f[x] + g[s \ {x}] /\ h[s] = f[x] + h[s \ {x}]
    BY <1>2, <1>3, <1>4 DEF Adds
  <1>6. s \ {x} \notin Bad
    BY <1>1, <1>4
  <1> QED BY <1>2, <1>5, <1>6

\* For a finite set there is such a function.
LEMMA AdderAdds ==
  ASSUME NEW f, NEW S, IsFiniteSet(S)
  PROVE  Adds(f, S, Adder(f, S))
  <1> DEFINE Bad == {s \in SUBSET S : ~\E g : Adds(f, s, g)}
  <1> SUFFICES ASSUME Bad # {} PROVE FALSE
    BY DEF Adder
  <1>1. PICK s \in Bad : \A t \in SUBSET s : t # s => t \notin Bad
    <2> HIDE DEF Bad
    <2>1. Bad \in SUBSET (SUBSET S)
      BY DEF Bad
    <2> QED BY <2>1, LeastSubset
  <1>2. s \in SUBSET S /\ ~\E g : Adds(f, s, g)
    OBVIOUS
  <1>3. \A t \in SUBSET s : t # s => Adds(f, t, Adder(f, t))
    BY <1>1, <1>2 DEF Adder
  <1> DEFINE h == [t \in SUBSET s |->
                     IF t = {} THEN 0
                     ELSE f[Some(t)] + Adder(f, t \ {Some(t)})[t \ {Some(t)}]]
  <1>4. ASSUME NEW t \in SUBSET s, t # s, t # {}
        PROVE  Adder(f, t)[t] = h[t]
    <2>1. PICK y \in t : y = Some(t)
      BY <1>4 DEF Some
    <2>2. Adds(f, t, Adder(f, t)) /\ Adds(f, t \ {y}, Adder(f, t \ {y}))
      BY <1>3, <1>4
    <2>3. Adder(f, t)[t] = f[y] + Adder(f, t)[t \ {y}]
      BY <1>4, <2>1, <2>2 DEF Adds
    <2>4. IsFiniteSet(t) /\ t \ {y} \in SUBSET t
      BY <1>2, FS_Subset
    <2>5. Adder(f, t)[t \ {y}] = Adder(f, t \ {y})[t \ {y}]
      BY <2>2, <2>4, AddsUnique
    <2> QED BY <1>4, <2>1, <2>3, <2>5
  <1>5. s # {} => Adder(f, {})[{}] = 0
    BY <1>3 DEF Adds
  <1>6. ASSUME NEW t \in SUBSET s, t # {}
        PROVE  h[t] = f[Some(t)] + h[t \ {Some(t)}]
    <2>1. PICK y \in t : y = Some(t)
      BY <1>6 DEF Some
    <2>2. t \ {y} \in SUBSET s /\ t \ {y} # s
      BY <2>1
    <2>3. Adder(f, t \ {y})[t \ {y}] = h[t \ {y}]
      BY <1>4, <1>5, <1>6, <2>2
    <2> QED BY <1>6, <2>1, <2>3
  <1>7. Adds(f, s, h)
    <2>1. h[{}] = 0
      OBVIOUS
    <2>2. h = [t \in SUBSET s |-> IF t = {} THEN 0 ELSE f[Some(t)] + h[t \ {Some(t)}]]
      BY <1>6, <2>1
    <2> HIDE DEF h
    <2> QED BY <2>2 DEF Adds
  <1> QED BY <1>2, <1>7

\* The recursion that defines a sum.
LEMMA TotalStep ==
  ASSUME NEW f, NEW S, IsFiniteSet(S)
  PROVE  Total(f, S) = IF S = {} THEN 0 ELSE f[Some(S)] + Total(f, S \ {Some(S)})
  <1>1. Adds(f, S, Adder(f, S))
    BY AdderAdds
  <1>2. Total(f, S) = Adder(f, S)[S]
    BY TotalIter
  <1>3. CASE S = {}
    BY <1>1, <1>2, <1>3 DEF Adds
  <1>4. CASE S # {}
    <2>1. PICK x \in S : x = Some(S)
      BY <1>4 DEF Some
    <2>2. IsFiniteSet(S \ {x}) /\ S \ {x} \in SUBSET S
      BY FS_Subset
    <2>3. Adder(f, S)[S] = f[x] + Adder(f, S)[S \ {x}]
      BY <1>1, <1>4, <2>1 DEF Adds
    <2>4. Adder(f, S \ {x})[S \ {x}] = Adder(f, S)[S \ {x}]
      BY <1>1, <2>2, AdderAdds, AddsUnique
    <2> QED BY <1>2, <1>4, <2>1, <2>3, <2>4, TotalIter
  <1> QED BY <1>3, <1>4

\* A sum of zeros.
LEMMA TotalZero ==
  ASSUME NEW f, NEW S, IsFiniteSet(S), \A x \in S : f[x] = 0
  PROVE  Total(f, S) = 0
  <1> DEFINE Bad == {s \in SUBSET S : Total(f, s) # 0}
  <1> SUFFICES ASSUME Bad # {} PROVE FALSE
    OBVIOUS
  <1>1. PICK s \in Bad : \A t \in SUBSET s : t # s => t \notin Bad
    <2> HIDE DEF Bad
    <2>1. Bad \in SUBSET (SUBSET S)
      BY DEF Bad
    <2> QED BY <2>1, LeastSubset
  <1>2. s \in SUBSET S /\ IsFiniteSet(s) /\ Total(f, s) # 0
    BY FS_Subset
  <1>3. s # {}
    BY <1>2, TotalStep
  <1>4. PICK x \in s : x = Some(s)
    BY <1>3 DEF Some
  <1>5. Total(f, s) = f[x] + Total(f, s \ {x})
    BY <1>2, <1>3, <1>4, TotalStep
  <1>6. Total(f, s \ {x}) = 0
    BY <1>1, <1>2, <1>4
  <1> QED BY <1>2, <1>4, <1>5, <1>6

\* A sum of naturals is a natural.
LEMMA TotalBound ==
  ASSUME NEW f, NEW S, IsFiniteSet(S), \A x \in S : f[x] \in Nat
  PROVE  Total(f, S) \in Nat
  <1> DEFINE Bad == {s \in SUBSET S : Total(f, s) \notin Nat}
  <1> SUFFICES ASSUME Bad # {} PROVE FALSE
    OBVIOUS
  <1>1. PICK s \in Bad : \A t \in SUBSET s : t # s => t \notin Bad
    <2> HIDE DEF Bad
    <2>1. Bad \in SUBSET (SUBSET S)
      BY DEF Bad
    <2> QED BY <2>1, LeastSubset
  <1>2. s \in SUBSET S /\ IsFiniteSet(s)
    BY FS_Subset
  <1>3. s # {}
    <2>1. s = {} => Total(f, s) = 0
      BY <1>2, TotalStep
    <2> QED BY <2>1
  <1>4. PICK x \in s : x = Some(s)
    BY <1>3 DEF Some
  <1>5. Total(f, s) = f[x] + Total(f, s \ {x})
    BY <1>2, <1>3, <1>4, TotalStep
  <1>6. s \ {x} \in SUBSET s /\ s \ {x} # s /\ s \ {x} \in SUBSET S
    BY <1>2, <1>4
  <1>7. Total(f, s \ {x}) \in Nat
    BY <1>1, <1>6
  <1> QED BY <1>2, <1>5, <1>7

\* Any member may be the one that is split off.
LEMMA TotalWithout ==
  ASSUME NEW f, NEW S, IsFiniteSet(S), \A x \in S : f[x] \in Nat, NEW e \in S
  PROVE  Total(f, S) = f[e] + Total(f, S \ {e})
  <1> DEFINE Bad == {s \in SUBSET S : \E x \in s : Total(f, s) # f[x] + Total(f, s \ {x})}
  <1> SUFFICES ASSUME Bad # {} PROVE FALSE
    OBVIOUS
  <1>1. PICK s \in Bad : \A t \in SUBSET s : t # s => t \notin Bad
    <2> HIDE DEF Bad
    <2>1. Bad \in SUBSET (SUBSET S)
      BY DEF Bad
    <2> QED BY <2>1, LeastSubset
  <1>2. PICK x \in s : Total(f, s) # f[x] + Total(f, s \ {x})
    OBVIOUS
  <1>3. PICK y \in s : y = Some(s)
    BY DEF Some
  <1>4. s \in SUBSET S /\ IsFiniteSet(s) /\ IsFiniteSet(s \ {x}) /\ IsFiniteSet(s \ {y})
        /\ IsFiniteSet((s \ {x}) \ {y})
    <2>1. s \in SUBSET S /\ s \ {x} \in SUBSET S /\ s \ {y} \in SUBSET S
          /\ (s \ {x}) \ {y} \in SUBSET S
      OBVIOUS
    <2> HIDE DEF Bad
    <2> QED BY <2>1, FS_Subset
  <1>5. Total(f, s) = f[y] + Total(f, s \ {y})
    BY <1>3, <1>4, TotalStep
  <1>6. x # y
    BY <1>2, <1>5
  <1>7. Total(f, s \ {y}) = f[x] + Total(f, (s \ {y}) \ {x})
    <2>1. s \ {y} \notin Bad /\ s \ {y} \in SUBSET S
      BY <1>1, <1>3, <1>4
    <2> QED BY <2>1, <1>6
  <1>8. Total(f, s \ {x}) = f[y] + Total(f, (s \ {x}) \ {y})
    <2>1. s \ {x} \notin Bad /\ s \ {x} \in SUBSET S
      BY <1>1, <1>2, <1>4
    <2> QED BY <2>1, <1>6
  <1>9. (s \ {x}) \ {y} = (s \ {y}) \ {x}
    OBVIOUS
  <1>10. f[x] \in Nat /\ f[y] \in Nat /\ Total(f, (s \ {x}) \ {y}) \in Nat
    BY <1>4, TotalBound
  <1> HIDE DEF Bad
  <1> QED BY <1>2, <1>5, <1>7, <1>8, <1>9, <1>10

\* No term exceeds the sum.
LEMMA TotalMember ==
  ASSUME NEW f, NEW S, IsFiniteSet(S), \A x \in S : f[x] \in Nat, NEW e \in S
  PROVE  f[e] <= Total(f, S)
  <1>1. IsFiniteSet(S \ {e})
    BY FS_Subset
  <1>2. f[e] \in Nat /\ Total(f, S \ {e}) \in Nat
    BY <1>1, TotalBound
  <1>3. Total(f, S) = f[e] + Total(f, S \ {e})
    BY TotalWithout
  <1> QED BY <1>2, <1>3

\* A sum depends only on its terms.
LEMMA TotalSame ==
  ASSUME NEW f, NEW h, NEW S, IsFiniteSet(S), \A x \in S : f[x] = h[x]
  PROVE  Total(f, S) = Total(h, S)
  <1> DEFINE Bad == {s \in SUBSET S : Total(f, s) # Total(h, s)}
  <1> SUFFICES ASSUME Bad # {} PROVE FALSE
    OBVIOUS
  <1>1. PICK s \in Bad : \A t \in SUBSET s : t # s => t \notin Bad
    <2> HIDE DEF Bad
    <2>1. Bad \in SUBSET (SUBSET S)
      BY DEF Bad
    <2> QED BY <2>1, LeastSubset
  <1>2. s \in SUBSET S /\ IsFiniteSet(s)
    BY FS_Subset
  <1>3. s # {}
    BY <1>2, TotalStep
  <1>4. PICK x \in s : x = Some(s)
    BY <1>3 DEF Some
  <1>5. Total(f, s) = f[x] + Total(f, s \ {x}) /\ Total(h, s) = h[x] + Total(h, s \ {x})
    BY <1>2, <1>3, <1>4, TotalStep
  <1>6. s \ {x} \in SUBSET S /\ s \ {x} \notin Bad
    BY <1>1, <1>2, <1>4
  <1> QED BY <1>2, <1>5, <1>6

\* Changing one term changes the sum by the difference.
LEMMA TotalChange ==
  ASSUME NEW f, NEW h, NEW S, IsFiniteSet(S), NEW e \in S,
         \A x \in S : f[x] \in Nat /\ h[x] \in Nat,
         \A x \in S \ {e} : h[x] = f[x]
  PROVE  Total(h, S) = Total(f, S) - f[e] + h[e]
  <1>1. IsFiniteSet(S \ {e})
    BY FS_Subset
  <1>2. Total(h, S \ {e}) = Total(f, S \ {e}) /\ Total(f, S \ {e}) \in Nat
    BY <1>1, TotalSame, TotalBound
  <1>3. Total(f, S) = f[e] + Total(f, S \ {e}) /\ Total(h, S) = h[e] + Total(h, S \ {e})
    BY TotalWithout
  <1> QED BY <1>2, <1>3

(***************************************************************************)
(* Slots: what find, find_or_add and the count of active slots have to do  *)
(* with each other as slots are opened, written and given back.            *)
(***************************************************************************)
\* A nonempty set of naturals has a first member.
LEMMA LeastNatural ==
  ASSUME NEW S \in SUBSET Nat, S # {}
  PROVE  FirstOf(S) \in S
  <1>1. PICK i \in S : \A j \in S : <<j, i>> \notin OpToRel(<, Nat)
    BY NatLessThanWellFounded, WFMin
  <1>2. \A j \in S : ~(j < i)
    BY <1>1 DEF OpToRel
  <1>3. \A j \in S : i <= j
    BY <1>2
  <1> QED BY <1>3 DEF FirstOf

\* The slots of either side are at most 255 naturals.
LEMMA SlotRanges ==
  /\ DepositSlots \subseteq Nat /\ BorrowSlots \subseteq Nat
  /\ IsFiniteSet(DepositSlots) /\ IsFiniteSet(BorrowSlots)
  /\ Cardinality(DepositSlots) <= 255 /\ Cardinality(BorrowSlots) <= 255
  <1> DEFINE n == MAX_DEPOSITS_COUNT_IN_RESERVE  m == MAX_BORROW_COUNT_IN_RESERVE
  <1>1. /\ n \in Int /\ m \in Int /\ 1 \in Int /\ 1 <= n /\ n <= 255 /\ 1 <= m /\ m <= 255
    BY ObligationAssumption
  <1>2. /\ IsFiniteSet(1 .. n) /\ Cardinality(1 .. n) = n
        /\ IsFiniteSet(1 .. m) /\ Cardinality(1 .. m) = m
    <2> HIDE DEF n, m
    <2>1. /\ IsFiniteSet(1 .. n) /\ Cardinality(1 .. n) = IF 1 > n THEN 0 ELSE n - 1 + 1
          /\ IsFiniteSet(1 .. m) /\ Cardinality(1 .. m) = IF 1 > m THEN 0 ELSE m - 1 + 1
      BY <1>1, FS_Interval
    <2> QED BY <1>1, <2>1
  <1> QED BY <1>1, <1>2 DEF DepositSlots, BorrowSlots

\* find returns a slot whose key is the one looked for.
LEMMA FindHolds ==
  ASSUME NEW slots, DOMAIN slots \subseteq Nat, NEW r, CanFind(slots, r)
  PROVE  find(slots, r) \in DOMAIN slots /\ slots[find(slots, r)].reserve = r
  <1>1. Holding(slots, r) \subseteq Nat /\ Holding(slots, r) # {}
    BY DEF Holding, CanFind
  <1>2. find(slots, r) \in Holding(slots, r)
    BY <1>1, LeastNatural DEF find
  <1> QED BY <1>2 DEF Holding

\* find_or_add returns the slot of the key, or an empty one where it has none.
LEMMA FindOrAddHolds ==
  ASSUME NEW slots, DOMAIN slots \subseteq Nat, NEW r, CanFindOrAdd(slots, r)
  PROVE  /\ find_or_add(slots, r) \in DOMAIN slots
         /\ \/ CanFind(slots, r) /\ find_or_add(slots, r) = find(slots, r)
                /\ slots[find_or_add(slots, r)].reserve = r
            \/ ~CanFind(slots, r) /\ slots[find_or_add(slots, r)].reserve = NoReserve
  BY FindHolds DEF find_or_add, CanFindOrAdd

\* No reserve has two slots.
OneSlotEach(slots) ==
  \A i \in DOMAIN slots :
    slots[i].reserve # NoReserve => Holding(slots, slots[i].reserve) = {i}

\* Where a reserve has one slot only, find returns it.
LEMMA FindTheOne ==
  ASSUME NEW slots, DOMAIN slots \subseteq Nat, OneSlotEach(slots),
         NEW i \in DOMAIN slots, slots[i].reserve # NoReserve
  PROVE  find(slots, slots[i].reserve) = i /\ CanFind(slots, slots[i].reserve)
  <1>1. Holding(slots, slots[i].reserve) = {i}
    BY DEF OneSlotEach
  <1>2. CanFind(slots, slots[i].reserve)
    BY <1>1 DEF CanFind
  <1>3. find(slots, slots[i].reserve) \in Holding(slots, slots[i].reserve)
    BY <1>2, FindHolds DEF Holding
  <1> QED BY <1>1, <1>2, <1>3

\* Writing slots without changing a key moves no slot.
LEMMA SlotKept ==
  ASSUME NEW f, NEW g, OneSlotEach(f), DOMAIN g = DOMAIN f,
         \A j \in DOMAIN f : g[j].reserve = f[j].reserve
  PROVE  /\ Active(g) = Active(f) /\ OneSlotEach(g)
         /\ \A r : Holding(g, r) = Holding(f, r) /\ CanFind(g, r) = CanFind(f, r)
                   /\ find(g, r) = find(f, r)
  <1>1. \A r : Holding(g, r) = Holding(f, r)
    BY DEF Holding
  <1> QED BY <1>1 DEF Active, OneSlotEach, CanFind, find

\* Writing a new key into an empty slot opens one slot and moves no other.
LEMMA SlotOpened ==
  ASSUME NEW f, NEW i \in DOMAIN f, NEW v, NEW g, g = [f EXCEPT ![i] = v],
         DOMAIN f \subseteq Nat, IsFiniteSet(DOMAIN f), OneSlotEach(f),
         f[i].reserve = NoReserve, v.reserve # NoReserve, ~CanFind(f, v.reserve)
  PROVE  /\ Active(g) = Active(f) \cup {i}
         /\ Cardinality(Active(g)) = Cardinality(Active(f)) + 1
         /\ OneSlotEach(g)
         /\ CanFind(g, v.reserve) /\ find(g, v.reserve) = i
         /\ \A r : r # v.reserve /\ r # NoReserve =>
              CanFind(g, r) = CanFind(f, r) /\ find(g, r) = find(f, r)
  <1>1. DOMAIN g = DOMAIN f /\ g[i] = v /\ \A j \in DOMAIN f \ {i} : g[j] = f[j]
    OBVIOUS
  <1>2. Active(g) = Active(f) \cup {i} /\ i \notin Active(f)
    BY <1>1 DEF Active
  <1>3. IsFiniteSet(Active(f))
    BY FS_Subset DEF Active
  <1>4. Holding(g, v.reserve) = {i}
    BY <1>1 DEF Holding, CanFind
  <1>5. \A r : r # v.reserve /\ r # NoReserve => Holding(g, r) = Holding(f, r)
    BY <1>1 DEF Holding
  <1>6. OneSlotEach(g)
    <2> SUFFICES ASSUME NEW j \in DOMAIN f, g[j].reserve # NoReserve
                 PROVE  Holding(g, g[j].reserve) = {j}
      BY <1>1 DEF OneSlotEach
    <2>1. CASE j = i
      BY <1>1, <1>4, <2>1
    <2>2. CASE j # i
      <3>1. Holding(f, f[j].reserve) = {j} /\ g[j] = f[j]
        BY <1>1, <2>2 DEF OneSlotEach
      <3>2. f[j].reserve # v.reserve
        BY <3>1 DEF CanFind
      <3> QED BY <1>5, <3>1, <3>2
    <2> QED BY <2>1, <2>2
  <1>7. CanFind(g, v.reserve) /\ find(g, v.reserve) = i
    BY <1>1, <1>6, FindTheOne
  <1>8. Cardinality(Active(g)) = Cardinality(Active(f)) + 1
    BY <1>2, <1>3, FS_AddElement
  <1> QED BY <1>2, <1>5, <1>6, <1>7, <1>8 DEF CanFind, find

\* Emptying a slot closes it and moves no other.
LEMMA SlotClosed ==
  ASSUME NEW f, NEW i \in DOMAIN f, NEW v, NEW g, g = [f EXCEPT ![i] = v],
         IsFiniteSet(DOMAIN f), OneSlotEach(f),
         f[i].reserve # NoReserve, v.reserve = NoReserve
  PROVE  /\ Active(g) = Active(f) \ {i}
         /\ Cardinality(Active(g)) = Cardinality(Active(f)) - 1
         /\ Cardinality(Active(f)) \in Nat \ {0}
         /\ OneSlotEach(g)
         /\ ~CanFind(g, f[i].reserve)
         /\ \A r : r # f[i].reserve /\ r # NoReserve =>
              CanFind(g, r) = CanFind(f, r) /\ find(g, r) = find(f, r)
  <1>1. DOMAIN g = DOMAIN f /\ g[i] = v /\ \A j \in DOMAIN f \ {i} : g[j] = f[j]
    OBVIOUS
  <1>2. Active(g) = Active(f) \ {i} /\ i \in Active(f)
    BY <1>1 DEF Active
  <1>3. IsFiniteSet(Active(f))
    BY FS_Subset DEF Active
  <1>4. Holding(f, f[i].reserve) = {i}
    BY DEF OneSlotEach
  <1>5. \A r : r # f[i].reserve /\ r # NoReserve => Holding(g, r) = Holding(f, r)
    BY <1>1 DEF Holding
  <1>6. Holding(g, f[i].reserve) = {}
    BY <1>1, <1>4 DEF Holding
  <1>7. OneSlotEach(g)
    <2> SUFFICES ASSUME NEW j \in DOMAIN f, g[j].reserve # NoReserve
                 PROVE  Holding(g, g[j].reserve) = {j}
      BY <1>1 DEF OneSlotEach
    <2>1. j # i /\ g[j] = f[j]
      BY <1>1
    <2>2. Holding(f, f[j].reserve) = {j}
      BY <2>1 DEF OneSlotEach
    <2>3. f[j].reserve # f[i].reserve
      BY <1>4, <2>1, <2>2
    <2> QED BY <1>5, <2>1, <2>2, <2>3
  <1>8. /\ Cardinality(Active(g)) = Cardinality(Active(f)) - 1
        /\ Cardinality(Active(f)) \in Nat
        /\ Cardinality(Active(g)) \in Nat
    BY <1>2, <1>3, FS_RemoveElement, FS_CardinalityType
  <1>9. Cardinality(Active(f)) \in Nat \ {0}
    BY <1>8
  <1>10. /\ ~CanFind(g, f[i].reserve)
         /\ \A r : r # f[i].reserve /\ r # NoReserve =>
              CanFind(g, r) = CanFind(f, r) /\ find(g, r) = find(f, r)
    BY <1>5, <1>6 DEF CanFind, find
  <1> QED BY <1>2, <1>7, <1>8, <1>9, <1>10

(***************************************************************************)
(* What a sound obligation is: the two slot arrays agree with their counts, *)
(* no reserve has two slots, and every debt's snapshot has been reached by *)
(* its reserve's index.  PutsDeposit and PutsBorrow write one slot.        *)
(***************************************************************************)
DepositsOK(o) ==
  /\ o.deposits_count = Cardinality(Active(o.deposits))
  /\ OneSlotEach(o.deposits)
  /\ \A i \in DepositSlots :
       IF o.deposits[i].reserve = NoReserve
       THEN o.deposits[i] = EmptyCollateral
       ELSE o.deposits[i].deposited_amount > 0

DebtOK(b, rs) ==
  /\ b.reserve \in DOMAIN rs
  /\ b.borrowed_amount_sf >= RATE_SCALE
  /\ b.cumulative_borrow_rate_sf \in RATE_SCALE .. rs[b.reserve].cumulative_borrow_rate_sf

BorrowsOK(o, rs) ==
  /\ o.borrows_count = Cardinality(Active(o.borrows))
  /\ OneSlotEach(o.borrows)
  /\ \A i \in BorrowSlots :
       IF o.borrows[i].reserve = NoReserve
       THEN o.borrows[i] = EmptyLiquidity
       ELSE DebtOK(o.borrows[i], rs)

Sound(o, rs) == o \in ObligationType /\ DepositsOK(o) /\ BorrowsOK(o, rs)

SameDebts(o, p)      == p.borrows = o.borrows /\ p.borrows_count = o.borrows_count
SameCollateral(o, p) == p.deposits = o.deposits /\ p.deposits_count = o.deposits_count

\* The fields of an obligation have their types.
LEMMA ObligationFields ==
  ASSUME NEW o \in ObligationType
  PROVE  /\ o.deposits \in [DepositSlots -> CollateralType]
         /\ o.borrows \in [BorrowSlots -> LiquidityType]
         /\ o.deposits_count \in U8 /\ o.borrows_count \in U8 /\ o.slot \in U64
  BY DEF ObligationType

PutsDeposit(o, i, v, c, p) == p = [o EXCEPT !.deposits[i] = v, !.deposits_count = c]
PutsBorrow(o, i, v, c, p)  == p = [o EXCEPT !.borrows[i] = v, !.borrows_count = c]

\* A slot given back has the type of a slot, and nothing in it.
LEMMA EmptySlots ==
  /\ EmptyCollateral \in CollateralType /\ EmptyCollateral.reserve = NoReserve
  /\ EmptyCollateral.deposited_amount = 0 /\ EmptyCollateral.market_value_sf = 0
  /\ EmptyLiquidity \in LiquidityType /\ EmptyLiquidity.reserve = NoReserve
  /\ EmptyLiquidity.borrowed_amount_sf = 0 /\ EmptyLiquidity.market_value_sf = 0
  /\ EmptyLiquidity.cumulative_borrow_rate_sf = RATE_SCALE
  <1>1. 0 \in U64 /\ 0 \in U128 /\ RATE_SCALE \in U128
    BY WidthAssumption, ScaleAssumption DEF U64, U128
  <1> QED BY <1>1 DEF EmptyCollateral, EmptyLiquidity, FreshCollateral, FreshLiquidity,
                      CollateralType, LiquidityType

\* init_obligation makes a sound account.
LEMMA NewIsSound ==
  ASSUME NEW rs
  PROVE  Sound(NewObligation, rs)
  <1> DEFINE o == NewObligation
  <1>1. /\ o.deposits = [i \in DepositSlots |-> EmptyCollateral]
        /\ o.borrows = [i \in BorrowSlots |-> EmptyLiquidity]
        /\ o.deposits_count = 0 /\ o.borrows_count = 0 /\ o.slot = 0
    BY DEF NewObligation
  <1>2. 0 \in U8 /\ 0 \in U64
    BY WidthAssumption DEF U8, U64
  <1>3. o \in ObligationType
    BY <1>2, EmptySlots DEF NewObligation, ObligationType
  <1>4. Active(o.deposits) = {} /\ Active(o.borrows) = {}
    BY <1>1, EmptySlots DEF Active
  <1>5. OneSlotEach(o.deposits) /\ OneSlotEach(o.borrows)
    BY <1>1, EmptySlots DEF OneSlotEach
  <1> HIDE DEF o
  <1>6. DepositsOK(o)
    BY <1>1, <1>4, <1>5, EmptySlots, FS_EmptySet DEF DepositsOK
  <1>7. BorrowsOK(o, rs)
    BY <1>1, <1>4, <1>5, EmptySlots, FS_EmptySet DEF BorrowsOK
  <1> QED BY <1>3, <1>6, <1>7 DEF Sound, o

\* Up to 255 slots are counted in a u8.
LEMMA Counting ==
  ASSUME NEW n \in 1 .. 255, NEW S \in SUBSET (1 .. n)
  PROVE  Cardinality(S) \in 0 .. 255
  <1>1. n \in Int /\ 1 \in Int /\ 1 <= n /\ n <= 255
    OBVIOUS
  <1>2. IsFiniteSet(1 .. n) /\ Cardinality(1 .. n) = IF 1 > n THEN 0 ELSE n - 1 + 1
    BY <1>1, FS_Interval
  <1>3. IsFiniteSet(S) /\ Cardinality(S) <= Cardinality(1 .. n)
    BY <1>2, FS_Subset
  <1>4. Cardinality(S) \in Nat
    BY <1>3, FS_CardinalityType
  <1>5. Cardinality(S) <= 255
    BY <1>1, <1>2, <1>3, <1>4
  <1>6. ASSUME NEW k \in Nat, k <= 255 PROVE k \in 0 .. 255
    BY ONLY <1>6
  <1> QED BY ONLY <1>4, <1>5, <1>6

\* Writing a deposit slot under the same key.
LEMMA DepositKeeps ==
  ASSUME NEW o, NEW rs, Sound(o, rs), NEW i \in DepositSlots, NEW v \in CollateralType,
         NEW p, PutsDeposit(o, i, v, o.deposits_count, p),
         v.reserve = o.deposits[i].reserve, v.reserve # NoReserve, v.deposited_amount > 0
  PROVE  /\ Sound(p, rs) /\ SameDebts(o, p) /\ p.slot = o.slot
         /\ p.deposits[i] = v /\ \A j \in DepositSlots : j # i => p.deposits[j] = o.deposits[j]
         /\ CollateralIn(p, v.reserve) = v.deposited_amount
         /\ \A q : q # v.reserve => CollateralIn(p, q) = CollateralIn(o, q)
  <1> DEFINE f == [o.deposits EXCEPT ![i] = v]
  <1> USE DEF PutsDeposit
  <1>1. /\ o \in ObligationType /\ DepositsOK(o) /\ BorrowsOK(o, rs)
        /\ o.deposits \in [DepositSlots -> CollateralType]
        /\ DepositSlots \subseteq Nat
    BY ObligationFields, SlotRanges DEF Sound
  <1>2. /\ p \in ObligationType /\ p.deposits = [o.deposits EXCEPT ![i] = v]
        /\ p.deposits_count = o.deposits_count /\ SameDebts(o, p) /\ p.slot = o.slot
    <2>1. f \in [DepositSlots -> CollateralType] /\ o.deposits_count \in U8
      BY <1>1, ObligationFields
    <2> QED BY <1>1, <2>1 DEF ObligationType, SameDebts
  <1>3. /\ DOMAIN p.deposits = DOMAIN o.deposits /\ DOMAIN o.deposits = DepositSlots
        /\ p.deposits[i] = v /\ \A j \in DepositSlots : j # i => p.deposits[j] = o.deposits[j]
        /\ \A j \in DepositSlots : p.deposits[j].reserve = o.deposits[j].reserve
    BY <1>1, <1>2
  <1>4. OneSlotEach(o.deposits)
    BY <1>1 DEF DepositsOK
  <1>5. /\ Active(p.deposits) = Active(o.deposits) /\ OneSlotEach(p.deposits)
        /\ \A r : Holding(p.deposits, r) = Holding(o.deposits, r)
                  /\ CanFind(p.deposits, r) = CanFind(o.deposits, r)
                  /\ find(p.deposits, r) = find(o.deposits, r)
    BY <1>3, <1>4, SlotKept
  <1>6. DepositsOK(p)
    BY <1>1, <1>2, <1>3, <1>5 DEF DepositsOK
  <1>7. BorrowsOK(p, rs)
    BY <1>1, <1>2 DEF BorrowsOK, SameDebts
  <1>8. find(o.deposits, v.reserve) = i /\ CanFind(o.deposits, v.reserve)
    BY <1>1, <1>3, <1>4, FindTheOne
  <1>9. CollateralIn(p, v.reserve) = v.deposited_amount
    BY <1>3, <1>5, <1>8 DEF CollateralIn
  <1>10. ASSUME NEW q, q # v.reserve
         PROVE  CollateralIn(p, q) = CollateralIn(o, q)
    <2>1. CASE CanFind(o.deposits, q)
      <3>1. find(o.deposits, q) \in DepositSlots /\ find(o.deposits, q) # i
        BY <1>1, <1>3, <1>10, <2>1, FindHolds
      <3> QED BY <1>3, <1>5, <2>1, <3>1 DEF CollateralIn
    <2>2. CASE ~CanFind(o.deposits, q)
      BY <1>5, <2>2 DEF CollateralIn
    <2> QED BY <2>1, <2>2
  <1>11. p.deposits[i] = v /\ \A j \in DepositSlots : j # i => p.deposits[j] = o.deposits[j]
    BY <1>2, <1>3
  <1> HIDE DEF f, PutsDeposit
  <1> QED BY <1>2, <1>6, <1>7, <1>9, <1>10, <1>11 DEF Sound

\* What soundness says of the fields.
LEMMA SoundParts ==
  ASSUME NEW o, NEW rs, Sound(o, rs)
  PROVE  /\ o \in ObligationType /\ DepositsOK(o) /\ BorrowsOK(o, rs)
         /\ o.deposits \in [DepositSlots -> CollateralType]
         /\ o.borrows \in [BorrowSlots -> LiquidityType]
         /\ o.deposits_count \in U8 /\ o.borrows_count \in U8
         /\ DOMAIN o.deposits = DepositSlots /\ DOMAIN o.borrows = BorrowSlots
         /\ DepositSlots \subseteq Nat /\ BorrowSlots \subseteq Nat
         /\ IsFiniteSet(DepositSlots) /\ IsFiniteSet(BorrowSlots)
         /\ OneSlotEach(o.deposits) /\ OneSlotEach(o.borrows)
         /\ o.deposits_count = Cardinality(Active(o.deposits))
         /\ o.borrows_count = Cardinality(Active(o.borrows))
  <1>1. o \in ObligationType /\ DepositsOK(o) /\ BorrowsOK(o, rs)
    BY DEF Sound
  <1>2. /\ o.deposits \in [DepositSlots -> CollateralType]
        /\ o.borrows \in [BorrowSlots -> LiquidityType]
        /\ o.deposits_count \in U8 /\ o.borrows_count \in U8
    BY <1>1, ObligationFields
  <1> QED BY <1>1, <1>2, SlotRanges DEF DepositsOK, BorrowsOK

\* One slot more, as long as the count fits.
LEMMA CountUp ==
  ASSUME NEW c \in Nat, c + 1 \in U8
  PROVE  OneMore(c) = c + 1
  BY DEF OneMore, Smaller, U8

\* One slot less.
LEMMA CountDown ==
  ASSUME NEW c \in Nat \ {0}
  PROVE  OneLess(c) = c - 1
  BY DEF OneLess, SaturatingSub

\* Opening a deposit slot.
LEMMA DepositOpens ==
  ASSUME NEW o, NEW rs, Sound(o, rs), NEW i \in DepositSlots, NEW v \in CollateralType,
         NEW p, PutsDeposit(o, i, v, OneMore(o.deposits_count), p),
         o.deposits[i].reserve = NoReserve, ~CanFind(o.deposits, v.reserve),
         v.reserve # NoReserve, v.deposited_amount > 0
  PROVE  /\ Sound(p, rs) /\ SameDebts(o, p) /\ p.slot = o.slot
         /\ p.deposits[i] = v /\ \A j \in DepositSlots : j # i => p.deposits[j] = o.deposits[j]
         /\ CollateralIn(o, v.reserve) = 0
         /\ CollateralIn(p, v.reserve) = v.deposited_amount
         /\ \A q \in Reserves : q # v.reserve => CollateralIn(p, q) = CollateralIn(o, q)
  <1> DEFINE f == [o.deposits EXCEPT ![i] = v]
  <1> DEFINE c == OneMore(o.deposits_count)
  <1> USE DEF PutsDeposit
  <1>1. f \in [DepositSlots -> CollateralType] /\ DOMAIN f = DOMAIN o.deposits
    BY SoundParts
  <1>2. /\ Active(f) = Active(o.deposits) \cup {i}
        /\ Cardinality(Active(f)) = Cardinality(Active(o.deposits)) + 1
        /\ OneSlotEach(f)
        /\ CanFind(f, v.reserve) /\ find(f, v.reserve) = i
        /\ \A r : r # v.reserve /\ r # NoReserve =>
             CanFind(f, r) = CanFind(o.deposits, r) /\ find(f, r) = find(o.deposits, r)
    BY SoundParts, SlotOpened
  <1>3. c = Cardinality(Active(f)) /\ c \in U8
    <2>1. Cardinality(Active(f)) \in U8
      <3>1. Active(f) \in SUBSET (1 .. MAX_DEPOSITS_COUNT_IN_RESERVE)
        BY <1>1, SoundParts DEF Active, DepositSlots
      <3> QED BY <3>1, Counting, ObligationAssumption DEF U8
    <2>2. PICK n \in Nat : n = o.deposits_count
      BY SoundParts, Widths
    <2>3. n + 1 \in U8 /\ n + 1 = Cardinality(Active(f))
      BY <1>2, <2>1, <2>2, SoundParts
    <2>4. OneMore(n) = n + 1
      BY <2>3, CountUp
    <2> QED BY <2>2, <2>3, <2>4
  <1>4. /\ p \in ObligationType /\ p.deposits = f /\ p.deposits_count = c
        /\ SameDebts(o, p) /\ p.slot = o.slot
    <2>1. o \in ObligationType
      BY SoundParts
    <2> QED BY <1>1, <1>3, <2>1 DEF ObligationType, SameDebts
  <1>5. f[i] = v /\ \A j \in DepositSlots : j # i => f[j] = o.deposits[j]
    BY SoundParts
  <1>6. DepositsOK(p)
    BY <1>2, <1>3, <1>4, <1>5, SoundParts DEF DepositsOK
  <1>7. BorrowsOK(p, rs)
    BY <1>4, SoundParts DEF BorrowsOK, SameDebts
  <1>8. CollateralIn(p, v.reserve) = v.deposited_amount /\ CollateralIn(o, v.reserve) = 0
    BY <1>2, <1>4, <1>5 DEF CollateralIn
  <1>9. ASSUME NEW q \in Reserves, q # v.reserve
        PROVE  CollateralIn(p, q) = CollateralIn(o, q)
    <2>1. CanFind(f, q) = CanFind(o.deposits, q) /\ find(f, q) = find(o.deposits, q)
      BY <1>2, <1>9, AddressAssumption
    <2>2. CASE CanFind(o.deposits, q)
      <3>1. find(o.deposits, q) \in DepositSlots /\ find(o.deposits, q) # i
        BY <1>9, <2>2, FindHolds, SoundParts, AddressAssumption
      <3> QED BY <1>4, <1>5, <2>1, <2>2, <3>1 DEF CollateralIn
    <2>3. CASE ~CanFind(o.deposits, q)
      BY <1>4, <2>1, <2>3 DEF CollateralIn
    <2> QED BY <2>2, <2>3
  <1>10. p.deposits[i] = v /\ \A j \in DepositSlots : j # i => p.deposits[j] = o.deposits[j]
    BY <1>4, <1>5
  <1> HIDE DEF f, c, PutsDeposit
  <1> QED BY <1>4, <1>6, <1>7, <1>8, <1>9, <1>10 DEF Sound

\* Giving a deposit slot back.
LEMMA DepositCloses ==
  ASSUME NEW o, NEW rs, Sound(o, rs), NEW i \in DepositSlots,
         NEW p, PutsDeposit(o, i, EmptyCollateral, OneLess(o.deposits_count), p),
         NEW r, r = o.deposits[i].reserve, r # NoReserve
  PROVE  /\ Sound(p, rs) /\ SameDebts(o, p) /\ p.slot = o.slot
         /\ p.deposits[i] = EmptyCollateral
         /\ \A j \in DepositSlots : j # i => p.deposits[j] = o.deposits[j]
         /\ CollateralIn(p, r) = 0
         /\ \A q \in Reserves : q # r => CollateralIn(p, q) = CollateralIn(o, q)
  <1> DEFINE f == [o.deposits EXCEPT ![i] = EmptyCollateral]
  <1> DEFINE c == OneLess(o.deposits_count)
  <1> USE DEF PutsDeposit
  <1>1. f \in [DepositSlots -> CollateralType] /\ DOMAIN f = DOMAIN o.deposits
    BY SoundParts, EmptySlots
  <1>2. /\ Cardinality(Active(f)) = Cardinality(Active(o.deposits)) - 1
        /\ Cardinality(Active(o.deposits)) \in Nat \ {0}
        /\ OneSlotEach(f)
        /\ ~CanFind(f, r)
        /\ \A q : q # r /\ q # NoReserve =>
             CanFind(f, q) = CanFind(o.deposits, q) /\ find(f, q) = find(o.deposits, q)
    BY SoundParts, SlotClosed, EmptySlots
  <1>3. c = Cardinality(Active(f)) /\ c \in U8
    <2>1. PICK n \in Nat \ {0} : n = o.deposits_count /\ n \in U8
      BY <1>2, SoundParts
    <2>2. OneLess(n) = n - 1 /\ n - 1 \in U8
      BY <2>1, CountDown DEF U8
    <2> QED BY <1>2, <2>1, <2>2, SoundParts
  <1>4. /\ p \in ObligationType /\ p.deposits = f /\ p.deposits_count = c
        /\ SameDebts(o, p) /\ p.slot = o.slot
    <2>1. o \in ObligationType
      BY SoundParts
    <2> QED BY <1>1, <1>3, <2>1 DEF ObligationType, SameDebts
  <1>5. f[i] = EmptyCollateral /\ \A j \in DepositSlots : j # i => f[j] = o.deposits[j]
    BY SoundParts
  <1>6. DepositsOK(p)
    BY <1>2, <1>3, <1>4, <1>5, SoundParts, EmptySlots DEF DepositsOK
  <1>7. BorrowsOK(p, rs)
    BY <1>4, SoundParts DEF BorrowsOK, SameDebts
  <1>8. CollateralIn(p, r) = 0
    BY <1>2, <1>4 DEF CollateralIn
  <1>9. ASSUME NEW q \in Reserves, q # r
        PROVE  CollateralIn(p, q) = CollateralIn(o, q)
    <2>1. CanFind(f, q) = CanFind(o.deposits, q) /\ find(f, q) = find(o.deposits, q)
      BY <1>2, <1>9, AddressAssumption
    <2>2. CASE CanFind(o.deposits, q)
      <3>1. find(o.deposits, q) \in DepositSlots /\ find(o.deposits, q) # i
        BY <1>9, <2>2, FindHolds, SoundParts, AddressAssumption
      <3> QED BY <1>4, <1>5, <2>1, <2>2, <3>1 DEF CollateralIn
    <2>3. CASE ~CanFind(o.deposits, q)
      BY <1>4, <2>1, <2>3 DEF CollateralIn
    <2> QED BY <2>2, <2>3
  <1>10. /\ p.deposits[i] = EmptyCollateral
         /\ \A j \in DepositSlots : j # i => p.deposits[j] = o.deposits[j]
    BY <1>4, <1>5
  <1> HIDE DEF f, c, PutsDeposit
  <1> QED BY <1>4, <1>6, <1>7, <1>8, <1>9, <1>10 DEF Sound

\* Writing a borrow slot under the same key.
LEMMA BorrowKeeps ==
  ASSUME NEW o, NEW rs, Sound(o, rs), NEW i \in BorrowSlots, NEW v \in LiquidityType,
         NEW p, PutsBorrow(o, i, v, o.borrows_count, p),
         v.reserve = o.borrows[i].reserve, v.reserve # NoReserve, DebtOK(v, rs)
  PROVE  /\ Sound(p, rs) /\ SameCollateral(o, p) /\ p.slot = o.slot
         /\ p.borrows[i] = v /\ \A j \in BorrowSlots : j # i => p.borrows[j] = o.borrows[j]
         /\ p.borrows_count = o.borrows_count
         /\ CanFind(p.borrows, v.reserve) /\ find(p.borrows, v.reserve) = i
         /\ DebtIn(p, v.reserve) = v.borrowed_amount_sf
         /\ \A q : q # v.reserve => DebtIn(p, q) = DebtIn(o, q)
         /\ \A q : CanFind(p.borrows, q) = CanFind(o.borrows, q)
  <1> DEFINE f == [o.borrows EXCEPT ![i] = v]
  <1> USE DEF PutsBorrow
  <1>1. f \in [BorrowSlots -> LiquidityType] /\ DOMAIN f = DOMAIN o.borrows
    BY SoundParts
  <1>2. /\ p \in ObligationType /\ p.borrows = f
        /\ p.borrows_count = o.borrows_count /\ SameCollateral(o, p) /\ p.slot = o.slot
    <2>1. o \in ObligationType /\ o.borrows_count \in U8
      BY SoundParts
    <2> QED BY <1>1, <2>1 DEF ObligationType, SameCollateral
  <1>3. /\ f[i] = v /\ \A j \in BorrowSlots : j # i => f[j] = o.borrows[j]
        /\ \A j \in BorrowSlots : f[j].reserve = o.borrows[j].reserve
    BY SoundParts
  <1>4. /\ Active(f) = Active(o.borrows) /\ OneSlotEach(f)
        /\ \A r : Holding(f, r) = Holding(o.borrows, r)
                  /\ CanFind(f, r) = CanFind(o.borrows, r)
                  /\ find(f, r) = find(o.borrows, r)
    BY <1>1, <1>3, SoundParts, SlotKept
  <1>5. BorrowsOK(p, rs)
    BY <1>2, <1>3, <1>4, SoundParts DEF BorrowsOK
  <1>6. DepositsOK(p)
    BY <1>2, SoundParts DEF DepositsOK, SameCollateral
  <1>7. find(o.borrows, v.reserve) = i /\ CanFind(o.borrows, v.reserve)
    BY SoundParts, FindTheOne
  <1>8. DebtIn(p, v.reserve) = v.borrowed_amount_sf
    BY <1>2, <1>3, <1>4, <1>7 DEF DebtIn
  <1>9. ASSUME NEW q, q # v.reserve
        PROVE  DebtIn(p, q) = DebtIn(o, q)
    <2>1. CASE CanFind(o.borrows, q)
      <3>1. find(o.borrows, q) \in BorrowSlots /\ find(o.borrows, q) # i
        BY <1>9, <2>1, FindHolds, SoundParts
      <3> QED BY <1>2, <1>3, <1>4, <2>1, <3>1 DEF DebtIn
    <2>2. CASE ~CanFind(o.borrows, q)
      BY <1>2, <1>4, <2>2 DEF DebtIn
    <2> QED BY <2>1, <2>2
  <1>10. CanFind(f, v.reserve) /\ find(f, v.reserve) = i
    BY <1>4, <1>7
  <1>11. p.borrows[i] = v /\ \A j \in BorrowSlots : j # i => p.borrows[j] = o.borrows[j]
    BY <1>2, <1>3
  <1> HIDE DEF f, PutsBorrow
  <1> QED BY <1>2, <1>4, <1>5, <1>6, <1>8, <1>9, <1>10, <1>11 DEF Sound

\* Opening a borrow slot.
LEMMA BorrowOpens ==
  ASSUME NEW o, NEW rs, Sound(o, rs), NEW i \in BorrowSlots, NEW v \in LiquidityType,
         NEW p, PutsBorrow(o, i, v, OneMore(o.borrows_count), p),
         o.borrows[i].reserve = NoReserve, ~CanFind(o.borrows, v.reserve),
         v.reserve # NoReserve, DebtOK(v, rs)
  PROVE  /\ Sound(p, rs) /\ SameCollateral(o, p) /\ p.slot = o.slot
         /\ p.borrows[i] = v /\ \A j \in BorrowSlots : j # i => p.borrows[j] = o.borrows[j]
         /\ DebtIn(o, v.reserve) = 0
         /\ DebtIn(p, v.reserve) = v.borrowed_amount_sf
         /\ \A q \in Reserves : q # v.reserve => DebtIn(p, q) = DebtIn(o, q)
  <1> DEFINE f == [o.borrows EXCEPT ![i] = v]
  <1> DEFINE c == OneMore(o.borrows_count)
  <1> USE DEF PutsBorrow
  <1>1. f \in [BorrowSlots -> LiquidityType] /\ DOMAIN f = DOMAIN o.borrows
    BY SoundParts
  <1>2. /\ Active(f) = Active(o.borrows) \cup {i}
        /\ Cardinality(Active(f)) = Cardinality(Active(o.borrows)) + 1
        /\ OneSlotEach(f)
        /\ CanFind(f, v.reserve) /\ find(f, v.reserve) = i
        /\ \A r : r # v.reserve /\ r # NoReserve =>
             CanFind(f, r) = CanFind(o.borrows, r) /\ find(f, r) = find(o.borrows, r)
    BY SoundParts, SlotOpened
  <1>3. c = Cardinality(Active(f)) /\ c \in U8
    <2>1. Cardinality(Active(f)) \in U8
      <3>1. Active(f) \in SUBSET (1 .. MAX_BORROW_COUNT_IN_RESERVE)
        BY <1>1, SoundParts DEF Active, BorrowSlots
      <3> QED BY <3>1, Counting, ObligationAssumption DEF U8
    <2>2. PICK n \in Nat : n = o.borrows_count
      BY SoundParts, Widths
    <2>3. n + 1 \in U8 /\ n + 1 = Cardinality(Active(f))
      BY <1>2, <2>1, <2>2, SoundParts
    <2>4. OneMore(n) = n + 1
      BY <2>3, CountUp
    <2> QED BY <2>2, <2>3, <2>4
  <1>4. /\ p \in ObligationType /\ p.borrows = f /\ p.borrows_count = c
        /\ SameCollateral(o, p) /\ p.slot = o.slot
    <2>1. o \in ObligationType
      BY SoundParts
    <2> QED BY <1>1, <1>3, <2>1 DEF ObligationType, SameCollateral
  <1>5. f[i] = v /\ \A j \in BorrowSlots : j # i => f[j] = o.borrows[j]
    BY SoundParts
  <1>6. BorrowsOK(p, rs)
    BY <1>2, <1>3, <1>4, <1>5, SoundParts DEF BorrowsOK
  <1>7. DepositsOK(p)
    BY <1>4, SoundParts DEF DepositsOK, SameCollateral
  <1>8. DebtIn(p, v.reserve) = v.borrowed_amount_sf /\ DebtIn(o, v.reserve) = 0
    BY <1>2, <1>4, <1>5 DEF DebtIn
  <1>9. ASSUME NEW q \in Reserves, q # v.reserve
        PROVE  DebtIn(p, q) = DebtIn(o, q)
    <2>1. CanFind(f, q) = CanFind(o.borrows, q) /\ find(f, q) = find(o.borrows, q)
      BY <1>2, <1>9, AddressAssumption
    <2>2. CASE CanFind(o.borrows, q)
      <3>1. find(o.borrows, q) \in BorrowSlots /\ find(o.borrows, q) # i
        BY <1>9, <2>2, FindHolds, SoundParts, AddressAssumption
      <3> QED BY <1>4, <1>5, <2>1, <2>2, <3>1 DEF DebtIn
    <2>3. CASE ~CanFind(o.borrows, q)
      BY <1>4, <2>1, <2>3 DEF DebtIn
    <2> QED BY <2>2, <2>3
  <1>10. p.borrows[i] = v /\ \A j \in BorrowSlots : j # i => p.borrows[j] = o.borrows[j]
    BY <1>4, <1>5
  <1> HIDE DEF f, c, PutsBorrow
  <1> QED BY <1>4, <1>6, <1>7, <1>8, <1>9, <1>10 DEF Sound

\* Giving a borrow slot back.
LEMMA BorrowCloses ==
  ASSUME NEW o, NEW rs, Sound(o, rs), NEW i \in BorrowSlots,
         NEW p, PutsBorrow(o, i, EmptyLiquidity, OneLess(o.borrows_count), p),
         NEW r, r = o.borrows[i].reserve, r # NoReserve
  PROVE  /\ Sound(p, rs) /\ SameCollateral(o, p) /\ p.slot = o.slot
         /\ p.borrows[i] = EmptyLiquidity
         /\ \A j \in BorrowSlots : j # i => p.borrows[j] = o.borrows[j]
         /\ p.borrows_count <= o.borrows_count
         /\ ~CanFind(p.borrows, r)
         /\ DebtIn(p, r) = 0
         /\ \A q \in Reserves : q # r => DebtIn(p, q) = DebtIn(o, q)
  <1> DEFINE f == [o.borrows EXCEPT ![i] = EmptyLiquidity]
  <1> DEFINE c == OneLess(o.borrows_count)
  <1> USE DEF PutsBorrow
  <1>1. f \in [BorrowSlots -> LiquidityType] /\ DOMAIN f = DOMAIN o.borrows
    BY SoundParts, EmptySlots
  <1>2. /\ Cardinality(Active(f)) = Cardinality(Active(o.borrows)) - 1
        /\ Cardinality(Active(o.borrows)) \in Nat \ {0}
        /\ OneSlotEach(f)
        /\ ~CanFind(f, r)
        /\ \A q : q # r /\ q # NoReserve =>
             CanFind(f, q) = CanFind(o.borrows, q) /\ find(f, q) = find(o.borrows, q)
    BY SoundParts, SlotClosed, EmptySlots
  <1>3. c = Cardinality(Active(f)) /\ c \in U8 /\ c <= o.borrows_count
    <2>1. PICK n \in Nat \ {0} : n = o.borrows_count /\ n \in U8
      BY <1>2, SoundParts
    <2>2. OneLess(n) = n - 1 /\ n - 1 \in U8
      BY <2>1, CountDown DEF U8
    <2> QED BY <1>2, <2>1, <2>2, SoundParts
  <1>4. /\ p \in ObligationType /\ p.borrows = f /\ p.borrows_count = c
        /\ SameCollateral(o, p) /\ p.slot = o.slot
    <2>1. o \in ObligationType
      BY SoundParts
    <2> QED BY <1>1, <1>3, <2>1 DEF ObligationType, SameCollateral
  <1>5. f[i] = EmptyLiquidity /\ \A j \in BorrowSlots : j # i => f[j] = o.borrows[j]
    BY SoundParts
  <1>6. BorrowsOK(p, rs)
    BY <1>2, <1>3, <1>4, <1>5, SoundParts, EmptySlots DEF BorrowsOK
  <1>7. DepositsOK(p)
    BY <1>4, SoundParts DEF DepositsOK, SameCollateral
  <1>8. DebtIn(p, r) = 0
    BY <1>2, <1>4 DEF DebtIn
  <1>9. ASSUME NEW q \in Reserves, q # r
        PROVE  DebtIn(p, q) = DebtIn(o, q)
    <2>1. CanFind(f, q) = CanFind(o.borrows, q) /\ find(f, q) = find(o.borrows, q)
      BY <1>2, <1>9, AddressAssumption
    <2>2. CASE CanFind(o.borrows, q)
      <3>1. find(o.borrows, q) \in BorrowSlots /\ find(o.borrows, q) # i
        BY <1>9, <2>2, FindHolds, SoundParts, AddressAssumption
      <3> QED BY <1>4, <1>5, <2>1, <2>2, <3>1 DEF DebtIn
    <2>3. CASE ~CanFind(o.borrows, q)
      BY <1>4, <2>1, <2>3 DEF DebtIn
    <2> QED BY <2>2, <2>3
  <1>10. /\ p.borrows[i] = EmptyLiquidity
         /\ \A j \in BorrowSlots : j # i => p.borrows[j] = o.borrows[j]
    BY <1>4, <1>5
  <1> HIDE DEF f, c, PutsBorrow
  <1> QED BY <1>2, <1>3, <1>4, <1>6, <1>7, <1>8, <1>9, <1>10 DEF Sound

(***************************************************************************)
(* The methods of the account, each by what it writes.                     *)
(***************************************************************************)
\* deposit adds the amount to the collateral in one reserve and keeps all else.
LEMMA Deposited ==
  ASSUME NEW o, NEW rs, Sound(o, rs), NEW r \in Reserves, NEW a \in Nat,
         CanDeposit(o, r, a), NEW p, p = deposit(o, r, a)
  PROVE  /\ Sound(p, rs) /\ SameDebts(o, p) /\ p.slot = o.slot
         /\ CollateralIn(p, r) = CollateralIn(o, r) + a
         /\ \A q \in Reserves : q # r => CollateralIn(p, q) = CollateralIn(o, q)
  <1>1. PICK i \in DepositSlots :
          /\ i = find_or_add(o.deposits, r)
          /\ \/ CanFind(o.deposits, r) /\ i = find(o.deposits, r) /\ o.deposits[i].reserve = r
             \/ ~CanFind(o.deposits, r) /\ o.deposits[i].reserve = NoReserve
    BY SoundParts, FindOrAddHolds DEF CanDeposit
  <1>2. /\ r # NoReserve /\ a > 0 /\ o.deposits[i] \in CollateralType
        /\ o.deposits[i].deposited_amount + a <= MAX_U64
    BY <1>1, SoundParts, AddressAssumption DEF CanDeposit
  <1>3. CASE CanFind(o.deposits, r)
    <2>1. PICK v :
            v = [o.deposits[i] EXCEPT
                   !.deposited_amount = o.deposits[i].deposited_amount + a]
      OBVIOUS
    <2>2. /\ v \in CollateralType /\ v.reserve = r
          /\ v.deposited_amount = o.deposits[i].deposited_amount + a /\ v.deposited_amount > 0
      BY <1>1, <1>2, <1>3, <2>1, WidthAssumption DEF CollateralType, U64
    <2>4. PutsDeposit(o, i, v, o.deposits_count, p)
      <3>1. o \in ObligationType /\ o.deposits[i].reserve # NoReserve
        BY <1>1, <1>2, <1>3, SoundParts
      <3> QED BY <1>1, <1>3, <2>1, <3>1 DEF deposit, ObligationType, CollateralType, PutsDeposit
    <2>5. CollateralIn(o, r) = o.deposits[i].deposited_amount
      BY <1>1, <1>3 DEF CollateralIn
    <2>6. v.reserve = o.deposits[i].reserve /\ v.reserve # NoReserve
      BY <1>1, <1>2, <1>3, <2>2
    <2>7. /\ Sound(p, rs) /\ SameDebts(o, p) /\ p.slot = o.slot
          /\ CollateralIn(p, v.reserve) = v.deposited_amount
          /\ \A q : q # v.reserve => CollateralIn(p, q) = CollateralIn(o, q)
      <3>1. v \in CollateralType
        BY <2>2
      <3>2. v.deposited_amount > 0
        BY <2>2
      <3> QED BY ONLY Sound(o, rs), i \in DepositSlots, <3>1, <3>2, <2>4, <2>6, DepositKeeps
    <2> QED BY <2>2, <2>5, <2>7
  <1>4. CASE ~CanFind(o.deposits, r)
    <2>1. PICK v : v = [FreshCollateral(r) EXCEPT !.deposited_amount = a]
      OBVIOUS
    <2>2. v \in CollateralType /\ v.reserve = r /\ v.deposited_amount = a
      <3>1. a \in U64 /\ 0 \in U128
        <4>1. o.deposits[i].deposited_amount \in Nat
          BY <1>2, Widths DEF CollateralType
        <4> QED BY <1>2, <4>1, WidthAssumption DEF U64, U128
      <3> QED BY <2>1, <3>1 DEF FreshCollateral, CollateralType
    <2>5. PutsDeposit(o, i, v, OneMore(o.deposits_count), p)
      <3>1. o \in ObligationType /\ o.deposits[i].reserve = NoReserve
        BY <1>1, <1>4, SoundParts
      <3>2. [FreshCollateral(r) EXCEPT !.deposited_amount = @ + a] = v
        BY <2>1 DEF FreshCollateral
      <3> QED BY <1>1, <3>1, <3>2 DEF deposit, ObligationType, PutsDeposit
    <2>6. /\ o.deposits[i].reserve = NoReserve /\ ~CanFind(o.deposits, v.reserve)
          /\ v.reserve # NoReserve /\ v.deposited_amount > 0
      BY <1>1, <1>2, <1>4, <2>2
    <2>7. /\ Sound(p, rs) /\ SameDebts(o, p) /\ p.slot = o.slot
          /\ CollateralIn(o, r) = 0 /\ CollateralIn(p, r) = a
          /\ \A q \in Reserves : q # r => CollateralIn(p, q) = CollateralIn(o, q)
      <3>1. /\ Sound(p, rs) /\ SameDebts(o, p) /\ p.slot = o.slot
            /\ CollateralIn(o, v.reserve) = 0
            /\ CollateralIn(p, v.reserve) = v.deposited_amount
            /\ \A q \in Reserves : q # v.reserve => CollateralIn(p, q) = CollateralIn(o, q)
        <4>1. v \in CollateralType
          BY <2>2
        <4> QED BY ONLY Sound(o, rs), i \in DepositSlots, <4>1, <2>5, <2>6, DepositOpens
      <3> QED BY <2>2, <3>1
    <2> QED BY <2>7
  <1> QED BY <1>3, <1>4

\* The slot that find returns for a deposit holds all the collateral in its reserve.
LEMMA FoundDeposit ==
  ASSUME NEW o, NEW rs, Sound(o, rs), NEW r \in Reserves, CanFind(o.deposits, r)
  PROVE  /\ find(o.deposits, r) \in DepositSlots
         /\ o.deposits[find(o.deposits, r)] \in CollateralType
         /\ o.deposits[find(o.deposits, r)].reserve = r /\ r # NoReserve
         /\ o.deposits[find(o.deposits, r)].deposited_amount \in Nat \ {0}
         /\ CollateralIn(o, r) = o.deposits[find(o.deposits, r)].deposited_amount
  <1>1. /\ find(o.deposits, r) \in DepositSlots
        /\ o.deposits[find(o.deposits, r)].reserve = r /\ r # NoReserve
    BY FindHolds, SoundParts, AddressAssumption
  <1>2. o.deposits[find(o.deposits, r)] \in CollateralType
    BY <1>1, SoundParts
  <1>3. o.deposits[find(o.deposits, r)].deposited_amount > 0
    BY <1>1, SoundParts DEF DepositsOK
  <1>4. o.deposits[find(o.deposits, r)].deposited_amount \in Nat
    BY <1>2, Widths DEF CollateralType
  <1> QED BY <1>1, <1>2, <1>3, <1>4 DEF CollateralIn

\* withdraw takes the amount out of the collateral in one reserve and keeps all else.
LEMMA Withdrawn ==
  ASSUME NEW o, NEW rs, Sound(o, rs), NEW r \in Reserves, NEW a \in Nat,
         CanWithdraw(o, r, a), NEW p, p = withdraw(o, r, a)
  PROVE  /\ Sound(p, rs) /\ SameDebts(o, p) /\ p.slot = o.slot
         /\ CollateralIn(p, r) = CollateralIn(o, r) - a
         /\ \A q \in Reserves : q # r => CollateralIn(p, q) = CollateralIn(o, q)
  <1>1. CanFind(o.deposits, r) /\ a > 0
    BY DEF CanWithdraw
  <1>2. PICK i \in DepositSlots : i = find(o.deposits, r)
    BY <1>1, FoundDeposit
  <1>3. PICK left \in Nat : left = o.deposits[i].deposited_amount - a
    BY <1>1, <1>2, FoundDeposit DEF CanWithdraw
  <1>4. /\ o.deposits[i] \in CollateralType /\ o.deposits[i].reserve = r /\ r # NoReserve
        /\ CollateralIn(o, r) = left + a
        /\ o \in ObligationType
    BY <1>1, <1>2, <1>3, FoundDeposit, SoundParts
  <1>5. CASE left = 0
    <2>1. PutsDeposit(o, i, EmptyCollateral, OneLess(o.deposits_count), p)
      BY <1>2, <1>3, <1>4, <1>5 DEF withdraw, ObligationType, PutsDeposit
    <2> QED BY <1>4, <1>5, <2>1, DepositCloses
  <1>6. CASE left # 0
    <2>1. PICK v : v = [o.deposits[i] EXCEPT !.deposited_amount = left]
      OBVIOUS
    <2>2. /\ v \in CollateralType /\ v.reserve = r
          /\ v.deposited_amount = left /\ v.deposited_amount > 0
      BY <1>3, <1>4, <1>6, <2>1, WidthAssumption DEF CollateralType, U64
    <2>4. PutsDeposit(o, i, v, o.deposits_count, p)
      BY <1>2, <1>3, <1>4, <1>6, <2>1 DEF withdraw, ObligationType, PutsDeposit
    <2>5. v.reserve = o.deposits[i].reserve /\ v.reserve # NoReserve
      BY <1>4, <2>2
    <2>6. /\ Sound(p, rs) /\ SameDebts(o, p) /\ p.slot = o.slot
          /\ CollateralIn(p, v.reserve) = v.deposited_amount
          /\ \A q : q # v.reserve => CollateralIn(p, q) = CollateralIn(o, q)
      <3>1. v \in CollateralType
        BY <2>2
      <3>2. v.deposited_amount > 0
        BY <2>2
      <3> QED BY ONLY Sound(o, rs), i \in DepositSlots, <3>1, <3>2, <2>4, <2>5, DepositKeeps
    <2> QED BY <1>3, <1>4, <2>2, <2>6
  <1> QED BY <1>5, <1>6

\* Scaling by a ratio of at least one never makes a natural smaller.
LEMMA ScaledUp ==
  ASSUME NEW x \in Nat, NEW c \in Nat \ {0}, NEW y \in Nat, c <= y
  PROVE  /\ MulDiv(x, y, c) \in Nat /\ x <= MulDiv(x, y, c)
         /\ MulDiv(x, y, c) <= x * y
         /\ y = c => MulDiv(x, y, c) = x
  <1>1. x * c <= x * y /\ x * y \in Nat
    OBVIOUS
  <1>2. x * c = c * x
    OBVIOUS
  <1>3. MulDiv(x, y, c) \in Nat
    BY <1>1 DEF MulDiv
  <1>4. x <= MulDiv(x, y, c)
    <2>1. PICK z \in Nat : z = x * y
      BY <1>1
    <2>2. c * x <= z
      BY <1>1, <1>2, <2>1
    <2>3. x <= z \div c
      BY <2>2
    <2> QED BY <2>1, <2>3 DEF MulDiv
  <1>5. MulDiv(x, y, c) <= x * y
    <2>1. PICK z \in Nat : z = x * y
      BY <1>1
    <2>2. z \div c <= z
      OBVIOUS
    <2> QED BY <2>1, <2>2 DEF MulDiv
  <1>6. y = c => MulDiv(x, y, c) = x
    <2> SUFFICES ASSUME y = c PROVE MulDiv(x, y, c) = x
      OBVIOUS
    <2>1. (c * x) \div c = x
      OBVIOUS
    <2> QED BY <1>2, <2>1 DEF MulDiv
  <1> QED BY <1>3, <1>4, <1>5, <1>6

\* The fields of a borrow slot are naturals.
LEMMA LiquidityFields ==
  ASSUME NEW b \in LiquidityType
  PROVE  /\ b.borrowed_amount_sf \in Nat /\ b.cumulative_borrow_rate_sf \in Nat
         /\ b.market_value_sf \in Nat /\ b.reserve \in Reserves \cup {NoReserve}
         /\ b.borrowed_amount_sf <= MAX_U128
  BY WidthAssumption DEF LiquidityType, U128

\* accrue_interest on a slot never lowers the debt, and what it writes fits.
LEMMA DebtAccruedFacts ==
  ASSUME NEW b \in LiquidityType, NEW rate \in U128,
         b.cumulative_borrow_rate_sf \in Nat \ {0}, CanAccrueDebt(b, rate),
         NEW v, v = AccruedDebt(b, rate)
  PROVE  /\ v \in LiquidityType
         /\ v.reserve = b.reserve /\ v.market_value_sf = b.market_value_sf
         /\ v.cumulative_borrow_rate_sf = rate
         /\ v.borrowed_amount_sf >= b.borrowed_amount_sf
         /\ v.borrowed_amount_sf = MulDiv(b.borrowed_amount_sf, rate, b.cumulative_borrow_rate_sf)
  <1>1. PICK x \in Nat, c \in Nat \ {0}, y \in Nat :
          /\ x = b.borrowed_amount_sf /\ c = b.cumulative_borrow_rate_sf /\ y = rate
          /\ c <= y /\ x <= MAX_U128
          /\ y # c => x * y <= MAX_U128
    BY LiquidityFields, Widths DEF CanAccrueDebt, CanMul
  <1>2. PICK m \in Nat : m = MulDiv(x, y, c) /\ x <= m /\ m <= x * y /\ (y = c => m = x)
    <2>1. /\ MulDiv(x, y, c) \in Nat /\ x <= MulDiv(x, y, c) /\ MulDiv(x, y, c) <= x * y
          /\ y = c => MulDiv(x, y, c) = x
      <3>1. c <= y
        BY <1>1
      <3> QED BY ONLY x \in Nat, c \in Nat \ {0}, y \in Nat, <3>1, ScaledUp
    <2> QED BY <2>1
  <1>3. m \in U128
    <2>1. PICK z \in Nat : z = x * y
      BY <1>1
    <2>2. CASE y = c
      BY <1>1, <1>2, <2>2, WidthAssumption DEF U128
    <2>3. CASE y # c
      <3>1. m <= z
        BY <1>2, <2>1
      <3>2. z <= MAX_U128
        BY <1>1, <2>1, <2>3
      <3> QED BY <3>1, <3>2, WidthAssumption DEF U128
    <2> QED BY <2>2, <2>3
  <1>4. v = [b EXCEPT !.borrowed_amount_sf = m, !.cumulative_borrow_rate_sf = rate]
    BY <1>1, <1>2 DEF AccruedDebt, LiquidityType
  <1>5. /\ v \in LiquidityType
        /\ v.reserve = b.reserve /\ v.market_value_sf = b.market_value_sf
        /\ v.cumulative_borrow_rate_sf = rate /\ v.borrowed_amount_sf = m
    BY <1>3, <1>4 DEF LiquidityType
  <1> QED BY <1>1, <1>2, <1>5

\* No debt that was worth something is worth nothing, unless its slot is empty.
StaysValued(o, p) ==
  \A i \in BorrowSlots :
    o.borrows[i].market_value_sf > 0 /\ p.borrows[i].reserve # NoReserve
      => p.borrows[i].market_value_sf > 0

\* The slot that find returns for a debt holds all the debt in its reserve.
LEMMA FoundBorrow ==
  ASSUME NEW o, NEW rs, Sound(o, rs), NEW r \in Reserves, CanFind(o.borrows, r)
  PROVE  /\ find(o.borrows, r) \in BorrowSlots
         /\ o.borrows[find(o.borrows, r)] \in LiquidityType
         /\ o.borrows[find(o.borrows, r)].reserve = r /\ r # NoReserve
         /\ DebtOK(o.borrows[find(o.borrows, r)], rs)
         /\ DebtIn(o, r) = o.borrows[find(o.borrows, r)].borrowed_amount_sf
  <1>1. /\ find(o.borrows, r) \in BorrowSlots
        /\ o.borrows[find(o.borrows, r)].reserve = r /\ r # NoReserve
    BY FindHolds, SoundParts, AddressAssumption
  <1>2. o.borrows[find(o.borrows, r)] \in LiquidityType
    BY <1>1, SoundParts
  <1>3. DebtOK(o.borrows[find(o.borrows, r)], rs)
    BY <1>1, SoundParts DEF BorrowsOK
  <1> QED BY <1>1, <1>2, <1>3 DEF DebtIn

\* A rate that the reserve's index has reached.
IndexWithin(rs, r, rate) ==
  /\ r \in DOMAIN rs
  /\ rate \in U128
  /\ rs[r].cumulative_borrow_rate_sf \in Nat
  /\ rate <= rs[r].cumulative_borrow_rate_sf

\* accrue_interest up to an index that the reserve has reached, in place.
LEMMA Accrued ==
  ASSUME NEW o, NEW rs, Sound(o, rs), NEW r \in Reserves, CanFind(o.borrows, r),
         NEW rate, IndexWithin(rs, r, rate), CanObligationAccrue(o, r, rate),
         NEW p, p = obligation_accrue(o, r, rate)
  PROVE  /\ Sound(p, rs) /\ SameCollateral(o, p) /\ p.slot = o.slot
         /\ p.borrows_count = o.borrows_count
         /\ \A q : CanFind(p.borrows, q) = CanFind(o.borrows, q)
         /\ find(p.borrows, r) = find(o.borrows, r)
         /\ p.borrows[find(o.borrows, r)] = AccruedDebt(o.borrows[find(o.borrows, r)], rate)
         /\ \A j \in BorrowSlots : /\ p.borrows[j].reserve = o.borrows[j].reserve
                                   /\ p.borrows[j].market_value_sf = o.borrows[j].market_value_sf
         /\ DebtIn(p, r) = AccruedDebt(o.borrows[find(o.borrows, r)], rate).borrowed_amount_sf
         /\ DebtIn(p, r) >= DebtIn(o, r)
         /\ DebtIn(o, r) \in Nat /\ DebtIn(p, r) \in Nat
         /\ \A q \in Reserves : q # r => DebtIn(p, q) = DebtIn(o, q)
  <1>1. PICK i \in BorrowSlots : i = find(o.borrows, r)
    BY FoundBorrow
  <1>2. /\ o.borrows[i] \in LiquidityType /\ o.borrows[i].reserve = r /\ r # NoReserve
        /\ DebtOK(o.borrows[i], rs) /\ DebtIn(o, r) = o.borrows[i].borrowed_amount_sf
        /\ o \in ObligationType /\ o.borrows \in [BorrowSlots -> LiquidityType]
        /\ rate \in U128 /\ CanAccrueDebt(o.borrows[i], rate)
    BY <1>1, FoundBorrow, SoundParts DEF CanObligationAccrue, IndexWithin
  <1>3. o.borrows[i].cumulative_borrow_rate_sf \in Nat \ {0}
    BY <1>2, LiquidityFields, ScaleAssumption DEF DebtOK
  <1>4. PICK v : v = AccruedDebt(o.borrows[i], rate)
    OBVIOUS
  <1>5. /\ v \in LiquidityType
        /\ v.reserve = r /\ v.market_value_sf = o.borrows[i].market_value_sf
        /\ v.cumulative_borrow_rate_sf = rate
        /\ v.borrowed_amount_sf >= o.borrows[i].borrowed_amount_sf
    BY <1>2, <1>3, <1>4, DebtAccruedFacts
  <1>6. v.borrowed_amount_sf \in Nat /\ o.borrows[i].borrowed_amount_sf \in Nat
    BY <1>2, <1>5, LiquidityFields
  <1>7. DebtOK(v, rs)
    <2>1. /\ RATE_SCALE <= o.borrows[i].cumulative_borrow_rate_sf
          /\ o.borrows[i].cumulative_borrow_rate_sf <= rate
          /\ RATE_SCALE <= o.borrows[i].borrowed_amount_sf
          /\ r \in DOMAIN rs
      BY <1>2 DEF DebtOK, CanAccrueDebt
    <2>2. rate \in Nat /\ RATE_SCALE \in Nat /\ rs[r].cumulative_borrow_rate_sf \in Nat
          /\ rate <= rs[r].cumulative_borrow_rate_sf
      BY <1>2, Widths, ScaleAssumption DEF IndexWithin
    <2>3. rate \in RATE_SCALE .. rs[r].cumulative_borrow_rate_sf
      BY <1>3, <2>1, <2>2
    <2>4. v.borrowed_amount_sf >= RATE_SCALE
      BY <1>5, <1>6, <2>1, <2>2
    <2> QED BY <1>5, <2>1, <2>3, <2>4 DEF DebtOK
  <1>8. PutsBorrow(o, i, v, o.borrows_count, p)
    BY <1>1, <1>2, <1>4 DEF obligation_accrue, PutsBorrow, ObligationType
  <1>9. v.reserve = o.borrows[i].reserve /\ v.reserve # NoReserve
    BY <1>2, <1>5
  <1>10. /\ Sound(p, rs) /\ SameCollateral(o, p) /\ p.slot = o.slot
         /\ p.borrows_count = o.borrows_count
         /\ p.borrows[i] = v /\ \A j \in BorrowSlots : j # i => p.borrows[j] = o.borrows[j]
         /\ CanFind(p.borrows, v.reserve) /\ find(p.borrows, v.reserve) = i
         /\ DebtIn(p, v.reserve) = v.borrowed_amount_sf
         /\ \A q : q # v.reserve => DebtIn(p, q) = DebtIn(o, q)
         /\ \A q : CanFind(p.borrows, q) = CanFind(o.borrows, q)
    <2>1. v \in LiquidityType
      BY <1>5
    <2> QED BY ONLY Sound(o, rs), i \in BorrowSlots, <2>1, <1>7, <1>8, <1>9, BorrowKeeps
  <1> QED BY <1>1, <1>2, <1>4, <1>5, <1>6, <1>10

\* borrow adds the scaled amount to the debt in one reserve and keeps all else.
LEMMA Borrowed ==
  ASSUME NEW o, NEW rs, Sound(o, rs), NEW r \in Reserves, NEW a \in Nat,
         NEW rate, IndexWithin(rs, r, rate), rate >= RATE_SCALE,
         CanObligationBorrow(o, r, a), NEW p, p = obligation_borrow(o, r, a, rate)
  PROVE  /\ Sound(p, rs) /\ SameCollateral(o, p) /\ p.slot = o.slot
         /\ StaysValued(o, p)
         /\ DebtIn(p, r) = DebtIn(o, r) + a * RATE_SCALE
         /\ \A q \in Reserves : q # r => DebtIn(p, q) = DebtIn(o, q)
  <1>1. PICK i \in BorrowSlots :
          /\ i = find_or_add(o.borrows, r)
          /\ \/ CanFind(o.borrows, r) /\ i = find(o.borrows, r) /\ o.borrows[i].reserve = r
             \/ ~CanFind(o.borrows, r) /\ o.borrows[i].reserve = NoReserve
    BY SoundParts, FindOrAddHolds DEF CanObligationBorrow
  <1>2. PICK w \in Nat : w = a * RATE_SCALE
    BY ScaleAssumption
  <1>3. /\ r # NoReserve /\ a > 0 /\ o.borrows[i] \in LiquidityType
        /\ o.borrows[i].borrowed_amount_sf + w <= MAX_U128
        /\ o \in ObligationType /\ o.borrows \in [BorrowSlots -> LiquidityType]
    BY <1>1, <1>2, SoundParts, AddressAssumption DEF CanObligationBorrow
  <1>4. w >= RATE_SCALE /\ RATE_SCALE \in Nat \ {0}
    BY <1>2, <1>3, ScaleAssumption
  <1>5. o.borrows[i].borrowed_amount_sf \in Nat /\ o.borrows[i].market_value_sf \in Nat
    BY <1>3, LiquidityFields
  <1>6. CASE CanFind(o.borrows, r)
    <2>1. PICK v :
            v = [o.borrows[i] EXCEPT
                   !.borrowed_amount_sf = o.borrows[i].borrowed_amount_sf + w]
      OBVIOUS
    <2>2. o.borrows[i].reserve = r /\ DebtOK(o.borrows[i], rs)
          /\ DebtIn(o, r) = o.borrows[i].borrowed_amount_sf
      BY <1>1, <1>6, FoundBorrow
    <2>3. /\ v \in LiquidityType /\ v.reserve = r
          /\ v.borrowed_amount_sf = o.borrows[i].borrowed_amount_sf + w
          /\ v.cumulative_borrow_rate_sf = o.borrows[i].cumulative_borrow_rate_sf
          /\ v.market_value_sf = o.borrows[i].market_value_sf
      BY <1>3, <1>5, <2>1, <2>2, WidthAssumption DEF LiquidityType, U128
    <2>4. DebtOK(v, rs)
      <3>1. v.borrowed_amount_sf >= RATE_SCALE
        BY <1>4, <1>5, <2>3
      <3> QED BY <2>2, <2>3, <3>1 DEF DebtOK
    <2>5. PutsBorrow(o, i, v, o.borrows_count, p)
      <3>1. o.borrows[i].reserve # NoReserve
        BY <1>3, <2>2
      <3> QED BY <1>1, <1>2, <1>3, <2>1, <3>1
              DEF obligation_borrow, ObligationType, LiquidityType, PutsBorrow
    <2>6. v.reserve = o.borrows[i].reserve /\ v.reserve # NoReserve
      BY <1>3, <2>2, <2>3
    <2>7. /\ Sound(p, rs) /\ SameCollateral(o, p) /\ p.slot = o.slot
          /\ p.borrows[i] = v /\ \A j \in BorrowSlots : j # i => p.borrows[j] = o.borrows[j]
          /\ DebtIn(p, v.reserve) = v.borrowed_amount_sf
          /\ \A q : q # v.reserve => DebtIn(p, q) = DebtIn(o, q)
      <3>1. v \in LiquidityType
        BY <2>3
      <3> QED BY ONLY Sound(o, rs), i \in BorrowSlots, <3>1, <2>4, <2>5, <2>6, BorrowKeeps
    <2>8. StaysValued(o, p)
      BY <2>3, <2>7 DEF StaysValued
    <2> QED BY <1>2, <2>2, <2>3, <2>7, <2>8
  <1>7. CASE ~CanFind(o.borrows, r)
    <2>1. PICK v : v = [FreshLiquidity(r, rate) EXCEPT !.borrowed_amount_sf = w]
      OBVIOUS
    <2>2. o.borrows[i].reserve = NoReserve /\ o.borrows[i].market_value_sf = 0
      BY <1>1, <1>7, SoundParts, EmptySlots DEF BorrowsOK
    <2>3. /\ v \in LiquidityType /\ v.reserve = r /\ v.borrowed_amount_sf = w
          /\ v.cumulative_borrow_rate_sf = rate
      <3>1. w \in U128 /\ 0 \in U128 /\ rate \in U128
        BY <1>3, <1>5, WidthAssumption DEF U128, IndexWithin
      <3> QED BY <2>1, <3>1 DEF FreshLiquidity, LiquidityType
    <2>4. DebtOK(v, rs)
      <3>1. r \in DOMAIN rs /\ rate \in RATE_SCALE .. rs[r].cumulative_borrow_rate_sf
        BY <1>4, Widths DEF IndexWithin
      <3> QED BY <1>4, <2>3, <3>1 DEF DebtOK
    <2>5. PutsBorrow(o, i, v, OneMore(o.borrows_count), p)
      <3>1. [FreshLiquidity(r, rate) EXCEPT !.borrowed_amount_sf = @ + a * RATE_SCALE] = v
        BY <1>2, <2>1 DEF FreshLiquidity
      <3> QED BY <1>1, <1>3, <2>2, <3>1 DEF obligation_borrow, ObligationType, PutsBorrow
    <2>6. /\ o.borrows[i].reserve = NoReserve /\ ~CanFind(o.borrows, v.reserve)
          /\ v.reserve # NoReserve /\ v \in LiquidityType
      BY <1>3, <1>7, <2>2, <2>3
    <2>7. /\ Sound(p, rs) /\ SameCollateral(o, p) /\ p.slot = o.slot
          /\ p.borrows[i] = v /\ \A j \in BorrowSlots : j # i => p.borrows[j] = o.borrows[j]
          /\ DebtIn(o, v.reserve) = 0
          /\ DebtIn(p, v.reserve) = v.borrowed_amount_sf
          /\ \A q \in Reserves : q # v.reserve => DebtIn(p, q) = DebtIn(o, q)
      BY ONLY Sound(o, rs), i \in BorrowSlots, <2>4, <2>5, <2>6, BorrowOpens
    <2>8. StaysValued(o, p)
      BY <2>2, <2>7 DEF StaysValued
    <2> QED BY <1>2, <2>3, <2>7, <2>8
  <1> QED BY <1>6, <1>7

\* repay takes the scaled amount off the debt in one reserve, and with it what is
\* then less than one token, and keeps all else.
LEMMA Repaid ==
  ASSUME NEW o, NEW rs, Sound(o, rs), NEW r \in Reserves, NEW a \in Nat,
         CanObligationRepay(o, r, a), NEW p, p = obligation_repay(o, r, a)
  PROVE  /\ Sound(p, rs) /\ SameCollateral(o, p) /\ p.slot = o.slot
         /\ p.borrows_count <= o.borrows_count
         /\ StaysValued(o, p)
         /\ DebtIn(o, r) \in Nat
         /\ a * RATE_SCALE <= DebtIn(o, r)
         /\ DebtIn(p, r) = IF DebtIn(o, r) - a * RATE_SCALE < RATE_SCALE
                           THEN 0 ELSE DebtIn(o, r) - a * RATE_SCALE
         /\ DebtIn(o, r) - a * RATE_SCALE < RATE_SCALE => ~CanFind(p.borrows, r)
         /\ \A q \in Reserves : q # r => DebtIn(p, q) = DebtIn(o, q)
  <1>1. CanFind(o.borrows, r)
    BY DEF CanObligationRepay
  <1>2. PICK i \in BorrowSlots : i = find(o.borrows, r)
    BY <1>1, FoundBorrow
  <1>3. PICK w \in Nat : w = a * RATE_SCALE
    BY ScaleAssumption
  <1>4. /\ o.borrows[i] \in LiquidityType /\ o.borrows[i].reserve = r /\ r # NoReserve
        /\ DebtOK(o.borrows[i], rs) /\ DebtIn(o, r) = o.borrows[i].borrowed_amount_sf
        /\ o \in ObligationType /\ o.borrows \in [BorrowSlots -> LiquidityType]
        /\ o.borrows_count \in Nat
    BY <1>1, <1>2, FoundBorrow, SoundParts, Widths
  <1>5. o.borrows[i].borrowed_amount_sf \in Nat /\ o.borrows[i].market_value_sf \in Nat
        /\ o.borrows[i].borrowed_amount_sf <= MAX_U128
    BY <1>4, LiquidityFields
  <1>6. PICK left \in Nat : left = o.borrows[i].borrowed_amount_sf - w
                            /\ w <= o.borrows[i].borrowed_amount_sf
    BY <1>2, <1>3, <1>5 DEF CanObligationRepay
  <1>7. CASE left < RATE_SCALE
    <2>1. PutsBorrow(o, i, EmptyLiquidity, OneLess(o.borrows_count), p)
      BY <1>2, <1>3, <1>4, <1>6, <1>7 DEF obligation_repay, ObligationType, PutsBorrow
    <2>2. /\ Sound(p, rs) /\ SameCollateral(o, p) /\ p.slot = o.slot
          /\ p.borrows_count <= o.borrows_count
          /\ p.borrows[i] = EmptyLiquidity
          /\ \A j \in BorrowSlots : j # i => p.borrows[j] = o.borrows[j]
          /\ ~CanFind(p.borrows, r) /\ DebtIn(p, r) = 0
          /\ \A q \in Reserves : q # r => DebtIn(p, q) = DebtIn(o, q)
      BY <1>4, <2>1, BorrowCloses
    <2>3. StaysValued(o, p)
      BY <2>2, EmptySlots DEF StaysValued
    <2> QED BY <1>3, <1>4, <1>5, <1>6, <1>7, <2>2, <2>3
  <1>8. CASE ~(left < RATE_SCALE)
    <2>1. PICK v : v = [o.borrows[i] EXCEPT !.borrowed_amount_sf = left]
      OBVIOUS
    <2>2. /\ v \in LiquidityType /\ v.reserve = r /\ v.borrowed_amount_sf = left
          /\ v.cumulative_borrow_rate_sf = o.borrows[i].cumulative_borrow_rate_sf
          /\ v.market_value_sf = o.borrows[i].market_value_sf
      BY <1>4, <1>5, <1>6, <2>1, WidthAssumption DEF LiquidityType, U128
    <2>3. DebtOK(v, rs)
      <3>1. v.borrowed_amount_sf >= RATE_SCALE
        BY <1>8, <2>2, ScaleAssumption
      <3> QED BY <1>4, <2>2, <3>1 DEF DebtOK
    <2>4. PutsBorrow(o, i, v, o.borrows_count, p)
      BY <1>2, <1>3, <1>4, <1>6, <1>8, <2>1 DEF obligation_repay, ObligationType, PutsBorrow
    <2>5. v.reserve = o.borrows[i].reserve /\ v.reserve # NoReserve
      BY <1>4, <2>2
    <2>6. /\ Sound(p, rs) /\ SameCollateral(o, p) /\ p.slot = o.slot
          /\ p.borrows_count = o.borrows_count
          /\ p.borrows[i] = v /\ \A j \in BorrowSlots : j # i => p.borrows[j] = o.borrows[j]
          /\ DebtIn(p, v.reserve) = v.borrowed_amount_sf
          /\ \A q : q # v.reserve => DebtIn(p, q) = DebtIn(o, q)
      <3>1. v \in LiquidityType
        BY <2>2
      <3> QED BY ONLY Sound(o, rs), i \in BorrowSlots, <3>1, <2>3, <2>4, <2>5, BorrowKeeps
    <2>7. StaysValued(o, p)
      BY <2>2, <2>6 DEF StaysValued
    <2> QED BY <1>3, <1>4, <1>5, <1>6, <1>8, <2>2, <2>6, <2>7
  <1> QED BY <1>7, <1>8

(***************************************************************************)
(* What the instructions make of them, and what a refresh does to every slot. *)
(***************************************************************************)
\* A part of a natural is a natural and not more than it.
LEMMA PartOf ==
  ASSUME NEW x \in Nat, NEW c \in Nat \ {0}, NEW y \in Nat, y <= c
  PROVE  MulDiv(x, y, c) \in Nat /\ MulDiv(x, y, c) <= x
  <1>1. x * y <= x * c /\ x * y \in Nat /\ x * c \in Nat
    OBVIOUS
  <1>2. PICK z \in Nat, t \in Nat : z = x * y /\ t = x * c
    BY <1>1
  <1>3. z \div c \in Nat /\ z \div c <= t \div c
    BY <1>1, <1>2
  <1>4. t \div c = x
    <2>1. (x * c) \div c = x
      OBVIOUS
    <2> QED BY <1>2, <2>1
  <1> QED BY <1>2, <1>3, <1>4 DEF MulDiv

\* withdraw_collateral scales the slot's value down and takes the amount out.
LEMMA Released ==
  ASSUME NEW o, NEW rs, Sound(o, rs), NEW r \in Reserves, NEW a \in Nat,
         CanWithdraw(o, r, a), NEW p, p = release_collateral(o, r, a)
  PROVE  /\ Sound(p, rs) /\ SameDebts(o, p) /\ p.slot = o.slot
         /\ CollateralIn(p, r) = CollateralIn(o, r) - a
         /\ CollateralIn(o, r) \in Nat /\ CollateralIn(p, r) \in Nat
         /\ \A q \in Reserves : q # r => CollateralIn(p, q) = CollateralIn(o, q)
  <1>1. CanFind(o.deposits, r)
    BY DEF CanWithdraw
  <1>2. PICK i \in DepositSlots : i = find(o.deposits, r)
    BY <1>1, FoundDeposit
  <1>3. /\ o.deposits[i] \in CollateralType /\ o.deposits[i].reserve = r /\ r # NoReserve
        /\ o.deposits[i].deposited_amount \in Nat \ {0}
        /\ CollateralIn(o, r) = o.deposits[i].deposited_amount
        /\ o \in ObligationType
        /\ a > 0 /\ a <= o.deposits[i].deposited_amount
    BY <1>1, <1>2, FoundDeposit, SoundParts DEF CanWithdraw
  <1>4. PICK d \in Nat \ {0}, m \in Nat :
          d = o.deposits[i].deposited_amount /\ m = o.deposits[i].market_value_sf /\ m <= MAX_U128
    BY <1>3, WidthAssumption DEF CollateralType, U128
  <1>5. PICK n \in Nat : n = MulDiv(m, d - a, d) /\ n <= m
    <2>1. d - a \in Nat /\ d - a <= d
      BY <1>3, <1>4
    <2>2. MulDiv(m, d - a, d) \in Nat /\ MulDiv(m, d - a, d) <= m
      BY ONLY m \in Nat, d \in Nat \ {0}, <2>1, PartOf
    <2> QED BY <2>2
  <1>6. n \in U128
    BY <1>4, <1>5, WidthAssumption DEF U128
  <1>7. PICK v : v = [o.deposits[i] EXCEPT !.market_value_sf = n]
    OBVIOUS
  <1>8. /\ v \in CollateralType /\ v.reserve = r /\ v.deposited_amount = d
    BY <1>3, <1>4, <1>6, <1>7 DEF CollateralType
  <1>9. PICK k : k = ValueReduced(o, r, a)
    OBVIOUS
  <1>10. PutsDeposit(o, i, v, o.deposits_count, k)
    <2>1. n = MulDiv(o.deposits[i].market_value_sf, o.deposits[i].deposited_amount - a,
                     o.deposits[i].deposited_amount)
      BY <1>4, <1>5
    <2>2. k = [o EXCEPT !.deposits[i].market_value_sf = n]
      BY <1>2, <1>9, <2>1 DEF ValueReduced
    <2> QED BY <1>3, <1>7, <2>2 DEF ObligationType, PutsDeposit
  <1>11. v.reserve = o.deposits[i].reserve /\ v.reserve # NoReserve /\ v.deposited_amount > 0
    BY <1>3, <1>8
  <1>12. /\ Sound(k, rs) /\ SameDebts(o, k) /\ k.slot = o.slot
         /\ k.deposits[i] = v /\ \A j \in DepositSlots : j # i => k.deposits[j] = o.deposits[j]
         /\ CollateralIn(k, v.reserve) = v.deposited_amount
         /\ \A q : q # v.reserve => CollateralIn(k, q) = CollateralIn(o, q)
    <2>1. v \in CollateralType
      BY <1>8
    <2> QED BY ONLY Sound(o, rs), i \in DepositSlots, <2>1, <1>10, <1>11, DepositKeeps
  <1>13. find(k.deposits, r) = i /\ CanFind(k.deposits, r)
    BY <1>8, <1>11, <1>12, FindTheOne, SoundParts
  <1>14. CanWithdraw(k, r, a)
    BY <1>3, <1>4, <1>8, <1>12, <1>13 DEF CanWithdraw
  <1>15. p = withdraw(k, r, a)
    BY <1>9 DEF release_collateral
  <1>16. /\ Sound(p, rs) /\ SameDebts(k, p) /\ p.slot = k.slot
         /\ CollateralIn(p, r) = CollateralIn(k, r) - a
         /\ \A q \in Reserves : q # r => CollateralIn(p, q) = CollateralIn(k, q)
    <2>1. Sound(k, rs)
      BY <1>12
    <2> QED BY ONLY <2>1, r \in Reserves, a \in Nat, <1>14, <1>15, Withdrawn
  <1>17. CollateralIn(k, r) = d /\ CollateralIn(o, r) = d
    BY <1>3, <1>4, <1>8, <1>12
  <1>18. CollateralIn(p, r) = d - a /\ d - a \in Nat
    BY <1>3, <1>4, <1>16, <1>17
  <1>19. SameDebts(o, p)
    BY <1>12, <1>16 DEF SameDebts
  <1> QED BY <1>8, <1>12, <1>16, <1>17, <1>18, <1>19

\* The debt in r with the interest up to `rate`.
Due(o, r, rate) == AccruedDebt(o.borrows[find(o.borrows, r)], rate).borrowed_amount_sf

\* borrow and private_borrow: interest first, then the new debt.
LEMMA BorrowedAgainst ==
  ASSUME NEW o, NEW rs, Sound(o, rs), NEW r \in Reserves, NEW a \in Nat, NEW res,
         IndexWithin(rs, r, res.cumulative_borrow_rate_sf),
         res.cumulative_borrow_rate_sf >= RATE_SCALE,
         CanBorrowAgainst(o, r, a, res), NEW p, p = borrow_against(o, r, a, res)
  PROVE  /\ Sound(p, rs) /\ SameCollateral(o, p) /\ p.slot = o.slot
         /\ StaysValued(o, p)
  <1> DEFINE rate == res.cumulative_borrow_rate_sf
  <1>1. PICK k : k = WithDebtCurrent(o, r, res)
    OBVIOUS
  <1>2. /\ Sound(k, rs) /\ SameCollateral(o, k) /\ k.slot = o.slot
        /\ \A j \in BorrowSlots : /\ k.borrows[j].reserve = o.borrows[j].reserve
                                  /\ k.borrows[j].market_value_sf = o.borrows[j].market_value_sf
    <2>1. CASE CanFind(o.borrows, r)
      <3>1. k = obligation_accrue(o, r, rate) /\ CanObligationAccrue(o, r, rate)
        BY <1>1, <2>1 DEF WithDebtCurrent, CanBorrowAgainst
      <3> QED BY <2>1, <3>1, Accrued
    <2>2. CASE ~CanFind(o.borrows, r)
      BY <1>1, <2>2 DEF WithDebtCurrent, SameCollateral
    <2> QED BY <2>1, <2>2
  <1>3. CanObligationBorrow(k, r, a) /\ p = obligation_borrow(k, r, a, rate)
    BY <1>1 DEF CanBorrowAgainst, borrow_against
  <1> HIDE DEF rate
  <1>4. IndexWithin(rs, r, rate) /\ rate >= RATE_SCALE
    BY DEF rate
  <1>5. Sound(p, rs) /\ SameCollateral(k, p) /\ p.slot = k.slot /\ StaysValued(k, p)
    BY <1>2, <1>3, <1>4, Borrowed
  <1> QED BY <1>2, <1>5 DEF SameCollateral, StaysValued

\* repay: interest first, then the payment.
LEMMA RepaidDebt ==
  ASSUME NEW o, NEW rs, Sound(o, rs), NEW r \in Reserves, NEW a \in Nat, NEW res,
         IndexWithin(rs, r, res.cumulative_borrow_rate_sf),
         CanRepayDebt(o, r, a, res), NEW p, p = repay_debt(o, r, a, res)
  PROVE  /\ Sound(p, rs) /\ SameCollateral(o, p) /\ p.slot = o.slot
         /\ p.borrows_count <= o.borrows_count
         /\ StaysValued(o, p)
         /\ Due(o, r, res.cumulative_borrow_rate_sf) \in Nat
         /\ a * RATE_SCALE <= Due(o, r, res.cumulative_borrow_rate_sf)
         /\ DebtIn(p, r) = IF Due(o, r, res.cumulative_borrow_rate_sf) - a * RATE_SCALE < RATE_SCALE
                           THEN 0 ELSE Due(o, r, res.cumulative_borrow_rate_sf) - a * RATE_SCALE
         /\ Due(o, r, res.cumulative_borrow_rate_sf) - a * RATE_SCALE < RATE_SCALE
              => ~CanFind(p.borrows, r)
         /\ \A q \in Reserves : q # r => DebtIn(p, q) = DebtIn(o, q)
  <1> DEFINE rate == res.cumulative_borrow_rate_sf
  <1>1. /\ CanFind(o.borrows, r) /\ CanObligationAccrue(o, r, rate)
        /\ CanObligationRepay(obligation_accrue(o, r, rate), r, a)
        /\ p = obligation_repay(obligation_accrue(o, r, rate), r, a)
    BY DEF CanRepayDebt, repay_debt
  <1>2. PICK k : k = obligation_accrue(o, r, rate)
    OBVIOUS
  <1>3. IndexWithin(rs, r, rate)
    OBVIOUS
  <1> HIDE DEF rate
  <1>4. /\ Sound(k, rs) /\ SameCollateral(o, k) /\ k.slot = o.slot
        /\ k.borrows_count = o.borrows_count
        /\ \A j \in BorrowSlots : /\ k.borrows[j].reserve = o.borrows[j].reserve
                                  /\ k.borrows[j].market_value_sf = o.borrows[j].market_value_sf
        /\ DebtIn(k, r) = Due(o, r, rate)
        /\ \A q \in Reserves : q # r => DebtIn(k, q) = DebtIn(o, q)
    BY <1>1, <1>2, <1>3, Accrued DEF Due
  <1>5. CanObligationRepay(k, r, a) /\ p = obligation_repay(k, r, a)
    BY <1>1, <1>2
  <1>6. /\ Sound(p, rs) /\ SameCollateral(k, p) /\ p.slot = k.slot
        /\ p.borrows_count <= k.borrows_count
        /\ StaysValued(k, p)
        /\ DebtIn(k, r) \in Nat
        /\ a * RATE_SCALE <= DebtIn(k, r)
        /\ DebtIn(p, r) = IF DebtIn(k, r) - a * RATE_SCALE < RATE_SCALE
                          THEN 0 ELSE DebtIn(k, r) - a * RATE_SCALE
        /\ DebtIn(k, r) - a * RATE_SCALE < RATE_SCALE => ~CanFind(p.borrows, r)
        /\ \A q \in Reserves : q # r => DebtIn(p, q) = DebtIn(k, q)
    <2>1. Sound(k, rs)
      BY <1>4
    <2> QED BY ONLY <2>1, r \in Reserves, a \in Nat, <1>5, Repaid
  <1>7. SameCollateral(o, p) /\ StaysValued(o, p)
    BY <1>4, <1>6 DEF SameCollateral, StaysValued
  <1> QED BY <1>4, <1>6, <1>7 DEF rate

\* refresh_obligation on a borrow slot: a debt of at least one token that was worth
\* something, or has a price, is worth something afterwards.
LEMMA DebtPriced ==
  ASSUME NEW b \in LiquidityType, NEW rs, DebtOK(b, rs), rs[b.reserve] \in ReserveType,
         CanPriceDebt(b, rs[b.reserve]), NEW v, v = PricedDebt(b, rs[b.reserve])
  PROVE  /\ v \in LiquidityType /\ v.reserve = b.reserve /\ DebtOK(v, rs)
         /\ b.market_value_sf > 0 => v.market_value_sf > 0
  <1>1. PICK res : res = rs[b.reserve]
    OBVIOUS
  <1>2. /\ res \in ReserveType /\ CanPriceDebt(b, res) /\ v = PricedDebt(b, res)
        /\ b.reserve \in DOMAIN rs /\ RATE_SCALE <= b.borrowed_amount_sf
        /\ b.cumulative_borrow_rate_sf \in RATE_SCALE .. res.cumulative_borrow_rate_sf
    BY <1>1 DEF DebtOK
  <1>3. PICK price \in Nat, rate \in U128 :
          price = res.market_price_sf /\ rate = res.cumulative_borrow_rate_sf
    BY <1>2, Widths DEF ReserveType
  <1>4. CASE price = 0
    BY <1>2, <1>3, <1>4 DEF PricedDebt
  <1>5. CASE price # 0
    <2>1. PICK w : w = AccruedDebt(b, rate)
      OBVIOUS
    <2>2. /\ CanAccrueDebt(b, rate)
          /\ CanMul(w.borrowed_amount_sf \div RATE_SCALE, price)
          /\ v = [w EXCEPT !.market_value_sf = (w.borrowed_amount_sf \div RATE_SCALE) * price]
      BY <1>2, <1>3, <1>5, <2>1 DEF CanPriceDebt, PricedDebt
    <2>3. b.cumulative_borrow_rate_sf \in Nat \ {0} /\ RATE_SCALE \in Nat \ {0}
          /\ RATE_SCALE <= rate /\ rate \in Nat
      BY <1>2, <1>3, LiquidityFields, ScaleAssumption, Widths
    <2>4. /\ w \in LiquidityType /\ w.reserve = b.reserve
          /\ w.cumulative_borrow_rate_sf = rate
          /\ w.borrowed_amount_sf >= b.borrowed_amount_sf
      BY <2>1, <2>2, <2>3, DebtAccruedFacts
    <2>5. PICK d \in Nat : d = w.borrowed_amount_sf /\ d >= RATE_SCALE
      BY <1>2, <2>3, <2>4, LiquidityFields
    <2>6. PICK n \in Nat : n = d \div RATE_SCALE /\ n >= 1
      BY <2>3, <2>5
    <2>7. PICK m \in Nat : m = n * price /\ m > 0
      BY <1>5, <2>6
    <2>8. m <= MAX_U128 /\ v = [w EXCEPT !.market_value_sf = m]
      BY <2>2, <2>5, <2>6, <2>7 DEF CanMul
    <2>9. m \in U128
      BY <2>8, WidthAssumption DEF U128
    <2>10. /\ v \in LiquidityType /\ v.reserve = b.reserve
           /\ v.cumulative_borrow_rate_sf = rate /\ v.borrowed_amount_sf = d
           /\ v.market_value_sf = m
      BY <2>4, <2>5, <2>8, <2>9 DEF LiquidityType
    <2>11. rate \in RATE_SCALE .. rs[b.reserve].cumulative_borrow_rate_sf
      BY <1>1, <1>3, <2>3
    <2>12. DebtOK(v, rs)
      BY <1>2, <2>5, <2>10, <2>11 DEF DebtOK
    <2> QED BY <2>7, <2>10, <2>12
  <1> QED BY <1>4, <1>5

\* What cTokens stand for is a natural where the supply does not go below zero.
LEMMA UnderlyingType ==
  ASSUME NEW c \in CollateralType, NEW r \in ReserveType, CanTotalSupply(r)
  PROVE  Underlying(c, r) \in Nat
  <1>1. PICK d \in Nat, m \in Nat, t \in Nat :
          d = c.deposited_amount /\ m = r.mint_total_supply /\ t = total_supply(r)
    <2>1. c.deposited_amount \in Nat
      BY Widths DEF CollateralType
    <2>2. r.mint_total_supply \in Nat
      BY ReserveFields
    <2>3. total_supply(r) \in Nat
      BY TotalSupplyType DEF CanTotalSupply
    <2> QED BY <2>1, <2>2, <2>3
  <1>2. m # 0 => MulDiv(d, t, m) \in Nat
    BY MulDivBound
  <1> QED BY <1>1, <1>2 DEF Underlying

\* refresh_obligation on a deposit slot writes a value that fits, and no amount.
LEMMA CollateralPriced ==
  ASSUME NEW c \in CollateralType, NEW r \in ReserveType, CanTotalSupply(r),
         CanPriceCollateral(c, r), NEW v, v = PricedCollateral(c, r)
  PROVE  /\ v \in CollateralType /\ v.reserve = c.reserve
         /\ v.deposited_amount = c.deposited_amount
  <1>1. PICK price \in Nat, th \in Nat, u \in Nat :
          /\ price = r.market_price_sf /\ th = r.config.liquidation_threshold_pct
          /\ u = Underlying(c, r)
    BY UnderlyingType, Widths DEF ReserveType, ConfigType
  <1>2. CASE price = 0
    BY <1>1, <1>2 DEF PricedCollateral
  <1>3. CASE price # 0
    <2>1. PICK x \in Nat : x = u * price
      OBVIOUS
    <2>2. PICK y \in Nat : y = x * th
      OBVIOUS
    <2>3. y <= MAX_U128 /\ v = [c EXCEPT !.market_value_sf = MulDiv(x, th, PERCENT_SCALER)]
      BY <1>1, <1>3, <2>1, <2>2 DEF CanPriceCollateral, PricedCollateral, CanMul
    <2>4. PICK n \in Nat : n = y \div 100 /\ n <= y
      OBVIOUS
    <2>5. MulDiv(x, th, PERCENT_SCALER) = n
      BY <2>2, <2>4 DEF MulDiv, PERCENT_SCALER
    <2>6. n \in U128
      BY <2>3, <2>4, WidthAssumption DEF U128
    <2> QED BY <2>3, <2>5, <2>6 DEF CollateralType
  <1> QED BY <1>2, <1>3

\* Every reserve in which there is collateral exists.
CollateralListed(o, rs) ==
  \A i \in DepositSlots : o.deposits[i].reserve # NoReserve => o.deposits[i].reserve \in DOMAIN rs

\* refresh_obligation keeps the account sound, every collateral amount and every
\* count, and values no debt down to nothing.
LEMMA Refreshed ==
  ASSUME NEW o, NEW rs, Sound(o, rs), CollateralListed(o, rs),
         \A q \in DOMAIN rs : rs[q] \in ReserveType,
         CanRefreshObligation(o, rs), NEW s \in U64,
         NEW p, p = refresh_obligation(o, rs, s)
  PROVE  /\ Sound(p, rs) /\ StaysValued(o, p) /\ p.slot = s
         /\ p.borrows_count = o.borrows_count
         /\ \A q : CollateralIn(p, q) = CollateralIn(o, q)
  <1> DEFINE f == [i \in BorrowSlots |->
                     IF i \in InPrefix(o.borrows, o.borrows_count)
                     THEN PricedDebt(o.borrows[i], rs[o.borrows[i].reserve])
                     ELSE o.borrows[i]]
             g == [i \in DepositSlots |->
                     IF i \in InPrefix(o.deposits, o.deposits_count)
                     THEN PricedCollateral(o.deposits[i], rs[o.deposits[i].reserve])
                     ELSE o.deposits[i]]
  <1>1. ASSUME NEW i \in BorrowSlots
        PROVE  /\ f[i] \in LiquidityType /\ f[i].reserve = o.borrows[i].reserve
               /\ o.borrows[i].reserve = NoReserve => f[i] = o.borrows[i]
               /\ o.borrows[i].reserve # NoReserve => DebtOK(f[i], rs)
               /\ o.borrows[i].market_value_sf > 0 => f[i].market_value_sf > 0
    <2>1. o.borrows[i] \in LiquidityType
      BY SoundParts
    <2>2. CASE i \in InPrefix(o.borrows, o.borrows_count)
      <3>1. o.borrows[i].reserve # NoReserve
        BY <2>2 DEF InPrefix, Active
      <3>2. DebtOK(o.borrows[i], rs)
        BY <3>1, SoundParts DEF BorrowsOK
      <3>3. rs[o.borrows[i].reserve] \in ReserveType
        BY <3>2 DEF DebtOK
      <3>4. CanPriceDebt(o.borrows[i], rs[o.borrows[i].reserve])
        BY <2>2 DEF CanRefreshObligation
      <3>5. f[i] = PricedDebt(o.borrows[i], rs[o.borrows[i].reserve])
        BY <2>2
      <3> HIDE DEF f, g
      <3> QED BY <2>1, <3>1, <3>2, <3>3, <3>4, <3>5, DebtPriced
    <2>3. CASE i \notin InPrefix(o.borrows, o.borrows_count)
      <3>1. f[i] = o.borrows[i]
        BY <2>3
      <3>2. o.borrows[i].reserve # NoReserve => DebtOK(o.borrows[i], rs)
        BY SoundParts DEF BorrowsOK
      <3> HIDE DEF f, g
      <3> QED BY <2>1, <3>1, <3>2
    <2> QED BY <2>2, <2>3
  <1>2. ASSUME NEW i \in DepositSlots
        PROVE  /\ g[i] \in CollateralType /\ g[i].reserve = o.deposits[i].reserve
               /\ o.deposits[i].reserve = NoReserve => g[i] = o.deposits[i]
               /\ g[i].deposited_amount = o.deposits[i].deposited_amount
    <2>1. o.deposits[i] \in CollateralType
      BY SoundParts
    <2>2. CASE i \in InPrefix(o.deposits, o.deposits_count)
      <3>1. o.deposits[i].reserve # NoReserve
        BY <2>2 DEF InPrefix, Active
      <3>2. rs[o.deposits[i].reserve] \in ReserveType
        BY <3>1 DEF CollateralListed
      <3>3. /\ CanTotalSupply(rs[o.deposits[i].reserve])
            /\ CanPriceCollateral(o.deposits[i], rs[o.deposits[i].reserve])
        BY <2>2 DEF CanRefreshObligation
      <3>4. g[i] = PricedCollateral(o.deposits[i], rs[o.deposits[i].reserve])
        BY <2>2
      <3> HIDE DEF f, g
      <3> QED BY <2>1, <3>1, <3>2, <3>3, <3>4, CollateralPriced
    <2>3. CASE i \notin InPrefix(o.deposits, o.deposits_count)
      BY <2>1, <2>3
    <2> QED BY <2>2, <2>3
  <1>3. f \in [BorrowSlots -> LiquidityType] /\ g \in [DepositSlots -> CollateralType]
    BY <1>1, <1>2
  <1>4. /\ p \in ObligationType /\ p.borrows = f /\ p.deposits = g /\ p.slot = s
        /\ p.borrows_count = o.borrows_count /\ p.deposits_count = o.deposits_count
    <2>1. p = [o EXCEPT !.borrows = f, !.deposits = g, !.slot = s]
      BY DEF refresh_obligation
    <2>2. o \in ObligationType
      BY SoundParts
    <2> HIDE DEF f, g
    <2> QED BY <1>3, <2>1, <2>2 DEF ObligationType
  <1> HIDE DEF f, g
  <1>5. /\ Active(f) = Active(o.borrows) /\ OneSlotEach(f)
    BY <1>1, <1>3, SoundParts, SlotKept
  <1>6. /\ Active(g) = Active(o.deposits) /\ OneSlotEach(g)
        /\ \A r : /\ CanFind(g, r) = CanFind(o.deposits, r)
                  /\ find(g, r) = find(o.deposits, r)
    BY <1>2, <1>3, SoundParts, SlotKept
  <1>7. BorrowsOK(p, rs)
    BY <1>1, <1>4, <1>5, SoundParts DEF BorrowsOK
  <1>8. DepositsOK(p)
    BY <1>2, <1>4, <1>6, SoundParts DEF DepositsOK
  <1>9. StaysValued(o, p)
    BY <1>1, <1>4 DEF StaysValued
  <1>10. ASSUME NEW q PROVE CollateralIn(p, q) = CollateralIn(o, q)
    <2>1. CASE CanFind(o.deposits, q)
      <3>1. find(o.deposits, q) \in DepositSlots
        BY <2>1, FindHolds, SoundParts
      <3> QED BY <1>2, <1>4, <1>6, <2>1, <3>1 DEF CollateralIn
    <2>2. CASE ~CanFind(o.deposits, q)
      BY <1>4, <1>6, <2>2 DEF CollateralIn
    <2> QED BY <2>1, <2>2
  <1> QED BY <1>4, <1>7, <1>8, <1>9, <1>10 DEF Sound

\* An obligation stays sound while the indices of the reserves only grow.
LEMMA SoundLater ==
  ASSUME NEW o, NEW rs, NEW ts, Sound(o, rs), DOMAIN rs \subseteq DOMAIN ts,
         \A q \in DOMAIN rs : /\ rs[q].cumulative_borrow_rate_sf \in Nat
                              /\ ts[q].cumulative_borrow_rate_sf \in Nat
                              /\ rs[q].cumulative_borrow_rate_sf <= ts[q].cumulative_borrow_rate_sf
  PROVE  Sound(o, ts)
  <1>1. ASSUME NEW i \in BorrowSlots, DebtOK(o.borrows[i], rs)
        PROVE  DebtOK(o.borrows[i], ts)
    <2>1. PICK q \in DOMAIN rs : q = o.borrows[i].reserve
      BY <1>1 DEF DebtOK
    <2>2. PICK x \in Nat, y \in Nat :
            x = rs[q].cumulative_borrow_rate_sf /\ y = ts[q].cumulative_borrow_rate_sf /\ x <= y
      BY <2>1
    <2>3. o.borrows[i].cumulative_borrow_rate_sf \in RATE_SCALE .. x
      BY <1>1, <2>1, <2>2 DEF DebtOK
    <2>4. o.borrows[i].cumulative_borrow_rate_sf \in RATE_SCALE .. y
      BY <2>2, <2>3, ScaleAssumption
    <2> QED BY <1>1, <2>1, <2>2, <2>4 DEF DebtOK
  <1> QED BY <1>1 DEF Sound, BorrowsOK

(***************************************************************************)
(* Arithmetic of instalments and of seizures.                              *)
(***************************************************************************)
\* A quotient rounded down, from both sides.
LEMMA RatioBounds ==
  ASSUME NEW x \in Nat, NEW y \in Nat, NEW c \in Nat \ {0}
  PROVE  /\ MulDiv(x, y, c) \in Nat
         /\ MulDiv(x, y, c) * c <= x * y
         /\ x * y < (MulDiv(x, y, c) + 1) * c
  <1>1. PICK z \in Nat : z = x * y
    OBVIOUS
  <1>2. PICK n \in Nat : n = z \div c
    OBVIOUS
  <1>3. n * c <= z /\ z < (n + 1) * c
    BY <1>2
  <1> QED BY <1>1, <1>2, <1>3 DEF MulDiv

\* A natural below the exact quotient is at most the one rounded down.
LEMMA RatioAtMost ==
  ASSUME NEW x \in Nat, NEW y \in Nat, NEW c \in Nat \ {0}, NEW n \in Nat, n * c <= x * y
  PROVE  n <= MulDiv(x, y, c)
  <1>1. PICK z \in Nat : z = x * y
    OBVIOUS
  <1>2. n <= z \div c
    BY <1>1
  <1> QED BY <1>1, <1>2 DEF MulDiv

\* The arithmetic of two instalments, m being the debt after the first.
LEMMA InstalmentArithmetic ==
  ASSUME NEW x \in Nat, NEW c \in Nat \ {0}, NEW half \in Nat \ {0}, NEW final \in Nat \ {0},
         NEW m \in Nat, m * c <= x * half, x * half < (m + 1) * c,
         NEW twice \in Nat, twice * half <= m * final, m * final < (twice + 1) * half,
         NEW once \in Nat, once * c <= x * final
  PROVE  twice * c <= x * final /\ (once - twice - 1) * half <= final
  <1>1. twice * c <= x * final
    <2>1. PICK a1 \in Nat : a1 = (twice * half) * c /\ a1 = (twice * c) * half
      OBVIOUS
    <2>2. PICK a2 \in Nat : a2 = (m * final) * c /\ a2 = (m * c) * final
      OBVIOUS
    <2>3. PICK a3 \in Nat : a3 = (x * half) * final /\ a3 = (x * final) * half
      OBVIOUS
    <2>4. a1 <= a2
      BY <2>1, <2>2
    <2>5. a2 <= a3
      BY <2>2, <2>3
    <2>6. PICK a \in Nat, b \in Nat : a = twice * c /\ b = x * final
      OBVIOUS
    <2>7. a * half <= b * half
      BY <2>1, <2>3, <2>4, <2>5, <2>6
    <2>8. a <= b
      BY ONLY <2>7, a \in Nat, b \in Nat, half \in Nat \ {0}
    <2> QED BY <2>6, <2>8
  <1>2. once * half < (m + 1) * final
    <2>1. PICK a1 \in Nat : a1 = (once * c) * half /\ a1 = (once * half) * c
      OBVIOUS
    <2>2. PICK a2 \in Nat : a2 = (x * final) * half /\ a2 = (x * half) * final
      OBVIOUS
    <2>3. PICK a3 \in Nat : a3 = ((m + 1) * c) * final /\ a3 = ((m + 1) * final) * c
      OBVIOUS
    <2>4. a1 <= a2
      BY <2>1, <2>2
    <2>5. a2 < a3
      <3>1. PICK p \in Nat, q \in Nat : p = x * half /\ q = (m + 1) * c /\ p < q
        OBVIOUS
      <3>2. p * final < q * final
        BY ONLY <3>1, p \in Nat, q \in Nat, final \in Nat \ {0}
      <3> QED BY <2>2, <2>3, <3>1, <3>2
    <2>6. PICK a \in Nat, b \in Nat : a = once * half /\ b = (m + 1) * final
      OBVIOUS
    <2>7. a * c < b * c
      BY <2>1, <2>3, <2>4, <2>5, <2>6
    <2>8. a < b
      BY ONLY <2>7, a \in Nat, b \in Nat, c \in Nat \ {0}
    <2> QED BY <2>6, <2>8
  <1>3. (once - twice - 1) * half <= final
    <2>1. PICK a \in Nat, mf \in Nat, th \in Nat :
            a = once * half /\ mf = m * final /\ th = twice * half
      OBVIOUS
    <2>2. /\ (m + 1) * final = mf + final
          /\ (twice + 1) * half = th + half
          /\ (once - twice - 1) * half = a - th - half
      BY <2>1
    <2>3. a < mf + final /\ mf < th + half
      BY <1>2, <2>1, <2>2
    <2> QED BY <2>2, <2>3
  <1> QED BY <1>1, <1>3

\* Accruing in two instalments is never more than in one, and loses no more than
\* the last instalment's growth and one.
LEMMA TwoInstalments ==
  ASSUME NEW x \in Nat, NEW c \in Nat \ {0}, NEW half \in Nat \ {0}, NEW final \in Nat \ {0},
         NEW m, m = MulDiv(x, half, c),
         NEW twice, twice = MulDiv(m, final, half),
         NEW once, once = MulDiv(x, final, c)
  PROVE  twice <= once /\ (once - twice - 1) * half <= final
  <1>1. m \in Nat /\ m * c <= x * half /\ x * half < (m + 1) * c
    BY RatioBounds
  <1>2. twice \in Nat /\ twice * half <= m * final /\ m * final < (twice + 1) * half
    BY <1>1, RatioBounds
  <1>3. once \in Nat /\ once * c <= x * final
    BY RatioBounds
  <1>4. twice * c <= x * final /\ (once - twice - 1) * half <= final
    BY <1>1, <1>2, <1>3, InstalmentArithmetic
  <1>5. twice <= once
    BY <1>2, <1>4, RatioAtMost
  <1> QED BY <1>4, <1>5

\* The smaller of two naturals is at most either.
LEMMA SmallerOf ==
  ASSUME NEW x \in Nat, NEW y \in Nat
  PROVE  Smaller(x, y) \in Nat /\ Smaller(x, y) <= x /\ Smaller(x, y) <= y
  BY DEF Smaller

\* A liquidation repays no more than asked, and at most half of the debt.
LEMMA ActualRepayBound ==
  ASSUME NEW o, NEW rr, NEW rres, NEW a \in Nat, RawDebt(o, rr, rres) \in Nat
  PROVE  /\ ActualRepay(o, rr, rres, a) \in Nat
         /\ ActualRepay(o, rr, rres, a) <= a
         /\ 2 * ActualRepay(o, rr, rres, a) <= RawDebt(o, rr, rres)
  <1>1. PICK d \in Nat : d = RawDebt(o, rr, rres)
    OBVIOUS
  <1>2. PICK h \in Nat : h = MulDiv(d, 50, 100) /\ 2 * h <= d
    <2>1. MulDiv(d, 50, 100) \in Nat /\ MulDiv(d, 50, 100) * 100 <= d * 50
      BY MulDivBound
    <2> QED BY <2>1
  <1>3. PICK k \in Nat : k = AsU64(h) /\ k <= h
    BY AsU64Bound, Widths
  <1>4. ActualRepay(o, rr, rres, a) = Smaller(a, k)
    BY <1>1, <1>2, <1>3 DEF ActualRepay, MAX_LIQUIDATION_CLOSE_FACTOR_PCT
  <1>5. Smaller(a, k) \in Nat /\ Smaller(a, k) <= a /\ Smaller(a, k) <= k
    BY SmallerOf
  <1> QED BY <1>1, <1>2, <1>3, <1>4, <1>5

\* Three divisions that round down: the bonus, the price and the exchange rate.
LEMMA SeizureArithmetic ==
  ASSUME NEW amount \in Nat, NEW rp \in Nat, NEW bonus \in Nat,
         NEW wp \in Nat \ {0}, NEW M \in Nat, NEW T \in Nat \ {0},
         NEW value, value = MulDiv(amount * rp, bonus, BPS_SCALER),
         NEW s, s = MulDiv(value \div wp, M, T)
  PROVE  /\ s \in Nat
         /\ s * T * wp * BPS_SCALER <= amount * rp * bonus * M
  <1>1. BPS_SCALER \in Nat \ {0}
    BY Widths
  <1>2. PICK x \in Nat : x = amount * rp
    OBVIOUS
  <1>3. value \in Nat /\ value * BPS_SCALER <= x * bonus
    BY <1>1, <1>2, MulDivBound
  <1>4. PICK u \in Nat : u = value \div wp /\ u * wp <= value
    BY <1>3
  <1>5. s \in Nat /\ s * T <= u * M
    BY <1>4, MulDivBound
  <1>6. (s * T) * wp <= value * M
    <2>1. (s * T) * wp <= (u * M) * wp
      BY <1>5
    <2>2. (u * M) * wp = (u * wp) * M
      OBVIOUS
    <2>3. (u * wp) * M <= value * M
      BY <1>3, <1>4
    <2> QED BY <1>3, <1>5, <2>1, <2>2, <2>3
  <1>7. ((s * T) * wp) * BPS_SCALER <= (x * bonus) * M
    <2>1. PICK a \in Nat, b \in Nat : a = (s * T) * wp /\ b = value * M
      BY <1>3, <1>5
    <2>2. a * BPS_SCALER <= b * BPS_SCALER
      BY <1>1, <1>6, <2>1
    <2>3. b * BPS_SCALER = (value * BPS_SCALER) * M
      BY <1>1, <1>3, <2>1
    <2>4. (value * BPS_SCALER) * M <= (x * bonus) * M
      BY <1>1, <1>3
    <2> QED BY <1>1, <1>3, <2>1, <2>2, <2>3, <2>4
  <1> QED BY <1>2, <1>5, <1>7

(***************************************************************************)
(* Repaying all of a debt, leaving without one, and being liquidated.      *)
(***************************************************************************)
\* A debt with its interest is at least one token and at least what it was.
LEMMA DueFacts ==
  ASSUME NEW o, NEW rs, Sound(o, rs), NEW r \in Reserves, CanFind(o.borrows, r),
         NEW rate, IndexWithin(rs, r, rate), CanObligationAccrue(o, r, rate)
  PROVE  /\ Due(o, r, rate) \in U128 /\ Due(o, r, rate) >= RATE_SCALE
         /\ Due(o, r, rate) >= DebtIn(o, r)
  <1>1. /\ o.borrows[find(o.borrows, r)] \in LiquidityType
        /\ DebtOK(o.borrows[find(o.borrows, r)], rs)
        /\ DebtIn(o, r) = o.borrows[find(o.borrows, r)].borrowed_amount_sf
    BY FoundBorrow
  <1>2. PICK b : b = o.borrows[find(o.borrows, r)]
    OBVIOUS
  <1>3. b \in LiquidityType /\ CanAccrueDebt(b, rate) /\ rate \in U128
        /\ b.borrowed_amount_sf >= RATE_SCALE
        /\ b.cumulative_borrow_rate_sf \in Nat \ {0}
    <2>1. b.cumulative_borrow_rate_sf \in Nat \ {0}
      BY <1>1, <1>2, LiquidityFields, ScaleAssumption DEF DebtOK
    <2> QED BY <1>1, <1>2, <2>1 DEF CanObligationAccrue, IndexWithin, DebtOK
  <1>4. /\ AccruedDebt(b, rate) \in LiquidityType
        /\ AccruedDebt(b, rate).borrowed_amount_sf >= b.borrowed_amount_sf
    BY <1>3, DebtAccruedFacts
  <1>5. PICK x \in Nat, y \in Nat : x = b.borrowed_amount_sf /\ y = Due(o, r, rate)
                                   /\ y \in U128 /\ y >= x
    BY <1>2, <1>3, <1>4, Widths DEF Due, LiquidityType
  <1>6. y >= RATE_SCALE
    BY <1>3, <1>5, ScaleAssumption
  <1> QED BY <1>1, <1>2, <1>5, <1>6

\* A repayment of all whole tokens is accepted and closes the slot.
LEMMA WholeRepayable ==
  ASSUME NEW o, NEW rs, Sound(o, rs), NEW r \in Reserves, CanFind(o.borrows, r), NEW res,
         IndexWithin(rs, r, res.cumulative_borrow_rate_sf),
         CanObligationAccrue(o, r, res.cumulative_borrow_rate_sf)
  PROVE  /\ CanRepayDebt(o, r, RawDebt(o, r, res), res)
         /\ ~CanFind(repay_debt(o, r, RawDebt(o, r, res), res).borrows, r)
  <1>1. PICK rate : rate = res.cumulative_borrow_rate_sf
    OBVIOUS
  <1>2. IndexWithin(rs, r, rate) /\ CanObligationAccrue(o, r, rate)
    BY <1>1
  <1>3. PICK due \in Nat : /\ due = Due(o, r, rate)
                           /\ due >= RATE_SCALE /\ due <= MAX_U128
    BY <1>2, DueFacts, WidthAssumption DEF U128
  <1>4. PICK w \in Nat : w = due \div RATE_SCALE /\ w > 0 /\ w * RATE_SCALE <= due
                         /\ due - w * RATE_SCALE < RATE_SCALE
    BY <1>3, ScaleAssumption
  <1>5. w = RawDebt(o, r, res)
    BY <1>1, <1>3, <1>4 DEF RawDebt, Due
  <1>6. PICK k : k = obligation_accrue(o, r, rate)
    OBVIOUS
  <1>7. /\ Sound(k, rs) /\ CanFind(k.borrows, r)
        /\ k.borrows[find(k.borrows, r)].borrowed_amount_sf = due
    BY <1>2, <1>3, <1>6, Accrued DEF Due
  <1>8. CanObligationRepay(k, r, w)
    <2>1. PICK z \in Nat : z = w * RATE_SCALE
      BY ScaleAssumption
    <2>2. z <= MAX_U128 /\ z <= due
      BY <1>3, <1>4, <2>1, WidthAssumption
    <2> QED BY <1>4, <1>7, <2>1, <2>2 DEF CanObligationRepay, CanMul
  <1>9. CanRepayDebt(o, r, w, res)
    BY <1>1, <1>2, <1>6, <1>8 DEF CanRepayDebt
  <1>10. ~CanFind(repay_debt(o, r, w, res).borrows, r)
    BY <1>1, <1>2, <1>3, <1>4, <1>9, RepaidDebt
  <1> QED BY <1>5, <1>9, <1>10

\* No slots are worth nothing.
LEMMA NoValue ==
  ASSUME NEW slots
  PROVE  ValueOf(slots, {}) = 0
  <1> DEFINE Sums(g) == g = [s \in SUBSET {} |->
                IF s = {} THEN 0 ELSE slots[Some(s)].market_value_sf + g[s \ {Some(s)}]]
             zero == [s \in SUBSET {} |-> 0]
  <1>1. ValueOf(slots, {}) = (CHOOSE g : Sums(g))[{}]
    BY DEF ValueOf, MapThenSumSet, MapThenFoldSet, Some
  <1>2. Sums(zero)
    OBVIOUS
  <1>3. Sums(CHOOSE g : Sums(g))
    <2> HIDE DEF Sums
    <2> QED BY <1>2
  <1>4. ASSUME NEW g, Sums(g) PROVE g[{}] = 0
    BY <1>4
  <1> HIDE DEF Sums
  <1> QED BY <1>1, <1>3, <1>4

\* Where nothing is owed the health check lets any deposit go.
LEMMA DebtFreeRelease ==
  ASSUME NEW o, NEW rs, Sound(o, rs), Active(o.borrows) = {}, NEW s, ~is_slot_stale(o, s),
         NEW i \in Active(o.deposits), o.deposits[i].reserve \in Reserves
  PROVE  CanReleaseCollateral(o, o.deposits[i].reserve, o.deposits[i].deposited_amount, s)
  <1>1. PICK r \in Reserves, a \in Nat :
          r = o.deposits[i].reserve /\ a = o.deposits[i].deposited_amount /\ a > 0
    <2>1. i \in DepositSlots /\ o.deposits[i].reserve # NoReserve
      BY SoundParts DEF Active
    <2>2. o.deposits[i] \in CollateralType /\ o.deposits[i].deposited_amount > 0
      BY <2>1, SoundParts DEF DepositsOK
    <2> QED BY <2>2, Widths DEF CollateralType
  <1>2. i \in DepositSlots /\ find(o.deposits, r) = i /\ CanFind(o.deposits, r)
    BY <1>1, SoundParts, FindTheOne DEF Active
  <1>3. CanWithdraw(o, r, a)
    BY <1>1, <1>2 DEF CanWithdraw
  <1>4. PICK m \in Nat : m = o.deposits[i].market_value_sf
    BY <1>2, SoundParts, Widths DEF CollateralType
  <1>5. CanMul(m, a - a)
    <2>1. m * (a - a) = 0
      OBVIOUS
    <2> QED BY <2>1, WidthAssumption DEF CanMul
  <1>6. PICK p : p = release_collateral(o, r, a)
    OBVIOUS
  <1>7. Sound(p, rs) /\ SameDebts(o, p)
    BY <1>3, <1>6, Released
  <1>8. InPrefix(p.borrows, p.borrows_count) = {}
    BY <1>7 DEF InPrefix, SameDebts
  <1>9. is_healthy(p)
    BY <1>8, NoValue DEF is_healthy, BorrowFree, PrefixBorrows
  <1> QED BY <1>1, <1>2, <1>3, <1>4, <1>5, <1>6, <1>9 DEF CanReleaseCollateral

\* p is o with `amount` tokens of the debt in rr repaid, at most half of what is
\* due, and `seized` cTokens of wr gone.
Seizure(o, p, rr, wr, amount, seized, due) ==
  /\ amount \in Nat \ {0} /\ seized \in Nat \ {0} /\ due \in Nat
  /\ 2 * (amount * RATE_SCALE) <= due
  /\ DebtIn(p, rr) = due - amount * RATE_SCALE
  /\ CollateralIn(o, wr) \in Nat
  /\ CollateralIn(p, wr) = CollateralIn(o, wr) - seized
  /\ \A q \in Reserves : q # rr => DebtIn(p, q) = DebtIn(o, q)
  /\ \A q \in Reserves : q # wr => CollateralIn(p, q) = CollateralIn(o, q)

\* What a liquidation seizes is there, and is worth at most the repayment and its
\* bonus, at the exchange rate the reserve has.
LEMMA SeizedBound ==
  ASSUME NEW o, NEW wr, NEW amount \in Nat, NEW rres \in ReserveType, NEW wres \in ReserveType,
         wres.market_price_sf > 0, CanTotalSupply(wres),
         o.deposits[find(o.deposits, wr)].deposited_amount \in Nat
  PROVE  /\ Seized(o, wr, amount, rres, wres) \in Nat
         /\ Seized(o, wr, amount, rres, wres)
              <= o.deposits[find(o.deposits, wr)].deposited_amount
         /\ Seized(o, wr, amount, rres, wres) * RateLiquidity(wres) * wres.market_price_sf
                * BPS_SCALER
              <= amount * rres.market_price_sf * (BPS_SCALER + wres.config.liquidation_bonus_pct)
                   * RateSupply(wres)
  <1>1. PICK rp \in Nat, wp \in Nat \ {0}, M \in Nat, T \in Nat \ {0}, e \in Nat, d \in Nat :
          /\ rp = rres.market_price_sf /\ wp = wres.market_price_sf
          /\ M = RateSupply(wres) /\ T = RateLiquidity(wres)
          /\ e = wres.config.liquidation_bonus_pct
          /\ d = o.deposits[find(o.deposits, wr)].deposited_amount
    <2>1. rres.market_price_sf \in Nat /\ wres.market_price_sf \in Nat \ {0}
      <3>1. rres.market_price_sf \in Nat /\ wres.market_price_sf \in Nat
        BY Widths DEF ReserveType
      <3> QED BY <3>1
    <2>2. wres.mint_total_supply \in Nat
      BY ReserveFields
    <2>3. TotalSupplyOrZero(wres) \in Nat
      BY TotalSupplyType
    <2>5. RateSupply(wres) \in Nat /\ RateLiquidity(wres) \in Nat \ {0}
      BY <2>2, <2>3 DEF RateSupply, RateLiquidity, AtPar
    <2>4. wres.config.liquidation_bonus_pct \in Nat
      BY Widths DEF ReserveType, ConfigType
    <2> QED BY <2>1, <2>4, <2>5
  <1>2. PICK bonus \in Nat : bonus = BPS_SCALER + e
    BY Widths
  <1>3. PICK value \in Nat : value = MulDiv(amount * rp, bonus, BPS_SCALER)
    <2>1. amount * rp \in Nat
      OBVIOUS
    <2> QED BY <2>1, MulDivBound, Widths
  <1>4. value = BonusValue(amount, rres, wres)
    BY <1>1, <1>2, <1>3 DEF BonusValue
  <1>5. PICK u \in Nat : u = value \div wp
    OBVIOUS
  <1>6. SeizedFor(value, wres) = MulDiv(u, M, T)
    <2>1. TotalSupplyOrZero(wres) = total_supply(wres)
      BY DEF TotalSupplyOrZero
    <2>2. CASE AtPar(wres)
      <3>1. M = 1 /\ T = 1 /\ SeizedFor(value, wres) = u
        BY <1>1, <1>5, <2>1, <2>2 DEF SeizedFor, AtPar, RateSupply, RateLiquidity
      <3>2. MulDiv(u, 1, 1) = u
        BY DEF MulDiv
      <3> QED BY <3>1, <3>2
    <2>3. CASE ~AtPar(wres)
      BY <1>1, <1>5, <2>1, <2>3 DEF SeizedFor, AtPar, RateSupply, RateLiquidity
    <2> QED BY <2>2, <2>3
  <1>7. PICK s \in Nat : s = SeizedFor(value, wres) /\ s = MulDiv(u, M, T)
    BY <1>6, MulDivBound
  <1>8. PICK k \in Nat : k = Smaller(s, d) /\ k <= s /\ k <= d
    BY SmallerOf
  <1>9. PICK n \in Nat : n = AsU64(k) /\ n <= k
    BY AsU64Bound, Widths
  <1>10. n = Seized(o, wr, amount, rres, wres)
    BY <1>1, <1>4, <1>7, <1>8, <1>9 DEF Seized
  <1>11. n * T * wp * BPS_SCALER <= amount * rp * bonus * M
    <2>3. s * T * wp * BPS_SCALER <= amount * rp * bonus * M
      BY <1>3, <1>5, <1>7, SeizureArithmetic
    <2>4. n * T * wp * BPS_SCALER <= s * T * wp * BPS_SCALER
      <3>1. PICK y \in Nat : y = T * wp * BPS_SCALER
        BY Widths
      <3>2. n * y <= s * y
        BY <1>8, <1>9
      <3>3. n * T * wp * BPS_SCALER = n * y /\ s * T * wp * BPS_SCALER = s * y
        BY <3>1, Widths
      <3> QED BY <3>2, <3>3
    <2>5. PICK a1 \in Nat, a2 \in Nat, a3 \in Nat :
            /\ a1 = n * T * wp * BPS_SCALER /\ a2 = s * T * wp * BPS_SCALER
            /\ a3 = amount * rp * bonus * M
      BY Widths
    <2> QED BY <2>3, <2>4, <2>5
  <1>12. n <= d
    BY <1>8, <1>9
  <1> QED BY <1>1, <1>2, <1>10, <1>11, <1>12

\* A liquidation keeps the account sound and is one seizure.
LEMMA Liquidated ==
  ASSUME NEW o, NEW rs, Sound(o, rs), NEW rr \in Reserves, NEW wr \in Reserves, NEW a \in Nat,
         NEW rres \in ReserveType, NEW wres \in ReserveType, NEW s,
         IndexWithin(rs, rr, rres.cumulative_borrow_rate_sf),
         CanSeize(o, rr, wr, a, rres, wres, s),
         NEW amount, amount = ActualRepay(o, rr, rres, a),
         NEW seized, seized = Seized(o, wr, amount, rres, wres),
         NEW p, p = liquidated(o, rr, wr, amount, seized, rres)
  PROVE  /\ Sound(p, rs) /\ p.slot = o.slot /\ p.borrows_count <= o.borrows_count
         /\ StaysValued(o, p)
         /\ amount <= a
         /\ Seizure(o, p, rr, wr, amount, seized, Due(o, rr, rres.cumulative_borrow_rate_sf))
  <1>1. PICK rate : rate = rres.cumulative_borrow_rate_sf
    OBVIOUS
  <1>2. /\ IndexWithin(rs, rr, rate) /\ CanFind(o.borrows, rr) /\ CanObligationAccrue(o, rr, rate)
        /\ CanFind(o.deposits, wr) /\ amount > 0 /\ seized > 0
        /\ CanRepayDebt(o, rr, amount, rres) /\ wres.market_price_sf > 0 /\ CanTotalSupply(wres)
    BY <1>1 DEF CanSeize
  <1>3. PICK due \in Nat : due = Due(o, rr, rate)
    BY <1>2, DueFacts, Widths
  <1>4. RawDebt(o, rr, rres) = due \div RATE_SCALE
    BY <1>1, <1>3 DEF RawDebt, Due
  <1>5. PICK raw \in Nat : raw = RawDebt(o, rr, rres) /\ raw * RATE_SCALE <= due
    BY <1>4, ScaleAssumption
  <1>6. /\ amount \in Nat \ {0} /\ amount <= a /\ 2 * amount <= raw
    BY <1>2, <1>5, ActualRepayBound
  <1>7. PICK w \in Nat : w = amount * RATE_SCALE
    BY <1>6, ScaleAssumption
  <1>8. 2 * w <= due /\ w >= RATE_SCALE
    <2>1. (2 * amount) * RATE_SCALE <= raw * RATE_SCALE
      BY <1>6, ScaleAssumption
    <2>2. (2 * amount) * RATE_SCALE = 2 * w
      BY <1>6, <1>7, ScaleAssumption
    <2>3. w >= RATE_SCALE
      BY <1>6, <1>7, ScaleAssumption
    <2>4. PICK t \in Nat : t = raw * RATE_SCALE
      BY ScaleAssumption
    <2> QED BY <1>5, <2>1, <2>2, <2>3, <2>4
  <1>9. PICK k : k = repay_debt(o, rr, amount, rres)
    OBVIOUS
  <1>10. /\ Sound(k, rs) /\ SameCollateral(o, k) /\ k.slot = o.slot
         /\ k.borrows_count <= o.borrows_count
         /\ StaysValued(o, k)
         /\ DebtIn(k, rr) = IF due - w < RATE_SCALE THEN 0 ELSE due - w
         /\ \A q \in Reserves : q # rr => DebtIn(k, q) = DebtIn(o, q)
    BY <1>1, <1>2, <1>3, <1>6, <1>7, <1>9, RepaidDebt
  <1>11. DebtIn(k, rr) = due - w
    BY <1>8, <1>10, ScaleAssumption
  <1>12. /\ o.deposits[find(o.deposits, wr)].deposited_amount \in Nat \ {0}
         /\ CollateralIn(o, wr) = o.deposits[find(o.deposits, wr)].deposited_amount
    BY <1>2, FoundDeposit
  <1>13. seized \in Nat \ {0} /\ seized <= o.deposits[find(o.deposits, wr)].deposited_amount
    <2>1. o.deposits[find(o.deposits, wr)].deposited_amount \in Nat
      BY <1>12
    <2>2. amount \in Nat
      BY <1>6
    <2>3. /\ Seized(o, wr, amount, rres, wres) \in Nat
          /\ Seized(o, wr, amount, rres, wres)
               <= o.deposits[find(o.deposits, wr)].deposited_amount
      BY <1>2, <2>1, <2>2, SeizedBound
    <2> QED BY <1>2, <2>3
  <1>14. CanWithdraw(k, wr, seized)
    BY <1>2, <1>10, <1>13 DEF CanWithdraw, SameCollateral
  <1>15. p = withdraw(k, wr, seized)
    BY <1>9 DEF liquidated
  <1>16. /\ Sound(p, rs) /\ SameDebts(k, p) /\ p.slot = k.slot
         /\ CollateralIn(p, wr) = CollateralIn(k, wr) - seized
         /\ \A q \in Reserves : q # wr => CollateralIn(p, q) = CollateralIn(k, q)
    <2>1. Sound(k, rs) /\ seized \in Nat
      BY <1>10, <1>13
    <2> QED BY ONLY <2>1, wr \in Reserves, <1>14, <1>15, Withdrawn
  <1>17. \A q : CollateralIn(k, q) = CollateralIn(o, q) /\ DebtIn(p, q) = DebtIn(k, q)
    BY <1>10, <1>16 DEF CollateralIn, DebtIn, SameCollateral, SameDebts
  <1>18. StaysValued(o, p) /\ p.borrows_count <= o.borrows_count
    BY <1>10, <1>16 DEF StaysValued, SameDebts
  <1>19. Seizure(o, p, rr, wr, amount, seized, due)
    BY <1>6, <1>7, <1>8, <1>10, <1>11, <1>12, <1>13, <1>16, <1>17 DEF Seizure
  <1> QED BY <1>1, <1>3, <1>6, <1>10, <1>16, <1>18, <1>19
=================================================================================
