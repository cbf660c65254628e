------------------------- MODULE PromptPatchProofs -------------------------
(***************************************************************************)
(* Proofs about the prompt of a model call (ContextAssembly), for every    *)
(* transcript, summary, recalled notes and budgets, and about the patches  *)
(* of the tool apply_patch (ApplyPatch), for every set of files and lines. *)
(*                                                                         *)
(* Of a prompt: sizes add up, over sets of entries without a common one.   *)
(* The groups of a transcript are such sets.  So what _fit returns is      *)
(* whole groups of the size it counted, and a group it leaves out is above *)
(* its ceiling, or all groups together are above the budget.               *)
(*                                                                         *)
(* A function that is defined by recursion over 0..n exists (Recursion),   *)
(* and what holds of its value at 0 and is handed on holds of its value    *)
(* at n (Induct).  Both come of the least number of a set of numbers.      *)
(***************************************************************************)
EXTENDS ContextAssembly, ApplyPatch, SequenceTheorems, WellFoundedInduction, TLAPS

\* A nonempty set of numbers has a least one.
LEMMA Least ==
  ASSUME NEW S \in SUBSET Nat, S # {}
  PROVE  \E m \in S : \A n \in S : m <= n
<1>. DEFINE R == OpToRel(<, Nat)
<1>1. IsWellFoundedOn(R, Nat)
  BY NatLessThanWellFounded
<1>2. PICK m \in S : \A n \in S : <<n, m>> \notin R
  <2>. HIDE DEF R
  <2>. QED  BY <1>1, WFMin
<1>3. \A n \in S : ~(n < m)
  BY <1>2 DEF OpToRel
<1>. QED  BY <1>3

\* A set with 0 that has with every number the next one.
LEMMA Induct ==
  ASSUME NEW N \in Nat, NEW S, 0 \in S, \A n \in 1..N : n - 1 \in S => n \in S
  PROVE  N \in S /\ \A n \in 0..N : n \in S
<1>. DEFINE bad == {n \in 0..N : n \notin S}
<1>. SUFFICES ASSUME bad # {} PROVE FALSE
  <2>1. N \in 0..N
    OBVIOUS
  <2>. QED  BY <2>1
<1>1. PICK m \in bad : \A n \in bad : m <= n
  <2>1. bad \in SUBSET Nat
    OBVIOUS
  <2>. HIDE DEF bad
  <2>. QED  BY <2>1, Least
<1>2. m \in 1..N /\ m - 1 \in 0..N /\ ~(m <= m - 1)
  BY <1>1
<1>. QED  BY <1>1, <1>2

\* A function that is given by its value at 0 and by what each step makes of a value.
Given(f, N, base, step) == f[0] = base /\ \A n \in 1..N : f[n] = step[n][f[n - 1]]

LEMMA Recursion ==
  ASSUME NEW N \in Nat, NEW D, NEW base \in D, NEW step \in [1..N -> [D -> D]]
  PROVE  \E f \in [0..N -> D] : Given(f, N, base, step)
<1>. DEFINE Is(f, m) == Given(f, m, base, step)
            S == {m \in 0..N : \E f \in [0..m -> D] : Is(f, m)}
<1>1. 0 \in S
  <2>1. [n \in 0..0 |-> base] \in [0..0 -> D] /\ Is([n \in 0..0 |-> base], 0)
    BY DEF Given
  <2>2. \E f \in [0..0 -> D] : Is(f, 0)
    <3>. HIDE DEF Is
    <3>. QED  BY <2>1
  <2>. QED  BY <2>2
<1>2. ASSUME NEW m \in 1..N, m - 1 \in S PROVE m \in S
  <2>1. PICK f \in [0..(m - 1) -> D] : Is(f, m - 1)
    BY <1>2
  <2>. DEFINE g == [n \in 0..m |-> IF n < m THEN f[n] ELSE step[m][f[m - 1]]]
  <2>2. g \in [0..m -> D]
    <3>1. \A n \in 0..m : n < m => n \in 0..(m - 1)
      OBVIOUS
    <3>2. m - 1 \in 0..(m - 1)
      OBVIOUS
    <3>. QED  BY <2>1, <3>1, <3>2
  <2>3. g[0] = base
    BY <2>1 DEF Given
  <2>4. ASSUME NEW n \in 1..m PROVE g[n] = step[n][g[n - 1]]
    <3>1. n - 1 \in 0..m /\ n - 1 < m
      OBVIOUS
    <3>2. g[n - 1] = f[n - 1]
      BY <3>1
    <3>3. CASE n = m
      BY <3>2, <3>3
    <3>4. CASE n # m
      <4>1. n \in 1..(m - 1) /\ n \in 0..m /\ n < m
        BY <3>4
      <4>2. g[n] = f[n] /\ f[n] = step[n][f[n - 1]]
        BY <2>1, <4>1 DEF Given
      <4>. QED  BY <3>2, <4>2
    <3>. QED  BY <3>3, <3>4
  <2>. HIDE DEF g
  <2>5. \E x \in [0..m -> D] : Is(x, m)
    BY <2>2, <2>3, <2>4 DEF Given
  <2>. QED  BY <2>5
<1>3. N \in S
  <2>. HIDE DEF S
  <2>. QED  BY <1>1, <1>2, Induct
<1>. QED  BY <1>3

\* The greatest of finitely many numbers.
LEMMA Greatest ==
  ASSUME NEW N \in Nat, NEW S \in SUBSET (0..N), S # {}
  PROVE  Max(S) \in S /\ \A n \in S : n <= Max(S)
<1>. DEFINE rest == {N - n : n \in S}
<1>1. PICK r \in rest : \A x \in rest : r <= x
  <2>1. rest # {}
    OBVIOUS
  <2>2. \A n \in S : N - n \in Nat
    OBVIOUS
  <2>3. rest \in SUBSET Nat
    BY <2>2
  <2>. HIDE DEF rest
  <2>. QED  BY <2>1, <2>3, Least
<1>2. PICK m \in S : r = N - m
  OBVIOUS
<1>3. \A n \in S : m >= n
  <2>1. \A n \in S : N - m <= N - n
    BY <1>1, <1>2
  <2>. QED  BY <2>1
<1>4. \E x \in S : \A n \in S : x >= n
  BY <1>3
<1>5. Max(S) \in S /\ \A n \in S : Max(S) >= n
  BY <1>4 DEF Max
<1>. QED  BY <1>5

-----------------------------------------------------------------------------
(***************************************************************************)
(* Sizes add up.                                                           *)
(***************************************************************************)
\* f has the sizes of the entries among the first n.
SumsOf(f, entries, chosen) ==
  /\ f \in [0..Len(entries) -> Nat]
  /\ f[0] = 0
  /\ \A n \in 1..Len(entries) : f[n] = f[n - 1] + (IF n \in chosen THEN entries[n].size ELSE 0)

LEMMA PartialSums ==
  ASSUME NEW entries, Sized(entries), NEW chosen
  PROVE  \E f : SumsOf(f, entries, chosen) /\ SizeOf(entries, chosen) = f[Len(entries)]
<1>. DEFINE N == Len(entries)
            Is(x) == x = [n \in 0..N |-> IF n = 0 THEN 0
                                         ELSE x[n - 1] + (IF n \in chosen THEN entries[n].size ELSE 0)]
            size == CHOOSE x : Is(x)
            part == [n \in 1..N |-> IF n \in chosen THEN entries[n].size ELSE 0]
            step == [n \in 1..N |-> [x \in Nat |-> x + part[n]]]
<1>1. N \in Nat /\ part \in [1..N -> Nat]
  BY DEF Sized
<1>2. SizeOf(entries, chosen) = size[N]
  BY DEF SizeOf
<1>3. Is(size)
  <2>1. PICK f \in [0..N -> Nat] : f[0] = 0 /\ \A n \in 1..N : f[n] = step[n][f[n - 1]]
    <3>1. step \in [1..N -> [Nat -> Nat]]
      BY <1>1
    <3>2. N \in Nat /\ 0 \in Nat
      BY <1>1
    <3>3. \E f \in [0..N -> Nat] : Given(f, N, 0, step)
      <4>. HIDE DEF step, N
      <4>. QED  BY <3>1, <3>2, Recursion
    <3>. QED  BY <3>3 DEF Given
  <2>2. ASSUME NEW n \in 0..N
        PROVE  f[n] = IF n = 0 THEN 0 ELSE f[n - 1] + (IF n \in chosen THEN entries[n].size ELSE 0)
    <3>1. CASE n = 0
      BY <2>1, <3>1
    <3>2. CASE n # 0
      <4>1. n \in 1..N /\ f[n - 1] \in Nat
        BY <1>1, <3>2
      <4>2. f[n] = f[n - 1] + part[n]
        BY <2>1, <4>1
      <4>. QED  BY <3>2, <4>1, <4>2
    <3>. QED  BY <3>1, <3>2
  <2>3. f = [n \in 0..N |-> f[n]]
    OBVIOUS
  <2>4. Is(f)
    <3>. HIDE DEF N
    <3>. QED  BY <2>2, <2>3
  <2>. HIDE DEF Is
  <2>. QED  BY <2>4
<1>4. /\ size[0] = 0
      /\ \A n \in 1..N : size[n] = size[n - 1] + part[n]
      /\ size = [n \in 0..N |-> size[n]]
  <2>. HIDE DEF size, N
  <2>1. \A n \in 0..N : size[n] = IF n = 0 THEN 0 ELSE size[n - 1] + (IF n \in chosen THEN entries[n].size ELSE 0)
    BY <1>3
  <2>2. size = [n \in 0..N |-> size[n]]
    BY <1>3
  <2>3. size[0] = 0
    BY <1>1, <2>1
  <2>4. ASSUME NEW n \in 1..N PROVE size[n] = size[n - 1] + part[n]
    BY <1>1, <2>1, <2>4
  <2>. QED  BY <2>2, <2>3, <2>4
<1>. HIDE DEF size, part
<1>5. size \in [0..N -> Nat]
  <2>. DEFINE S == {n \in 0..N : size[n] \in Nat}
  <2>1. 0 \in S
    BY <1>1, <1>4
  <2>2. ASSUME NEW n \in 1..N, n - 1 \in S PROVE n \in S
    <3>1. size[n - 1] \in Nat /\ part[n] \in Nat /\ n \in 0..N
      BY <1>1, <2>2
    <3>. QED  BY <1>4, <3>1
  <2>3. \A n \in 0..N : n \in S
    <3>. HIDE DEF S, N
    <3>. QED  BY <1>1, <2>1, <2>2, Induct
  <2>. QED  BY <1>4, <2>3
<1>6. SumsOf(size, entries, chosen)
  BY <1>4, <1>5 DEF SumsOf, part
<1>. QED  BY <1>2, <1>6

LEMMA SizeIsNat ==
  ASSUME NEW entries, Sized(entries), NEW chosen
  PROVE  SizeOf(entries, chosen) \in Nat
<1>1. PICK f : SumsOf(f, entries, chosen) /\ SizeOf(entries, chosen) = f[Len(entries)]
  BY PartialSums
<1>2. Len(entries) \in 0..Len(entries)
  BY DEF Sized
<1>. QED  BY <1>1, <1>2 DEF SumsOf

LEMMA SizeOfUnion ==
  ASSUME NEW entries, Sized(entries), NEW A, NEW B, A \cap B = {}
  PROVE  SizeOf(entries, A \cup B) = SizeOf(entries, A) + SizeOf(entries, B)
<1>. DEFINE N == Len(entries)
<1>1. PICK f : SumsOf(f, entries, A) /\ SizeOf(entries, A) = f[N]
  BY PartialSums
<1>2. PICK g : SumsOf(g, entries, B) /\ SizeOf(entries, B) = g[N]
  BY PartialSums
<1>3. PICK h : SumsOf(h, entries, A \cup B) /\ SizeOf(entries, A \cup B) = h[N]
  BY PartialSums
<1>. DEFINE S == {n \in 0..N : h[n] = f[n] + g[n]}
<1>4. N \in Nat /\ \A n \in 1..N : entries[n].size \in Nat
  BY DEF Sized
<1>5. 0 \in S
  BY <1>1, <1>2, <1>3, <1>4 DEF SumsOf
<1>6. ASSUME NEW n \in 1..N, n - 1 \in S PROVE n \in S
  <2>1. /\ f[n - 1] \in Nat /\ g[n - 1] \in Nat /\ entries[n].size \in Nat
        /\ h[n - 1] = f[n - 1] + g[n - 1]
    BY <1>1, <1>2, <1>4, <1>6 DEF SumsOf
  <2>2. /\ f[n] = f[n - 1] + (IF n \in A THEN entries[n].size ELSE 0)
        /\ g[n] = g[n - 1] + (IF n \in B THEN entries[n].size ELSE 0)
        /\ h[n] = h[n - 1] + (IF n \in A \cup B THEN entries[n].size ELSE 0)
    BY <1>1, <1>2, <1>3 DEF SumsOf
  <2>3. ~(n \in A /\ n \in B)
    OBVIOUS
  <2>4. h[n] = f[n] + g[n]
    BY <2>1, <2>2, <2>3
  <2>. QED  BY <2>4
<1>7. N \in S
  <2>. HIDE DEF S, N
  <2>. QED  BY <1>4, <1>5, <1>6, Induct
<1>. QED  BY <1>1, <1>2, <1>3, <1>7

\* Entries beyond the chosen ones only add; what is no entry has no size.
LEMMA SizeGrows ==
  ASSUME NEW entries, Sized(entries), NEW A, NEW B, A \cap DOMAIN entries \subseteq B
  PROVE  SizeOf(entries, A) <= SizeOf(entries, B)
<1>. DEFINE N == Len(entries)
<1>1. PICK f : SumsOf(f, entries, A) /\ SizeOf(entries, A) = f[N]
  BY PartialSums
<1>2. PICK g : SumsOf(g, entries, B) /\ SizeOf(entries, B) = g[N]
  BY PartialSums
<1>. DEFINE S == {n \in 0..N : f[n] <= g[n]}
<1>3. N \in Nat /\ DOMAIN entries = 1..N /\ \A n \in 1..N : entries[n].size \in Nat
  BY DEF Sized
<1>4. 0 \in S
  BY <1>1, <1>2, <1>3 DEF SumsOf
<1>5. ASSUME NEW n \in 1..N, n - 1 \in S PROVE n \in S
  <2>1. /\ f[n - 1] \in Nat /\ g[n - 1] \in Nat /\ entries[n].size \in Nat
        /\ f[n - 1] <= g[n - 1]
    BY <1>1, <1>2, <1>3, <1>5 DEF SumsOf
  <2>2. /\ f[n] = f[n - 1] + (IF n \in A THEN entries[n].size ELSE 0)
        /\ g[n] = g[n - 1] + (IF n \in B THEN entries[n].size ELSE 0)
    BY <1>1, <1>2 DEF SumsOf
  <2>3. n \in A => n \in B
    BY <1>3
  <2>4. f[n] <= g[n]
    BY <2>1, <2>2, <2>3
  <2>. QED  BY <2>4
<1>6. N \in S
  <2>. HIDE DEF S, N
  <2>. QED  BY <1>3, <1>4, <1>5, Induct
<1>. QED  BY <1>1, <1>2, <1>6

LEMMA SizeOfOne ==
  ASSUME NEW entries, Sized(entries), NEW k \in DOMAIN entries
  PROVE  SizeOf(entries, {k}) = entries[k].size
<1>. DEFINE N == Len(entries)
<1>1. PICK f : SumsOf(f, entries, {k}) /\ SizeOf(entries, {k}) = f[N]
  BY PartialSums
<1>. DEFINE S == {n \in 0..N : f[n] = IF n < k THEN 0 ELSE entries[k].size}
<1>2. N \in Nat /\ k \in 1..N /\ entries[k].size \in Nat
  BY DEF Sized
<1>3. 0 \in S
  BY <1>1, <1>2 DEF SumsOf
<1>4. ASSUME NEW n \in 1..N, n - 1 \in S PROVE n \in S
  <2>1. f[n] = f[n - 1] + (IF n = k THEN entries[k].size ELSE 0)
    BY <1>1 DEF SumsOf
  <2>2. f[n - 1] = IF n - 1 < k THEN 0 ELSE entries[k].size
    BY <1>4
  <2>3. f[n] = IF n < k THEN 0 ELSE entries[k].size
    BY <1>2, <2>1, <2>2
  <2>. QED  BY <2>3
<1>5. N \in S
  <2>. HIDE DEF S, N
  <2>. QED  BY <1>2, <1>3, <1>4, Induct
<1>. QED  BY <1>1, <1>2, <1>5

LEMMA SizeOfNone ==
  ASSUME NEW entries, Sized(entries)
  PROVE  SizeOf(entries, {}) = 0
<1>1. SizeOf(entries, {} \cup {}) = SizeOf(entries, {}) + SizeOf(entries, {})
  BY SizeOfUnion
<1>2. {} \cup {} = {}
  OBVIOUS
<1>. QED  BY <1>1, <1>2, SizeIsNat

-----------------------------------------------------------------------------
(***************************************************************************)
(* Groups: each is its head and results that directly follow it, and no    *)
(* message is in two.                                                      *)
(***************************************************************************)
LEMMA GroupShape ==
  ASSUME NEW q, Sized(q.items), Paired(q.items), NEW i \in Heads(q)
  PROVE  /\ i \in GroupAt(q, i) /\ GroupAt(q, i) \subseteq Items(q)
         /\ \A j \in GroupAt(q, i) \ {i} :
              /\ i < j /\ j \notin Heads(q)
              /\ q.items[j].result \in q.items[i].calls /\ q.items[j].result # NoResult
<1>1. i \in Items(q) /\ Items(q) = DOMAIN q.items
  BY DEF Heads, AllowedItems, Items
<1>2. i \in GroupAt(q, i) /\ GroupAt(q, i) \subseteq Items(q)
  BY <1>1 DEF GroupAt, AllowedItems
<1>3. NoResult \notin q.items[i].calls
  BY <1>1 DEF Paired
<1>. SUFFICES ASSUME NEW j \in GroupAt(q, i) \ {i}
              PROVE  /\ i < j /\ j \notin Heads(q)
                     /\ q.items[j].result \in q.items[i].calls /\ q.items[j].result # NoResult
  BY <1>2
<1>4. i < j /\ q.items[j].result \in q.items[i].calls
  BY DEF GroupAt
<1>5. q.items[j].result # NoResult /\ j \notin Heads(q)
  BY <1>3, <1>4 DEF Heads, IsHead
<1>. QED  BY <1>4, <1>5

LEMMA LaterGroupApart ==
  ASSUME NEW q, Sized(q.items), Paired(q.items), NEW i \in Heads(q), NEW k \in Heads(q), i < k
  PROVE  GroupAt(q, i) \cap GroupAt(q, k) = {}
<1>. SUFFICES ASSUME NEW j \in GroupAt(q, i), j \in GroupAt(q, k) PROVE FALSE
  OBVIOUS
<1>1. i \in Nat /\ k \in Nat /\ j \in Nat
  <2>1. i \in Items(q) /\ k \in Items(q)
    BY DEF Heads, AllowedItems
  <2>2. j \in Items(q)
    BY GroupShape
  <2>. QED  BY <2>1, <2>2 DEF Sized, Items
<1>2. k <= j
  BY <1>1, GroupShape
<1>3. j # i /\ j # k
  <2>1. j # i
    BY <1>1, <1>2
  <2>. QED  BY <2>1, GroupShape
<1>4. k \in {h \in AllowedItems(q) : i < h /\ h < j}
  BY <1>1, <1>2, <1>3 DEF Heads
<1>5. q.items[k].result \in q.items[i].calls
  BY <1>3, <1>4 DEF GroupAt
<1>6. NoResult \notin q.items[i].calls
  BY DEF Paired, Heads, AllowedItems, Items
<1>. QED  BY <1>5, <1>6 DEF Heads, IsHead

LEMMA GroupsApart ==
  ASSUME NEW q, Sized(q.items), Paired(q.items), NEW i \in Heads(q), NEW k \in Heads(q), i # k
  PROVE  GroupAt(q, i) \cap GroupAt(q, k) = {}
<1>1. i \in Nat /\ k \in Nat
  BY DEF Sized, Items, Heads, AllowedItems
<1>2. CASE i < k
  BY <1>2, LaterGroupApart
<1>3. CASE k < i
  BY <1>3, LaterGroupApart
<1>. QED  BY <1>1, <1>2, <1>3

\* The messages of some groups.
Members(q, heads) == UNION {GroupAt(q, i) : i \in heads}

LEMMA MembersApart ==
  ASSUME NEW q, Sized(q.items), Paired(q.items),
         NEW A \in SUBSET Heads(q), NEW B \in SUBSET Heads(q), A \cap B = {}
  PROVE  Members(q, A) \cap Members(q, B) = {}
<1>. SUFFICES ASSUME NEW i \in A, NEW k \in B PROVE GroupAt(q, i) \cap GroupAt(q, k) = {}
  BY DEF Members
<1>. QED  BY GroupsApart

-----------------------------------------------------------------------------
(***************************************************************************)
(* What _fit returns: whole groups, their size, within the budget; a group *)
(* it leaves out is above its own ceiling or the groups together are above *)
(* the budget.                                                             *)
(***************************************************************************)
Fitting(q, i) == SizeOf(q.items, GroupAt(q, i)) <= Ceiling(q, GroupAt(q, i))

\* taken is what came of the groups seen so far, among groups.
Fitted(q, groups, seen, budget, taken) ==
  /\ taken.items = Members(q, seen \cap taken.items)
  /\ taken.used = SizeOf(q.items, taken.items)
  /\ taken.used <= budget
  /\ \A i \in seen \ taken.items :
       Fitting(q, i) => SizeOf(q.items, Members(q, groups)) > budget

LEMMA TakeGroupFits ==
  ASSUME NEW q, Sized(q.items), Paired(q.items), NEW groups \in SUBSET Heads(q),
         NEW budget \in Int, NEW seen \in SUBSET groups, NEW i \in groups, i \notin seen,
         NEW taken, Fitted(q, groups, seen, budget, taken)
  PROVE  Fitted(q, groups, seen \cup {i}, budget, TakeGroup(q, budget, taken, i))
<1>. DEFINE group == GroupAt(q, i)
            size == SizeOf(q.items, group)
            next == TakeGroup(q, budget, taken, i)
            chosen == seen \cap taken.items
<1>1. taken.items = Members(q, chosen)
  BY DEF Fitted
<1>2. taken.items \cap group = {}
  <2>1. chosen \in SUBSET Heads(q) /\ {i} \in SUBSET Heads(q) /\ chosen \cap {i} = {}
    OBVIOUS
  <2>2. Members(q, {i}) = group
    BY DEF Members
  <2>. HIDE DEF chosen, group
  <2>. QED  BY <1>1, <2>1, <2>2, MembersApart
<1>3. i \in group /\ \A k \in group : k # i => k \notin Heads(q)
  BY GroupShape
<1>4. SizeOf(q.items, taken.items \cup group) = taken.used + size
  BY <1>2, SizeOfUnion DEF Fitted
<1>5. CASE size <= Ceiling(q, group) /\ taken.used + size <= budget
  <2>1. next = [used |-> taken.used + size, items |-> taken.items \cup group]
    BY <1>5 DEF TakeGroup
  <2>2. next.items = taken.items \cup group /\ next.used = taken.used + size
    BY <2>1
  <2>3. (seen \cup {i}) \cap next.items = chosen \cup {i}
    BY <1>3, <2>2
  <2>4. next.items = Members(q, chosen \cup {i})
    BY <1>1, <2>2 DEF Members
  <2>5. \A k \in (seen \cup {i}) \ next.items : k \in seen \ taken.items
    BY <1>3, <2>2
  <2>. HIDE DEF next, group, size, chosen
  <2>. QED  BY <1>4, <1>5, <2>2, <2>3, <2>4, <2>5 DEF Fitted, next
<1>6. CASE ~(size <= Ceiling(q, group) /\ taken.used + size <= budget)
  <2>1. next = taken
    BY <1>6 DEF TakeGroup
  <2>2. (seen \cup {i}) \cap taken.items = chosen
    BY <1>2, <1>3
  <2>3. Fitting(q, i) => SizeOf(q.items, Members(q, groups)) > budget
    <3>1. SUFFICES ASSUME Fitting(q, i) PROVE SizeOf(q.items, Members(q, groups)) > budget
      OBVIOUS
    <3>2. ~(taken.used + size <= budget)
      BY <1>6, <3>1 DEF Fitting
    <3>3. taken.items \cup group \subseteq Members(q, groups)
      BY <1>1 DEF Members
    <3>4. SizeOf(q.items, taken.items \cup group) <= SizeOf(q.items, Members(q, groups))
      BY <3>3, SizeGrows
    <3>5. /\ SizeOf(q.items, taken.items \cup group) \in Nat
          /\ SizeOf(q.items, Members(q, groups)) \in Nat
      BY SizeIsNat
    <3>. HIDE DEF size, group
    <3>. QED  BY <1>4, <3>2, <3>4, <3>5
  <2>. QED  BY <2>1, <2>2, <2>3 DEF Fitted
<1>. QED  BY <1>5, <1>6

\* The pass of _fit over the groups, after its n-th message.
FitPass(f, q, groups, budget, recentFirst) ==
  LET N == Len(q.items)
      head(n) == IF recentFirst THEN N + 1 - n ELSE n
  IN /\ f[0] = [used |-> 0, items |-> {}]
     /\ \A n \in 1..N : f[n] = IF head(n) \in groups THEN TakeGroup(q, budget, f[n - 1], head(n))
                               ELSE f[n - 1]

LEMMA FitPasses ==
  ASSUME NEW q, Sized(q.items), NEW groups, NEW budget, NEW recentFirst
  PROVE  \E f : FitPass(f, q, groups, budget, recentFirst)
                /\ Fit(q, groups, budget, recentFirst) = f[Len(q.items)]
<1>. DEFINE N == Len(q.items)
            head(n) == IF recentFirst THEN N + 1 - n ELSE n
            none == [used |-> 0, items |-> {}]
            Is(x) == x = [n \in 0..N |->
                            IF n = 0 THEN none
                            ELSE IF head(n) \in groups THEN TakeGroup(q, budget, x[n - 1], head(n))
                            ELSE x[n - 1]]
            taken == CHOOSE x : Is(x)
            All == [used : Nat, items : SUBSET UNION {{i} \cup AllowedItems(q) : i \in Int}]
            step == [n \in 1..N |-> [t \in All |->
                       IF head(n) \in groups THEN TakeGroup(q, budget, t, head(n)) ELSE t]]
<1>1. N \in Nat
  BY DEF Sized
<1>2. Fit(q, groups, budget, recentFirst) = taken[N]
  BY DEF Fit
<1>3. step \in [1..N -> [All -> All]]
  <2>1. ASSUME NEW n \in 1..N, NEW t \in All PROVE TakeGroup(q, budget, t, head(n)) \in All
    <3>1. SizeOf(q.items, GroupAt(q, head(n))) \in Nat
      BY SizeIsNat
    <3>2. head(n) \in Int
      BY <1>1
    <3>3. GroupAt(q, head(n)) \subseteq {head(n)} \cup AllowedItems(q)
      BY DEF GroupAt
    <3>. HIDE DEF head
    <3>. QED  BY <3>1, <3>2, <3>3 DEF TakeGroup
  <2>. HIDE DEF All, head
  <2>. QED  BY <2>1
<1>4. none \in All
  OBVIOUS
<1>5. Is(taken)
  <2>1. PICK f \in [0..N -> All] : Given(f, N, none, step)
    <3>. HIDE DEF step, N, All, none
    <3>. QED  BY <1>1, <1>3, <1>4, Recursion
  <2>2. ASSUME NEW n \in 0..N
        PROVE  f[n] = IF n = 0 THEN none
                      ELSE IF head(n) \in groups THEN TakeGroup(q, budget, f[n - 1], head(n))
                      ELSE f[n - 1]
    <3>1. CASE n = 0
      BY <2>1, <3>1 DEF Given
    <3>2. CASE n # 0
      <4>1. n \in 1..N /\ f[n - 1] \in All
        BY <1>1, <3>2
      <4>. HIDE DEF All, head, N
      <4>2. f[n] = step[n][f[n - 1]]
        BY <2>1, <4>1 DEF Given
      <4>. QED  BY <3>2, <4>1, <4>2
    <3>. QED  BY <3>1, <3>2
  <2>3. f = [n \in 0..N |-> f[n]]
    OBVIOUS
  <2>4. Is(f)
    <3>. HIDE DEF N, none, head
    <3>. QED  BY <2>2, <2>3
  <2>. HIDE DEF Is
  <2>. QED  BY <2>4
<1>6. FitPass(taken, q, groups, budget, recentFirst)
  <2>1. ASSUME NEW n \in 0..N
        PROVE  taken[n] = IF n = 0 THEN none
                          ELSE IF head(n) \in groups THEN TakeGroup(q, budget, taken[n - 1], head(n))
                          ELSE taken[n - 1]
    <3>. HIDE DEF taken, head, none, N
    <3>. QED  BY <1>5
  <2>2. taken[0] = none
    <3>. HIDE DEF taken, head, none, N
    <3>. QED  BY <1>1, <2>1
  <2>3. ASSUME NEW n \in 1..N
        PROVE  taken[n] = IF head(n) \in groups THEN TakeGroup(q, budget, taken[n - 1], head(n))
                          ELSE taken[n - 1]
    <3>. HIDE DEF taken, head, none, N
    <3>. QED  BY <1>1, <2>1, <2>3
  <2>. HIDE DEF taken
  <2>. QED  BY <2>2, <2>3 DEF FitPass
<1>. HIDE DEF taken
<1>. QED  BY <1>2, <1>6

LEMMA FitFits ==
  ASSUME NEW q, Sized(q.items), Paired(q.items), NEW groups \in SUBSET Heads(q),
         NEW budget \in Nat, NEW recentFirst \in BOOLEAN
  PROVE  Fitted(q, groups, groups, budget, Fit(q, groups, budget, recentFirst))
<1>. DEFINE N == Len(q.items)
            head(n) == IF recentFirst THEN N + 1 - n ELSE n
            seen(n) == {i \in groups : \E m \in 1..n : i = head(m)}
<1>1. N \in Nat /\ groups \subseteq 1..N
  BY DEF Sized, Heads, AllowedItems, Items
<1>2. PICK f : /\ FitPass(f, q, groups, budget, recentFirst)
               /\ Fit(q, groups, budget, recentFirst) = f[N]
  BY FitPasses
<1>. DEFINE S == {n \in 0..N : Fitted(q, groups, seen(n), budget, f[n])}
<1>3. 0 \in S
  <2>1. f[0].items = {} /\ f[0].used = 0
    BY <1>2 DEF FitPass
  <2>2. seen(0) = {}
    OBVIOUS
  <2>3. Members(q, {}) = {}
    BY DEF Members
  <2>4. SizeOf(q.items, {}) = 0
    BY SizeOfNone
  <2>. HIDE DEF seen
  <2>5. Fitted(q, groups, seen(0), budget, f[0])
    BY <2>1, <2>2, <2>3, <2>4 DEF Fitted
  <2>. QED  BY <1>1, <2>5
<1>4. ASSUME NEW n \in 1..N, n - 1 \in S PROVE n \in S
  <2>1. Fitted(q, groups, seen(n - 1), budget, f[n - 1])
    BY <1>4
  <2>2. f[n] = IF head(n) \in groups THEN TakeGroup(q, budget, f[n - 1], head(n)) ELSE f[n - 1]
    BY <1>2 DEF FitPass
  <2>3. 1..n = 1..(n - 1) \cup {n}
    OBVIOUS
  <2>4. CASE head(n) \in groups
    <3>1. seen(n) = seen(n - 1) \cup {head(n)}
      BY <2>3, <2>4
    <3>2. head(n) \notin seen(n - 1)
      BY <1>1
    <3>3. seen(n - 1) \in SUBSET groups
      OBVIOUS
    <3>4. Fitted(q, groups, seen(n - 1) \cup {head(n)}, budget, TakeGroup(q, budget, f[n - 1], head(n)))
      <4>. HIDE DEF seen, head
      <4>. QED  BY <2>1, <2>4, <3>2, <3>3, TakeGroupFits
    <3>. HIDE DEF seen, head
    <3>5. Fitted(q, groups, seen(n), budget, f[n])
      BY <2>2, <2>4, <3>1, <3>4
    <3>. QED  BY <1>1, <3>5
  <2>5. CASE head(n) \notin groups
    <3>1. seen(n) = seen(n - 1)
      BY <2>3, <2>5
    <3>. HIDE DEF seen, head
    <3>2. Fitted(q, groups, seen(n), budget, f[n])
      BY <2>1, <2>2, <2>5, <3>1
    <3>. QED  BY <1>1, <3>2
  <2>. QED  BY <2>4, <2>5
<1>5. N \in S
  <2>. HIDE DEF S, N
  <2>. QED  BY <1>1, <1>3, <1>4, Induct
<1>6. seen(N) = groups
  <2>1. ASSUME NEW i \in groups PROVE \E m \in 1..N : i = head(m)
    <3>1. CASE recentFirst
      <4>1. N + 1 - i \in 1..N /\ i = head(N + 1 - i)
        BY <1>1, <3>1
      <4>. QED  BY <4>1
    <3>2. CASE ~recentFirst
      <4>1. i \in 1..N /\ i = head(i)
        BY <1>1, <3>2
      <4>. QED  BY <4>1
    <3>. QED  BY <3>1, <3>2
  <2>. QED  BY <2>1
<1>. QED  BY <1>2, <1>5, <1>6

-----------------------------------------------------------------------------
(***************************************************************************)
(* The rest of the prompt.                                                 *)
(***************************************************************************)
\* Popping ends within the room, or with nothing left.
LEMMA PoppedFits ==
  ASSUME NEW entries, Sized(entries), NEW kept, NEW room \in Int
  PROVE  /\ SizeOf(entries, Popped(entries, kept, room)) <= room
              \/ SizeOf(entries, Popped(entries, kept, room)) = 0
         /\ SizeOf(entries, Popped(entries, kept, room)) <= SizeOf(entries, DOMAIN entries)
<1>. DEFINE S == {0} \cup {last \in DOMAIN entries : SizeOf(entries, kept \cap 1..last) <= room}
            left == Popped(entries, kept, room)
<1>1. left = kept \cap 1..Max(S)
  BY DEF Popped
<1>2. Max(S) \in S
  <2>1. Len(entries) \in Nat /\ S \in SUBSET (0..Len(entries)) /\ S # {}
    BY DEF Sized
  <2>. HIDE DEF S
  <2>. QED  BY <2>1, Greatest
<1>3. CASE Max(S) = 0
  <2>1. left = {}
    <3>1. 1..0 = {}
      OBVIOUS
    <3>. HIDE DEF S, left
    <3>. QED  BY <1>1, <1>3, <3>1
  <2>. QED  BY <2>1, SizeOfNone, SizeGrows
<1>4. CASE Max(S) # 0
  <2>1. SizeOf(entries, left) <= room
    BY <1>1, <1>2, <1>4
  <2>2. left \cap DOMAIN entries \subseteq DOMAIN entries
    OBVIOUS
  <2>. QED  BY <2>1, <2>2, SizeGrows
<1>. QED  BY <1>3, <1>4

LEMMA HistoryBudgetIs ==
  ASSUME NEW q, q.budgets.history \in Nat, q.budgets.total \in Nat, NEW used \in Nat
  PROVE  /\ HistoryBudget(q, used) \in Nat
         /\ HistoryBudget(q, used) = q.budgets.history \/ HistoryBudget(q, used) >= q.budgets.total - used
         /\ used <= q.budgets.total => HistoryBudget(q, used) <= q.budgets.total - used
<1>. DEFINE room == q.budgets.total - used
            most == Max({0, room})
<1>1. most \in Nat /\ most >= room /\ (room >= 0 => most = room)
  <2>1. room \in Int /\ \E x \in {0, room} : \A n \in {0, room} : x >= n
    OBVIOUS
  <2>. HIDE DEF room
  <2>2. most \in {0, room} /\ \A n \in {0, room} : most >= n
    BY <2>1 DEF Max
  <2>. QED  BY <2>1, <2>2
<1>2. /\ HistoryBudget(q, used) \in {q.budgets.history, most}
      /\ HistoryBudget(q, used) <= most
  <2>. HIDE DEF most
  <2>1. \E x \in {q.budgets.history, most} : \A n \in {q.budgets.history, most} : x <= n
    BY <1>1
  <2>2. /\ Min({q.budgets.history, most}) \in {q.budgets.history, most}
        /\ \A n \in {q.budgets.history, most} : Min({q.budgets.history, most}) <= n
    BY <2>1 DEF Min
  <2>. QED  BY <2>2 DEF HistoryBudget, most
<1>. QED  BY <1>1, <1>2

\* A request prepare_context makes.
Request(q) ==
  /\ q.items \in Transcripts /\ q.notes \in Recalls /\ q.hits \in Recalls /\ q.budgets \in Budgets
  /\ q.summary \in Summaries \cup {Unsummarized}
  /\ q.summary # Unsummarized => q.summary.covered \in Nat

LEMMA RequestSizes ==
  ASSUME NEW q, Request(q)
  PROVE  /\ Sized(q.items) /\ Paired(q.items) /\ Sized(q.notes) /\ Sized(q.hits)
         /\ q.summary.size \in Nat
         /\ q.budgets.total \in Nat /\ q.budgets.history \in Nat /\ q.budgets.current_run \in Nat
         /\ q.budgets.current_run <= q.budgets.total
<1>1. Sized(q.items) /\ Paired(q.items) /\ Sized(q.notes) /\ Sized(q.hits)
  BY TranscriptsAssumption, RecallsAssumption DEF Request
<1>2. q.summary.size \in Nat
  BY SummariesAssumption DEF Request, Unsummarized
<1>3. /\ q.budgets.total \in Nat /\ q.budgets.history \in Nat /\ q.budgets.current_run \in Nat
      /\ q.budgets.current_run <= q.budgets.total
  BY BudgetsAssumption DEF Request
<1>. QED  BY <1>1, <1>2, <1>3

\* The groups of the earlier runs, those of them the prompt's summary leaves, and
\* those of the run in progress.
Earlier(q) == {i \in Groups(q) : q.items[i].run # q.current}
Uncovered(q) == HistoryAfter(q, Earlier(q), Assembled(q).summary)
Ongoing(q) == Groups(q) \ Earlier(q)

\* What a prompt consists of, and how its parts bound one another.
Parts(q, p, current, older, budget, recalled) ==
  LET used == current.used + recalled + (IF p.summary THEN q.summary.size ELSE 0)
  IN /\ Fitted(q, Ongoing(q), Ongoing(q), q.budgets.current_run, current)
     /\ Fitted(q, Uncovered(q), Uncovered(q), budget, older)
     /\ p.messages = current.items \cup older.items
     /\ recalled = SizeOf(q.notes, p.notes) + SizeOf(q.hits, p.hits)
     /\ recalled <= SizeOf(q.notes, DOMAIN q.notes) + SizeOf(q.hits, DOMAIN q.hits)
     /\ used <= q.budgets.total /\ budget <= q.budgets.total - used
     /\ budget = q.budgets.history \/ budget >= q.budgets.total - used
     /\ p.summary \in BOOLEAN

LEMMA AssembledParts ==
  ASSUME NEW q, Request(q)
  PROVE  \E current, older : \E budget, recalled \in Nat :
           Parts(q, Assembled(q), current, older, budget, recalled)
<1>. DEFINE p == Assembled(q)
            current == Fit(q, Ongoing(q), q.budgets.current_run, FALSE)
            summarySize == IF SummaryFits(q) THEN q.summary.size ELSE 0
            fixed == current.used + summarySize
            notesRoom == q.budgets.total - fixed - SizeOf(q.hits, p.hits)
            hitsRoom == q.budgets.total - fixed
                          - SizeOf(q.notes, FitEntries(q, q.notes, q.budgets.notes))
            recalled == SizeOf(q.notes, p.notes) + SizeOf(q.hits, p.hits)
            summed == IF p.summary THEN q.summary.size ELSE 0
            used == current.used + recalled + summed
            budget == HistoryBudget(q, used)
            older == Fit(q, Uncovered(q), budget, TRUE)
<1>1. /\ Sized(q.items) /\ Paired(q.items) /\ Sized(q.notes) /\ Sized(q.hits)
      /\ q.summary.size \in Nat
      /\ q.budgets.total \in Nat /\ q.budgets.history \in Nat /\ q.budgets.current_run \in Nat
      /\ q.budgets.current_run <= q.budgets.total
  BY RequestSizes
<1>2. /\ p.hits = Popped(q.hits, FitEntries(q, q.hits, q.budgets.retrieval), hitsRoom)
      /\ p.notes = Popped(q.notes, FitEntries(q, q.notes, q.budgets.notes), notesRoom)
      /\ p.summary = (SummaryFits(q) /\ fixed + recalled <= q.budgets.total)
  BY DEF Assembled, Ongoing, Earlier
<1>3. p.messages = current.items \cup older.items
  BY DEF Assembled, Ongoing, Earlier, Uncovered
<1>4. Ongoing(q) \in SUBSET Heads(q) /\ Uncovered(q) \in SUBSET Heads(q)
  BY DEF Ongoing, Uncovered, Earlier, HistoryAfter, Groups
<1>5. Fitted(q, Ongoing(q), Ongoing(q), q.budgets.current_run, current)
  BY <1>1, <1>4, FitFits
<1>6. current.used \in Nat /\ current.used <= q.budgets.current_run
  BY <1>1, <1>5, SizeIsNat DEF Fitted
<1>7. summarySize \in Nat /\ fixed \in Nat
  <2>. HIDE DEF current
  <2>. QED  BY <1>1, <1>6
<1>8. /\ SizeOf(q.hits, p.hits) \in Nat /\ SizeOf(q.notes, p.notes) \in Nat
      /\ hitsRoom \in Int /\ notesRoom \in Int
      /\ hitsRoom <= q.budgets.total - fixed
  <2>1. /\ SizeOf(q.hits, p.hits) \in Nat /\ SizeOf(q.notes, p.notes) \in Nat
        /\ SizeOf(q.notes, FitEntries(q, q.notes, q.budgets.notes)) \in Nat
    BY <1>1, SizeIsNat
  <2>. HIDE DEF fixed, p
  <2>. QED  BY <1>1, <1>7, <2>1
<1>. HIDE DEF p, hitsRoom
<1>9. /\ SizeOf(q.hits, p.hits) <= q.budgets.total - fixed \/ SizeOf(q.hits, p.hits) = 0
      /\ SizeOf(q.hits, p.hits) <= SizeOf(q.hits, DOMAIN q.hits)
  <2>1. /\ SizeOf(q.hits, p.hits) <= hitsRoom \/ SizeOf(q.hits, p.hits) = 0
        /\ SizeOf(q.hits, p.hits) <= SizeOf(q.hits, DOMAIN q.hits)
    BY <1>1, <1>2, <1>8, PoppedFits
  <2>. HIDE DEF fixed
  <2>. QED  BY <1>1, <1>7, <1>8, <2>1
<1>10. /\ SizeOf(q.notes, p.notes) <= notesRoom \/ SizeOf(q.notes, p.notes) = 0
       /\ SizeOf(q.notes, p.notes) <= SizeOf(q.notes, DOMAIN q.notes)
  <2>. HIDE DEF notesRoom
  <2>. QED  BY <1>1, <1>2, <1>8, PoppedFits
<1>11. /\ recalled \in Nat
       /\ recalled <= SizeOf(q.notes, DOMAIN q.notes) + SizeOf(q.hits, DOMAIN q.hits)
  <2>1. SizeOf(q.notes, DOMAIN q.notes) \in Nat /\ SizeOf(q.hits, DOMAIN q.hits) \in Nat
    BY <1>1, SizeIsNat
  <2>. QED  BY <1>8, <1>9, <1>10, <2>1
<1>12. p.summary \in BOOLEAN /\ summed \in Nat /\ (p.summary => summed = summarySize)
  BY <1>1, <1>2
<1>13. used \in Nat /\ used <= q.budgets.total
  <2>1. used \in Nat
    <3>. HIDE DEF current, recalled, summed
    <3>. QED  BY <1>6, <1>11, <1>12
  <2>2. CASE p.summary
    <3>1. fixed + recalled <= q.budgets.total /\ summed = summarySize
      BY <1>2, <1>12, <2>2
    <3>. HIDE DEF summed, recalled, summarySize, current
    <3>. QED  BY <1>1, <1>6, <1>7, <1>11, <2>1, <3>1
  <2>3. CASE ~p.summary
    <3>1. summed = 0
      BY <2>3
    <3>2. current.used + recalled <= q.budgets.total
      <4>. HIDE DEF current, summarySize
      <4>. QED  BY <1>1, <1>6, <1>7, <1>8, <1>9, <1>10
    <3>. HIDE DEF summed, recalled, current
    <3>. QED  BY <1>6, <1>11, <2>1, <3>1, <3>2
  <2>. QED  BY <2>2, <2>3
<1>14. /\ budget \in Nat /\ budget <= q.budgets.total - used
       /\ budget = q.budgets.history \/ budget >= q.budgets.total - used
  <2>. HIDE DEF used
  <2>. QED  BY <1>1, <1>13, HistoryBudgetIs
<1>15. Fitted(q, Uncovered(q), Uncovered(q), budget, older)
  <2>. HIDE DEF budget
  <2>. QED  BY <1>1, <1>4, <1>14, FitFits
<1>16. Parts(q, p, current, older, budget, recalled)
  <2>. HIDE DEF current, older
  <2>. QED  BY <1>3, <1>5, <1>11, <1>12, <1>13, <1>14, <1>15 DEF Parts, p
<1>. HIDE DEF current, older, budget, recalled
<1>. QED  BY <1>11, <1>14, <1>16 DEF p

LEMMA AnsweredIsAssembled ==
  ASSUME NEW q, Request(q), NEW p, p = Assemble(q), p.outcome = "prompt"
  PROVE  p = Assembled(q)
BY DEF Assemble, Raised

\* The heads of the groups of a prompt, and that it has the messages of those.
LEMMA PromptHeads ==
  ASSUME NEW q, Request(q)
  PROVE  \E heads \in SUBSET Groups(q) : Assembled(q).messages = Members(q, heads)
<1>1. PICK current, older : \E budget, recalled \in Nat :
        Parts(q, Assembled(q), current, older, budget, recalled)
  BY AssembledParts
<1>. DEFINE heads == (Ongoing(q) \cap current.items) \cup (Uncovered(q) \cap older.items)
<1>2. heads \in SUBSET Groups(q)
  BY DEF Ongoing, Uncovered, Earlier, HistoryAfter
<1>3. Assembled(q).messages = Members(q, heads)
  <2>1. /\ Assembled(q).messages = current.items \cup older.items
        /\ current.items = Members(q, Ongoing(q) \cap current.items)
        /\ older.items = Members(q, Uncovered(q) \cap older.items)
    BY <1>1 DEF Parts, Fitted
  <2>2. Members(q, heads) = Members(q, Ongoing(q) \cap current.items)
                              \cup Members(q, Uncovered(q) \cap older.items)
    BY DEF Members
  <2>. HIDE DEF heads
  <2>. QED  BY <2>1, <2>2
<1>. QED  BY <1>2, <1>3

LEMMA PartsApart ==
  ASSUME NEW q, Request(q)
  PROVE  Members(q, Ongoing(q)) \cap Members(q, Uncovered(q)) = {}
<1>1. /\ Ongoing(q) \in SUBSET Heads(q) /\ Uncovered(q) \in SUBSET Heads(q)
      /\ Ongoing(q) \cap Uncovered(q) = {}
  BY DEF Ongoing, Uncovered, Earlier, HistoryAfter, Groups
<1>. QED  BY <1>1, RequestSizes, MembersApart

-----------------------------------------------------------------------------
(***************************************************************************)
(* The three properties, of one request.                                   *)
(***************************************************************************)
LEMMA AssembledKeepsToTotal ==
  ASSUME NEW q, Request(q)
  PROVE  LET p == Assembled(q)
         IN SizeOf(q.items, p.messages) + SizeOf(q.notes, p.notes) + SizeOf(q.hits, p.hits)
              + (IF p.summary THEN q.summary.size ELSE 0) <= q.budgets.total
<1>. DEFINE p == Assembled(q)
            summed == IF p.summary THEN q.summary.size ELSE 0
<1>1. PICK current, older : \E budget, recalled \in Nat : Parts(q, p, current, older, budget, recalled)
  BY AssembledParts
<1>2. PICK budget \in Nat, recalled \in Nat : Parts(q, p, current, older, budget, recalled)
  BY <1>1
<1>. HIDE DEF p
<1>3. /\ Sized(q.items) /\ Sized(q.notes) /\ Sized(q.hits)
      /\ q.summary.size \in Nat /\ q.budgets.total \in Nat
  BY RequestSizes
<1>4. /\ current.used = SizeOf(q.items, current.items)
      /\ older.used = SizeOf(q.items, older.items) /\ older.used <= budget
      /\ current.items \subseteq Members(q, Ongoing(q))
      /\ older.items \subseteq Members(q, Uncovered(q))
  BY <1>2 DEF Parts, Fitted, Members
<1>5. current.items \cap older.items = {}
  BY <1>4, PartsApart
<1>6. SizeOf(q.items, p.messages) = current.used + older.used
  BY <1>2, <1>3, <1>4, <1>5, SizeOfUnion DEF Parts
<1>7. /\ recalled = SizeOf(q.notes, p.notes) + SizeOf(q.hits, p.hits)
      /\ budget <= q.budgets.total - (current.used + recalled + summed)
  BY <1>2 DEF Parts
<1>8. /\ current.used \in Nat /\ older.used \in Nat /\ summed \in Nat
      /\ SizeOf(q.notes, p.notes) \in Nat /\ SizeOf(q.hits, p.hits) \in Nat
  BY <1>3, <1>4, SizeIsNat
<1>9. SizeOf(q.items, p.messages) + SizeOf(q.notes, p.notes) + SizeOf(q.hits, p.hits) + summed
        <= q.budgets.total
  <2>. HIDE DEF summed
  <2>. QED  BY <1>2, <1>3, <1>4, <1>6, <1>7, <1>8
<1>. QED  BY <1>9 DEF p

\* A result is that of a call of its own run, and the only one of that call.
LEMMA ResultOfItsCall ==
  ASSUME NEW q, Request(q), NEW i \in Items(q), NEW j \in Items(q), NEW k \in Items(q),
         \A x, y \in Items(q) : q.items[x].calls \cap q.items[y].calls # {} => x = y,
         q.items[i].run = q.items[j].run,
         q.items[j].result \in q.items[i].calls,
         q.items[k].result = q.items[j].result
  PROVE  k = j
<1>1. /\ Paired(q.items) /\ Items(q) = 1..Len(q.items) /\ Len(q.items) \in Nat
      /\ DOMAIN q.items = Items(q)
  BY RequestSizes DEF Sized, Items
<1>2. q.items[j].result # NoResult
  BY <1>1 DEF Paired
<1>3. PICK h \in 1..(k - 1) : q.items[h].run = q.items[k].run /\ q.items[k].result \in q.items[h].calls
  BY <1>1, <1>2 DEF Paired
<1>4. h = i
  <2>1. h \in Items(q)
    BY <1>1
  <2>. QED  BY <1>3, <2>1
<1>5. q.items[k].run = q.items[j].run
  BY <1>3, <1>4
<1>6. ASSUME NEW x \in Items(q), NEW y \in Items(q), x < y,
             q.items[x].run = q.items[y].run, q.items[y].result # NoResult
      PROVE  q.items[x].result # q.items[y].result
  <2>1. x \in 1..(y - 1)
    BY <1>1, <1>6
  <2>. QED  BY <1>1, <1>6, <2>1 DEF Paired
<1>7. ~(j < k) /\ ~(k < j)
  BY <1>2, <1>5, <1>6
<1>. QED  BY <1>1, <1>7

LEMMA AssembledKeepsGroups ==
  ASSUME NEW q, Request(q), NEW i \in Items(q), NEW j \in Items(q),
         \A x, y \in Items(q) : q.items[x].calls \cap q.items[y].calls # {} => x = y,
         q.items[i].run = q.items[j].run,
         q.items[j].result \in q.items[i].calls
  PROVE  i \in Assembled(q).messages <=> j \in Assembled(q).messages
<1>1. /\ Sized(q.items) /\ Paired(q.items) /\ DOMAIN q.items = Items(q)
  BY RequestSizes DEF Items
<1>2. PICK heads \in SUBSET Groups(q) : Assembled(q).messages = Members(q, heads)
  BY PromptHeads
<1>3. heads \subseteq Heads(q) /\ Heads(q) \subseteq Items(q)
  BY DEF Groups, Heads, AllowedItems
<1>4. q.items[i].result = NoResult /\ q.items[j].result # NoResult
  BY <1>1 DEF Paired
<1>5. ASSUME i \in Assembled(q).messages PROVE j \in Assembled(q).messages
  <2>1. PICK h \in heads : i \in GroupAt(q, h)
    BY <1>2, <1>5 DEF Members
  <2>2. h = i
    BY <1>1, <1>3, <1>4, <2>1, GroupShape
  <2>3. q.items[j].result \in {q.items[k].result : k \in GroupAt(q, i)}
    BY <2>1, <2>2 DEF Groups, Complete
  <2>4. PICK k \in GroupAt(q, i) : q.items[k].result = q.items[j].result
    BY <2>3
  <2>5. k \in Items(q)
    BY <1>1, <1>3, <2>1, <2>2, GroupShape
  <2>6. k = j
    BY <2>4, <2>5, ResultOfItsCall
  <2>. QED  BY <1>2, <2>1, <2>2, <2>6 DEF Members
<1>6. ASSUME j \in Assembled(q).messages PROVE i \in Assembled(q).messages
  <2>1. PICK h \in heads : j \in GroupAt(q, h)
    BY <1>2, <1>6 DEF Members
  <2>2. j # h
    BY <1>3, <1>4 DEF Heads, IsHead
  <2>3. q.items[j].result \in q.items[h].calls
    BY <1>1, <1>3, <2>1, <2>2, GroupShape
  <2>4. h = i
    BY <1>3, <2>3
  <2>5. i \in GroupAt(q, i)
    BY <1>1, <1>3, <2>4, GroupShape
  <2>. QED  BY <1>2, <2>4, <2>5 DEF Members
<1>. QED  BY <1>5, <1>6

\* A message without calls that is not a result is a group of its own.
LEMMA OwnGroup ==
  ASSUME NEW q, Request(q), NEW i \in AllowedItems(q),
         q.items[i].calls = {}, q.items[i].result = NoResult
  PROVE  /\ i \in Groups(q) /\ GroupAt(q, i) = {i} /\ Max(GroupAt(q, i)) = i
         /\ Ceiling(q, GroupAt(q, i)) = q.budgets.single_message
<1>1. Sized(q.items) /\ Paired(q.items) /\ i \in Heads(q)
  BY RequestSizes DEF Heads, IsHead
<1>2. GroupAt(q, i) = {i}
  BY <1>1, GroupShape
<1>3. i \in Nat
  BY <1>1 DEF AllowedItems, Items, Sized
<1>4. Max({i}) = i
  <2>1. {i} \in SUBSET (0..i) /\ {i} # {}
    BY <1>3
  <2>. QED  BY <1>3, <2>1, Greatest
<1>5. i \in Groups(q)
  BY <1>1, <1>2 DEF Groups, Complete
<1>6. Ceiling(q, {i}) = q.budgets.single_message
  BY DEF Ceiling
<1>. QED  BY <1>2, <1>4, <1>5, <1>6

LEMMA OnlyAssembledSummaryHides ==
  ASSUME NEW q, Request(q), NEW i \in Items(q),
         q.items[i].class = "internal",
         q.items[i].calls = {}, q.items[i].result = NoResult,
         q.items[i].run # q.current,
         q.items[i].size <= q.budgets.single_message,
         SizeOf(q.items, Items(q)) + SizeOf(q.notes, DOMAIN q.notes)
           + SizeOf(q.hits, DOMAIN q.hits) + q.summary.size
           <= Min({q.budgets.total, q.budgets.history}),
         i \notin Assembled(q).messages
  PROVE  Assembled(q).summary /\ i <= q.summary.covered
<1>. DEFINE p == Assembled(q)
            summed == IF p.summary THEN q.summary.size ELSE 0
            all == SizeOf(q.items, Items(q)) + SizeOf(q.notes, DOMAIN q.notes)
                     + SizeOf(q.hits, DOMAIN q.hits) + q.summary.size
            left == SizeOf(q.items, Members(q, Uncovered(q)))
<1>1. /\ Sized(q.items) /\ Paired(q.items) /\ Sized(q.notes) /\ Sized(q.hits)
      /\ q.summary.size \in Nat /\ q.budgets.total \in Nat /\ q.budgets.history \in Nat
      /\ Items(q) = DOMAIN q.items
  BY RequestSizes DEF Items
<1>2. all <= q.budgets.total /\ all <= q.budgets.history
  <2>1. \E x \in {q.budgets.total, q.budgets.history} :
          \A n \in {q.budgets.total, q.budgets.history} : x <= n
    BY <1>1
  <2>2. \A n \in {q.budgets.total, q.budgets.history} :
          /\ Min({q.budgets.total, q.budgets.history}) <= n
          /\ Min({q.budgets.total, q.budgets.history}) \in {q.budgets.total, q.budgets.history}
    BY <2>1 DEF Min
  <2>3. all \in Nat
    BY <1>1, SizeIsNat
  <2>. HIDE DEF all
  <2>4. all <= Min({q.budgets.total, q.budgets.history})
    BY DEF all
  <2>. QED  BY <1>1, <2>2, <2>3, <2>4
<1>3. i \in AllowedItems(q)
  BY DEF AllowedItems, Allowed
<1>4. /\ i \in Groups(q) /\ GroupAt(q, i) = {i} /\ Max(GroupAt(q, i)) = i
      /\ Ceiling(q, GroupAt(q, i)) = q.budgets.single_message
  BY <1>3, OwnGroup
<1>5. Fitting(q, i)
  BY <1>1, <1>4, SizeOfOne DEF Fitting
<1>6. PICK current, older : \E budget, recalled \in Nat : Parts(q, p, current, older, budget, recalled)
  BY AssembledParts
<1>7. PICK budget \in Nat, recalled \in Nat : Parts(q, p, current, older, budget, recalled)
  BY <1>6
<1>8. i \notin Uncovered(q)
  <2>1. SUFFICES ASSUME i \in Uncovered(q) PROVE FALSE
    OBVIOUS
  <2>2. i \notin older.items
    BY <1>7 DEF Parts
  <2>3. left > budget
    BY <1>5, <1>7, <2>1, <2>2 DEF Parts, Fitted
  <2>4. /\ current.used = SizeOf(q.items, current.items)
        /\ current.items \subseteq Members(q, Ongoing(q))
    BY <1>7 DEF Parts, Fitted, Members
  <2>5. current.items \cap Members(q, Uncovered(q)) = {}
    BY <2>4, PartsApart
  <2>6. SizeOf(q.items, current.items \cup Members(q, Uncovered(q))) = current.used + left
    BY <1>1, <2>4, <2>5, SizeOfUnion
  <2>7. SizeOf(q.items, current.items \cup Members(q, Uncovered(q))) <= SizeOf(q.items, Items(q))
    <3>1. (current.items \cup Members(q, Uncovered(q))) \cap DOMAIN q.items \subseteq Items(q)
      BY <1>1
    <3>. QED  BY <1>1, <3>1, SizeGrows
  <2>8. /\ recalled <= SizeOf(q.notes, DOMAIN q.notes) + SizeOf(q.hits, DOMAIN q.hits)
        /\ budget = q.budgets.history
             \/ budget >= q.budgets.total - (current.used + recalled + summed)
    BY <1>7 DEF Parts
  <2>9. /\ SizeOf(q.items, Items(q)) \in Nat /\ left \in Nat /\ current.used \in Nat
        /\ SizeOf(q.notes, DOMAIN q.notes) \in Nat /\ SizeOf(q.hits, DOMAIN q.hits) \in Nat
        /\ summed \in Nat /\ summed <= q.summary.size
    BY <1>1, <2>4, SizeIsNat
  <2>. HIDE DEF left, summed, p
  <2>. QED  BY <1>1, <1>2, <1>7, <2>3, <2>6, <2>7, <2>8, <2>9
<1>9. i \in Earlier(q)
  BY <1>4 DEF Earlier
<1>10. p.summary /\ ~(i > q.summary.covered)
  BY <1>4, <1>8, <1>9 DEF Uncovered, HistoryAfter
<1>11. i \in Nat /\ q.summary.covered \in Nat
  <2>1. i \in Nat
    BY <1>1 DEF Sized
  <2>2. q.summary # Unsummarized
    BY <1>10 DEF Assembled, SummaryFits
  <2>. QED  BY <2>1, <2>2 DEF Request
<1>. QED  BY <1>10, <1>11

-----------------------------------------------------------------------------
(***************************************************************************)
(* The call.                                                               *)
(***************************************************************************)
\* A prompt is what assemble makes of the request it was asked with.
ContextInv ==
  /\ transcript \in Transcripts
  /\ prompt = Waiting \/ (Request(request) /\ prompt = Assemble(request))

LEMMA ContextInvariant == ContextSpec => []ContextInv
<1>1. ContextInit => ContextInv
  BY DEF ContextInit, ContextInv
<1>2. ASSUME ContextInv, [PrepareContext]_contextVars PROVE ContextInv'
  <2>1. CASE PrepareContext
    <3>1. PICK provider \in Providers, summary \in SummariesInUse,
               recalled \in Recalls, budgets \in Budgets :
            request' = [items |-> transcript, current |-> CurrentRun, provider |-> provider,
                        summary |-> summary, notes |-> recalled, hits |-> recalled,
                        budgets |-> budgets]
      BY <2>1 DEF PrepareContext
    <3>2. summary \in Summaries \cup {Unsummarized}
      BY DEF SummariesInUse
    <3>3. summary # Unsummarized => summary.covered \in Nat
      BY <1>2, TranscriptsAssumption DEF SummariesInUse, ContextInv, Sized
    <3>4. /\ request'.items = transcript /\ request'.notes = recalled /\ request'.hits = recalled
          /\ request'.budgets = budgets /\ request'.summary = summary
      BY <3>1
    <3>5. Request(request')
      BY <1>2, <3>2, <3>3, <3>4 DEF Request, ContextInv
    <3>. QED  BY <1>2, <2>1, <3>5 DEF PrepareContext, ContextInv
  <2>2. CASE UNCHANGED contextVars
    BY <1>2, <2>2 DEF ContextInv, contextVars
  <2>. QED  BY <1>2, <2>1, <2>2
<1>. QED  BY <1>1, <1>2, PTL DEF ContextSpec

LEMMA AnswersAreAssembled ==
  ContextInv /\ Answered => Request(request) /\ prompt = Assembled(request)
BY AnsweredIsAssembled DEF ContextInv, Answered, Waiting

\* Whatever gives way to what, the parts of a prompt of assemble keep to the total budget.
THEOREM PromptsWithinTotal == ContextSpec => []PromptsKeepToTotal
<1>1. ContextInv => PromptsKeepToTotal
  BY AnswersAreAssembled, AssembledKeepsToTotal DEF PromptsKeepToTotal
<1>. QED  BY <1>1, ContextInvariant, PTL

\* A prompt has a call and its results, or none of them: no filter, budget or watermark of
\* assemble separates them.
THEOREM PromptsKeepPairs == ContextSpec => []PromptsKeepGroups
<1>1. ContextInv => PromptsKeepGroups
  BY AnswersAreAssembled, AssembledKeepsGroups DEF PromptsKeepGroups, CallIdsUnique
<1>. QED  BY <1>1, ContextInvariant, PTL

\* A message of an earlier run that the provider may see and that would fit is missing from a
\* prompt only when the summary in that prompt covers it.
THEOREM MessagesHiddenBySummary == ContextSpec => []OnlyTheSummaryHides
<1>1. ContextInv => OnlyTheSummaryHides
  BY AnswersAreAssembled, OnlyAssembledSummaryHides DEF OnlyTheSummaryHides
<1>. QED  BY <1>1, ContextInvariant, PTL

-----------------------------------------------------------------------------
(***************************************************************************)
(* A dry run of apply_patch foretells the call, for file patches of any    *)
(* length: the proof looks neither into a hunk nor at a line, only at      *)
(* which file a step reads and writes.                                     *)
(*                                                                         *)
(* That the two agree at the end is not inductive: while the call runs,    *)
(* the files foretold are ahead of the disk.  By how far is what           *)
(* ForetellInv says.  The dry run stopped at some file patch; the ones     *)
(* from the call's place up to there still change the files of the disk    *)
(* to what was foretold, and the next one fails on them as it failed then. *)
(***************************************************************************)
Distinct == \A i, j \in 1..Len(patch) : i # j => patch[i].file # patch[j].file

\* The file patch i, applied to the disk as it is, succeeds.
Succeeds(i) == Changed(patch[i], disk[patch[i].file]) # Failed

\* The file patches m + 1 to n make of the disk what was foretold.
Ahead(m, n) ==
  /\ \A i \in (m + 1)..n : /\ Succeeds(i)
                           /\ foretold[patch[i].file] = Written(patch[i], disk[patch[i].file])
  /\ \A f \in Files : (\A i \in (m + 1)..n : patch[i].file # f) => foretold[f] = disk[f]

\* No file patch follows, or the next one fails.
StopsAt(n) == n \in 0..Len(patch) /\ (n < Len(patch) => ~Succeeds(n + 1))

ForetellTypes ==
  /\ Len(patch) \in {1, 2} /\ \A i \in 1..Len(patch) : patch[i].file \in Files
  /\ disk = [f \in Files |-> disk[f]]
  /\ call.dry_run \in BOOLEAN /\ call.state \in {"none", "running", "raised", "applied"}
  /\ call = [dry_run |-> call.dry_run, state |-> call.state]
  /\ applied \in 0..Len(patch)
  /\ foretold # Unknown => foretold = [f \in Files |-> foretold[f]]

DryRunLooks ==
  call.dry_run => /\ call.state # "none"
                  /\ Ahead(0, applied)
                  /\ call.state # "running" => StopsAt(applied)

CallFollows ==
  ~call.dry_run => /\ call.state # "none"
                   /\ call.state = "running" => \E n \in applied..Len(patch) : Ahead(applied, n) /\ StopsAt(n)
                   /\ call.state # "running" => Ahead(applied, applied)

ForetellInv == ForetellTypes /\ (foretold # Unknown /\ Distinct => DryRunLooks /\ CallFollows)

-----------------------------------------------------------------------------
LEMMA ForetellInit == PatchInit => ForetellInv
<1> SUFFICES ASSUME PatchInit PROVE ForetellInv
  OBVIOUS
<1>1. Len(patch) \in {1, 2} /\ \A i \in 1..Len(patch) : patch[i].file \in Files
  <2>1. ASSUME NEW p \in FilePatches(MaxScript), patch = <<p>>
        PROVE  Len(patch) \in {1, 2} /\ \A i \in 1..Len(patch) : patch[i].file \in Files
    <3>1. p.file \in Files
      BY <2>1 DEF FilePatches
    <3>. QED  BY <2>1, <3>1
  <2>2. ASSUME NEW p \in FilePatches(MaxPair), NEW q \in FilePatches(MaxPair), patch = <<p, q>>
        PROVE  Len(patch) \in {1, 2} /\ \A i \in 1..Len(patch) : patch[i].file \in Files
    <3>1. p.file \in Files /\ q.file \in Files
      BY <2>2 DEF FilePatches
    <3>. QED  BY <2>2, <3>1
  <2>. QED  BY <2>1, <2>2 DEF PatchInit
<1>2. disk = [f \in Files |-> disk[f]]
  BY DEF PatchInit
<1>. QED  BY <1>1, <1>2 DEF PatchInit, ForetellInv, ForetellTypes

LEMMA ForetellTypesStep ==
  ASSUME ForetellTypes, [PatchNext]_patchVars
  PROVE  ForetellTypes'
<1>1. CASE Execute(TRUE)
  BY <1>1 DEF Execute, ForetellTypes
<1>2. CASE Execute(FALSE)
  BY <1>2 DEF Execute, ForetellTypes
<1>3. CASE ApplyFile
  <2> DEFINE p == patch[applied + 1]
  <2>1. call.state = "running" /\ applied < Len(patch) /\ patch' = patch /\ p.file \in Files
    BY <1>3 DEF ApplyFile, ForetellTypes
  <2>2. CASE Changed(p, disk[p.file]) = Failed
    BY <1>3, <2>1, <2>2 DEF ApplyFile, ForetellTypes
  <2>3. CASE Changed(p, disk[p.file]) # Failed
    <3>1. applied' = applied + 1 /\ call' = call
      BY <1>3, <2>1, <2>3 DEF ApplyFile
    <3>2. disk' = [f \in Files |-> disk'[f]]
      <4>1. disk' = disk \/ disk' = [disk EXCEPT ![p.file] = Written(p, @)]
        BY <1>3, <2>1, <2>3 DEF ApplyFile
      <4>. QED  BY <4>1 DEF ForetellTypes
    <3>3. foretold' # Unknown => foretold' = [f \in Files |-> foretold'[f]]
      <4>1. foretold' = foretold \/ foretold' = Foretold(p)
        BY <1>3, <2>1, <2>3 DEF ApplyFile
      <4>2. foretold = Unknown => Foretold(p) = Unknown
        BY DEF Foretold, Unknown
      <4>3. foretold # Unknown => Foretold(p) = [f \in Files |-> Foretold(p)[f]]
        BY DEF Foretold, ForetellTypes
      <4>. QED  BY <4>1, <4>2, <4>3 DEF ForetellTypes
    <3>. QED  BY <2>1, <3>1, <3>2, <3>3 DEF ForetellTypes
  <2>. QED  BY <2>2, <2>3
<1>4. CASE Finish
  BY <1>4 DEF Finish, ForetellTypes
<1>5. CASE Overwrite
  BY <1>5 DEF Overwrite, ForetellTypes
<1>6. CASE UNCHANGED patchVars
  BY <1>6 DEF patchVars, ForetellTypes
<1>. QED  BY <1>1, <1>2, <1>3, <1>4, <1>5, <1>6 DEF PatchNext

LEMMA ForetellInvStep ==
  ASSUME ForetellInv, [PatchNext]_patchVars
  PROVE  ForetellInv'
<1>1. ForetellTypes /\ ForetellTypes'
  BY ForetellTypesStep DEF ForetellInv
<1> SUFFICES ASSUME (foretold # Unknown)', Distinct'
             PROVE  (DryRunLooks /\ CallFollows)'
  BY <1>1 DEF ForetellInv
<1>2. patch' = patch /\ Distinct /\ Len(patch) \in {1, 2} /\ applied \in 0..Len(patch)
  BY <1>1 DEF PatchNext, patchVars, Execute, ApplyFile, Finish, Overwrite, Distinct, ForetellTypes
<1>3. CASE Execute(TRUE)
  <2>1. call' = [dry_run |-> TRUE, state |-> "running"] /\ applied' = 0 /\ foretold' = disk /\ disk' = disk
    BY <1>3 DEF Execute
  <2>2. Ahead(0, 0)'
    BY <1>2, <2>1 DEF Ahead
  <2>. QED  BY <2>1, <2>2 DEF DryRunLooks, CallFollows
<1>4. CASE Execute(FALSE)
  <2>1. /\ call' = [dry_run |-> FALSE, state |-> "running"] /\ applied' = 0
        /\ foretold' = foretold /\ disk' = disk /\ call.state # "running"
        /\ call.dry_run \/ call.state = "none"
    BY <1>4 DEF Execute
  <2>2. call.dry_run /\ Ahead(0, applied) /\ StopsAt(applied)
    BY <1>2, <2>1 DEF ForetellInv, DryRunLooks, CallFollows
  <2>3. \E n \in 0..Len(patch) : (Ahead(0, n) /\ StopsAt(n))'
    BY <1>2, <2>1, <2>2 DEF Ahead, StopsAt, Succeeds
  <2>. QED  BY <1>2, <2>1, <2>3 DEF DryRunLooks, CallFollows
<1>5. CASE ApplyFile
  <2> DEFINE p == patch[applied + 1]
  <2>1. call.state = "running" /\ applied < Len(patch) /\ p.file \in Files /\ applied + 1 \in 1..Len(patch)
    BY <1>1, <1>5 DEF ApplyFile, ForetellTypes
  <2>2. CASE ~Succeeds(applied + 1)
    <3>1. call' = [call EXCEPT !.state = "raised"] /\ UNCHANGED <<disk, applied, foretold>>
      BY <1>5, <2>1, <2>2 DEF ApplyFile, Succeeds
    <3>2. call'.state = "raised" /\ call'.dry_run = call.dry_run
      BY <1>1, <3>1 DEF ForetellTypes
    <3>3. CASE call.dry_run
      <4>1. Ahead(0, applied) /\ StopsAt(applied)
        BY <1>2, <2>1, <2>2, <3>1, <3>3 DEF ForetellInv, DryRunLooks, StopsAt
      <4>2. (Ahead(0, applied) /\ StopsAt(applied))'
        BY <1>2, <3>1, <4>1 DEF Ahead, StopsAt, Succeeds
      <4>. QED  BY <3>2, <3>3, <4>2 DEF DryRunLooks, CallFollows
    <3>4. CASE ~call.dry_run
      <4>1. PICK n \in applied..Len(patch) : Ahead(applied, n) /\ StopsAt(n)
        BY <1>2, <2>1, <3>1, <3>4 DEF ForetellInv, CallFollows
      <4>2. n = applied
        BY <1>2, <2>1, <2>2, <4>1 DEF Ahead
      <4>3. Ahead(applied, applied)'
        BY <1>2, <3>1, <4>1, <4>2 DEF Ahead, Succeeds
      <4>. QED  BY <3>2, <3>4, <4>3 DEF DryRunLooks, CallFollows
    <3>. QED  BY <3>3, <3>4
  <2>3. CASE Succeeds(applied + 1)
    <3>1. applied' = applied + 1 /\ call' = call
      BY <1>5, <2>1, <2>3 DEF ApplyFile, Succeeds
    <3>2. CASE call.dry_run
      <4>1. foretold' = Foretold(p) /\ disk' = disk
        BY <1>5, <2>1, <2>3, <3>2 DEF ApplyFile, Succeeds
      <4>2. foretold # Unknown
        BY <4>1 DEF Foretold, Unknown
      <4>3. \A f \in Files : foretold'[f] = IF f = p.file THEN Written(p, disk[f]) ELSE foretold[f]
        BY <1>1, <4>1, <4>2 DEF Foretold, ForetellTypes
      <4>4. Ahead(0, applied)
        BY <1>2, <3>2, <4>2 DEF ForetellInv, DryRunLooks
      <4>5. \A i \in 1..Len(patch) : patch[i].file \in Files
        BY <1>1 DEF ForetellTypes
      <4>6. ASSUME NEW i \in (0 + 1)..applied'
            PROVE  /\ Succeeds(i)'
                   /\ foretold'[patch[i].file] = Written(patch[i], disk[patch[i].file])
        <5>1. CASE i = applied + 1
          BY <1>2, <2>1, <2>3, <4>1, <4>3, <5>1 DEF Succeeds
        <5>2. CASE i # applied + 1
          <6>1. i \in (0 + 1)..applied /\ i \in 1..Len(patch)
            BY <1>2, <3>1, <5>2
          <6>2. patch[i].file # p.file /\ patch[i].file \in Files
            BY <1>2, <2>1, <4>5, <5>2, <6>1 DEF Distinct
          <6>. QED  BY <1>2, <4>1, <4>3, <4>4, <6>1, <6>2 DEF Ahead, Succeeds
        <5>. QED  BY <5>1, <5>2
      <4>7. ASSUME NEW f \in Files, \A i \in (0 + 1)..applied' : patch[i].file # f
            PROVE  foretold'[f] = disk[f]
        <5>1. f # p.file /\ \A i \in (0 + 1)..applied : patch[i].file # f
          BY <1>2, <3>1, <4>7
        <5>. QED  BY <4>3, <4>4, <5>1 DEF Ahead
      <4>8. Ahead(0, applied)'
        BY <1>2, <4>1, <4>6, <4>7 DEF Ahead
      <4>. QED  BY <2>1, <3>1, <3>2, <4>8 DEF DryRunLooks, CallFollows
    <3>3. CASE ~call.dry_run
      <4>1. disk' = [disk EXCEPT ![p.file] = Written(p, @)] /\ foretold' = foretold
        BY <1>5, <2>1, <2>3, <3>3 DEF ApplyFile, Succeeds
      <4>2. \A f \in Files : disk'[f] = IF f = p.file THEN Written(p, disk[f]) ELSE disk[f]
        BY <1>1, <4>1 DEF ForetellTypes
      <4>3. PICK n \in applied..Len(patch) : Ahead(applied, n) /\ StopsAt(n)
        BY <1>2, <2>1, <3>3, <4>1 DEF ForetellInv, CallFollows
      <4>4. n \in (applied + 1)..Len(patch)
        BY <1>2, <2>1, <2>3, <4>3 DEF StopsAt
      <4>5. \A i \in 1..Len(patch) : patch[i].file \in Files
        BY <1>1 DEF ForetellTypes
      <4>6. \A i \in 1..Len(patch) : i > applied + 1 => disk'[patch[i].file] = disk[patch[i].file]
        BY <1>2, <2>1, <4>2, <4>5 DEF Distinct
      <4>7. foretold[p.file] = disk'[p.file]
        BY <1>2, <2>1, <4>2, <4>3, <4>4 DEF Ahead
      <4>8. ASSUME NEW i \in (applied' + 1)..n
            PROVE  /\ Succeeds(i)'
                   /\ foretold[patch[i].file] = Written(patch[i], disk'[patch[i].file])
        <5>1. i \in (applied + 1)..n /\ i \in 1..Len(patch) /\ i > applied + 1
          BY <1>2, <3>1, <4>4
        <5>. QED  BY <1>2, <4>3, <4>6, <5>1 DEF Ahead, Succeeds
      <4>9. ASSUME NEW f \in Files, \A i \in (applied' + 1)..n : patch[i].file # f
            PROVE  foretold[f] = disk'[f]
        <5>1. CASE f = p.file
          BY <4>7, <5>1
        <5>2. CASE f # p.file
          <6>1. \A i \in (applied + 1)..n : patch[i].file # f
            BY <1>2, <3>1, <4>4, <4>9, <5>2
          <6>. QED  BY <4>2, <4>3, <5>2, <6>1 DEF Ahead
        <5>. QED  BY <5>1, <5>2
      <4>10. (Ahead(applied, n))'
        BY <1>2, <4>1, <4>8, <4>9 DEF Ahead
      <4>11. StopsAt(n)'
        BY <1>2, <4>3, <4>4, <4>6 DEF StopsAt, Succeeds
      <4>12. n \in (applied')..Len(patch')
        BY <1>2, <3>1, <4>4
      <4>13. (\E k \in applied..Len(patch) : Ahead(applied, k) /\ StopsAt(k))'
        BY <4>10, <4>11, <4>12
      <4>. QED  BY <2>1, <3>1, <3>3, <4>13 DEF DryRunLooks, CallFollows
    <3>. QED  BY <3>2, <3>3
  <2>. QED  BY <2>2, <2>3
<1>6. CASE Finish
  <2>1. /\ call.state = "running" /\ applied = Len(patch)
        /\ call' = [call EXCEPT !.state = "applied"] /\ UNCHANGED <<disk, applied, foretold>>
    BY <1>6 DEF Finish
  <2>2. call'.state = "applied" /\ call'.dry_run = call.dry_run
    BY <1>1, <2>1 DEF ForetellTypes
  <2>3. DryRunLooks /\ CallFollows
    BY <1>2, <2>1 DEF ForetellInv
  <2>4. Ahead(IF call.dry_run THEN 0 ELSE applied, applied)
    BY <1>1, <1>2, <2>1, <2>3 DEF DryRunLooks, CallFollows, ForetellTypes
  <2>5. (Ahead(IF call.dry_run THEN 0 ELSE applied, applied))'
    BY <1>2, <2>1, <2>2, <2>4 DEF Ahead, Succeeds
  <2>6. StopsAt(applied)'
    BY <1>2, <2>1 DEF StopsAt
  <2>. QED  BY <2>2, <2>5, <2>6 DEF DryRunLooks, CallFollows
<1>7. CASE Overwrite
  BY <1>7 DEF Overwrite
<1>8. CASE UNCHANGED patchVars
  <2>1. DryRunLooks /\ CallFollows
    BY <1>2, <1>8 DEF ForetellInv, patchVars
  <2>. QED  BY <1>8, <2>1 DEF patchVars, DryRunLooks, CallFollows, Ahead, StopsAt, Succeeds
<1>. QED  BY <1>3, <1>4, <1>5, <1>6, <1>7, <1>8 DEF PatchNext

\* Where a diff names no file twice and no other program wrote since, the call leaves the
\* files as the dry run foretold them: each file it changes, and the one at which it fails.
THEOREM DryRunsForetellTheCall == PatchSpec => []DryRunsForetell
<1>1. ForetellInv => DryRunsForetell
  <2> SUFFICES ASSUME ForetellInv, ~call.dry_run, call.state \in {"raised", "applied"}, foretold # Unknown,
                      Len(patch) = 2 => patch[1].file # patch[2].file
               PROVE  disk = foretold
    BY DEF DryRunsForetell
  <2>1. Distinct
    BY DEF Distinct, ForetellInv, ForetellTypes
  <2>2. Ahead(applied, applied) /\ applied \in 0..Len(patch) /\ Len(patch) \in {1, 2}
    BY <2>1 DEF ForetellInv, ForetellTypes, CallFollows
  <2>3. \A f \in Files : foretold[f] = disk[f]
    BY <2>2 DEF Ahead
  <2>. QED  BY <2>3 DEF ForetellInv, ForetellTypes
<1>. QED  BY <1>1, ForetellInit, ForetellInvStep, PTL DEF PatchSpec

-----------------------------------------------------------------------------
(***************************************************************************)
(* A diff makes the file it was made for, for scripts of any length and    *)
(* any context.  The one fact behind it: when apply_hunks has come to a    *)
(* place of the script, its new lines are the new side of the script up to *)
(* there, and source_index is the length of the old side (At).  A line of  *)
(* a hunk takes it to the next place (LineApplied), a hunk over the lines  *)
(* in front of it to the end of the hunk (HunkApplied), because these are  *)
(* kept: they are not shown, and a hunk begins behind the one before it    *)
(* (HunksFollow).                                                          *)
(***************************************************************************)
LEMMA EditAt ==
  ASSUME NEW script \in Seq(Edits), NEW n \in 1..Len(script)
  PROVE  script[n].line \in Lines /\ script[n].op \in {"kept", "removed", "added"}
<1>1. script[n] \in Edits
  BY ElementOfSeq
<1>. QED  BY <1>1 DEF Edits

SidesAre(f, script, other) ==
  /\ f \in [0..Len(script) -> Seq(Lines)]
  /\ f[0] = <<>>
  /\ \A n \in 1..Len(script) :
       f[n] = IF script[n].op = other THEN f[n - 1] ELSE Append(f[n - 1], script[n].line)

LEMMA SidesPass ==
  ASSUME NEW script \in Seq(Edits), NEW other
  PROVE  SidesAre(Sides(script, other), script, other)
<1>. DEFINE N == Len(script)
            Is(x) == x = [n \in 0..N |->
                            IF n = 0 THEN <<>>
                            ELSE IF script[n].op = other THEN x[n - 1]
                            ELSE Append(x[n - 1], script[n].line)]
            lines == CHOOSE x : Is(x)
            All == Seq(Lines)
            step == [n \in 1..N |-> [t \in All |->
                       IF script[n].op = other THEN t ELSE Append(t, script[n].line)]]
<1>1. N \in Nat /\ \A n \in 1..N : script[n].line \in Lines
  BY EditAt
<1>2. Sides(script, other) = lines
  BY DEF Sides
<1>3. step \in [1..N -> [All -> All]]
  <2>1. \A n \in 1..N : \A t \in All : Append(t, script[n].line) \in All
    BY <1>1
  <2>. HIDE DEF All, N
  <2>. QED  BY <2>1
<1>4. <<>> \in All
  OBVIOUS
<1>5. PICK f \in [0..N -> All] : Given(f, N, <<>>, step)
  <2>. HIDE DEF step, N, All
  <2>. QED  BY <1>1, <1>3, <1>4, Recursion
<1>6. ASSUME NEW n \in 0..N
      PROVE  f[n] = IF n = 0 THEN <<>>
                    ELSE IF script[n].op = other THEN f[n - 1]
                    ELSE Append(f[n - 1], script[n].line)
  <2>1. CASE n = 0
    BY <1>5, <2>1 DEF Given
  <2>2. CASE n # 0
    <3>1. n \in 1..N /\ f[n - 1] \in All
      BY <1>1, <2>2
    <3>. HIDE DEF All, N
    <3>2. f[n] = step[n][f[n - 1]]
      BY <1>5, <3>1 DEF Given
    <3>. QED  BY <2>2, <3>1, <3>2
  <2>. QED  BY <2>1, <2>2
<1>7. Is(lines)
  <2>1. f = [n \in 0..N |-> f[n]]
    OBVIOUS
  <2>2. Is(f)
    <3>. HIDE DEF N
    <3>. QED  BY <1>6, <2>1
  <2>. HIDE DEF Is
  <2>. QED  BY <2>2
<1>8. ASSUME NEW n \in 0..N
      PROVE  lines[n] = IF n = 0 THEN <<>>
                        ELSE IF script[n].op = other THEN lines[n - 1]
                        ELSE Append(lines[n - 1], script[n].line)
  <2>. HIDE DEF lines, N
  <2>. QED  BY <1>7
<1>9. lines = [n \in 0..N |-> lines[n]]
  <2>. HIDE DEF lines, N
  <2>. QED  BY <1>7
<1>. HIDE DEF lines
<1>10. \A n \in 0..N : lines[n] \in All
  <2>. DEFINE S == {n \in 0..N : lines[n] \in All}
  <2>1. 0 \in S
    <3>. HIDE DEF All
    <3>. QED  BY <1>1, <1>4, <1>8
  <2>2. ASSUME NEW n \in 1..N, n - 1 \in S PROVE n \in S
    <3>1. n \in 0..N /\ n # 0 /\ lines[n - 1] \in All
      BY <1>1, <2>2
    <3>2. Append(lines[n - 1], script[n].line) \in All
      BY <1>1, <3>1
    <3>. HIDE DEF All, N
    <3>. QED  BY <1>8, <3>1, <3>2
  <2>3. \A n \in 0..N : n \in S
    <3>. HIDE DEF S, N
    <3>. QED  BY <1>1, <2>1, <2>2, Induct
  <2>. QED  BY <2>3
<1>11. /\ lines[0] = <<>>
       /\ \A n \in 1..N : lines[n] = IF script[n].op = other THEN lines[n - 1]
                                     ELSE Append(lines[n - 1], script[n].line)
  <2>1. lines[0] = <<>>
    BY <1>1, <1>8
  <2>2. ASSUME NEW n \in 1..N
        PROVE  lines[n] = IF script[n].op = other THEN lines[n - 1]
                          ELSE Append(lines[n - 1], script[n].line)
    BY <1>1, <1>8, <2>2
  <2>. QED  BY <2>1, <2>2
<1>12. lines \in [0..N -> All]
  <2>. HIDE DEF All, N
  <2>. QED  BY <1>9, <1>10
<1>. QED  BY <1>2, <1>11, <1>12 DEF SidesAre

\* A side only grows.
LEMMA SidesGrow ==
  ASSUME NEW script \in Seq(Edits), NEW other, NEW f, SidesAre(f, script, other),
         NEW m \in 0..Len(script), NEW n \in m..Len(script)
  PROVE  /\ Len(f[m]) <= Len(f[n]) /\ Len(f[m]) \in Nat /\ Len(f[n]) \in Nat
         /\ \A j \in 1..Len(f[m]) : f[n][j] = f[m][j]
<1>. DEFINE N == Len(script)
            Grown(k) == /\ Len(f[m]) <= Len(f[m + k])
                        /\ \A j \in 1..Len(f[m]) : f[m + k][j] = f[m][j]
            S == {k \in 0..(n - m) : Grown(k)}
<1>1. N \in Nat /\ m \in Nat /\ n - m \in Nat /\ n \in 0..N
  OBVIOUS
<1>2. \A k \in 0..N : f[k] \in Seq(Lines) /\ Len(f[k]) \in Nat
  BY DEF SidesAre
<1>3. 0 \in S
  <2>1. m + 0 = m /\ m \in 0..N
    BY <1>1
  <2>2. Len(f[m]) \in Nat
    BY <1>2, <2>1
  <2>3. Grown(0)
    BY <2>1, <2>2
  <2>. HIDE DEF Grown
  <2>. QED  BY <1>1, <2>3
<1>4. ASSUME NEW k \in 1..(n - m), k - 1 \in S PROVE k \in S
  <2>1. m + k \in 1..N /\ m + (k - 1) \in 0..N /\ (m + k) - 1 = m + (k - 1)
    BY <1>1
  <2>2. Grown(k - 1)
    BY <1>4
  <2>3. CASE script[m + k].op = other
    <3>1. f[m + k] = f[m + (k - 1)]
      BY <2>1, <2>3 DEF SidesAre
    <3>2. Grown(k)
      BY <2>2, <3>1
    <3>. HIDE DEF Grown
    <3>. QED  BY <3>2
  <2>4. CASE script[m + k].op # other
    <3>1. f[m + k] = Append(f[m + (k - 1)], script[m + k].line)
      BY <2>1, <2>4 DEF SidesAre
    <3>2. script[m + k].line \in Lines
      BY <2>1, EditAt
    <3>3. /\ Len(f[m + k]) = Len(f[m + (k - 1)]) + 1
          /\ \A j \in 1..Len(f[m + (k - 1)]) : f[m + k][j] = f[m + (k - 1)][j]
      BY <1>2, <2>1, <3>1, <3>2, AppendProperties
    <3>4. Len(f[m]) \in Nat /\ Len(f[m + (k - 1)]) \in Nat
      BY <1>1, <1>2, <2>1
    <3>5. Grown(k)
      <4>1. Len(f[m]) <= Len(f[m + k])
        BY <2>2, <3>3, <3>4
      <4>2. ASSUME NEW j \in 1..Len(f[m]) PROVE f[m + k][j] = f[m][j]
        <5>1. j \in 1..Len(f[m + (k - 1)])
          BY <2>2, <3>4
        <5>. QED  BY <2>2, <3>3, <5>1
      <4>. QED  BY <4>1, <4>2
    <3>. HIDE DEF Grown
    <3>. QED  BY <3>5
  <2>. QED  BY <2>3, <2>4
<1>5. n - m \in S
  <2>. HIDE DEF S
  <2>. QED  BY <1>1, <1>3, <1>4, Induct
<1>6. m + (n - m) = n
  BY <1>1
<1>7. Grown(n - m)
  BY <1>5
<1>. QED  BY <1>1, <1>2, <1>6, <1>7

\* A line of the script that is not added is the next one of the old file.
LEMMA OldLineAt ==
  ASSUME NEW script \in Seq(Edits), NEW f, SidesAre(f, script, "added"),
         NEW n \in 1..Len(script), script[n].op # "added"
  PROVE  /\ f[n - 1] \in Seq(Lines) /\ Len(f[n]) = Len(f[n - 1]) + 1
         /\ Len(f[n - 1]) < Len(f[Len(script)])
         /\ f[Len(script)][Len(f[n - 1]) + 1] = script[n].line
<1>1. /\ n - 1 \in 0..Len(script) /\ n \in 0..Len(script)
      /\ Len(script) \in n..Len(script)
  OBVIOUS
<1>2. f[n] = Append(f[n - 1], script[n].line) /\ f[n - 1] \in Seq(Lines)
  BY <1>1 DEF SidesAre
<1>3. script[n].line \in Lines
  BY EditAt
<1>4. Len(f[n]) = Len(f[n - 1]) + 1 /\ f[n][Len(f[n - 1]) + 1] = script[n].line
  <2>. DEFINE before == f[n - 1]
              line == script[n].line
  <2>1. f[n] = Append(before, line) /\ before \in Seq(Lines) /\ line \in Lines
    BY <1>2, <1>3
  <2>. HIDE DEF before, line
  <2>2. Len(Append(before, line)) = Len(before) + 1 /\ Append(before, line)[Len(before) + 1] = line
    BY <2>1, AppendProperties
  <2>. QED  BY <2>1, <2>2 DEF before, line
<1>5. /\ Len(f[n]) <= Len(f[Len(script)]) /\ Len(f[n]) \in Nat /\ Len(f[Len(script)]) \in Nat
      /\ \A j \in 1..Len(f[n]) : f[Len(script)][j] = f[n][j]
  BY <1>1, SidesGrow
<1>6. Len(f[n - 1]) \in Nat
  BY <1>2
<1>7. Len(f[n - 1]) + 1 \in 1..Len(f[n])
  BY <1>4, <1>5, <1>6
<1>8. f[Len(script)][Len(f[n - 1]) + 1] = script[n].line
  BY <1>4, <1>5, <1>7
<1>9. Len(f[n - 1]) < Len(f[Len(script)])
  BY <1>4, <1>5, <1>6
<1>. QED  BY <1>2, <1>4, <1>8, <1>9

-----------------------------------------------------------------------------
(***************************************************************************)
(* How far apply_hunks is when it has come to a place of the script.       *)
(***************************************************************************)
At(script, n) == [result |-> Sides(script, "removed")[n], source_index |-> Len(Sides(script, "added")[n])]

LEMMA SmallerOf ==
  ASSUME NEW a \in Int, NEW b \in Int, a <= b
  PROVE  Min({a, b}) = a
<1>1. \E x \in {a, b} : \A y \in {a, b} : x <= y
  OBVIOUS
<1>2. Min({a, b}) \in {a, b} /\ \A y \in {a, b} : Min({a, b}) <= y
  BY <1>1 DEF Min
<1>. QED  BY <1>2

LEMMA AtPlace ==
  ASSUME NEW script \in Seq(Edits), NEW n \in 0..Len(script)
  PROVE  /\ At(script, n).result = Sides(script, "removed")[n]
         /\ At(script, n).source_index = Len(Sides(script, "added")[n])
         /\ At(script, n) # Stuck
         /\ Sides(script, "removed")[n] \in Seq(Lines) /\ Sides(script, "added")[n] \in Seq(Lines)
         /\ Len(Sides(script, "added")[n]) \in Nat
<1>1. Sides(script, "removed")[n] \in Seq(Lines) /\ Sides(script, "added")[n] \in Seq(Lines)
  BY SidesPass DEF SidesAre
<1>2. Len(Sides(script, "added")[n]) \in Nat
  BY <1>1
<1>3. /\ At(script, n).result = Sides(script, "removed")[n]
      /\ At(script, n).source_index = Len(Sides(script, "added")[n])
  BY DEF At
<1>4. Stuck.source_index = -1
  BY DEF Stuck
<1>. QED  BY <1>1, <1>2, <1>3, <1>4

\* A line of the script is applied where the lines above it were.
LEMMA LineApplied ==
  ASSUME NEW script \in Seq(Edits), NEW n \in 1..Len(script)
  PROVE  ApplyLine(OldLines(script), At(script, n - 1), script[n]) = At(script, n)
<1>. DEFINE old == Sides(script, "added")
            new == Sides(script, "removed")
            acc == At(script, n - 1)
            op == script[n].op
            line == script[n].line
<1>1. /\ SidesAre(old, script, "added") /\ SidesAre(new, script, "removed")
      /\ n - 1 \in 0..Len(script) /\ OldLines(script) = old[Len(script)]
      /\ op \in {"kept", "removed", "added"}
  BY SidesPass, EditAt DEF OldLines
<1>2. acc.result = new[n - 1] /\ acc.source_index = Len(old[n - 1]) /\ acc # Stuck
  BY <1>1, AtPlace
<1>3. /\ old[n] = IF op = "added" THEN old[n - 1] ELSE Append(old[n - 1], line)
      /\ new[n] = IF op = "removed" THEN new[n - 1] ELSE Append(new[n - 1], line)
  BY <1>1 DEF SidesAre
<1>4. op # "added" => /\ LineIs(OldLines(script), acc.source_index, line)
                  /\ Len(old[n]) = Len(old[n - 1]) + 1
  BY <1>1, <1>2, OldLineAt DEF LineIs
<1>. HIDE DEF old, new, acc
<1>5. ApplyLine(OldLines(script), acc, script[n])
        = [result |-> IF op = "removed" THEN acc.result ELSE Append(acc.result, line),
           source_index |-> IF op = "added" THEN acc.source_index ELSE acc.source_index + 1]
  BY <1>2, <1>4 DEF ApplyLine
<1>6. (IF op = "removed" THEN acc.result ELSE Append(acc.result, line)) = new[n]
  BY <1>2, <1>3
<1>7. (IF op = "added" THEN acc.source_index ELSE acc.source_index + 1) = Len(old[n])
  BY <1>2, <1>3, <1>4
<1>. QED  BY <1>5, <1>6, <1>7 DEF At, old, new, acc

LEMMA AppendToConcat ==
  ASSUME NEW s \in Seq(Lines), NEW t \in Seq(Lines), NEW u \in Lines
  PROVE  Append(s \o t, u) = s \o Append(t, u)
<1>1. s \o t \in Seq(Lines) /\ Append(t, u) \in Seq(Lines)
  BY ConcatProperties, AppendProperties
<1>2. Append(s \o t, u) \in Seq(Lines) /\ s \o Append(t, u) \in Seq(Lines)
  BY <1>1, ConcatProperties, AppendProperties
<1>3. Len(s) \in Nat /\ Len(t) \in Nat
  OBVIOUS
<1>4. /\ Len(Append(s \o t, u)) = Len(s) + Len(t) + 1
      /\ Len(s \o Append(t, u)) = Len(s) + Len(t) + 1
  BY <1>1, <1>3, ConcatProperties, AppendProperties
<1>5. \A i \in 1..(Len(s) + Len(t) + 1) : Append(s \o t, u)[i] = (s \o Append(t, u))[i]
  BY <1>1, <1>3, ConcatProperties, AppendProperties
<1>. QED  BY <1>2, <1>4, <1>5, SeqEqual

\* Where the script changes nothing, the lines of the old file are copied.
LEMMA LinesBetween ==
  ASSUME NEW script \in Seq(Edits), NEW m \in 0..Len(script), NEW n \in m..Len(script),
         \A x \in (m + 1)..n : script[x].op = "kept"
  PROVE  Sides(script, "removed")[n]
           = Sides(script, "removed")[m] \o Slice(OldLines(script), Len(Sides(script, "added")[m]),
                                            Len(Sides(script, "added")[n]))
<1>. DEFINE N == Len(script)
            old == Sides(script, "added")
            new == Sides(script, "removed")
            file == old[N]
            base == Len(old[m])
            Copied(k) == /\ Len(old[m + k]) = base + k
                         /\ new[m + k] = new[m] \o SubSeq(file, base + 1, base + k)
            S == {k \in 0..(n - m) : Copied(k)}
<1>1. /\ SidesAre(old, script, "added") /\ SidesAre(new, script, "removed")
      /\ N \in Nat /\ m \in Nat /\ n \in 0..N /\ n - m \in Nat
  BY SidesPass
<1>2. /\ \A k \in 0..N : /\ old[k] \in Seq(Lines) /\ new[k] \in Seq(Lines)
                         /\ Len(old[k]) \in Nat /\ Len(old[k]) <= Len(file)
      /\ file \in Seq(Lines) /\ Len(file) \in Nat
  <2>1. ASSUME NEW k \in 0..N
        PROVE  old[k] \in Seq(Lines) /\ new[k] \in Seq(Lines) /\ Len(old[k]) \in Nat
    <3>1. old[k] \in Seq(Lines)
      BY <1>1 DEF SidesAre
    <3>2. new[k] \in Seq(Lines)
      BY <1>1 DEF SidesAre
    <3>. HIDE DEF old, new
    <3>. QED  BY <3>1, <3>2
  <2>2. ASSUME NEW k \in 0..N PROVE Len(old[k]) <= Len(file)
    <3>1. N \in k..N
      BY <1>1
    <3>. QED  BY <1>1, <3>1, SidesGrow
  <2>3. N \in 0..N
    BY <1>1
  <2>. HIDE DEF N, old, new
  <2>. QED  BY <2>1, <2>2, <2>3
<1>3. base \in Nat
  BY <1>2
<1>. HIDE DEF base
<1>4. 0 \in S
  <2>1. SubSeq(file, base + 1, base) = <<>>
    BY <1>3, SubSeqEmpty
  <2>2. new[m] \o <<>> = new[m]
    BY <1>2, ConcatEmptySeq
  <2>3. m + 0 = m /\ base + 0 = base
    BY <1>1, <1>3
  <2>. HIDE DEF old, new, file
  <2>4. Copied(0)
    BY <2>1, <2>2, <2>3 DEF base
  <2>. HIDE DEF Copied
  <2>. QED  BY <1>1, <2>4
<1>5. ASSUME NEW k \in 1..(n - m), k - 1 \in S PROVE k \in S
  <2>1. m + k \in 1..N /\ m + (k - 1) \in 0..N /\ (m + k) - 1 = m + (k - 1) /\ m + k \in (m + 1)..n
    BY <1>1
  <2>2. Copied(k - 1)
    BY <1>5
  <2>3. script[m + k].op = "kept"
    BY <2>1
  <2>4. script[m + k].line \in Lines
    BY <2>1, EditAt
  <2>5. /\ Len(old[m + k]) = Len(old[m + (k - 1)]) + 1
        /\ Len(old[m + (k - 1)]) < Len(file)
        /\ file[Len(old[m + (k - 1)]) + 1] = script[m + k].line
    BY <1>1, <2>1, <2>3, OldLineAt
  <2>6. new[m + k] = Append(new[m + (k - 1)], script[m + k].line)
    BY <1>1, <2>1, <2>3 DEF SidesAre
  <2>7. k \in Nat /\ base + 1 \in 1..Len(file) /\ base + k \in (base + 1)..Len(file)
    <3>1. Len(old[m + (k - 1)]) = base + (k - 1)
      BY <2>2
    <3>2. k \in Nat /\ k >= 1
      BY <1>1
    <3>3. base + (k - 1) < Len(file) /\ Len(file) \in Nat
      BY <1>2, <2>5, <3>1
    <3>. DEFINE F == Len(file)
    <3>. HIDE DEF F, S, Copied
    <3>. QED  BY <1>3, <3>2, <3>3 DEF F
  <2>8. file[base + k] = script[m + k].line /\ Len(old[m + k]) = base + k
    <3>1. Len(old[m + (k - 1)]) = base + (k - 1)
      BY <2>2
    <3>2. base + (k - 1) + 1 = base + k
      BY <1>3, <2>7
    <3>. QED  BY <2>5, <3>1, <3>2
  <2>. DEFINE part == SubSeq(file, base + 1, base + (k - 1))
              line == script[m + k].line
  <2>9. SubSeq(file, base + 1, base + k) = part \o <<line>>
    <3>1. (base + k) - 1 = base + (k - 1)
      BY <1>3, <2>7
    <3>. QED  BY <1>2, <2>7, <2>8, <3>1, SubSeqRecursiveSecond
  <2>10. part \in Seq(Lines)
    <3>1. \A j \in (base + 1)..(base + (k - 1)) : file[j] \in Lines
      <4>1. \A j \in (base + 1)..(base + (k - 1)) : j \in 1..Len(file)
        BY <1>2, <1>3, <2>7
      <4>. HIDE DEF file
      <4>. QED  BY <1>2, <4>1, ElementOfSeq
    <3>2. base + 1 \in Int /\ base + (k - 1) \in Int
      BY <1>3, <2>7
    <3>. HIDE DEF file
    <3>. QED  BY <3>1, <3>2, SubSeqProperties
  <2>11. new[m + k] = new[m] \o (part \o <<line>>)
    <3>1. new[m] \in Seq(Lines) /\ line \in Lines
      BY <1>2, <2>4
    <3>2. new[m + (k - 1)] = new[m] \o part
      BY <2>2
    <3>3. new[m + k] = Append(new[m + (k - 1)], line)
      BY <2>6
    <3>4. Append(new[m] \o part, line) = new[m] \o Append(part, line)
      <4>1. \A s, t \in Seq(Lines) : \A u \in Lines : Append(s \o t, u) = s \o Append(t, u)
        BY AppendToConcat
      <4>. HIDE DEF new, part, line
      <4>. QED  BY <2>10, <3>1, <4>1
    <3>. HIDE DEF new, part, line
    <3>5. Append(part, line) = part \o <<line>>
      BY <2>10, <3>1, AppendIsConcat
    <3>. QED  BY <3>2, <3>3, <3>4, <3>5
  <2>12. Copied(k)
    <3>. HIDE DEF old, new, file, part
    <3>. QED  BY <2>8, <2>9, <2>11
  <2>. HIDE DEF Copied
  <2>. QED  BY <2>12
<1>6. n - m \in S
  <2>. HIDE DEF S
  <2>. QED  BY <1>1, <1>4, <1>5, Induct
<1>7. Copied(n - m) /\ m + (n - m) = n
  <2>. HIDE DEF Copied
  <2>. QED  BY <1>1, <1>6
<1>8. Len(old[n]) = base + (n - m) /\ new[n] = new[m] \o SubSeq(file, base + 1, base + (n - m))
  <2>. HIDE DEF old, new, file
  <2>. QED  BY <1>7
<1>9. Min({Len(old[n]), Len(file)}) = Len(old[n])
  <2>1. Len(old[n]) \in Int /\ Len(file) \in Int /\ Len(old[n]) <= Len(file)
    BY <1>1, <1>2
  <2>. HIDE DEF old, file
  <2>. QED  BY <2>1, SmallerOf
<1>. HIDE DEF old, new
<1>. QED  BY <1>8, <1>9 DEF Slice, OldLines, base, old, new

-----------------------------------------------------------------------------
(***************************************************************************)
(* A hunk.                                                                 *)
(***************************************************************************)
Starts(shown) == {i \in shown : i - 1 \notin shown}
LastOf(N, shown, i) == CHOOSE j \in i..N : i..j \subseteq shown /\ j + 1 \notin shown

LEMMA ShownPlaces ==
  ASSUME NEW script \in Seq(Edits), NEW context \in Nat
  PROVE  /\ Shown(script, context) \in SUBSET (1..Len(script))
         /\ \A x \in (1..Len(script)) \ Shown(script, context) : script[x].op = "kept"
<1>1. DOMAIN script = 1..Len(script)
  OBVIOUS
<1>2. \A x \in 1..Len(script) : x - x \in (-context)..context
  OBVIOUS
<1>. QED  BY <1>1, <1>2 DEF Shown

LEMMA HunkEnds ==
  ASSUME NEW N \in Nat, NEW shown \in SUBSET (1..N), NEW i \in Starts(shown)
  PROVE  /\ i \in 1..N /\ LastOf(N, shown, i) \in i..N
         /\ i..LastOf(N, shown, i) \subseteq shown /\ LastOf(N, shown, i) + 1 \notin shown
<1>. DEFINE ends == {j \in i..N : j + 1 \notin shown}
<1>1. i \in 1..N /\ i \in shown
  BY DEF Starts
<1>2. N \in ends /\ ends \in SUBSET Nat
  BY <1>1
<1>3. PICK j \in ends : \A k \in ends : j <= k
  <2>. HIDE DEF ends
  <2>. QED  BY <1>2, Least
<1>4. ASSUME NEW k \in i..j PROVE k \in shown
  <2>1. CASE k = i
    BY <1>1, <2>1
  <2>2. CASE k # i
    <3>1. k - 1 \in i..N /\ k - 1 < j /\ (k - 1) + 1 = k
      BY <1>1, <1>3, <2>2
    <3>2. k - 1 \notin ends
      <4>. HIDE DEF ends
      <4>. QED  BY <1>2, <1>3, <3>1
    <3>. QED  BY <3>1, <3>2
  <2>. QED  BY <2>1, <2>2
<1>5. \E x \in i..N : i..x \subseteq shown /\ x + 1 \notin shown
  BY <1>3, <1>4
<1>. QED  BY <1>1, <1>5 DEF LastOf

\* The number in its header leads apply_hunks to the place the hunk was made for.
LEMMA HunkPlaced ==
  ASSUME NEW script \in Seq(Edits), NEW shown \in SUBSET (1..Len(script)), NEW i \in Starts(shown),
         OnlyAdds(HunkAt(script, shown, i).lines) => HunkAt(script, shown, i).old_start = 0
  PROVE  /\ HunkStart(HunkAt(script, shown, i)) = Len(Sides(script, "added")[i - 1])
         /\ HunkAt(script, shown, i).lines = SubSeq(script, i, LastOf(Len(script), shown, i))
<1>. DEFINE hunk == HunkAt(script, shown, i)
            lines == SubSeq(script, i, LastOf(Len(script), shown, i))
            above == Len(Sides(script, "added")[i - 1])
<1>1. i \in 1..Len(script) /\ i - 1 \in 0..Len(script)
  BY DEF Starts
<1>2. above \in Nat
  BY <1>1, AtPlace
<1>3. hunk = [old_start |-> IF OnlyAdds(lines) THEN above ELSE above + 1, lines |-> lines]
  BY DEF HunkAt, LastOf
<1>4. hunk.lines = lines /\ hunk.old_start = IF OnlyAdds(lines) THEN above ELSE above + 1
  <2>. HIDE DEF hunk, lines, above
  <2>. QED  BY <1>3
<1>5. HunkStart(hunk) = above
  <2>1. OnlyAdds(lines) => hunk.old_start = 0
    BY <1>4
  <2>. HIDE DEF hunk, lines, above
  <2>. QED  BY <1>2, <1>4, <2>1 DEF HunkStart
<1>. QED  BY <1>4, <1>5

\* A hunk is applied where the lines before it, and none behind, are behind apply_hunks.
LEMMA HunkApplied ==
  ASSUME NEW script \in Seq(Edits), NEW shown \in SUBSET (1..Len(script)), NEW i \in Starts(shown),
         OnlyAdds(HunkAt(script, shown, i).lines) => HunkAt(script, shown, i).old_start = 0,
         NEW e \in 0..(i - 1), \A x \in (e + 1)..(i - 1) : script[x].op = "kept"
  PROVE  ApplyHunk(OldLines(script), At(script, e), HunkAt(script, shown, i))
           = At(script, LastOf(Len(script), shown, i))
<1>. DEFINE N == Len(script)
            hunk == HunkAt(script, shown, i)
            last == LastOf(N, shown, i)
            old == OldLines(script)
            acc == At(script, e)
            n == Len(hunk.lines)
            first == [result |-> acc.result \o Slice(old, acc.source_index, HunkStart(hunk)),
                      source_index |-> HunkStart(hunk)]
            Is(x) == x = [k \in 0..n |-> IF k = 0 THEN first
                                         ELSE ApplyLine(old, x[k - 1], hunk.lines[k])]
            after == CHOOSE x : Is(x)
            known == [k \in 0..n |-> At(script, (i - 1) + k)]
<1>1. N \in Nat /\ i \in 1..N /\ last \in i..N
  BY HunkEnds
<1>2. HunkStart(hunk) = Len(Sides(script, "added")[i - 1]) /\ hunk.lines = SubSeq(script, i, last)
  BY HunkPlaced
<1>3. /\ n = last - i + 1 /\ n \in Nat
      /\ \A k \in 1..n : hunk.lines[k] = script[(i - 1) + k] /\ (i - 1) + k \in 1..N
  <2>1. \A k \in i..last : script[k] \in Edits
    <3>1. \A k \in i..last : k \in 1..N
      BY <1>1
    <3>. QED  BY <3>1, ElementOfSeq
  <2>2. i \in Int /\ last \in Int /\ i <= last
    BY <1>1
  <2>. HIDE DEF last, hunk
  <2>3. /\ Len(SubSeq(script, i, last)) = last - i + 1
        /\ \A k \in 1..(last - i + 1) : SubSeq(script, i, last)[k] = script[i + k - 1]
    BY <2>1, <2>2, SubSeqProperties
  <2>4. \A k \in 1..(last - i + 1) : i + k - 1 = (i - 1) + k /\ (i - 1) + k \in 1..N
    BY <1>1
  <2>. QED  BY <1>1, <1>2, <2>2, <2>3, <2>4
<1>4. e \in 0..N /\ i - 1 \in e..N /\ i - 1 \in 0..N
  BY <1>1
<1>5. /\ acc # Stuck /\ acc.result = Sides(script, "removed")[e]
      /\ acc.source_index = Len(Sides(script, "added")[e])
  BY <1>4, AtPlace
<1>6. ~(HunkStart(hunk) < acc.source_index)
  <2>1. /\ Len(Sides(script, "added")[e]) <= Len(Sides(script, "added")[i - 1])
        /\ Len(Sides(script, "added")[e]) \in Nat /\ Len(Sides(script, "added")[i - 1]) \in Nat
    BY <1>4, SidesPass, SidesGrow
  <2>. HIDE DEF hunk, acc
  <2>. QED  BY <1>2, <1>5, <2>1
<1>7. first = At(script, i - 1)
  <2>1. Sides(script, "removed")[i - 1]
          = acc.result \o Slice(old, acc.source_index, HunkStart(hunk))
    <3>. HIDE DEF hunk, acc
    <3>. QED  BY <1>2, <1>4, <1>5, LinesBetween
  <2>. HIDE DEF hunk, acc, old
  <2>. QED  BY <1>2, <2>1 DEF At
<1>8. ASSUME NEW k \in 0..n
      PROVE  known[k] = IF k = 0 THEN first ELSE ApplyLine(old, known[k - 1], hunk.lines[k])
  <2>1. CASE k = 0
    <3>1. known[0] = At(script, i - 1)
      <4>1. (i - 1) + 0 = i - 1 /\ 0 \in 0..n
        BY <1>1, <1>3
      <4>. HIDE DEF n
      <4>. QED  BY <4>1
    <3>. HIDE DEF first, known
    <3>. QED  BY <1>7, <2>1, <3>1
  <2>2. CASE k # 0
    <3>1. /\ k \in 1..n /\ k - 1 \in 0..n
          /\ (i - 1) + k \in 1..N /\ ((i - 1) + k) - 1 = (i - 1) + (k - 1)
      <4>. HIDE DEF n
      <4>. QED  BY <1>1, <1>3, <2>2
    <3>2. known[k] = At(script, (i - 1) + k) /\ known[k - 1] = At(script, (i - 1) + (k - 1))
      <4>. HIDE DEF n
      <4>. QED  BY <3>1
    <3>3. hunk.lines[k] = script[(i - 1) + k]
      BY <1>3, <3>1
    <3>4. ApplyLine(old, At(script, ((i - 1) + k) - 1), script[(i - 1) + k]) = At(script, (i - 1) + k)
      BY <3>1, LineApplied
    <3>. HIDE DEF known, old, hunk, first
    <3>. QED  BY <2>2, <3>1, <3>2, <3>3, <3>4
  <2>. QED  BY <2>1, <2>2
<1>9. Is(after)
  <2>1. known = [k \in 0..n |-> known[k]]
    <3>. HIDE DEF n
    <3>. QED  OBVIOUS
  <2>2. Is(known)
    <3>. HIDE DEF known, n, first, old, hunk
    <3>. QED  BY <1>8, <2>1
  <2>. HIDE DEF Is
  <2>. QED  BY <2>2
<1>10. \A k \in 0..n : after[k] = IF k = 0 THEN first ELSE ApplyLine(old, after[k - 1], hunk.lines[k])
  <2>. HIDE DEF after, n, first, old, hunk
  <2>. QED  BY <1>9
<1>11. ApplyHunk(old, acc, hunk) = after[n]
  <2>. HIDE DEF old, acc, hunk
  <2>. QED  BY <1>5, <1>6 DEF ApplyHunk
<1>. HIDE DEF after, known, n, first, old, hunk, acc
<1>12. after[n] = known[n]
  <2>. DEFINE S == {k \in 0..n : after[k] = known[k]}
  <2>1. 0 \in S
    BY <1>3, <1>8, <1>10
  <2>2. ASSUME NEW k \in 1..n, k - 1 \in S PROVE k \in S
    <3>1. k \in 0..n /\ k # 0 /\ after[k - 1] = known[k - 1]
      BY <1>3, <2>2
    <3>. QED  BY <1>8, <1>10, <3>1
  <2>3. n \in S
    <3>. HIDE DEF S
    <3>. QED  BY <1>3, <2>1, <2>2, Induct
  <2>. QED  BY <2>3
<1>13. known[n] = At(script, last)
  <2>1. n \in 0..n /\ (i - 1) + n = last
    BY <1>1, <1>3
  <2>2. known[n] = At(script, (i - 1) + n)
    BY <2>1 DEF known
  <2>. QED  BY <2>1, <2>2
<1>. QED  BY <1>11, <1>12, <1>13 DEF old, acc, hunk

-----------------------------------------------------------------------------
(***************************************************************************)
(* The hunks of a diff, one after the other.                               *)
(***************************************************************************)
Ascending(q, numbers) ==
  /\ q \in Seq(Nat)
  /\ \A k \in 1..Len(q) : q[k] \in numbers
  /\ \A j, k \in 1..Len(q) : j < k => q[j] < q[k]

LEMMA InOrderAscends ==
  ASSUME NEW N \in Nat, NEW numbers \in SUBSET (1..N)
  PROVE  /\ Ascending(InOrder(numbers, N), numbers)
         /\ \A x \in numbers : \E k \in 1..Len(InOrder(numbers, N)) : InOrder(numbers, N)[k] = x
<1>. DEFINE Is(f) == f = [n \in 0..N |->
                            IF n = 0 THEN <<>>
                            ELSE IF n \in numbers THEN Append(f[n - 1], n) ELSE f[n - 1]]
            upto == CHOOSE f : Is(f)
            All == Seq(Nat)
            step == [n \in 1..N |-> [t \in All |-> IF n \in numbers THEN Append(t, n) ELSE t]]
            Good(n) == /\ Ascending(upto[n], {x \in numbers : x <= n})
                       /\ \A x \in numbers : x <= n => \E k \in 1..Len(upto[n]) : upto[n][k] = x
            S == {n \in 0..N : Good(n)}
<1>1. InOrder(numbers, N) = upto[N]
  BY DEF InOrder
<1>2. PICK f \in [0..N -> All] : Given(f, N, <<>>, step)
  <2>1. step \in [1..N -> [All -> All]] /\ <<>> \in All
    OBVIOUS
  <2>. HIDE DEF step, All
  <2>. QED  BY <2>1, Recursion
<1>3. ASSUME NEW n \in 0..N
      PROVE  f[n] = IF n = 0 THEN <<>>
                    ELSE IF n \in numbers THEN Append(f[n - 1], n) ELSE f[n - 1]
  <2>1. CASE n = 0
    BY <1>2, <2>1 DEF Given
  <2>2. CASE n # 0
    <3>1. n \in 1..N /\ f[n - 1] \in All
      BY <2>2
    <3>. HIDE DEF All
    <3>2. f[n] = step[n][f[n - 1]]
      BY <1>2, <3>1 DEF Given
    <3>. QED  BY <2>2, <3>1, <3>2
  <2>. QED  BY <2>1, <2>2
<1>4. Is(upto)
  <2>1. f = [n \in 0..N |-> f[n]]
    OBVIOUS
  <2>2. Is(f)
    BY <1>3, <2>1
  <2>. HIDE DEF Is
  <2>. QED  BY <2>2
<1>5. \A n \in 0..N : upto[n] = IF n = 0 THEN <<>>
                                ELSE IF n \in numbers THEN Append(upto[n - 1], n) ELSE upto[n - 1]
  <2>. HIDE DEF upto
  <2>. QED  BY <1>4
<1>. HIDE DEF upto
<1>6. 0 \in S
  <2>1. upto[0] = <<>>
    BY <1>5
  <2>2. Len(<<>>) = 0 /\ <<>> \in Seq(Nat)
    OBVIOUS
  <2>3. Good(0)
    BY <2>1, <2>2 DEF Ascending
  <2>. HIDE DEF Good
  <2>. QED  BY <2>3
<1>7. ASSUME NEW n \in 1..N, n - 1 \in S PROVE n \in S
  <2>1. Good(n - 1) /\ n \in 0..N /\ n \in Nat
    BY <1>7
  <2>2. /\ upto[n - 1] \in Seq(Nat) /\ Len(upto[n - 1]) \in Nat
        /\ \A k \in 1..Len(upto[n - 1]) : upto[n - 1][k] \in numbers /\ upto[n - 1][k] <= n - 1
    <3>. DEFINE before == upto[n - 1]
                below == {x \in numbers : x <= n - 1}
    <3>1. before \in Seq(Nat) /\ \A k \in 1..Len(before) : before[k] \in below
      BY <2>1 DEF Ascending
    <3>2. \A x \in below : x \in numbers /\ x <= n - 1
      OBVIOUS
    <3>. HIDE DEF before, below
    <3>3. Len(before) \in Nat
      BY <3>1
    <3>. QED  BY <3>1, <3>2, <3>3 DEF before
  <2>3. CASE n \in numbers
    <3>. DEFINE q == upto[n - 1]
                L == Len(q)
    <3>0. n # 0 /\ L \in Nat /\ q \in Seq(Nat)
      BY <2>2
    <3>1. upto[n] = Append(q, n)
      <4>. HIDE DEF S
      <4>. QED  BY <1>5, <2>1, <2>3, <3>0
    <3>. HIDE DEF S, Good, All, Is, step
    <3>2. /\ Append(q, n) \in Seq(Nat) /\ Len(Append(q, n)) = L + 1
          /\ \A k \in 1..L : Append(q, n)[k] = q[k]
          /\ Append(q, n)[L + 1] = n
      <4>. HIDE DEF q
      <4>. QED  BY <2>1, <3>0, AppendProperties
    <3>3. \A k \in 1..(L + 1) : k = L + 1 \/ k \in 1..L
      <4>. HIDE DEF L
      <4>. QED  BY <3>0
    <3>4. ASSUME NEW k \in 1..(L + 1)
          PROVE  Append(q, n)[k] \in {x \in numbers : x <= n}
      <4>1. CASE k = L + 1
        <5>1. Append(q, n)[k] = n
          BY <3>2, <4>1
        <5>. HIDE DEF q
        <5>. QED  BY <2>1, <2>3, <5>1
      <4>2. CASE k \in 1..L
        <5>1. q[k] \in numbers /\ q[k] <= n - 1
          BY <2>2, <4>2
        <5>2. Append(q, n)[k] = q[k]
          BY <3>2, <4>2
        <5>3. q[k] \in 1..N
          BY <5>1
        <5>. HIDE DEF q
        <5>. QED  BY <2>1, <5>1, <5>2, <5>3
      <4>. QED  BY <3>3, <4>1, <4>2
    <3>5. ASSUME NEW j \in 1..(L + 1), NEW k \in 1..(L + 1), j < k
          PROVE  Append(q, n)[j] < Append(q, n)[k]
      <4>1. j \in 1..L
        <5>. HIDE DEF L
        <5>. QED  BY <3>0, <3>5
      <4>2. CASE k = L + 1
        <5>1. q[j] \in numbers /\ q[j] <= n - 1
          BY <2>2, <4>1
        <5>2. Append(q, n)[j] = q[j] /\ Append(q, n)[k] = n
          BY <3>2, <4>1, <4>2
        <5>3. q[j] \in 1..N
          BY <5>1
        <5>. HIDE DEF q
        <5>. QED  BY <2>1, <5>1, <5>2, <5>3
      <4>3. CASE k \in 1..L
        <5>1. q[j] < q[k]
          BY <2>1, <3>5, <4>1, <4>3 DEF Ascending, Good
        <5>. QED  BY <3>2, <4>1, <4>3, <5>1
      <4>. QED  BY <3>3, <4>2, <4>3
    <3>6. ASSUME NEW x \in numbers, x <= n PROVE \E k \in 1..(L + 1) : Append(q, n)[k] = x
      <4>1. CASE x = n
        <5>1. L + 1 \in 1..(L + 1)
          <6>. HIDE DEF L
          <6>. QED  BY <3>0
        <5>. QED  BY <3>2, <4>1, <5>1
      <4>2. CASE x # n
        <5>1. x <= n - 1
          BY <3>6, <4>2
        <5>2. PICK k \in 1..L : q[k] = x
          BY <2>1, <5>1 DEF Good
        <5>3. k \in 1..(L + 1)
          <6>. HIDE DEF L
          <6>. QED  BY <3>0
        <5>. QED  BY <3>2, <5>2, <5>3
      <4>. QED  BY <4>1, <4>2
    <3>7. Good(n)
      <4>. HIDE DEF q, L
      <4>. QED  BY <3>1, <3>2, <3>4, <3>5, <3>6 DEF Ascending, Good
    <3>. QED  BY <2>1, <3>7 DEF S
  <2>4. CASE n \notin numbers
    <3>1. upto[n] = upto[n - 1]
      <4>1. n # 0
        OBVIOUS
      <4>. HIDE DEF S, Good
      <4>. QED  BY <1>5, <2>1, <2>4, <4>1
    <3>2. \A x \in numbers : x <= n - 1 <=> x <= n
      BY <2>4
    <3>3. {x \in numbers : x <= n - 1} = {x \in numbers : x <= n}
      BY <3>2
    <3>4. Good(n)
      BY <2>1, <3>1, <3>2, <3>3
    <3>. HIDE DEF Good
    <3>. QED  BY <2>1, <3>4
  <2>. QED  BY <2>3, <2>4
<1>8. Good(N)
  <2>1. N \in S
    <3>. HIDE DEF S
    <3>. QED  BY <1>6, <1>7, Induct
  <2>. QED  BY <2>1
<1>9. {x \in numbers : x <= N} = numbers /\ \A x \in numbers : x <= N
  <2>1. \A x \in numbers : x <= N
    <3>1. \A x \in numbers : x \in 1..N
      OBVIOUS
    <3>. QED  BY <3>1
  <2>. QED  BY <2>1
<1>. QED  BY <1>1, <1>8, <1>9

\* Behind the end of a hunk, what is shown begins with the start of another.
LEMMA NextStart ==
  ASSUME NEW N \in Nat, NEW shown \in SUBSET (1..N), NEW e \in 0..N, e = 0 \/ e + 1 \notin shown,
         NEW x \in shown, e < x
  PROVE  \E s \in Starts(shown) : e < s /\ s <= x
<1>. DEFINE behind == {y \in shown : e < y}
<1>1. PICK s \in behind : \A y \in behind : s <= y
  <2>1. behind \in SUBSET Nat
    <3>1. \A y \in shown : y \in Nat
      OBVIOUS
    <3>2. \A y \in behind : y \in Nat
      BY <3>1
    <3>. HIDE DEF behind
    <3>. QED  BY <3>2
  <2>2. x \in behind
    OBVIOUS
  <2>. HIDE DEF behind
  <2>. QED  BY <2>1, <2>2, Least
<1>2. s - 1 \notin shown
  <2>1. CASE s - 1 = e
    BY <2>1
  <2>2. CASE s - 1 # e
    <3>1. ~(s <= s - 1) /\ e < s - 1
      BY <2>2
    <3>. QED  BY <1>1, <3>1
  <2>. QED  BY <2>1, <2>2
<1>3. s <= x
  BY <1>1
<1>. QED  BY <1>2, <1>3 DEF Starts

\* Where apply_hunks is in the script after k hunks.
EndOf(N, shown, q, k) == IF k = 0 THEN 0 ELSE LastOf(N, shown, q[k])

\* Every hunk begins behind the one before it, and between them nothing is shown.
Follows(N, shown, q, k) ==
  /\ EndOf(N, shown, q, k) \in 0..N
  /\ k > 0 => q[k] \in Starts(shown) /\ q[k] <= EndOf(N, shown, q, k)
  /\ k < Len(q) => EndOf(N, shown, q, k) < q[k + 1]
  /\ \A x \in shown : ~(EndOf(N, shown, q, k) < x /\ (k < Len(q) => x < q[k + 1]))

LEMMA HunksFollow ==
  ASSUME NEW N \in Nat, NEW shown \in SUBSET (1..N), NEW q, q = InOrder(Starts(shown), N)
  PROVE  /\ q \in Seq(Nat) /\ Len(q) \in Nat
         /\ \A k \in 0..Len(q) : Follows(N, shown, q, k)
<1>1. /\ Ascending(q, Starts(shown))
      /\ \A x \in Starts(shown) : \E k \in 1..Len(q) : q[k] = x
  <2>1. Starts(shown) \in SUBSET (1..N)
    BY DEF Starts
  <2>. QED  BY <2>1, InOrderAscends
<1>2. /\ q \in Seq(Nat) /\ Len(q) \in Nat
      /\ \A k \in 1..Len(q) : q[k] \in Starts(shown) /\ q[k] \in 1..N
  <2>1. q \in Seq(Nat)
    BY <1>1 DEF Ascending
  <2>2. Len(q) \in Nat
    BY <2>1
  <2>3. \A k \in 1..Len(q) : q[k] \in Starts(shown)
    BY <1>1 DEF Ascending
  <2>4. \A i \in Starts(shown) : i \in 1..N
    BY DEF Starts
  <2>. QED  BY <2>1, <2>2, <2>3, <2>4
<1>3. ASSUME NEW k \in 0..Len(q)
      PROVE  /\ EndOf(N, shown, q, k) \in 0..N
             /\ k = 0 => EndOf(N, shown, q, k) = 0
             /\ k > 0 => /\ q[k] \in Starts(shown) /\ q[k] <= EndOf(N, shown, q, k)
                         /\ q[k]..EndOf(N, shown, q, k) \subseteq shown
                         /\ EndOf(N, shown, q, k) + 1 \notin shown
  <2>1. CASE k = 0
    BY <1>2, <2>1 DEF EndOf
  <2>2. CASE k # 0
    <3>1. k \in 1..Len(q) /\ EndOf(N, shown, q, k) = LastOf(N, shown, q[k])
      BY <1>2, <2>2 DEF EndOf
    <3>2. q[k] \in Starts(shown) /\ q[k] \in 1..N
      BY <1>2, <3>1
    <3>3. /\ LastOf(N, shown, q[k]) \in q[k]..N
          /\ q[k]..LastOf(N, shown, q[k]) \subseteq shown /\ LastOf(N, shown, q[k]) + 1 \notin shown
      BY <3>2, HunkEnds
    <3>. QED  BY <2>2, <3>1, <3>2, <3>3
  <2>. QED  BY <2>1, <2>2
<1>4. ASSUME NEW k \in 0..Len(q), k < Len(q) PROVE EndOf(N, shown, q, k) < q[k + 1]
  <2>. DEFINE e == EndOf(N, shown, q, k)
  <2>1. k + 1 \in 1..Len(q)
    BY <1>2, <1>4
  <2>2. q[k + 1] \in 1..N /\ q[k + 1] - 1 \notin shown
    BY <1>2, <2>1 DEF Starts
  <2>3. CASE k = 0
    BY <1>3, <2>2, <2>3
  <2>4. CASE k > 0
    <3>1. k \in 1..Len(q) /\ q[k] < q[k + 1] /\ q[k] \in 1..N
      BY <1>1, <1>2, <2>1, <2>4 DEF Ascending
    <3>2. q[k]..e \subseteq shown /\ e \in 0..N
      BY <1>3, <2>4
    <3>. HIDE DEF e
    <3>3. ~(q[k + 1] <= e)
      BY <2>2, <3>1, <3>2
    <3>. QED  BY <2>2, <3>2, <3>3 DEF e
  <2>. QED  BY <2>3, <2>4
<1>5. ASSUME NEW k \in 0..Len(q), NEW x \in shown,
             EndOf(N, shown, q, k) < x, k < Len(q) => x < q[k + 1]
      PROVE  FALSE
  <2>1. PICK s \in Starts(shown) : EndOf(N, shown, q, k) < s /\ s <= x
    <3>. DEFINE e == EndOf(N, shown, q, k)
    <3>1. e \in 0..N /\ (e = 0 \/ e + 1 \notin shown) /\ e < x
      BY <1>3, <1>5
    <3>. HIDE DEF e
    <3>2. \E s \in Starts(shown) : e < s /\ s <= x
      BY <3>1, NextStart
    <3>. QED  BY <3>2 DEF e
  <2>2. PICK j \in 1..Len(q) : q[j] = s
    BY <1>1
  <2>3. ~(j <= k)
    <3>1. SUFFICES ASSUME j <= k PROVE FALSE
      OBVIOUS
    <3>2. k > 0 /\ k \in 1..Len(q)
      BY <1>2, <3>1
    <3>3. q[k] <= EndOf(N, shown, q, k) /\ q[j] \in 1..N /\ q[k] \in 1..N
      BY <1>2, <1>3, <3>2
    <3>4. j = k \/ q[j] < q[k]
      BY <1>1, <1>2, <3>1, <3>2 DEF Ascending
    <3>5. EndOf(N, shown, q, k) \in 0..N
      BY <1>3
    <3>. QED  BY <2>1, <2>2, <3>3, <3>4, <3>5
  <2>4. k < Len(q) /\ k + 1 \in 1..Len(q) /\ k + 1 <= j
    BY <1>2, <2>3
  <2>5. k + 1 = j \/ q[k + 1] < q[j]
    BY <1>1, <1>2, <2>4 DEF Ascending
  <2>6. x \in 1..N /\ q[j] \in 1..N /\ q[k + 1] \in 1..N
    BY <1>2, <2>4
  <2>. QED  BY <1>5, <2>1, <2>2, <2>4, <2>5, <2>6
<1>. QED  BY <1>2, <1>3, <1>4, <1>5 DEF Follows

LEMMA LenOf ==
  ASSUME NEW K \in Nat, NEW f, NEW S, f \in [1..K -> S]
  PROVE  Len(f) = K
<1>1. f \in Seq(S)
  BY SeqDef
<1>2. Len(f) \in Nat /\ DOMAIN f = 1..Len(f)
  BY <1>1, LenProperties
<1>3. 1..Len(f) = 1..K
  BY <1>2
<1>. QED  BY <1>2, <1>3

\* The hunks of a diff are applied one after the other, and what is behind the last is copied.
LEMMA HunksApplied ==
  ASSUME NEW script \in Seq(Edits), NEW context \in Nat,
         \A k \in DOMAIN Hunks(script, context) :
           OnlyAdds(Hunks(script, context)[k].lines) => Hunks(script, context)[k].old_start = 0
  PROVE  ApplyHunks(OldLines(script), Hunks(script, context)) = NewLines(script)
<1>. DEFINE N == Len(script)
            shown == Shown(script, context)
            q == InOrder(Starts(shown), N)
            K == Len(q)
            hunks == Hunks(script, context)
            old == OldLines(script)
            End(k) == EndOf(N, shown, q, k)
            first == [result |-> <<>>, source_index |-> 0]
            Is(x) == x = [k \in 0..Len(hunks) |-> IF k = 0 THEN first
                                                  ELSE ApplyHunk(old, x[k - 1], hunks[k])]
            after == CHOOSE x : Is(x)
            known == [k \in 0..K |-> At(script, End(k))]
<1>1. /\ N \in Nat /\ shown \in SUBSET (1..N)
      /\ \A x \in (1..N) \ shown : script[x].op = "kept"
  BY ShownPlaces
<1>. HIDE DEF shown
<1>2. /\ q \in Seq(Nat) /\ K \in Nat
      /\ \A k \in 0..K : Follows(N, shown, q, k)
  <2>. HIDE DEF N
  <2>. QED  BY <1>1, HunksFollow
<1>3. /\ \A k \in 1..K : hunks[k] = HunkAt(script, shown, q[k])
      /\ DOMAIN hunks = 1..K /\ Len(hunks) = K
  <2>1. DOMAIN q = 1..K
    BY <1>2
  <2>2. hunks = [k \in DOMAIN q |-> HunkAt(script, shown, q[k])]
    BY DEF Hunks, Starts, shown
  <2>. HIDE DEF hunks, q, N, K
  <2>3. hunks = [k \in 1..K |-> HunkAt(script, shown, q[k])]
    BY <2>1, <2>2
  <2>4. hunks \in [1..K -> {hunks[k] : k \in 1..K}]
    BY <2>3
  <2>5. Len(hunks) = K
    BY <1>2, <2>4, LenOf
  <2>. QED  BY <2>3, <2>5
<1>4. ASSUME NEW k \in 1..K
      PROVE  ApplyHunk(old, At(script, End(k - 1)), hunks[k]) = At(script, End(k))
  <2>1. k - 1 \in 0..K /\ k \in 0..K /\ k > 0 /\ k - 1 < K /\ (k - 1) + 1 = k
    <3>. HIDE DEF K
    <3>. QED  BY <1>2
  <2>2. /\ End(k - 1) \in 0..N /\ End(k - 1) < q[k] /\ q[k] \in Starts(shown)
        /\ \A x \in shown : ~(End(k - 1) < x /\ x < q[k])
    <3>. HIDE DEF N, q
    <3>1. Follows(N, shown, q, k) /\ Follows(N, shown, q, k - 1)
      BY <1>2, <2>1
    <3>. HIDE DEF K
    <3>2. q[k] \in Starts(shown)
      BY <2>1, <3>1 DEF Follows
    <3>3. /\ End(k - 1) \in 0..N /\ End(k - 1) < q[(k - 1) + 1]
          /\ \A x \in shown : ~(End(k - 1) < x /\ x < q[(k - 1) + 1])
      BY <2>1, <3>1 DEF Follows, K
    <3>. QED  BY <2>1, <3>2, <3>3
  <2>3. q[k] \in 1..N
    BY <1>1, <2>2 DEF Starts
  <2>. DEFINE e == End(k - 1)
              i == q[k]
  <2>4. e \in 0..(i - 1)
    <3>. HIDE DEF End, N, q
    <3>. QED  BY <1>1, <2>2, <2>3
  <2>5. ASSUME NEW x \in (e + 1)..(i - 1) PROVE script[x].op = "kept"
    <3>1. x \in 1..N /\ e < x /\ x < i
      <4>. HIDE DEF End, N, q
      <4>. QED  BY <1>1, <2>2, <2>3
    <3>2. x \notin shown
      BY <2>2, <3>1
    <3>. QED  BY <1>1, <3>1, <3>2
  <2>6. hunks[k] = HunkAt(script, shown, i)
    BY <1>3
  <2>7. OnlyAdds(HunkAt(script, shown, i).lines) => HunkAt(script, shown, i).old_start = 0
    BY <1>3, <2>6
  <2>8. End(k) = LastOf(N, shown, i)
    BY <2>1 DEF EndOf
  <2>9. i \in Starts(shown)
    BY <2>2
  <2>. HIDE DEF e, i
  <2>10. ApplyHunk(OldLines(script), At(script, e), HunkAt(script, shown, i))
           = At(script, LastOf(Len(script), shown, i))
    BY <1>1, <2>4, <2>5, <2>7, <2>9, HunkApplied
  <2>. HIDE DEF hunks
  <2>. QED  BY <2>6, <2>8, <2>10 DEF e
<1>. HIDE DEF hunks, q, N, K, old, End
<1>5. At(script, 0) = first
  <2>1. Sides(script, "added")[0] = <<>> /\ Sides(script, "removed")[0] = <<>>
    BY SidesPass DEF SidesAre
  <2>2. Len(<<>>) = 0
    OBVIOUS
  <2>. QED  BY <2>1, <2>2 DEF At
<1>6. End(0) = 0
  BY DEF End, EndOf
<1>7. ASSUME NEW k \in 0..K
      PROVE  known[k] = IF k = 0 THEN first ELSE ApplyHunk(old, known[k - 1], hunks[k])
  <2>1. CASE k = 0
    BY <1>5, <1>6, <2>1
  <2>2. CASE k # 0
    <3>1. k \in 1..K /\ k - 1 \in 0..K
      BY <1>2, <2>2
    <3>2. known[k] = At(script, End(k)) /\ known[k - 1] = At(script, End(k - 1))
      BY <3>1
    <3>. HIDE DEF known, first
    <3>. QED  BY <1>4, <2>2, <3>1, <3>2
  <2>. QED  BY <2>1, <2>2
<1>8. Is(after)
  <2>1. known = [k \in 0..K |-> known[k]]
    OBVIOUS
  <2>2. Is(known)
    <3>. HIDE DEF known, first
    <3>. QED  BY <1>3, <1>7, <2>1
  <2>. HIDE DEF Is
  <2>. QED  BY <2>2
<1>9. \A k \in 0..K : after[k] = IF k = 0 THEN first ELSE ApplyHunk(old, after[k - 1], hunks[k])
  <2>. HIDE DEF after, first
  <2>. QED  BY <1>3, <1>8
<1>10. ApplyHunks(old, hunks)
         = IF after[Len(hunks)] = Stuck THEN Failed
           ELSE after[Len(hunks)].result \o Slice(old, after[Len(hunks)].source_index, Len(old))
  BY DEF ApplyHunks
<1>. HIDE DEF after, known, first
<1>11. after[K] = known[K]
  <2>. DEFINE S == {k \in 0..K : after[k] = known[k]}
  <2>1. 0 \in S
    BY <1>2, <1>7, <1>9
  <2>2. ASSUME NEW k \in 1..K, k - 1 \in S PROVE k \in S
    <3>1. k \in 0..K /\ k # 0 /\ after[k - 1] = known[k - 1]
      BY <1>2, <2>2
    <3>. QED  BY <1>7, <1>9, <3>1
  <2>3. K \in S
    <3>. HIDE DEF S
    <3>. QED  BY <1>2, <2>1, <2>2, Induct
  <2>. QED  BY <2>3
<1>. DEFINE e == End(K)
<1>12. /\ after[K] = At(script, e) /\ e \in 0..N
       /\ \A x \in shown : ~(e < x)
  <2>1. K \in 0..K /\ ~(K < K)
    BY <1>2
  <2>2. known[K] = At(script, End(K))
    BY <2>1 DEF known
  <2>3. e \in 0..N /\ \A x \in shown : ~(e < x)
    <3>1. Follows(N, shown, q, K)
      BY <1>2, <2>1
    <3>. QED  BY <2>1, <3>1 DEF Follows, End, K
  <2>. HIDE DEF e
  <2>. QED  BY <1>11, <2>2, <2>3 DEF e
<1>. HIDE DEF e
<1>13. /\ At(script, e) # Stuck /\ At(script, e).result = Sides(script, "removed")[e]
       /\ At(script, e).source_index = Len(Sides(script, "added")[e])
  BY <1>12, AtPlace DEF N
<1>14. Sides(script, "removed")[N]
         = Sides(script, "removed")[e] \o Slice(OldLines(script), Len(Sides(script, "added")[e]),
                                               Len(Sides(script, "added")[N]))
  <2>1. N \in e..N
    BY <1>1, <1>12
  <2>2. \A x \in (e + 1)..N : script[x].op = "kept"
    <3>1. \A x \in (e + 1)..N : x \in 1..N /\ e < x
      BY <1>1, <1>12
    <3>. QED  BY <1>1, <1>12, <3>1
  <2>. QED  BY <1>12, <2>1, <2>2, LinesBetween DEF N
<1>15. Sides(script, "removed")[N] = NewLines(script) /\ Sides(script, "added")[N] = old
  BY DEF NewLines, OldLines, N, old
<1>. QED  BY <1>3, <1>10, <1>12, <1>13, <1>14, <1>15 DEF old, hunks

-----------------------------------------------------------------------------
(***************************************************************************)
(* The file patches of a diff.                                             *)
(***************************************************************************)
ScriptsInv == \A i \in DOMAIN patch : patch[i].script \in Seq(Edits) /\ patch[i].context \in Nat

LEMMA FilePatchTypes ==
  ASSUME NEW n \in Nat, NEW p \in FilePatches(n)
  PROVE  p.script \in Seq(Edits) /\ p.context \in Nat
<1>1. PICK f \in Files, s \in Scripts(n), c \in {0, 1}, old \in BOOLEAN, new \in BOOLEAN :
        p = [file |-> f, script |-> s, context |-> c, old_path |-> old, new_path |-> new]
  BY DEF FilePatches
<1>2. s \in SeqOf(Edits, n)
  BY DEF Scripts
<1>3. PICK m \in 0..n : s \in [1..m -> Edits]
  BY <1>2 DEF SeqOf
<1>4. s \in Seq(Edits)
  BY <1>3, SeqDef
<1>. QED  BY <1>1, <1>4

\* Every diff that the tool is given makes, where its hunks are placed by their headers, the
\* file it was made for out of the file it was made of (apply_hunks, however many lines,
\* hunks and files, and for every context that the hunks were cut with).
THEOREM DiffsMakeTheirFiles == PatchSpec => []DiffsMakeTheNewFile
<1>1. PatchInit => ScriptsInv
  <2>1. SUFFICES ASSUME PatchInit PROVE ScriptsInv
    OBVIOUS
  <2>2. CASE \E p \in FilePatches(MaxScript) : WellFormed(p) /\ patch = <<p>>
    <3>1. PICK p \in FilePatches(MaxScript) : patch = <<p>>
      BY <2>2
    <3>2. p.script \in Seq(Edits) /\ p.context \in Nat
      BY ScriptAssumption, FilePatchTypes
    <3>3. DOMAIN patch = {1} /\ patch[1] = p
      BY <3>1
    <3>. QED  BY <3>2, <3>3 DEF ScriptsInv
  <2>3. CASE \E p, q \in FilePatches(MaxPair) : WellFormed(p) /\ WellFormed(q) /\ patch = <<p, q>>
    <3>1. PICK p \in FilePatches(MaxPair), q \in FilePatches(MaxPair) : patch = <<p, q>>
      BY <2>3
    <3>2. /\ p.script \in Seq(Edits) /\ p.context \in Nat
          /\ q.script \in Seq(Edits) /\ q.context \in Nat
      BY ScriptAssumption, FilePatchTypes
    <3>3. DOMAIN patch = {1, 2} /\ patch[1] = p /\ patch[2] = q
      BY <3>1
    <3>. QED  BY <3>2, <3>3 DEF ScriptsInv
  <2>. QED  BY <2>1, <2>2, <2>3 DEF PatchInit
<1>2. ScriptsInv /\ [PatchNext]_patchVars => ScriptsInv'
  <2>1. [PatchNext]_patchVars => patch' = patch
    BY DEF PatchNext, patchVars, Execute, ApplyFile, Finish, Overwrite
  <2>. QED  BY <2>1 DEF ScriptsInv
<1>3. ScriptsInv => DiffsMakeTheNewFile
  <2>1. SUFFICES ASSUME ScriptsInv, NEW i \in DOMAIN patch, Placed(patch[i])
                 PROVE  ApplyHunks(OldLines(patch[i].script),
                                   Hunks(patch[i].script, patch[i].context))
                          = NewLines(patch[i].script)
    BY DEF DiffsMakeTheNewFile
  <2>2. patch[i].script \in Seq(Edits) /\ patch[i].context \in Nat
    BY <2>1 DEF ScriptsInv
  <2>3. \A k \in DOMAIN Hunks(patch[i].script, patch[i].context) :
          OnlyAdds(Hunks(patch[i].script, patch[i].context)[k].lines)
            => Hunks(patch[i].script, patch[i].context)[k].old_start = 0
    BY <2>1 DEF Placed
  <2>. QED  BY <2>2, <2>3, HunksApplied
<1>. QED  BY <1>1, <1>2, <1>3, PTL DEF PatchSpec

=============================================================================
