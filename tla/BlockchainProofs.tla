-------------------------- MODULE BlockchainProofs --------------------------
(***************************************************************************)
(* What holds of the block tree for every set of blocks, every assignment   *)
(* of work and flaws to them, and every depth of pruning.                   *)
(*                                                                         *)
(* The four invariants are proved together: the fork choice is safe only    *)
(* because work is summed along stored parents (Linked), the tip keeps its  *)
(* state only because a block is accepted onto a materialised parent, and   *)
(* a seeded anchor is heaviest only because it extends the tip.             *)
(***************************************************************************)
EXTENDS Blockchain, WellFoundedInduction, TLAPS

(* Induction over the naturals, from the well-foundedness of <. *)

(* A nonempty set of naturals has a least element. *)
LEMMA LeastNat ==
  ASSUME NEW T \in SUBSET Nat, T # {}
  PROVE  \E n \in T : \A m \in T : n <= m
<1>1. \E n \in T : \A m \in T : ~ (<<m, n>> \in OpToRel(<, Nat))
  BY NatLessThanWellFounded, WFMin
<1>2. PICK n \in T : \A m \in T : ~ (<<m, n>> \in OpToRel(<, Nat))
  BY <1>1
<1>3. \A m \in T : <<m, n>> \in OpToRel(<, Nat) <=> m < n
  BY DEF OpToRel
<1>4. \A m \in T : n \in Nat /\ m \in Nat /\ ~(m < n)
  BY <1>2, <1>3
<1>5. \A m \in T : n <= m
  BY <1>4
<1> QED
  BY <1>5

(* Induction over the naturals, for a set in place of a predicate. *)
LEMMA Induct ==
  ASSUME NEW T \in SUBSET Nat, 0 \in T, \A n \in T : n + 1 \in T
  PROVE  T = Nat
<1>1. SUFFICES ASSUME Nat \ T # {} PROVE FALSE
  OBVIOUS
<1>2. PICK n \in Nat \ T : \A m \in Nat \ T : n <= m
  BY <1>1, LeastNat
<1>3. n - 1 \in Nat /\ n - 1 \notin T
  BY <1>2
<1> QED
  BY <1>2, <1>3

(* The functions a recursion from x by step allows up to n. *)
Upto(S, x, step, n) ==
  {f \in [0 .. n -> S] : f[0] = x /\ \A i \in 1 .. n : f[i] = step[<<i, f[i-1]>>]}

(* Two such functions agree where both are defined. *)
LEMMA UptoUnique ==
  ASSUME NEW S, NEW x, NEW step, NEW m \in Nat, NEW n \in Nat,
         NEW f \in Upto(S, x, step, m), NEW g \in Upto(S, x, step, n),
         NEW i \in Nat, i <= m, i <= n
  PROVE  f[i] = g[i]
<1> DEFINE Bad == {j \in Nat : j <= m /\ j <= n /\ f[j] # g[j]}
<1>1. SUFFICES ASSUME Bad # {} PROVE FALSE
  OBVIOUS
<1>2. PICK j \in Bad : \A k \in Bad : j <= k
  BY <1>1, LeastNat
<1>3. j # 0
  BY DEF Upto
<1>4. j - 1 \in Nat /\ j - 1 \notin Bad
  BY <1>2, <1>3
<1>5. f[j-1] = g[j-1]
  BY <1>4
<1>6. f[j] = step[<<j, f[j-1]>>] /\ g[j] = step[<<j, g[j-1]>>]
  BY <1>3 DEF Upto
<1> QED
  BY <1>5, <1>6

(* The functions it allows on all naturals. *)
Recursion(S, x, step) ==
  {f \in [Nat -> S] : f[0] = x /\ \A i \in Nat \ {0} : f[i] = step[<<i, f[i-1]>>]}

(* A recursion over the naturals has a solution. The provers see a recursive
   function as a CHOOSE, which needs one to be known. *)
LEMMA NatRecursion ==
  ASSUME NEW S, NEW x \in S, NEW step \in [Nat \X S -> S]
  PROVE  Recursion(S, x, step) # {}
<1> DEFINE T == {n \in Nat : Upto(S, x, step, n) # {}}
<1>1. 0 \in T
  <2>1. [i \in 0 .. 0 |-> x] \in Upto(S, x, step, 0)
    BY DEF Upto
  <2> QED
    BY <2>1
<1>2. ASSUME NEW n \in T PROVE n + 1 \in T
  <2>1. PICK f : f \in Upto(S, x, step, n)
    OBVIOUS
  <2> DEFINE g == [i \in 0 .. n + 1 |-> IF i <= n THEN f[i] ELSE step[<<n + 1, f[n]>>]]
  <2>2. f \in [0 .. n -> S] /\ f[0] = x /\ \A i \in 1 .. n : f[i] = step[<<i, f[i-1]>>]
    BY <2>1 DEF Upto
  <2>3. g \in [0 .. n + 1 -> S]
    <3>1. f[n] \in S /\ n + 1 \in Nat
      BY <2>2
    <3>2. step[<<n + 1, f[n]>>] \in S
      BY <3>1
    <3>3. \A i \in 0 .. n + 1 : i <= n => f[i] \in S
      BY <2>2
    <3> QED
      BY <3>2, <3>3
  <2>4. g[0] = x
    BY <2>2
  <2>5. ASSUME NEW i \in 1 .. n + 1 PROVE g[i] = step[<<i, g[i-1]>>]
    <3>1. CASE i <= n
      BY <2>2, <3>1
    <3>2. CASE i = n + 1
      <4>1. i - 1 = n /\ n \in 0 .. n + 1 /\ i \in 0 .. n + 1 /\ ~(i <= n)
        BY <3>2
      <4>2. g[i] = step[<<n + 1, f[n]>>] /\ g[n] = f[n]
        BY <4>1
      <4> QED
        BY <3>2, <4>1, <4>2
    <3> QED
      BY <3>1, <3>2
  <2>6. g \in Upto(S, x, step, n + 1)
    BY <2>3, <2>4, <2>5 DEF Upto
  <2> QED
    BY <2>6
<1> HIDE DEF T
<1>3. T = Nat
  BY <1>1, <1>2, Induct DEF T
<1> DEFINE pick(n) == CHOOSE f : f \in Upto(S, x, step, n)
           F == [n \in Nat |-> pick(n)[n]]
<1>4. \A n \in Nat : pick(n) \in Upto(S, x, step, n)
  BY <1>3 DEF T
<1> HIDE DEF pick
<1>5. F \in [Nat -> S] /\ F[0] = x
  BY <1>4 DEF Upto
<1>6. ASSUME NEW i \in Nat \ {0} PROVE F[i] = step[<<i, F[i-1]>>]
  <2>1. pick(i) \in Upto(S, x, step, i) /\ pick(i-1) \in Upto(S, x, step, i-1)
    BY <1>4
  <2>2. pick(i)[i] = step[<<i, pick(i)[i-1]>>]
    BY <2>1 DEF Upto
  <2>3. i - 1 \in Nat /\ i - 1 <= i /\ i - 1 <= i - 1
    OBVIOUS
  <2>4. pick(i)[i-1] = pick(i-1)[i-1]
    BY <2>1, <2>3, UptoUnique
  <2> QED
    BY <2>2, <2>4
<1> QED
  BY <1>5, <1>6 DEF Recursion

-----------------------------------------------------------------------------
(* The walk along prevHash. *)

(* g is the walk from b, one block for each step, resting at genesis. *)
Walks(g, b) ==
  /\ g \in [Nat -> Blocks]
  /\ g[0] = b
  /\ \A i \in Nat \ {0} : g[i] = IF g[i-1] = Genesis THEN Genesis ELSE Parent[g[i-1]]

(* Line visits what the walk visits in as many steps as the height claims. *)
LEMMA LineIsWalk ==
  ASSUME NEW b \in Blocks
  PROVE  \E g : Walks(g, b) /\ Line[b] = {g[i] : i \in 0 .. Height[b]}
<1> DEFINE step == [q \in Nat \X Blocks |-> IF q[2] = Genesis THEN Genesis ELSE Parent[q[2]]]
           Solves(h) == h = [i \in Nat |->
             IF i = 0 THEN b ELSE IF h[i-1] = Genesis THEN Genesis ELSE Parent[h[i-1]]]
           back == CHOOSE h : Solves(h)
<1>1. step \in [Nat \X Blocks -> Blocks]
  BY BlockchainAssumption
<1>2. PICK g \in [Nat -> Blocks] :
        g[0] = b /\ \A i \in Nat \ {0} : g[i] = step[<<i, g[i-1]>>]
  <2> HIDE DEF step
  <2>1. Recursion(Blocks, b, step) # {}
    BY <1>1, NatRecursion
  <2> QED
    BY <2>1 DEF Recursion
<1>3. \A i \in Nat \ {0} : g[i] = IF g[i-1] = Genesis THEN Genesis ELSE Parent[g[i-1]]
  <2>1. \A i \in Nat \ {0} : <<i, g[i-1]>> \in Nat \X Blocks
    BY <1>2
  <2> QED
    BY <1>2, <2>1
<1>4. Solves(g)
  BY <1>2, <1>3
<1>5. Solves(back)
  BY <1>4
<1>6. back = [i \in Nat |->
        IF i = 0 THEN b ELSE IF back[i-1] = Genesis THEN Genesis ELSE Parent[back[i-1]]]
  BY <1>5
<1>7. Line[b] = {back[i] : i \in 0 .. Height[b]}
  BY DEF Line
<1> HIDE DEF back
<1>8. /\ back[0] = b
      /\ \A i \in Nat \ {0} :
           back[i] = IF back[i-1] = Genesis THEN Genesis ELSE Parent[back[i-1]]
  BY <1>6
<1> DEFINE T == {i \in Nat : back[i] \in Blocks}
<1>9. T = Nat
  <2>1. \A i \in T : i + 1 \in T
    <3> SUFFICES ASSUME NEW i \in T PROVE i + 1 \in T
      OBVIOUS
    <3>1. back[i+1] = IF back[i] = Genesis THEN Genesis ELSE Parent[back[i]]
      BY <1>8
    <3> QED
      BY <3>1, BlockchainAssumption
  <2>2. 0 \in T
    BY <1>8
  <2> HIDE DEF T
  <2>3. T \in SUBSET Nat
    BY DEF T
  <2> QED
    BY <2>1, <2>2, <2>3, Induct
<1>10. back \in [Nat -> Blocks]
  BY <1>6, <1>9
<1> QED
  BY <1>7, <1>8, <1>10 DEF Walks

(* A set of blocks closed under prevHash, with consecutive heights. *)
Tree(S) ==
  /\ Genesis \in S /\ S \subseteq Blocks
  /\ \A b \in S \ {Genesis} : Parent[b] \in S /\ Height[b] = Height[Parent[b]] + 1

(* In a tree the walk goes down one height at a time, inside it, to genesis. *)
LEMMA LineInTree ==
  ASSUME NEW S, Tree(S), NEW t \in S
  PROVE  /\ t \in Line[t] /\ Line[t] \subseteq S
         /\ \A x \in Line[t] : Height[x] <= Height[t]
         /\ \A x \in Line[t] \ {Genesis} : Parent[x] \in Line[t]
         /\ \A x, y \in Line[t] : Height[x] = Height[y] => x = y
         /\ \A n \in 0 .. Height[t] : \E x \in Line[t] : Height[x] = n
<1>1. t \in Blocks /\ Height[t] \in Nat /\ S \subseteq Blocks
  BY BlockchainAssumption DEF Tree
<1>2. PICK g : Walks(g, t) /\ Line[t] = {g[i] : i \in 0 .. Height[t]}
  BY <1>1, LineIsWalk
<1> DEFINE T == {i \in Nat : i <= Height[t] => g[i] \in S /\ Height[g[i]] = Height[t] - i}
<1>3. 0 \in T
  BY <1>1, <1>2 DEF Walks
<1>4. ASSUME NEW i \in T PROVE i + 1 \in T
  <2> SUFFICES ASSUME i + 1 <= Height[t]
               PROVE  g[i+1] \in S /\ Height[g[i+1]] = Height[t] - (i + 1)
    OBVIOUS
  <2>1. g[i] \in S /\ Height[g[i]] = Height[t] - i /\ i \in Nat
    BY <1>1, <1>4
  <2>2. g[i] # Genesis
    BY <1>1, <2>1, BlockchainAssumption
  <2>3. g[i+1] = Parent[g[i]]
    BY <1>2, <2>1, <2>2 DEF Walks
  <2>4. Parent[g[i]] \in S /\ Height[g[i]] = Height[Parent[g[i]]] + 1
    BY <2>1, <2>2 DEF Tree
  <2>5. Height[Parent[g[i]]] \in Nat
    BY <1>1, <2>4, BlockchainAssumption
  <2> QED
    BY <1>1, <2>1, <2>3, <2>4, <2>5
<1> HIDE DEF T
<1>5. T = Nat
  BY <1>3, <1>4, Induct DEF T
<1>6. \A i \in 0 .. Height[t] : g[i] \in S /\ Height[g[i]] = Height[t] - i
  BY <1>1, <1>5 DEF T
<1>7. t \in Line[t]
  BY <1>1, <1>2 DEF Walks
<1>8. \A n \in 0 .. Height[t] : \E x \in Line[t] : Height[x] = n
  <2> SUFFICES ASSUME NEW n \in 0 .. Height[t] PROVE \E x \in Line[t] : Height[x] = n
    OBVIOUS
  <2>1. Height[t] - n \in 0 .. Height[t] /\ Height[t] - (Height[t] - n) = n
    BY <1>1
  <2> QED
    BY <1>2, <1>6, <2>1
<1>9. ASSUME NEW x \in Line[t] \ {Genesis} PROVE Parent[x] \in Line[t]
  <2>1. PICK i \in 0 .. Height[t] : x = g[i]
    BY <1>2
  <2>2. x \in S /\ Height[x] = Height[t] - i
    BY <1>6, <2>1
  <2>3. Parent[x] \in S /\ Height[x] = Height[Parent[x]] + 1
    BY <2>2, <1>9 DEF Tree
  <2>4. Height[Parent[x]] \in Nat
    BY <1>1, <2>3, BlockchainAssumption
  <2>5. i + 1 \in 0 .. Height[t]
    BY <1>1, <2>2, <2>3, <2>4
  <2>6. g[i+1] = Parent[x]
    BY <1>2, <2>1, <1>9 DEF Walks
  <2> QED
    BY <1>2, <2>5, <2>6
<1>10. ASSUME NEW x \in Line[t], NEW y \in Line[t], Height[x] = Height[y] PROVE x = y
  <2>1. PICK i \in 0 .. Height[t] : x = g[i]
    BY <1>2
  <2>2. PICK j \in 0 .. Height[t] : y = g[j]
    BY <1>2
  <2>3. Height[t] - i = Height[t] - j
    BY <1>6, <1>10, <2>1, <2>2
  <2>4. i = j
    BY <1>1, <2>3
  <2> QED
    BY <2>1, <2>2, <2>4
<1>11. Line[t] \subseteq S /\ \A x \in Line[t] : Height[x] <= Height[t]
  BY <1>1, <1>2, <1>6
<1> QED
  BY <1>7, <1>8, <1>9, <1>10, <1>11

(* What holds of t and passes from a block to its parent holds along the walk. *)
LEMMA LineInduct ==
  ASSUME NEW S, Tree(S), NEW t \in S, NEW Q, t \in Q,
         \A b \in (Line[t] \intersect Q) \ {Genesis} : Parent[b] \in Q
  PROVE  Line[t] \subseteq Q
<1>1. /\ Height[t] \in Nat /\ \A b \in Line[t] : Height[b] \in Nat
      /\ \A b \in Line[t] : b \in S
  BY LineInTree, BlockchainAssumption DEF Tree
<1> DEFINE T == {n \in Nat : \A b \in Line[t] : Height[b] = Height[t] - n => b \in Q}
<1>2. 0 \in T
  <2>1. \A b \in Line[t] : Height[b] = Height[t] => b = t
    BY LineInTree
  <2> QED
    BY <1>1, <2>1
<1>3. ASSUME NEW n \in T PROVE n + 1 \in T
  <2> SUFFICES ASSUME NEW b \in Line[t], Height[b] = Height[t] - (n + 1) PROVE b \in Q
    OBVIOUS
  <2>1. Height[t] - n \in 0 .. Height[t] /\ Height[t] - n = Height[b] + 1
    BY <1>1
  <2>2. PICK c \in Line[t] : Height[c] = Height[t] - n
    BY <2>1, LineInTree
  <2>3. c \in Q /\ c # Genesis
    BY <1>1, <1>3, <2>1, <2>2, BlockchainAssumption
  <2>4. Parent[c] \in Line[t] /\ Height[c] = Height[Parent[c]] + 1
    BY <1>1, <2>2, <2>3, LineInTree DEF Tree
  <2>5. Height[Parent[c]] = Height[b]
    BY <1>1, <2>1, <2>2, <2>4
  <2>6. Parent[c] = b
    BY <2>4, <2>5, LineInTree
  <2> QED
    BY <2>2, <2>3, <2>6
<1> HIDE DEF T
<1>4. T = Nat
  BY <1>2, <1>3, Induct DEF T
<1>5. ASSUME NEW b \in Line[t] PROVE b \in Q
  <2>1. Height[b] <= Height[t]
    BY LineInTree
  <2>2. Height[t] - Height[b] \in T /\ Height[b] = Height[t] - (Height[t] - Height[b])
    BY <1>1, <1>4, <2>1
  <2> QED
    BY <2>2 DEF T
<1> QED
  BY <1>5

-----------------------------------------------------------------------------
IInv == TypeOK /\ Linked /\ HeaviestTip /\ TipExtendable

(* initGenesis establishes the invariant. *)
LEMMA InitIInv == Init => IInv
  BY BlockchainAssumption
  DEF Init, IInv, TypeOK, Linked, HeaviestTip, TipExtendable

(* A tree dropped back to genesis satisfies the invariant. *)
LEMMA GenesisIInv == ToGenesis /\ restoring' \in BOOLEAN => IInv'
  BY BlockchainAssumption
  DEF ToGenesis, IInv, TypeOK, Linked, HeaviestTip, TipExtendable

(* Inserting a block that attaches to the tree keeps it linked, with the work
   of every block already there unchanged. *)
LEMMA InsertLinked ==
  ASSUME TypeOK, Linked, NEW b \in Blocks, Attaches(b), Insert(b)
  PROVE  /\ Linked'
         /\ stored' \subseteq Blocks
         /\ work' \in [Blocks -> Nat]
         /\ b \in stored'
         /\ work'[b] = work[Parent[b]] + BlockWork[b]
         /\ \A c \in stored : work'[c] = work[c]
<1>1. work[Parent[b]] + BlockWork[b] \in Nat
  BY BlockchainAssumption DEF TypeOK, Attaches
<1>2. work' \in [Blocks -> Nat] /\ work'[b] = work[Parent[b]] + BlockWork[b]
  BY <1>1 DEF TypeOK, Insert
<1>3. \A c \in stored : work'[c] = work[c]
  BY DEF TypeOK, Insert, Attaches
<1>4. stored' = stored \union {b} /\ stored' \subseteq Blocks
  BY DEF TypeOK, Insert
<1>5. ASSUME NEW c \in stored' \ {Genesis}
      PROVE  /\ Parent[c] \in stored'
             /\ Height[c] = Height[Parent[c]] + 1
             /\ work'[c] = work'[Parent[c]] + BlockWork[c]
  <2>1. CASE c = b
    <3>1. Parent[b] \in stored /\ Height[b] = Height[Parent[b]] + 1
      BY DEF Attaches
    <3> QED
      BY <2>1, <3>1, <1>2, <1>3, <1>4
  <2>2. CASE c # b
    <3>1. c \in stored \ {Genesis}
      BY <2>2, <1>5, <1>4
    <3>2. /\ Parent[c] \in stored
          /\ Height[c] = Height[Parent[c]] + 1
          /\ work[c] = work[Parent[c]] + BlockWork[c]
      BY <3>1 DEF Linked
    <3> QED
      BY <3>1, <3>2, <1>3, <1>4
  <2> QED
    BY <2>1, <2>2
<1>6. Genesis \in stored' /\ work'[Genesis] = BlockWork[Genesis]
  BY <1>3, <1>4 DEF Linked
<1> QED
  BY <1>2, <1>3, <1>4, <1>5, <1>6 DEF Linked

(* The fork choice after an insertion leaves the heaviest block at the tip. *)
LEMMA ChooseTipHeaviest ==
  ASSUME TypeOK, Linked, HeaviestTip, NEW b \in Blocks,
         Attaches(b), Insert(b), ChooseTip(b)
  PROVE  HeaviestTip' /\ tip' \in {b, tip}
<1>1. tip' \in {b, tip}
  BY DEF ChooseTip
<1>2. /\ work'[b] = work[Parent[b]] + BlockWork[b]
      /\ \A c \in stored : work'[c] = work[c]
  BY InsertLinked
<1>3. stored' = stored \union {b} /\ tip \in stored
  BY DEF Insert, TypeOK
<1>4. work[tip] \in Nat /\ work[Parent[b]] + BlockWork[b] \in Nat
      /\ \A c \in stored : work[c] \in Nat
  BY BlockchainAssumption DEF TypeOK, Attaches
<1>5. \A c \in stored : work[c] <= work[tip]
  BY DEF HeaviestTip
<1>6. CASE work[Parent[b]] + BlockWork[b] > work[tip]
  <2>1. tip' = b
    BY <1>6 DEF ChooseTip
  <2> QED
    BY <1>2, <1>3, <1>4, <1>5, <1>6, <2>1, <1>1 DEF HeaviestTip
<1>7. CASE ~(work[Parent[b]] + BlockWork[b] > work[tip])
  <2>1. tip' = tip
    BY <1>7 DEF ChooseTip
  <2> QED
    BY <1>2, <1>3, <1>4, <1>5, <1>7, <2>1, <1>1 DEF HeaviestTip
<1> QED
  BY <1>1, <1>6, <1>7

(* Each operation preserves the invariant. *)
LEMMA NextIInv == IInv /\ [Next]_chainVars => IInv'
<1> SUFFICES ASSUME IInv, [Next]_chainVars PROVE IInv'
  OBVIOUS
<1> USE DEF IInv
<1>1. ASSUME NEW b \in Blocks, AcceptBlock(b) PROVE IInv'
  <2>1. Attaches(b) /\ Insert(b) /\ ChooseTip(b)
    BY <1>1 DEF AcceptBlock, PassesHeaderChecks
  <2>2. Linked' /\ HeaviestTip' /\ tip' \in {b, tip} /\ b \in stored'
        /\ stored' \subseteq Blocks /\ work' \in [Blocks -> Nat]
    BY <2>1, InsertLinked, ChooseTipHeaviest
  <2>3. stored \subseteq stored' /\ materialised' = materialised \union {b}
        /\ restoring' = restoring /\ ~restoring
    BY <1>1, <2>1 DEF AcceptBlock, Insert
  <2> QED
    BY <2>2, <2>3 DEF TypeOK, TipExtendable
<1>2. ASSUME NEW b \in Blocks, HitPrunedParent(b) PROVE IInv'
  BY <1>2, GenesisIInv DEF HitPrunedParent, TypeOK
<1>3. ASSUME NEW b \in Blocks, SeedPrefix(b) PROVE IInv'
  <2>1. Attaches(b) /\ Insert(b) /\ ChooseTip(b)
    BY <1>3 DEF SeedPrefix
  <2>2. Linked' /\ HeaviestTip' /\ tip' \in {b, tip} /\ b \in stored'
        /\ stored' \subseteq Blocks /\ work' \in [Blocks -> Nat]
    BY <2>1, InsertLinked, ChooseTipHeaviest
  <2>3. stored \subseteq stored' /\ materialised' = materialised
        /\ restoring' = restoring /\ restoring
    BY <1>3, <2>1 DEF SeedPrefix, Insert
  <2> QED
    BY <2>2, <2>3 DEF TypeOK, TipExtendable
<1>4. ASSUME NEW b \in Blocks, SeedAnchor(b) PROVE IInv'
  <2>1. Attaches(b) /\ Insert(b) /\ Parent[b] = tip /\ tip' = b
        /\ materialised' = materialised \union {b} /\ restoring' = FALSE
    BY <1>4 DEF SeedAnchor
  <2>2. work[Parent[b]] + BlockWork[b] > work[tip]
    BY <2>1, BlockchainAssumption DEF TypeOK
  <2>3. ChooseTip(b)
    BY <2>1, <2>2 DEF ChooseTip
  <2>4. Linked' /\ HeaviestTip' /\ b \in stored'
        /\ stored' \subseteq Blocks /\ work' \in [Blocks -> Nat]
    BY <2>1, <2>3, InsertLinked, ChooseTipHeaviest
  <2>5. stored \subseteq stored'
    BY <2>1 DEF Insert
  <2> QED
    BY <2>1, <2>4, <2>5 DEF TypeOK, TipExtendable
<1>5. ASSUME DiscardRestore PROVE IInv'
  BY <1>5, GenesisIInv DEF DiscardRestore
<1>6. ASSUME PruneStates PROVE IInv'
  <2>1. tip \notin Buried(tip, materialised, Height[tip] - Retain)
    BY DEF Buried
  <2>2. Genesis \notin Buried(tip, materialised, Height[tip] - Retain)
    BY BlockchainAssumption DEF Buried
  <2> QED
    BY <1>6, <2>1, <2>2
    DEF PruneStates, StripBuried, Unburied, TypeOK, Linked, HeaviestTip, TipExtendable
<1>7. ASSUME Reset PROVE IInv'
  BY <1>7, GenesisIInv DEF Reset, TypeOK
<1>8. ASSUME UNCHANGED chainVars PROVE IInv'
  BY <1>8 DEF chainVars, TypeOK, Linked, HeaviestTip, TipExtendable
<1> QED
  BY <1>1, <1>2, <1>3, <1>4, <1>5, <1>6, <1>7, <1>8 DEF Next

(* All four parts of the invariant hold in every reachable state. *)
THEOREM Invariance == Spec => []IInv
  BY InitIInv, NextIInv, PTL DEF Spec

(* The variables keep their types: only stored blocks carry a state, and the
   tip is a stored block. *)
THEOREM TypeCorrect == Spec => []TypeOK
  BY Invariance, PTL DEF IInv

(* The tree of addBlockInternal, seedHistoricalBlock and reset never has an
   orphan, and each block carries the work of its own path. *)
THEOREM TreeIsLinked == Spec => []Linked
  BY Invariance, PTL DEF IInv

(* The tip is a heaviest stored block after any sequence of accepted blocks,
   restores, prunes and resets. *)
THEOREM ForkChoiceIsHeaviest == Spec => []HeaviestTip
  BY Invariance, PTL DEF IInv

(* The tip always has the state the next block is validated against. *)
THEOREM TipAlwaysExtendable == Spec => []TipExtendable
  BY Invariance, PTL DEF IInv

(* The tree is sound: linked, mined on its heaviest branch, extendable there. *)
THEOREM TreeIsSound == Spec => []TreeSound
  BY Invariance, PTL DEF IInv, TreeSound

(* The fork choice is strict: apart from a drop to genesis, the tip is only
   ever replaced by a strictly heavier block. *)
THEOREM OnlyOutweighed == Spec => TipOnlyOutweighed
<1>1. ASSUME IInv, Next, tip' # tip
      PROVE  work'[tip'] > work[tip] \/ stored' = {Genesis}
  <2> USE DEF IInv
  <2>1. ASSUME NEW b \in Blocks, Attaches(b), Insert(b), tip' = b,
               work[Parent[b]] + BlockWork[b] > work[tip]
        PROVE  work'[tip'] > work[tip]
    BY <1>1, <2>1, InsertLinked
  <2>2. ASSUME NEW b \in Blocks, AcceptBlock(b) \/ SeedPrefix(b)
        PROVE  work'[tip'] > work[tip]
    <3>1. Attaches(b) /\ Insert(b) /\ ChooseTip(b)
      BY <2>2 DEF AcceptBlock, SeedPrefix, PassesHeaderChecks
    <3>2. tip' = b /\ work[Parent[b]] + BlockWork[b] > work[tip]
      BY <1>1, <3>1 DEF ChooseTip
    <3> QED
      BY <2>1, <3>1, <3>2
  <2>3. ASSUME NEW b \in Blocks, SeedAnchor(b)
        PROVE  work'[tip'] > work[tip]
    <3>1. Attaches(b) /\ Insert(b) /\ Parent[b] = tip /\ tip' = b
      BY <2>3 DEF SeedAnchor
    <3>2. work[Parent[b]] + BlockWork[b] > work[tip]
      BY <1>1, <3>1, BlockchainAssumption DEF TypeOK
    <3> QED
      BY <2>1, <3>1, <3>2
  <2>4. ASSUME ToGenesis PROVE stored' = {Genesis}
    BY <2>4 DEF ToGenesis
  <2>5. ~PruneStates
    BY <1>1 DEF PruneStates
  <2> QED
    BY <1>1, <2>2, <2>3, <2>4, <2>5
    DEF Next, HitPrunedParent, DiscardRestore, Reset
<1>2. IInv /\ [Next]_chainVars =>
        [tip' # tip => (work'[tip'] > work[tip] \/ stored' = {Genesis})]_chainVars
  BY <1>1
<1> QED
  BY <1>2, Invariance, PTL DEF Spec, TipOnlyOutweighed

-----------------------------------------------------------------------------
(* Pruning. *)

(* Under a block of S without a state, genesis apart, nothing has one. *)
Prefix(S, states) ==
  \A b \in S \ (states \union {Genesis}) : Parent[b] = Genesis \/ Parent[b] \notin states

(* A block stripped on the walk down from the tip sits on one that is stripped
   with it, or that has been stripped before. *)
LEMMA BuriedParent ==
  ASSUME NEW S, Tree(S), NEW t \in S, NEW states, NEW m \in Int,
         NEW b \in Buried(t, states, m), Parent[b] # Genesis, Parent[b] \in states
  PROVE  Parent[b] \in Buried(t, states, m)
<1> DEFINE p == Parent[b]
<1>1. /\ b \in Line[t] \ {t} /\ 0 < Height[b] /\ Height[b] < m
      /\ \A c \in Line[t] \ {t} :
           (Height[b] <= Height[c] /\ Height[c] < m) => c \in states
  BY DEF Buried
<1>2. /\ b \in S /\ b # Genesis /\ Height[t] \in Nat
      /\ \A c \in Line[t] : Height[c] \in Nat
  BY <1>1, LineInTree, BlockchainAssumption DEF Tree
<1>3. p \in Line[t] /\ Height[b] = Height[p] + 1
  BY <1>1, <1>2, LineInTree DEF Tree
<1>4. Height[p] > 0
  <2>1. p \in S \ {Genesis}
    BY <1>3, LineInTree
  <2>2. Height[p] = Height[Parent[p]] + 1 /\ Parent[p] \in Blocks
    BY <2>1 DEF Tree
  <2> QED
    BY <2>2, BlockchainAssumption
<1>5. p # t /\ Height[p] < m
  <2>1. Height[b] <= Height[t]
    BY <1>1, LineInTree
  <2> QED
    BY <1>1, <1>2, <1>3, <2>1
<1>6. ASSUME NEW c \in Line[t] \ {t}, Height[p] <= Height[c], Height[c] < m
      PROVE  c \in states
  <2>1. CASE Height[c] = Height[p]
    <3>1. c = p
      BY <1>3, <2>1, LineInTree
    <3> QED
      BY <3>1
  <2>2. CASE Height[c] # Height[p]
    <3>1. Height[b] <= Height[c]
      BY <1>2, <1>3, <1>6, <2>2
    <3> QED
      BY <1>1, <1>6, <3>1
  <2> QED
    BY <2>1, <2>2
<1> QED
  BY <1>3, <1>4, <1>5, <1>6 DEF Buried

(* pruneStateBelow leaves no state right under a stripped block. *)
LEMMA UnburiedPrefix ==
  ASSUME NEW S, Tree(S), NEW t \in S, NEW states, Prefix(S, states)
  PROVE  Prefix(S, Unburied(t, states))
<1> DEFINE m == Height[t] - Retain
           gone == IF m > 1 THEN Buried(t, states, m) ELSE {}
<1>1. Unburied(t, states) = states \ gone
  BY DEF Unburied
<1>2. SUFFICES ASSUME NEW b \in S \ ((states \ gone) \union {Genesis}),
                      Parent[b] # Genesis, Parent[b] \in states \ gone
               PROVE  FALSE
  BY <1>1 DEF Prefix
<1>3. b \in gone
  BY <1>2 DEF Prefix
<1>4. m \in Int /\ b \in Buried(t, states, m) /\ gone = Buried(t, states, m)
  BY <1>3, BlockchainAssumption DEF Tree
<1> HIDE DEF m
<1>5. Parent[b] \in Buried(t, states, m)
  BY <1>2, <1>4, BuriedParent
<1> QED
  BY <1>2, <1>4, <1>5

(* Under a block of the line without a state, the line has none down to genesis. *)
LEMMA LineUnderStripped ==
  ASSUME NEW S, Tree(S), NEW t \in S, NEW states, Prefix(S, states),
         NEW c \in Line[t] \ states, NEW d \in Line[t],
         0 < Height[d], Height[d] <= Height[c]
  PROVE  d \notin states
<1> DEFINE Q == {b \in Line[t] : 0 < Height[b] /\ Height[b] <= Height[c] => b \notin states}
<1>1. /\ t \in Line[t] /\ Line[t] \subseteq S /\ \A b \in Line[t] : Height[b] \in Nat
      /\ \A b \in Line[t] : Height[b] = Height[c] => b = c
  BY LineInTree, BlockchainAssumption DEF Tree
<1>2. t \in Q
  <2>1. Height[c] <= Height[t]
    BY LineInTree
  <2> QED
    BY <1>1, <2>1
<1>3. ASSUME NEW b \in (Line[t] \intersect Q) \ {Genesis} PROVE Parent[b] \in Q
  <2>1. Parent[b] \in Line[t] /\ Height[b] = Height[Parent[b]] + 1
    BY <1>1, <1>3, LineInTree DEF Tree
  <2>2. ASSUME 0 < Height[Parent[b]], Height[Parent[b]] <= Height[c]
        PROVE  Parent[b] \notin states
    <3>1. CASE Height[b] <= Height[c]
      <4>1. b \notin states /\ Parent[b] # Genesis
        BY <1>1, <1>3, <2>1, <2>2, <3>1, BlockchainAssumption
      <4> QED
        BY <1>1, <1>3, <4>1 DEF Prefix
    <3>2. CASE ~(Height[b] <= Height[c])
      <4>1. Height[Parent[b]] = Height[c]
        BY <1>1, <2>1, <2>2, <3>2
      <4> QED
        BY <1>1, <2>1, <4>1
    <3> QED
      BY <3>1, <3>2
  <2> QED
    BY <2>1, <2>2
<1> HIDE DEF Q
<1>4. Line[t] \subseteq Q
  BY <1>2, <1>3, LineInduct
<1> QED
  BY <1>4 DEF Q

(* No state lies below the window on the line of t. *)
Retired(t, states) ==
  \A b \in Line[t] \intersect states :
    Height[b] <= 1 \/ b = t \/ Height[b] >= Height[t] - Retain

(* pruneStateBelow stops at the first stripped block, and has freed all. *)
LEMMA UnburiedRetired ==
  ASSUME NEW S, Tree(S), NEW t \in S, NEW states, Prefix(S, states)
  PROVE  Retired(t, Unburied(t, states))
<1> DEFINE m == Height[t] - Retain
<1>1. SUFFICES ASSUME NEW b \in Line[t] \intersect Unburied(t, states),
                      ~(Height[b] <= 1), b # t, ~(Height[b] >= m)
               PROVE  FALSE
  BY DEF Retired
<1>2. m \in Int /\ \A c \in Line[t] : Height[c] \in Nat
  BY LineInTree, BlockchainAssumption DEF Tree
<1>3. m > 1 /\ 0 < Height[b] /\ Height[b] < m
  BY <1>1, <1>2
<1>4. b \in states \ Buried(t, states, m)
  BY <1>1, <1>3 DEF Unburied
<1>5. PICK c \in Line[t] \ {t} : Height[b] <= Height[c] /\ c \notin states
  BY <1>1, <1>3, <1>4 DEF Buried
<1>6. b \notin states
  BY <1>1, <1>3, <1>5, LineUnderStripped
<1> QED
  BY <1>4, <1>6

(* While a snapshot is being seeded only genesis has a state, so a block may
   be seeded without one on any parent. *)
PruneInv == PrunedIsPrefix /\ (restoring => materialised = {Genesis})

(* Each operation preserves it. *)
LEMMA NextPruneInv == IInv /\ PruneInv /\ [Next]_chainVars => PruneInv'
<1> SUFFICES ASSUME IInv, PruneInv, [Next]_chainVars PROVE PruneInv'
  OBVIOUS
<1>1. TypeOK /\ Linked /\ TipExtendable
  BY DEF IInv
<1>2. ASSUME NEW b \in Blocks, Attaches(b), Insert(b), b \in materialised',
             materialised' = materialised \union {b}, ~restoring'
      PROVE  PruneInv'
  <2>1. ASSUME NEW c \in stored' \ (materialised' \union {Genesis})
        PROVE  Parent[c] = Genesis \/ Parent[c] \notin materialised'
    <3>1. c \in stored \ (materialised \union {Genesis})
      BY <1>2, <2>1 DEF Insert
    <3>2. Parent[c] \in stored /\ b \notin stored
      BY <1>1, <1>2, <3>1 DEF Linked, Attaches
    <3> QED
      BY <1>2, <3>1, <3>2 DEF PruneInv, PrunedIsPrefix
  <2> QED
    BY <1>2, <2>1 DEF PruneInv, PrunedIsPrefix
<1>3. ASSUME ToGenesis PROVE PruneInv'
  BY <1>3 DEF ToGenesis, PruneInv, PrunedIsPrefix
<1>4. ASSUME NEW b \in Blocks, AcceptBlock(b) \/ SeedAnchor(b) PROVE PruneInv'
  BY <1>2, <1>4 DEF AcceptBlock, SeedAnchor, PassesHeaderChecks
<1>5. ASSUME NEW b \in Blocks, SeedPrefix(b) PROVE PruneInv'
  BY <1>5 DEF SeedPrefix, PruneInv, PrunedIsPrefix
<1>6. ASSUME PruneStates PROVE PruneInv'
  <2>1. PrunedIsPrefix'
    <3>1. Tree(stored) /\ tip \in stored
      BY <1>1 DEF TypeOK, Linked, Tree
    <3>2. Prefix(stored, Unburied(tip, materialised))
      BY <3>1, UnburiedPrefix DEF PruneInv, PrunedIsPrefix, Prefix
    <3> QED
      BY <1>6, <3>2 DEF PruneStates, StripBuried, PrunedIsPrefix, Prefix
  <2> QED
    BY <1>6, <2>1 DEF PruneStates, PruneInv
<1>7. ASSUME UNCHANGED chainVars PROVE PruneInv'
  BY <1>7 DEF chainVars, PruneInv, PrunedIsPrefix
<1> QED
  BY <1>3, <1>4, <1>5, <1>6, <1>7 DEF Next, HitPrunedParent, DiscardRestore, Reset

(* No state is left under a stripped block, where pruneStateBelow, which stops
   at the first stripped one, would never find it: whatever was accepted on
   forks, seeded, pruned and reset before, for any blocks and any window. *)
THEOREM PruneLeavesPrefix == Spec => []PrunedIsPrefix
<1>1. Init => PruneInv
  BY DEF Init, PruneInv, PrunedIsPrefix
<1>2. PruneInv => PrunedIsPrefix
  BY DEF PruneInv
<1> QED
  BY <1>1, <1>2, NextPruneInv, Invariance, PTL DEF Spec
=============================================================================
