---------------------------- MODULE LedgerProofs ----------------------------
(***************************************************************************)
(* The ledger for every chain of receipts, solves, reorgs and resets, and   *)
(* whatever the transactions do:                                            *)
(*   - every state holds what its branch was rewarded with, and is the      *)
(*     replay of its branch (StatesAreReplays);                             *)
(*   - every template passes the validation (TemplatesAlwaysPass);          *)
(*   - locks are spent once, later, and by those their scripts name         *)
(*     (SpendsAreAuthorised);                                               *)
(*   - what the earnings show is the found blocks on the canonical branch   *)
(*     (EarningsAreCanonical).                                              *)
(*                                                                         *)
(* The sums, the loop over a body and the replay are recursive functions:   *)
(* each is known to exist, and followed, by induction over the naturals.    *)
(***************************************************************************)
EXTENDS Ledger, SequenceTheorems, FiniteSetTheorems, WellFoundedInduction, TLAPS

-----------------------------------------------------------------------------
(* Induction over the naturals, from the well-foundedness of <. *)

(* A nonempty set of naturals has a least element. *)
LEMMA LeastNat ==
  ASSUME NEW T \in SUBSET Nat, T # {}
  PROVE  \E n \in T : \A m \in T : n <= m
<1>1. \E n \in T : \A m \in T : ~ (<<m, n>> \in OpToRel(<, Nat))
  BY NatLessThanWellFounded, WFMin
<1>2. PICK n \in T : \A m \in T : ~ (<<m, n>> \in OpToRel(<, Nat))
  BY <1>1
<1>3. \A m \in T : <<m, n>> \in OpToRel(<, Nat) <=> m < n
  BY DEF OpToRel
<1>4. \A m \in T : n \in Nat /\ m \in Nat /\ ~(m < n)
  BY <1>2, <1>3
<1>5. \A m \in T : n <= m
  BY <1>4
<1> QED
  BY <1>5

(* Induction over the naturals, for a set in place of a predicate. *)
LEMMA Induct ==
  ASSUME NEW T \in SUBSET Nat, 0 \in T, \A n \in T : n + 1 \in T
  PROVE  T = Nat
<1>1. SUFFICES ASSUME Nat \ T # {} PROVE FALSE
  OBVIOUS
<1>2. PICK n \in Nat \ T : \A m \in Nat \ T : n <= m
  BY <1>1, LeastNat
<1>3. n - 1 \in Nat /\ n - 1 \notin T
  BY <1>2
<1> QED
  BY <1>2, <1>3

(* A nonempty set of naturals up to a bound has its maximum. *)
LEMMA MaxIsMember ==
  ASSUME NEW L \in Nat, NEW T \in SUBSET (0 .. L), T # {}
  PROVE  Max(T) \in T /\ \A y \in T : y <= Max(T)
<1> DEFINE Below == {L - n : n \in T}
<1>1. Below \in SUBSET Nat /\ Below # {}
  <2>1. \A n \in T : n \in Nat /\ n <= L
    OBVIOUS
  <2>2. \A n \in T : L - n \in Nat
    BY <2>1
  <2> QED
    BY <2>2
<1>2. PICK d \in Below : \A m \in Below : d <= m
  BY <1>1, LeastNat
<1>3. PICK x \in T : d = L - x
  BY <1>2
<1>4. \A y \in T : x >= y
  <2> TAKE y \in T
  <2>1. L - y \in Below /\ y \in Int /\ x \in Int
    OBVIOUS
  <2>2. L - x <= L - y
    BY <2>1, <1>2, <1>3
  <2> QED
    BY <2>1, <2>2
<1>5. \E z \in T : \A y \in T : z >= y
  BY <1>4
<1>6. Max(T) \in T /\ \A y \in T : Max(T) >= y
  BY <1>5 DEF Max
<1> QED
  BY <1>6

(* The functions a recursion up to a bound allows, and that there is one. *)
Upto(V, x, step, n) ==
  {f \in [0 .. n -> V] : f[0] = x /\ \A i \in 1 .. n : f[i] = step[<<i, f[i-1]>>]}

(* There is always one. *)
LEMMA RecursionUpto ==
  ASSUME NEW V, NEW x \in V, NEW step \in [Nat \X V -> V], NEW n \in Nat
  PROVE  Upto(V, x, step, n) # {}
<1> DEFINE Runs(m) == {f \in [0 .. m -> V] : f[0] = x /\ \A i \in 1 .. m : f[i] = step[<<i, f[i-1]>>]}
           T == {m \in Nat : Runs(m) # {}}
<1>1. 0 \in T
  <2>1. [i \in 0 .. 0 |-> x] \in Runs(0)
    OBVIOUS
  <2> QED
    BY <2>1
<1>2. ASSUME NEW m \in T PROVE m + 1 \in T
  <2>1. PICK f : f \in Runs(m)
    OBVIOUS
  <2> DEFINE g == [i \in 0 .. m + 1 |-> IF i <= m THEN f[i] ELSE step[<<m + 1, f[m]>>]]
  <2>2. f \in [0 .. m -> V] /\ f[0] = x /\ \A i \in 1 .. m : f[i] = step[<<i, f[i-1]>>]
    BY <2>1
  <2>3. g \in [0 .. m + 1 -> V]
    <3>1. f[m] \in V /\ m + 1 \in Nat
      BY <2>2
    <3>2. step[<<m + 1, f[m]>>] \in V
      BY <3>1
    <3>3. \A i \in 0 .. m + 1 : i <= m => f[i] \in V
      BY <2>2
    <3> QED
      BY <3>2, <3>3
  <2>4. g[0] = x
    BY <2>2
  <2>5. ASSUME NEW i \in 1 .. m + 1 PROVE g[i] = step[<<i, g[i-1]>>]
    <3>1. CASE i <= m
      BY <2>2, <3>1
    <3>2. CASE i = m + 1
      <4>1. i - 1 = m /\ m \in 0 .. m + 1 /\ i \in 0 .. m + 1 /\ ~(i <= m)
        BY <3>2
      <4>2. g[i] = step[<<m + 1, f[m]>>] /\ g[m] = f[m]
        BY <4>1
      <4> QED
        BY <3>2, <4>1, <4>2
    <3> QED
      BY <3>1, <3>2
  <2>6. g \in Runs(m + 1)
    BY <2>3, <2>4, <2>5
  <2>7. m + 1 \in Nat
    OBVIOUS
  <2> HIDE DEF Runs
  <2> QED
    BY <2>6, <2>7
<1> HIDE DEF T
<1>3. T = Nat
  BY <1>1, <1>2, Induct DEF T
<1> QED
  BY <1>3 DEF T, Upto

-----------------------------------------------------------------------------
(* Sums over finite sets, of a function in place of an operator. *)

One(s) == CHOOSE x \in s : TRUE

(* g is the sum over each subset of S, taken as MapThenSumSet takes it. *)
Sums(f, S, g) ==
  g = [s \in SUBSET S |-> IF s = {} THEN 0 ELSE f[One(s)] + g[s \ {One(s)}]]

Total(f, S) == (CHOOSE g : Sums(f, S, g))[S]

(* A set without the one taken out has one fewer. *)
LEMMA OneLess ==
  ASSUME NEW s, IsFiniteSet(s), s # {}
  PROVE  /\ One(s) \in s /\ IsFiniteSet(s \ {One(s)})
         /\ Cardinality(s \ {One(s)}) = Cardinality(s) - 1 /\ Cardinality(s) \in Nat
<1>1. One(s) \in s
  BY DEF One
<1> QED
  BY <1>1, FS_RemoveElement, FS_CardinalityType

(* There are such sums, however f was given. *)
LEMMA SumsExist ==
  ASSUME NEW S, IsFiniteSet(S), NEW f
  PROVE  \E g : Sums(f, S, g)
<1> DEFINE UpTo(n) == {s \in SUBSET S : Cardinality(s) <= n}
           Part(n, g) == g = [s \in UpTo(n) |->
                                IF s = {} THEN 0 ELSE f[One(s)] + g[s \ {One(s)}]]
           T == {n \in Nat : \E g : Part(n, g)}
<1>1. \A s \in SUBSET S : IsFiniteSet(s) /\ Cardinality(s) \in Nat
  BY FS_Subset, FS_CardinalityType
<1>2. 0 \in T
  <2>1. \A s \in UpTo(0) : s = {}
    BY <1>1, FS_EmptySet
  <2>2. Part(0, [s \in UpTo(0) |-> 0])
    BY <2>1
  <2> QED
    BY <2>2
<1>3. ASSUME NEW n \in T PROVE n + 1 \in T
  <2>1. PICK g : Part(n, g)
    OBVIOUS
  <2> DEFINE h == [s \in UpTo(n + 1) |->
                     IF s = {} THEN 0 ELSE f[One(s)] + g[s \ {One(s)}]]
  <2>2. ASSUME NEW s \in UpTo(n) PROVE h[s] = g[s]
    <3>1. s \in UpTo(n + 1)
      BY <1>1
    <3> QED
      BY <2>1, <3>1
  <2>3. ASSUME NEW s \in UpTo(n + 1), s # {} PROVE s \ {One(s)} \in UpTo(n)
    BY <1>1, <2>3, OneLess
  <2> HIDE DEF UpTo
  <2>4. Part(n + 1, h)
    BY <2>2, <2>3
  <2>5. n + 1 \in Nat
    OBVIOUS
  <2> HIDE DEF Part
  <2> QED
    BY <2>4, <2>5
<1> HIDE DEF T
<1>4. T = Nat
  BY <1>2, <1>3, Induct DEF T
<1>5. UpTo(Cardinality(S)) = SUBSET S /\ Cardinality(S) \in Nat
  BY <1>1, FS_Subset, FS_CardinalityType
<1>6. PICK g : Part(Cardinality(S), g)
  BY <1>4, <1>5 DEF T
<1> QED
  BY <1>5, <1>6 DEF Sums

(* The sum over a set is determined by the values on it. *)
LEMMA SumsAgree ==
  ASSUME NEW S, NEW T, NEW U, U \subseteq S, U \subseteq T, IsFiniteSet(U),
         NEW f, NEW h, \A x \in U : f[x] = h[x],
         NEW F, NEW H, Sums(f, S, F), Sums(h, T, H)
  PROVE  F[U] = H[U]
<1> DEFINE N == {n \in Nat : \A s \in SUBSET U : Cardinality(s) = n => F[s] = H[s]}
<1>1. \A s \in SUBSET U : IsFiniteSet(s) /\ Cardinality(s) \in Nat
  BY FS_Subset, FS_CardinalityType
<1>2. \A s \in SUBSET U :
        /\ F[s] = IF s = {} THEN 0 ELSE f[One(s)] + F[s \ {One(s)}]
        /\ H[s] = IF s = {} THEN 0 ELSE h[One(s)] + H[s \ {One(s)}]
  BY DEF Sums
<1>3. 0 \in N
  BY <1>1, <1>2, FS_EmptySet
<1>4. ASSUME NEW n \in N PROVE n + 1 \in N
  <2> SUFFICES ASSUME NEW s \in SUBSET U, Cardinality(s) = n + 1 PROVE F[s] = H[s]
    OBVIOUS
  <2>1. s # {}
    BY FS_EmptySet
  <2>2. One(s) \in s /\ Cardinality(s \ {One(s)}) = n
    BY <1>1, <2>1, OneLess
  <2>3. F[s \ {One(s)}] = H[s \ {One(s)}]
    BY <2>2
  <2> QED
    BY <1>2, <2>1, <2>2, <2>3
<1> HIDE DEF N
<1>5. N = Nat
  BY <1>3, <1>4, Induct DEF N
<1> QED
  BY <1>1, <1>5 DEF N

(* The total is what any such sums say of the whole set. *)
LEMMA TotalIs ==
  ASSUME NEW S, IsFiniteSet(S), NEW f, NEW h, \A x \in S : f[x] = h[x],
         NEW g, Sums(h, S, g)
  PROVE  Total(f, S) = g[S]
<1> DEFINE F == CHOOSE F : Sums(f, S, F)
<1>1. Sums(f, S, F)
  BY SumsExist
<1> HIDE DEF F
<1>2. F[S] = g[S]
  <2>1. PICK U : U = S
    OBVIOUS
  <2>2. /\ U \subseteq S /\ U \subseteq S /\ IsFiniteSet(U) /\ \A x \in U : f[x] = h[x]
    BY <2>1
  <2>3. F[U] = g[U]
    BY <1>1, <2>2, SumsAgree
  <2> QED
    BY <2>1, <2>3
<1> QED
  BY <1>2 DEF Total, F

(* It depends on the values on the set alone. *)
LEMMA TotalAgrees ==
  ASSUME NEW S, IsFiniteSet(S), NEW f, NEW h, \A x \in S : f[x] = h[x]
  PROVE  Total(f, S) = Total(h, S)
<1>1. PICK g : Sums(h, S, g)
  BY SumsExist
<1>2. Total(f, S) = g[S]
  BY <1>1, TotalIs
<1>3. Total(h, S) = g[S]
  BY <1>1, TotalIs
<1> QED
  BY <1>2, <1>3

(* Over nothing it is zero. *)
LEMMA TotalEmpty == \A f : Total(f, {}) = 0
<1> SUFFICES ASSUME NEW f PROVE Total(f, {}) = 0
  OBVIOUS
<1>1. PICK g : Sums(f, {}, g)
  BY SumsExist, FS_EmptySet
<1>2. g[{}] = 0
  BY <1>1 DEF Sums
<1>3. Total(f, {}) = g[{}]
  BY <1>1, TotalIs, FS_EmptySet
<1> QED
  BY <1>2, <1>3

(* Whichever element is taken out first. *)
LEMMA TotalLess ==
  ASSUME NEW S, IsFiniteSet(S), NEW f, \A x \in S : f[x] \in Int
  PROVE  /\ Total(f, S) \in Int
         /\ \A x \in S : Total(f, S) = f[x] + Total(f, S \ {x})
<1>1. PICK g : Sums(f, S, g)
  BY SumsExist
<1>2. \A s \in SUBSET S : IsFiniteSet(s) /\ Cardinality(s) \in Nat
  BY FS_Subset, FS_CardinalityType
<1>3. \A s \in SUBSET S : g[s] = IF s = {} THEN 0 ELSE f[One(s)] + g[s \ {One(s)}]
  BY <1>1 DEF Sums
<1> DEFINE N == {n \in Nat : \A s \in SUBSET S : Cardinality(s) <= n =>
                   g[s] \in Int /\ \A x \in s : g[s] = f[x] + g[s \ {x}]}
<1>4. 0 \in N
  BY <1>2, <1>3, FS_EmptySet
<1>5. ASSUME NEW n \in N PROVE n + 1 \in N
  <2> SUFFICES ASSUME NEW s \in SUBSET S, Cardinality(s) <= n + 1
               PROVE  g[s] \in Int /\ \A x \in s : g[s] = f[x] + g[s \ {x}]
    OBVIOUS
  <2>0. g[{}] = 0
    BY <1>3, Zenon
  <2> SUFFICES ASSUME s # {}
               PROVE  g[s] \in Int /\ \A x \in s : g[s] = f[x] + g[s \ {x}]
    <3>1. g[{}] \in Int
      BY <2>0
    <3>2. CASE s = {}
      BY <3>1, <3>2, Zenon
    <3> QED
      BY <3>2
  <2> DEFINE c == One(s)
  <2>1. s # {}
    OBVIOUS
  <2>2. c \in s /\ Cardinality(s \ {c}) <= n /\ s \ {c} \in SUBSET S
    BY <1>2, <2>1, OneLess
  <2> HIDE DEF c
  <2>3. g[s] = f[c] + g[s \ {c}]
    BY <1>3, <2>1 DEF c
  <2>4. g[s \ {c}] \in Int /\ \A x \in s \ {c} : g[s \ {c}] = f[x] + g[(s \ {c}) \ {x}]
    BY <2>2
  <2>5. g[s] \in Int
    BY <2>2, <2>3, <2>4
  <2>6. ASSUME NEW x \in s PROVE g[s] = f[x] + g[s \ {x}]
    <3>1. CASE x = c
      BY <2>3, <3>1
    <3>2. CASE x # c
      <4>1. Cardinality(s \ {x}) <= n /\ s \ {x} \in SUBSET S /\ c \in s \ {x}
        BY <1>2, <2>2, <3>2, FS_RemoveElement
      <4>2. g[s \ {x}] \in Int /\ g[s \ {x}] = f[c] + g[(s \ {x}) \ {c}]
        BY <4>1
      <4>3. (s \ {x}) \ {c} = (s \ {c}) \ {x}
        OBVIOUS
      <4>4. g[s \ {c}] = f[x] + g[(s \ {c}) \ {x}]
        BY <2>4, <3>2
      <4>5. f[c] \in Int /\ f[x] \in Int
        BY <2>2
      <4>6. PICK r : r = (s \ {c}) \ {x}
        OBVIOUS
      <4>7. g[s \ {x}] = f[c] + g[r] /\ g[s \ {c}] = f[x] + g[r]
        BY <4>2, <4>3, <4>4, <4>6
      <4>8. g[r] \in Int
        <5>1. r \in SUBSET S /\ x \in s \ {c} /\ IsFiniteSet(s \ {c})
          BY <1>2, <2>2, <3>2, <4>6
        <5>2. Cardinality(r) <= n
          <6>1. IsFiniteSet(r) /\ Cardinality(r) = Cardinality(s \ {c}) - 1
            BY <4>6, <5>1, FS_RemoveElement
          <6> QED
            BY <1>2, <2>2, <5>1, <6>1
        <5>3. \A t \in SUBSET S : Cardinality(t) <= n => g[t] \in Int
          OBVIOUS
        <5> QED
          BY <5>1, <5>2, <5>3
      <4> QED
        BY <2>3, <4>5, <4>7, <4>8
    <3> QED
      BY <3>1, <3>2
  <2> QED
    BY <2>5, <2>6
<1> HIDE DEF N
<1>6. N = Nat
  BY <1>4, <1>5, Induct DEF N
<1>7. g[S] \in Int /\ \A x \in S : g[S] = f[x] + g[S \ {x}]
  BY <1>2, <1>6 DEF N
<1>8. Total(f, S) = g[S]
  BY <1>1, TotalIs
<1>9. ASSUME NEW x \in S PROVE Total(f, S \ {x}) = g[S \ {x}]
  <2> DEFINE h == [s \in SUBSET (S \ {x}) |-> g[s]]
  <2>1. \A s \in SUBSET (S \ {x}) : s \in SUBSET S /\ s \ {One(s)} \in SUBSET (S \ {x})
    OBVIOUS
  <2>2. Sums(f, S \ {x}, h)
    BY <1>3, <2>1 DEF Sums
  <2>3. S \ {x} \in SUBSET (S \ {x}) /\ IsFiniteSet(S \ {x})
    BY <1>2
  <2>4. h[S \ {x}] = g[S \ {x}]
    BY <2>3
  <2> HIDE DEF h
  <2>5. Total(f, S \ {x}) = h[S \ {x}]
    BY <2>2, <2>3, TotalIs
  <2> QED
    BY <2>4, <2>5
<1> QED
  BY <1>7, <1>8, <1>9

(* One element in, one element out, one value changed. *)
LEMMA TotalMore ==
  ASSUME NEW S, IsFiniteSet(S), NEW x, x \notin S,
         NEW f, \A y \in S \union {x} : f[y] \in Int
  PROVE  Total(f, S \union {x}) = f[x] + Total(f, S) /\ Total(f, S) \in Int
<1>1. IsFiniteSet(S \union {x}) /\ (S \union {x}) \ {x} = S
  BY FS_AddElement
<1>2. PICK U : U = S \union {x}
  OBVIOUS
<1>3. Total(f, U) = f[x] + Total(f, U \ {x})
  BY <1>1, <1>2, TotalLess
<1> QED
  BY <1>1, <1>2, <1>3, TotalLess

(* One value changed. *)
LEMMA TotalChanges ==
  ASSUME NEW S, IsFiniteSet(S), NEW x \in S, NEW f, NEW h,
         \A y \in S : f[y] \in Int /\ h[y] \in Int, \A y \in S \ {x} : h[y] = f[y]
  PROVE  /\ Total(h, S) = Total(f, S) - f[x] + h[x]
         /\ Total(f, S) \in Int /\ Total(h, S) \in Int
<1>1. IsFiniteSet(S \ {x})
  BY FS_RemoveElement
<1>2. Total(f, S) = f[x] + Total(f, S \ {x}) /\ Total(f, S) \in Int
  BY TotalLess
<1>3. Total(h, S) = h[x] + Total(h, S \ {x}) /\ Total(h, S) \in Int
  BY TotalLess
<1>4. PICK t : t = Total(f, S \ {x})
  OBVIOUS
<1>5. Total(h, S \ {x}) = t
  BY <1>1, <1>4, TotalAgrees
<1>6. t \in Int
  BY <1>1, <1>4, TotalLess
<1> QED
  BY <1>2, <1>3, <1>4, <1>5, <1>6

(* Zeros add up to zero. *)
LEMMA TotalZero ==
  ASSUME NEW S, IsFiniteSet(S), NEW f, \A x \in S : f[x] = 0
  PROVE  Total(f, S) = 0
<1> DEFINE g == [s \in SUBSET S |-> 0]
<1>1. ASSUME NEW s \in SUBSET S PROVE g[s] = IF s = {} THEN 0 ELSE f[One(s)] + g[s \ {One(s)}]
  <2>1. CASE s = {}
    BY <2>1
  <2>2. CASE s # {}
    <3>1. One(s) \in s
      BY <2>2 DEF One
    <3>2. f[One(s)] = 0 /\ g[s \ {One(s)}] = 0 /\ g[s] = 0
      BY <3>1
    <3> QED
      BY <2>2, <3>2
  <2> QED
    BY <2>1, <2>2
<1>2. Sums(f, S, g)
  <2>1. g = [s \in SUBSET S |-> IF s = {} THEN 0 ELSE f[One(s)] + g[s \ {One(s)}]]
    BY <1>1, Zenon
  <2> QED
    BY <2>1, Zenon DEF Sums
<1>3. Total(f, S) = g[S]
  BY <1>2, TotalIs
<1> QED
  BY <1>3

-----------------------------------------------------------------------------
(* The sums of the model are such totals. *)

Balances(st) == [a \in Addresses |-> st.accounts[a].balance]
Amounts(st) == [l \in DOMAIN st.locks |-> st.locks[l].amount]

(* What the accounts hold. *)
LEMMA BalancesSum ==
  ASSUME NEW st
  PROVE  MapThenSumSet(LAMBDA a : st.accounts[a].balance, Addresses) = Total(Balances(st), Addresses)
<1> DEFINE Iter(it) == it = [s \in SUBSET Addresses |->
                         IF s = {} THEN 0 ELSE st.accounts[One(s)].balance + it[s \ {One(s)}]]
<1>1. MapThenSumSet(LAMBDA a : st.accounts[a].balance, Addresses) = (CHOOSE it : Iter(it))[Addresses]
  BY DEF MapThenSumSet, MapThenFoldSet, One
<1>2. \A it : Iter(it) <=> Sums(Balances(st), Addresses, it)
  <2>1. \A s \in SUBSET Addresses : s # {} => One(s) \in Addresses
    BY DEF One
  <2> QED
    BY <2>1 DEF Sums, Balances
<1>3. \E it : Sums(Balances(st), Addresses, it)
  BY SumsExist, TransactionAssumption
<1> DEFINE F == CHOOSE it : Iter(it)
<1>4. Iter(F)
  <2> HIDE DEF Iter
  <2> QED
    BY <1>2, <1>3
<1>5. Sums(Balances(st), Addresses, F)
  <2> HIDE DEF Iter, F
  <2> QED
    BY <1>2, <1>4
<1> HIDE DEF F
<1>6. Total(Balances(st), Addresses) = F[Addresses]
  BY <1>5, TotalIs, TransactionAssumption
<1> QED
  BY <1>1, <1>6 DEF F

(* What the locks hold. *)
LEMMA AmountsSum ==
  ASSUME NEW st, IsFiniteSet(DOMAIN st.locks)
  PROVE  MapThenSumSet(LAMBDA l : st.locks[l].amount, DOMAIN st.locks) = Total(Amounts(st), DOMAIN st.locks)
<1> DEFINE Iter(it) == it = [s \in SUBSET DOMAIN st.locks |->
                         IF s = {} THEN 0 ELSE st.locks[One(s)].amount + it[s \ {One(s)}]]
<1>1. MapThenSumSet(LAMBDA l : st.locks[l].amount, DOMAIN st.locks) = (CHOOSE it : Iter(it))[DOMAIN st.locks]
  BY DEF MapThenSumSet, MapThenFoldSet, One
<1>2. \A it : Iter(it) <=> Sums(Amounts(st), DOMAIN st.locks, it)
  <2>1. \A s \in SUBSET DOMAIN st.locks : s # {} => One(s) \in DOMAIN st.locks
    BY DEF One
  <2> QED
    BY <2>1 DEF Sums, Amounts
<1>3. \E it : Sums(Amounts(st), DOMAIN st.locks, it)
  BY SumsExist
<1> DEFINE F == CHOOSE it : Iter(it)
<1>4. Iter(F)
  <2> HIDE DEF Iter
  <2> QED
    BY <1>2, <1>3
<1>5. Sums(Amounts(st), DOMAIN st.locks, F)
  <2> HIDE DEF Iter, F
  <2> QED
    BY <1>2, <1>4
<1> HIDE DEF F
<1>6. Total(Amounts(st), DOMAIN st.locks) = F[DOMAIN st.locks]
  BY <1>5, TotalIs
<1> QED
  BY <1>1, <1>6 DEF F

(* The supply is the two totals. *)
LEMMA SupplyIs ==
  ASSUME NEW st, IsFiniteSet(DOMAIN st.locks)
  PROVE  Supply(st) = Total(Balances(st), Addresses) + Total(Amounts(st), DOMAIN st.locks)
BY BalancesSum, AmountsSum, Zenon DEF Supply

(* What the blocks up to a height were rewarded with. *)
Rewards(n) == MapThenSumSet(BlockReward, 1 .. n)

(* The rewards are the total of any function that lists them. *)
LEMMA RewardsSum ==
  ASSUME NEW n \in Nat, NEW f, \A h \in 1 .. n : f[h] = BlockReward(h)
  PROVE  Rewards(n) = Total(f, 1 .. n)
<1> DEFINE S == 1 .. n
           Iter(it) == it = [s \in SUBSET S |->
                         IF s = {} THEN 0 ELSE BlockReward(One(s)) + it[s \ {One(s)}]]
<1>0. IsFiniteSet(S)
  BY FS_Interval
<1>1. Rewards(n) = (CHOOSE it : Iter(it))[S]
  BY DEF Rewards, MapThenSumSet, MapThenFoldSet, One
<1>2. \A it : Iter(it) <=> Sums(f, S, it)
  <2>1. \A s \in SUBSET S : s # {} => One(s) \in S
    BY DEF One
  <2>2. \A s \in SUBSET S : s # {} => f[One(s)] = BlockReward(One(s))
    BY <2>1
  <2> HIDE DEF S
  <2> QED
    BY <2>2 DEF Sums
<1>3. \E it : Sums(f, S, it)
  BY <1>0, SumsExist
<1> DEFINE F == CHOOSE it : Iter(it)
<1>4. Iter(F)
  <2> HIDE DEF Iter
  <2> QED
    BY <1>2, <1>3
<1>5. Sums(f, S, F)
  <2> HIDE DEF Iter, F
  <2> QED
    BY <1>2, <1>4
<1> HIDE DEF F, S
<1>6. Total(f, S) = F[S]
  BY <1>0, <1>5, TotalIs
<1> QED
  BY <1>1, <1>6 DEF F, S

(* Every reward is a natural: halved as a shift halves it. *)
LEMMA RewardIsNat == \A h \in Nat : BlockReward(h) \in Nat
<1> DEFINE V == Nat
           step == [p \in Nat \X Nat |-> p[2] \div 2]
           Runs(f) == f = [n \in 0 .. 63 |-> IF n = 0 THEN InitialReward ELSE f[n - 1] \div 2]
<1>1. step \in [Nat \X Nat -> Nat] /\ InitialReward \in Nat
  BY LedgerAssumption
<1>2. PICK f \in [0 .. 63 -> Nat] : f[0] = InitialReward /\ \A i \in 1 .. 63 : f[i] = step[<<i, f[i-1]>>]
  <2> HIDE DEF step
  <2>1. Upto(Nat, InitialReward, step, 63) # {}
    BY <1>1, RecursionUpto
  <2> QED
    BY <2>1 DEF Upto
<1>3. \A i \in 1 .. 63 : f[i] = f[i-1] \div 2
  BY <1>2
<1>4. \A i \in 0 .. 63 : f[i] = IF i = 0 THEN InitialReward ELSE f[i - 1] \div 2
  BY <1>2, <1>3
<1>5. Runs(f)
  BY <1>4
<1>6. Runs(Shifted)
  <2>1. Shifted = CHOOSE s : Runs(s)
    BY DEF Shifted
  <2> HIDE DEF Runs
  <2> QED
    BY <1>5, <2>1
<1> DEFINE T == {n \in Nat : n <= 63 => Shifted[n] \in Nat}
<1>7. 0 \in T
  BY <1>1, <1>6
<1>8. ASSUME NEW n \in T PROVE n + 1 \in T
  <2> SUFFICES ASSUME n + 1 <= 63 PROVE Shifted[n + 1] \in Nat
    OBVIOUS
  <2>1. Shifted[n + 1] = Shifted[n] \div 2 /\ Shifted[n] \in Nat
    BY <1>6
  <2> QED
    BY <2>1
<1> HIDE DEF T, Runs
<1>9. T = Nat
  BY <1>7, <1>8, Induct DEF T
<1>10. \A n \in 0 .. 63 : Shifted[n] \in Nat
  BY <1>9 DEF T
<1>11. ASSUME NEW h \in Nat PROVE h \div HalvingInterval \in Nat
  <2>1. HalvingInterval \in Nat \ {0}
    BY LedgerAssumption
  <2> QED
    BY <2>1
<1> QED
  BY <1>10, <1>11 DEF BlockReward

(* One block more, one reward more. *)
LEMMA RewardsGrow ==
  /\ Rewards(0) = 0
  /\ \A n \in Nat : Rewards(n + 1) = Rewards(n) + BlockReward(n + 1) /\ Rewards(n) \in Int
<1> DEFINE f == [h \in Nat |-> BlockReward(h)]
<1>1. \A h \in Nat : f[h] = BlockReward(h) /\ f[h] \in Int
  BY RewardIsNat
<1> HIDE DEF f
<1>2. \A n \in Nat : Rewards(n) = Total(f, 1 .. n)
  BY <1>1, RewardsSum
<1>3. Rewards(0) = 0
  <2>1. 1 .. 0 = {}
    OBVIOUS
  <2> QED
    BY <1>2, <2>1, TotalEmpty
<1>4. ASSUME NEW n \in Nat PROVE Rewards(n + 1) = Rewards(n) + BlockReward(n + 1) /\ Rewards(n) \in Int
  <2> DEFINE S == 1 .. n
             x == n + 1
  <2>0. 1 .. (n + 1) = S \union {x} /\ x \in Nat /\ x \notin S /\ S \subseteq Nat
    OBVIOUS
  <2>1. /\ IsFiniteSet(S) /\ \A y \in S \union {x} : f[y] \in Int
    BY <1>1, <2>0, FS_Interval
  <2>2. Rewards(n) = Total(f, S) /\ Rewards(n + 1) = Total(f, S \union {x})
    BY <1>2, <2>0
  <2> HIDE DEF S, x
  <2>3. Total(f, S \union {x}) = f[x] + Total(f, S) /\ Total(f, S) \in Int
    BY <2>0, <2>1, TotalMore
  <2>4. f[x] = BlockReward(n + 1) /\ f[x] \in Int
    BY <1>1, <2>0 DEF x
  <2> QED
    BY <2>2, <2>3, <2>4
<1> QED
  BY <1>3, <1>4

-----------------------------------------------------------------------------
(* The loop over a body's transactions, step by step. *)

Fold(start, txs, ctx) == FoldLeft(LAMBDA r, tx : ApplyNext(r, tx, ctx), start, txs)

(* it is the loop over each part of the body, the latest transaction last. *)
Folds(it, S, start, txs, ctx) ==
  it = [s \in SUBSET S |-> IF s = {} THEN start
                           ELSE ApplyNext(it[s \ {Max(s)}], txs[Max(s)], ctx)]

(* A part of the body without its latest transaction is one shorter. *)
LEMMA MaxLess ==
  ASSUME NEW n \in Nat, NEW s \in SUBSET (1 .. n), s # {}
  PROVE  /\ Max(s) \in s /\ IsFiniteSet(s \ {Max(s)})
         /\ Cardinality(s \ {Max(s)}) = Cardinality(s) - 1 /\ Cardinality(s) \in Nat
<1>1. s \in SUBSET (0 .. n)
  OBVIOUS
<1>2. Max(s) \in s
  BY <1>1, MaxIsMember
<1>3. IsFiniteSet(s)
  <2>1. IsFiniteSet(1 .. n)
    BY FS_Interval
  <2> QED
    BY <2>1, FS_Subset
<1> QED
  BY <1>2, <1>3, FS_RemoveElement, FS_CardinalityType

(* There is such a fold, whatever ApplyNext makes of its arguments. *)
LEMMA FoldsExist ==
  ASSUME NEW n \in Nat, NEW start, NEW txs, NEW ctx
  PROVE  \E it : Folds(it, 1 .. n, start, txs, ctx)
<1> DEFINE S == 1 .. n
           Few(k) == {s \in SUBSET S : Cardinality(s) <= k}
           Part(k, g) == g = [s \in Few(k) |->
                                IF s = {} THEN start ELSE ApplyNext(g[s \ {Max(s)}], txs[Max(s)], ctx)]
           T == {k \in Nat : \E g : Part(k, g)}
<1>1. \A s \in SUBSET S : IsFiniteSet(s) /\ Cardinality(s) \in Nat
  <2>1. IsFiniteSet(S)
    BY FS_Interval
  <2> HIDE DEF S
  <2> QED
    BY <2>1, FS_Subset, FS_CardinalityType
<1>2. 0 \in T
  <2>1. \A s \in Few(0) : s = {}
    BY <1>1, FS_EmptySet
  <2>2. Part(0, [s \in Few(0) |-> start])
    BY <2>1
  <2> QED
    BY <2>2
<1>3. ASSUME NEW k \in T PROVE k + 1 \in T
  <2>1. PICK g : Part(k, g)
    OBVIOUS
  <2> DEFINE h == [s \in Few(k + 1) |->
                     IF s = {} THEN start ELSE ApplyNext(g[s \ {Max(s)}], txs[Max(s)], ctx)]
  <2>2. ASSUME NEW s \in Few(k) PROVE h[s] = g[s]
    <3>1. s \in Few(k + 1)
      BY <1>1
    <3> QED
      BY <2>1, <3>1
  <2>3. ASSUME NEW s \in Few(k + 1), s # {} PROVE s \ {Max(s)} \in Few(k)
    <3>1. s \in SUBSET (1 .. n) /\ Cardinality(s) <= k + 1
      OBVIOUS
    <3>2. /\ Cardinality(s \ {Max(s)}) = Cardinality(s) - 1 /\ Cardinality(s) \in Nat
      BY <2>3, <3>1, MaxLess
    <3>3. k \in Nat
      OBVIOUS
    <3>4. Cardinality(s \ {Max(s)}) <= k
      <4> HIDE DEF T
      <4> QED
        BY <3>1, <3>2, <3>3
    <3>5. s \ {Max(s)} \in SUBSET S
      BY <3>1
    <3> QED
      BY <3>4, <3>5
  <2> HIDE DEF Few
  <2>4. Part(k + 1, h)
    BY <2>2, <2>3
  <2>5. k + 1 \in Nat
    OBVIOUS
  <2> HIDE DEF Part
  <2> QED
    BY <2>4, <2>5
<1> HIDE DEF T
<1>4. T = Nat
  BY <1>2, <1>3, Induct DEF T
<1>5. Few(Cardinality(S)) = SUBSET S /\ Cardinality(S) \in Nat
  <2>1. IsFiniteSet(S)
    BY FS_Interval
  <2> HIDE DEF S
  <2> QED
    BY <1>1, <2>1, FS_Subset, FS_CardinalityType
<1>6. PICK g : Part(Cardinality(S), g)
  BY <1>4, <1>5 DEF T
<1> QED
  BY <1>5, <1>6 DEF Folds

(* run is what the loop holds after each transaction. *)
IsRun(run, n, start, txs, ctx) ==
  /\ DOMAIN run = 0 .. n /\ run[0] = start
  /\ \A i \in 1 .. n : run[i] = ApplyNext(run[i-1], txs[i], ctx)

(* FoldLeft is the end of a run. *)
LEMMA FoldRuns ==
  ASSUME NEW n \in Nat, NEW start, NEW txs, NEW ctx, DOMAIN txs = 1 .. n
  PROVE  \E run : IsRun(run, n, start, txs, ctx) /\ Fold(start, txs, ctx) = run[n]
<1> DEFINE F == CHOOSE it : Folds(it, 1 .. n, start, txs, ctx)
<1>1. Fold(start, txs, ctx) = F[1 .. n]
  BY Zenon DEF Fold, FoldLeft, MapThenFoldSet, Folds
<1>2. Folds(F, 1 .. n, start, txs, ctx)
  BY FoldsExist
<1> HIDE DEF F
<1> DEFINE run == [i \in 0 .. n |-> F[1 .. i]]
<1>3. \A s \in SUBSET (1 .. n) : F[s] = IF s = {} THEN start ELSE ApplyNext(F[s \ {Max(s)}], txs[Max(s)], ctx)
  BY <1>2 DEF Folds
<1>4. run[0] = start
  <2>1. 1 .. 0 = {} /\ 1 .. 0 \in SUBSET (1 .. n) /\ 0 \in 0 .. n
    OBVIOUS
  <2> QED
    BY <1>3, <2>1
<1>5. ASSUME NEW i \in 1 .. n PROVE run[i] = ApplyNext(run[i-1], txs[i], ctx)
  <2> DEFINE s == 1 .. i
  <2>1. s \in SUBSET (1 .. n) /\ s \in SUBSET (0 .. n) /\ s # {} /\ i \in s
    <3>1. i \in Nat /\ 1 <= i /\ i <= n
      OBVIOUS
    <3>2. \A j \in s : j \in 1 .. n /\ j \in 0 .. n
      BY <3>1
    <3>3. i \in s
      BY <3>1
    <3> HIDE DEF s
    <3> QED
      BY <3>2, <3>3
  <2>2. Max(s) = i
    <3>1. Max(s) \in s /\ \A y \in s : y <= Max(s)
      <4> HIDE DEF s
      <4> QED
        BY <2>1, MaxIsMember
    <3> QED
      BY <2>1, <3>1
  <2>3. s \ {i} = 1 .. (i - 1) /\ i - 1 \in 0 .. n /\ i \in 0 .. n
    OBVIOUS
  <2>4. run[i] = F[s] /\ run[i-1] = F[s \ {i}]
    BY <2>3
  <2> HIDE DEF s, run
  <2>5. F[s] = ApplyNext(F[s \ {i}], txs[i], ctx)
    BY <1>3, <2>1, <2>2
  <2> QED
    BY <2>4, <2>5
<1>6. run[n] = F[1 .. n] /\ DOMAIN run = 0 .. n
  OBVIOUS
<1> HIDE DEF run
<1>7. IsRun(run, n, start, txs, ctx)
  BY <1>4, <1>5, <1>6 DEF IsRun
<1> QED
  BY <1>1, <1>6, <1>7

-----------------------------------------------------------------------------
(* What each transaction does to the sums. *)

Lock == [amount : Nat, script : Scripts, height : Nat]

StateOK(st) ==
  /\ st = [accounts |-> st.accounts, locks |-> st.locks]
  /\ st.accounts \in [Addresses -> [balance : Nat, nonce : Nat]]
  /\ st.locks \in [DOMAIN st.locks -> Lock] /\ IsFiniteSet(DOMAIN st.locks)

(* The supply of a state is an integer, and so are its two parts. *)
LEMMA StateSums ==
  ASSUME NEW st, StateOK(st)
  PROVE  /\ Supply(st) = Total(Balances(st), Addresses) + Total(Amounts(st), DOMAIN st.locks)
         /\ Total(Balances(st), Addresses) \in Int
         /\ Total(Amounts(st), DOMAIN st.locks) \in Int
         /\ Supply(st) \in Int
<1>1. \A a \in Addresses : Balances(st)[a] \in Int
  BY DEF StateOK, Balances
<1>2. \A l \in DOMAIN st.locks : Amounts(st)[l] \in Int
  BY DEF StateOK, Amounts, Lock
<1>3. IsFiniteSet(Addresses) /\ IsFiniteSet(DOMAIN st.locks)
  BY TransactionAssumption DEF StateOK
<1>4. Total(Balances(st), Addresses) \in Int
  BY <1>1, <1>3, TotalLess
<1>5. Total(Amounts(st), DOMAIN st.locks) \in Int
  BY <1>2, <1>3, TotalLess
<1> QED
  BY <1>3, <1>4, <1>5, SupplyIs

(* Genesis holds nothing. *)
LEMMA EmptyStateOK == StateOK(EmptyState) /\ Supply(EmptyState) = 0
<1>1. StateOK(EmptyState)
  <2>1. DOMAIN <<>> = {} /\ <<>> \in [{} -> Lock]
    OBVIOUS
  <2> QED
    BY <2>1, FS_EmptySet DEF StateOK, EmptyState
<1>2. \A a \in Addresses : Balances(EmptyState)[a] = 0
  BY DEF EmptyState, Balances
<1>3. Total(Balances(EmptyState), Addresses) = 0
  BY <1>2, TotalZero, TransactionAssumption
<1>4. DOMAIN EmptyState.locks = {}
  BY DEF EmptyState
<1>5. Total(Amounts(EmptyState), DOMAIN EmptyState.locks) = 0
  BY <1>4, TotalEmpty
<1> QED
  BY <1>1, <1>3, <1>5, StateSums

(* One account replaced: the supply changes as its balance does. *)
LEMMA AccountChanges ==
  ASSUME NEW st, StateOK(st), NEW a \in Addresses, NEW acc \in [balance : Nat, nonce : Nat],
         NEW st1, st1 = [accounts |-> [st.accounts EXCEPT ![a] = acc], locks |-> st.locks]
  PROVE  /\ StateOK(st1) /\ st1.locks = st.locks
         /\ st1.accounts = [st.accounts EXCEPT ![a] = acc]
         /\ Supply(st1) = Supply(st) - st.accounts[a].balance + acc.balance
         /\ Supply(st) \in Int /\ Supply(st1) \in Int
<1>1. st1.accounts = [st.accounts EXCEPT ![a] = acc] /\ st1.locks = st.locks
  OBVIOUS
<1>2. StateOK(st1)
  BY <1>1 DEF StateOK
<1>3. \A b \in Addresses : Balances(st)[b] \in Int /\ Balances(st1)[b] \in Int
  BY <1>2 DEF StateOK, Balances
<1>4. /\ \A b \in Addresses \ {a} : Balances(st1)[b] = Balances(st)[b]
      /\ Balances(st)[a] = st.accounts[a].balance /\ Balances(st1)[a] = acc.balance
  BY <1>1 DEF StateOK, Balances
<1>5. Total(Balances(st1), Addresses) = Total(Balances(st), Addresses) - Balances(st)[a] + Balances(st1)[a]
  <2>1. IsFiniteSet(Addresses)
    BY TransactionAssumption
  <2>2. PICK f, h : f = Balances(st) /\ h = Balances(st1)
    OBVIOUS
  <2>3. /\ \A b \in Addresses : f[b] \in Int /\ h[b] \in Int
        /\ \A b \in Addresses \ {a} : h[b] = f[b]
    BY <1>3, <1>4, <2>2
  <2>4. Total(h, Addresses) = Total(f, Addresses) - f[a] + h[a]
    BY <2>1, <2>3, TotalChanges
  <2> QED
    BY <2>2, <2>4
<1>6. Amounts(st1) = Amounts(st)
  BY <1>1 DEF Amounts
<1>7. Supply(st1) = Total(Balances(st1), Addresses) + Total(Amounts(st), DOMAIN st.locks)
  BY <1>1, <1>2, <1>6, StateSums
<1>8. st.accounts[a].balance \in Nat /\ acc.balance \in Nat
  BY DEF StateOK
<1>9. /\ Supply(st) = Total(Balances(st), Addresses) + Total(Amounts(st), DOMAIN st.locks)
      /\ Total(Balances(st), Addresses) \in Int /\ Total(Amounts(st), DOMAIN st.locks) \in Int
  BY StateSums
<1>10. PICK x, y : x = Total(Balances(st), Addresses) /\ y = Total(Amounts(st), DOMAIN st.locks)
  OBVIOUS
<1>11. /\ Supply(st) = x + y /\ x \in Int /\ y \in Int
       /\ Supply(st1) = (x - st.accounts[a].balance + acc.balance) + y
  BY <1>4, <1>5, <1>7, <1>9, <1>10
<1>12. Supply(st1) = Supply(st) - st.accounts[a].balance + acc.balance
  BY <1>8, <1>11
<1> QED
  BY <1>1, <1>2, <1>12, StateSums

(* A credit adds its amount and leaves nonces and locks. *)
LEMMA CreditAdds ==
  ASSUME NEW st, StateOK(st), NEW a \in Addresses, NEW n \in Nat
  PROVE  /\ StateOK(Credit(st, a, n)) /\ Credit(st, a, n).locks = st.locks
         /\ \A b \in Addresses : Credit(st, a, n).accounts[b].nonce = st.accounts[b].nonce
         /\ Supply(Credit(st, a, n)) = Supply(st) + n /\ Supply(st) \in Int
<1> DEFINE acc == [balance |-> st.accounts[a].balance + n, nonce |-> st.accounts[a].nonce]
           st1 == [accounts |-> [st.accounts EXCEPT ![a] = acc], locks |-> st.locks]
<1>1. acc \in [balance : Nat, nonce : Nat] /\ st.accounts[a].balance \in Nat
  BY DEF StateOK
<1>2. Credit(st, a, n) = st1
  <2>1. PICK A, L : st = [accounts |-> A, locks |-> L] /\ A \in [Addresses -> [balance : Nat, nonce : Nat]]
    BY DEF StateOK
  <2>2. Credit(st, a, n) = [accounts |-> [A EXCEPT ![a].balance = A[a].balance + n], locks |-> L]
    BY <2>1 DEF Credit
  <2>3. [A EXCEPT ![a].balance = A[a].balance + n] = [A EXCEPT ![a] = [balance |-> A[a].balance + n, nonce |-> A[a].nonce]]
    <3>1. PICK r \in [balance : Nat, nonce : Nat] : r = A[a]
      BY <2>1
    <3>2. [r EXCEPT !.balance = r.balance + n] = [balance |-> r.balance + n, nonce |-> r.nonce]
      OBVIOUS
    <3> QED
      BY <3>1, <3>2
  <2> QED
    BY <2>1, <2>2, <2>3
<1>3. acc.balance = st.accounts[a].balance + n /\ acc.nonce = st.accounts[a].nonce
  OBVIOUS
<1> HIDE DEF acc
<1>4. /\ StateOK(st1) /\ st1.locks = st.locks
      /\ st1.accounts = [st.accounts EXCEPT ![a] = acc]
      /\ Supply(st1) = Supply(st) - st.accounts[a].balance + acc.balance
      /\ Supply(st) \in Int
  BY <1>1, AccountChanges
<1>5. Supply(st1) = Supply(st) + n
  BY <1>1, <1>3, <1>4
<1> HIDE DEF st1
<1>6. \A b \in Addresses : st1.accounts[b].nonce = st.accounts[b].nonce
  BY <1>3, <1>4 DEF StateOK
<1> QED
  BY <1>2, <1>4, <1>5, <1>6

(* A debit takes amount and fee and uses a nonce. *)
LEMMA DebitTakes ==
  ASSUME NEW st, StateOK(st), NEW tx, tx.from \in Addresses, tx.amount \in Nat, tx.fee \in Nat,
         Payable(st, tx)
  PROVE  /\ StateOK(Debit(st, tx)) /\ Debit(st, tx).locks = st.locks
         /\ Debit(st, tx).accounts[tx.from].nonce = tx.nonce + 1
         /\ \A b \in Addresses : Debit(st, tx).accounts[b].nonce >= st.accounts[b].nonce
         /\ Supply(Debit(st, tx)) = Supply(st) - tx.amount - tx.fee /\ Supply(st) \in Int
<1> DEFINE a == tx.from
           acc == [balance |-> st.accounts[a].balance - tx.amount - tx.fee, nonce |-> st.accounts[a].nonce + 1]
           st1 == [accounts |-> [st.accounts EXCEPT ![a] = acc], locks |-> st.locks]
<1>0. /\ st.accounts[a].balance \in Nat /\ st.accounts[a].nonce \in Nat
      /\ st.accounts[a].balance >= tx.amount + tx.fee
      /\ st.accounts[a].nonce = tx.nonce
  BY DEF StateOK, Payable
<1>1. acc \in [balance : Nat, nonce : Nat]
  <2>1. st.accounts[a].balance - tx.amount - tx.fee \in Nat
    BY <1>0
  <2> QED
    BY <1>0, <2>1
<1>2. Debit(st, tx) = st1
  <2>1. PICK A, L : st = [accounts |-> A, locks |-> L] /\ A \in [Addresses -> [balance : Nat, nonce : Nat]]
    BY DEF StateOK
  <2>2. Debit(st, tx) = [accounts |-> [A EXCEPT ![a] = [balance |-> A[a].balance - tx.amount - tx.fee, nonce |-> A[a].nonce + 1]], locks |-> L]
    BY <2>1 DEF Debit
  <2> QED
    BY <2>1, <2>2
<1>3. /\ acc.balance = st.accounts[a].balance - tx.amount - tx.fee
      /\ acc.nonce = st.accounts[a].nonce + 1
  OBVIOUS
<1> HIDE DEF acc
<1>4. /\ StateOK(st1) /\ st1.locks = st.locks
      /\ st1.accounts = [st.accounts EXCEPT ![a] = acc]
      /\ Supply(st1) = Supply(st) - st.accounts[a].balance + acc.balance
      /\ Supply(st) \in Int
  BY <1>1, AccountChanges
<1>5. Supply(st1) = Supply(st) - tx.amount - tx.fee
  BY <1>0, <1>3, <1>4
<1> HIDE DEF st1
<1>6. /\ \A b \in Addresses : st1.accounts[b].nonce >= st.accounts[b].nonce
      /\ st1.accounts[a].nonce = tx.nonce + 1
  BY <1>0, <1>3, <1>4 DEF StateOK
<1> QED
  BY <1>2, <1>4, <1>5, <1>6

(* A new lock holds its amount and leaves the others. *)
LEMMA LockTakesIn ==
  ASSUME NEW st, StateOK(st), NEW tx, tx.script \in Scripts, tx.amount \in Nat, NEW height \in Nat,
         tx \notin DOMAIN st.locks
  PROVE  /\ StateOK(WithLock(st, tx, height)) /\ WithLock(st, tx, height).accounts = st.accounts
         /\ DOMAIN WithLock(st, tx, height).locks = DOMAIN st.locks \union {tx}
         /\ WithLock(st, tx, height).locks[tx].script = tx.script
         /\ \A l \in DOMAIN st.locks : WithLock(st, tx, height).locks[l] = st.locks[l]
         /\ Supply(WithLock(st, tx, height)) = Supply(st) + tx.amount /\ Supply(st) \in Int
<1> DEFINE D == DOMAIN st.locks
           lock == [amount |-> tx.amount, script |-> tx.script, height |-> height]
           locks1 == [l \in D \union {tx} |-> IF l = tx THEN lock ELSE st.locks[l]]
           st1 == [accounts |-> st.accounts, locks |-> locks1]
<1>1. WithLock(st, tx, height) = st1
  <2>1. PICK A, L : st = [accounts |-> A, locks |-> L] /\ L = st.locks
    BY DEF StateOK
  <2> QED
    BY <2>1 DEF WithLock
<1>2. lock \in Lock /\ lock.amount = tx.amount /\ lock.script = tx.script
  BY DEF Lock
<1>3. IsFiniteSet(D \union {tx}) /\ IsFiniteSet(D)
  BY FS_AddElement DEF StateOK
<1> HIDE DEF lock
<1>4. /\ StateOK(st1) /\ st1.accounts = st.accounts /\ DOMAIN st1.locks = D \union {tx}
      /\ st1.locks[tx] = lock /\ \A l \in D : st1.locks[l] = st.locks[l]
  BY <1>2, <1>3 DEF StateOK
<1> HIDE DEF st1
<1>5. \A l \in D \union {tx} : Amounts(st1)[l] \in Int
  BY <1>4 DEF StateOK, Amounts, Lock
<1>6. Total(Amounts(st1), D \union {tx}) = Amounts(st1)[tx] + Total(Amounts(st1), D)
  BY <1>3, <1>5, TotalMore
<1>7. Total(Amounts(st1), D) = Total(Amounts(st), D)
  <2>1. \A l \in D : Amounts(st1)[l] = Amounts(st)[l]
    BY <1>4 DEF Amounts
  <2> QED
    BY <1>3, <2>1, TotalAgrees
<1>8. Balances(st1) = Balances(st)
  BY <1>4 DEF Balances
<1>9. Amounts(st1)[tx] = tx.amount
  BY <1>2, <1>4 DEF Amounts
<1>10. Supply(st1) = Total(Balances(st), Addresses) + (tx.amount + Total(Amounts(st), D))
  BY <1>4, <1>6, <1>7, <1>8, <1>9, StateSums
<1>11. /\ Supply(st) = Total(Balances(st), Addresses) + Total(Amounts(st), D)
       /\ Total(Balances(st), Addresses) \in Int /\ Total(Amounts(st), D) \in Int
  BY StateSums
<1>12. Supply(st1) = Supply(st) + tx.amount
  <2>1. PICK x, y : x = Total(Balances(st), Addresses) /\ y = Total(Amounts(st), D)
    OBVIOUS
  <2>2. Supply(st1) = x + (tx.amount + y) /\ Supply(st) = x + y /\ x \in Int /\ y \in Int
    BY <1>10, <1>11, <2>1
  <2> QED
    BY <2>2
<1> QED
  BY <1>1, <1>2, <1>4, <1>11, <1>12

(* A lock taken away gives out its amount and leaves the others. *)
LEMMA LockGivesOut ==
  ASSUME NEW st, StateOK(st), NEW l \in DOMAIN st.locks
  PROVE  /\ StateOK(WithoutLock(st, l)) /\ WithoutLock(st, l).accounts = st.accounts
         /\ DOMAIN WithoutLock(st, l).locks = DOMAIN st.locks \ {l}
         /\ \A k \in DOMAIN st.locks \ {l} : WithoutLock(st, l).locks[k] = st.locks[k]
         /\ Supply(WithoutLock(st, l)) = Supply(st) - st.locks[l].amount
         /\ Supply(st) \in Int /\ st.locks[l].amount \in Nat
<1> DEFINE D == DOMAIN st.locks
           locks1 == [k \in D \ {l} |-> st.locks[k]]
           st1 == [accounts |-> st.accounts, locks |-> locks1]
<1>1. WithoutLock(st, l) = st1
  <2>1. PICK A, L : st = [accounts |-> A, locks |-> L] /\ L = st.locks
    BY DEF StateOK
  <2>2. Restrict(L, DOMAIN L \ {l}) = locks1
    BY <2>1 DEF Restrict
  <2> QED
    BY <2>1, <2>2 DEF WithoutLock
<1>2. IsFiniteSet(D \ {l}) /\ IsFiniteSet(D)
  BY FS_RemoveElement DEF StateOK
<1>3. /\ StateOK(st1) /\ st1.accounts = st.accounts /\ DOMAIN st1.locks = D \ {l}
      /\ \A k \in D \ {l} : st1.locks[k] = st.locks[k]
  BY <1>2 DEF StateOK
<1> HIDE DEF st1
<1>4. \A k \in D : Amounts(st)[k] \in Int
  BY DEF StateOK, Amounts, Lock
<1>5. Total(Amounts(st), D) = Amounts(st)[l] + Total(Amounts(st), D \ {l})
  BY <1>2, <1>4, TotalLess
<1>6. Total(Amounts(st), D \ {l}) = Total(Amounts(st1), D \ {l})
  <2>1. \A k \in D \ {l} : Amounts(st)[k] = Amounts(st1)[k]
    BY <1>3 DEF Amounts
  <2> QED
    BY <1>2, <2>1, TotalAgrees
<1>7. Balances(st1) = Balances(st)
  BY <1>3 DEF Balances
<1>8. Amounts(st)[l] = st.locks[l].amount /\ st.locks[l].amount \in Nat
  BY DEF Amounts, StateOK, Lock
<1>9. /\ Supply(st1) = Total(Balances(st), Addresses) + Total(Amounts(st1), D \ {l})
      /\ Total(Amounts(st1), D \ {l}) \in Int
  BY <1>3, <1>7, StateSums
<1>10. /\ Supply(st) = Total(Balances(st), Addresses) + Total(Amounts(st), D)
       /\ Total(Balances(st), Addresses) \in Int /\ Total(Amounts(st), D) \in Int
  BY StateSums
<1>11. Supply(st1) = Supply(st) - st.locks[l].amount
  <2>1. PICK x, y, z : x = Total(Balances(st), Addresses) /\ y = Total(Amounts(st), D) /\ z = Total(Amounts(st1), D \ {l})
    OBVIOUS
  <2>2. /\ Supply(st1) = x + z /\ Supply(st) = x + y /\ x \in Int /\ y \in Int /\ z \in Int
        /\ y = st.locks[l].amount + z
    BY <1>5, <1>6, <1>8, <1>9, <1>10, <2>1
  <2> QED
    BY <1>8, <2>2
<1> QED
  BY <1>1, <1>3, <1>8, <1>10, <1>11, StateSums

(* A transaction that applies takes its fee out of the sum, no more and no less. *)
LEMMA AppliedKeeps ==
  ASSUME NEW st, StateOK(st), NEW tx, IsTx(tx), NEW created, NEW ctx, ctx.height \in Nat,
         Applicable(st, tx, created, ctx)
  PROVE  /\ StateOK(Applied(st, tx, ctx)) /\ tx.fee \in Nat
         /\ Supply(Applied(st, tx, ctx)) = Supply(st) - tx.fee /\ Supply(st) \in Int
<1>1. tx.kind \in {"transfer", "lock", "redeem"} /\ tx.amount \in Nat /\ tx.fee \in Nat
  BY DEF IsTx
<1>2. CASE tx.kind = "transfer"
  <2>1. Payable(st, tx) /\ Applied(st, tx, ctx) = Credit(Debit(st, tx), tx.to, tx.amount)
    BY <1>2 DEF Applicable, Applied
  <2>2. tx.from \in Addresses /\ tx.to \in Addresses
    BY <1>2 DEF IsTx
  <2> DEFINE d == Debit(st, tx)
  <2>3. StateOK(d) /\ Supply(d) = Supply(st) - tx.amount - tx.fee /\ Supply(st) \in Int
    BY <1>1, <2>1, <2>2, DebitTakes
  <2> HIDE DEF d
  <2>4. StateOK(Credit(d, tx.to, tx.amount)) /\ Supply(Credit(d, tx.to, tx.amount)) = Supply(d) + tx.amount
    BY <1>1, <2>2, <2>3, CreditAdds
  <2>5. Supply(d) + tx.amount = Supply(st) - tx.fee
    BY <1>1, <2>3
  <2> QED
    BY <1>1, <2>1, <2>3, <2>4, <2>5 DEF d
<1>3. CASE tx.kind = "lock"
  <2>1. /\ Payable(st, tx) /\ tx \notin DOMAIN st.locks
        /\ Applied(st, tx, ctx) = WithLock(Debit(st, tx), tx, ctx.height)
    BY <1>3 DEF Applicable, Applied
  <2>2. tx.from \in Addresses /\ tx.script \in Scripts
    BY <1>3 DEF IsTx
  <2> DEFINE d == Debit(st, tx)
  <2>3. /\ StateOK(d) /\ Supply(d) = Supply(st) - tx.amount - tx.fee /\ Supply(st) \in Int
        /\ d.locks = st.locks
    BY <1>1, <2>1, <2>2, DebitTakes
  <2> HIDE DEF d
  <2>4. /\ StateOK(WithLock(d, tx, ctx.height))
        /\ Supply(WithLock(d, tx, ctx.height)) = Supply(d) + tx.amount
    BY <1>1, <2>1, <2>2, <2>3, LockTakesIn
  <2>5. Supply(d) + tx.amount = Supply(st) - tx.fee
    BY <1>1, <2>3
  <2> QED
    BY <1>1, <2>1, <2>3, <2>4, <2>5 DEF d
<1>4. CASE tx.kind = "redeem"
  <2>1. /\ Redeemable(st, tx, created, ctx)
        /\ Applied(st, tx, ctx) = Credit(WithoutLock(st, tx.lock), tx.to, tx.amount - tx.fee)
    BY <1>4 DEF Applicable, Applied
  <2>2. /\ tx.lock \in DOMAIN st.locks /\ tx.to \in Addresses
        /\ tx.amount = st.locks[tx.lock].amount /\ tx.fee <= st.locks[tx.lock].amount
    BY <1>4, <2>1 DEF Redeemable, IsTx
  <2> DEFINE w == WithoutLock(st, tx.lock)
  <2>3. StateOK(w) /\ Supply(w) = Supply(st) - tx.amount /\ Supply(st) \in Int
    BY <2>2, LockGivesOut
  <2> HIDE DEF w
  <2>4. PICK n \in Nat : n = tx.amount - tx.fee
    BY <1>1, <2>2
  <2>5. StateOK(Credit(w, tx.to, n)) /\ Supply(Credit(w, tx.to, n)) = Supply(w) + n
    BY <2>2, <2>3, CreditAdds
  <2>6. Supply(w) + n = Supply(st) - tx.fee
    BY <1>1, <2>3, <2>4
  <2> QED
    BY <1>1, <2>1, <2>3, <2>4, <2>5, <2>6 DEF w
<1> QED
  BY <1>1, <1>2, <1>3, <1>4

(* What the loop has taken so far it has counted as fees, after a failure too. *)
RunOK(r, supply) ==
  /\ r = [state |-> r.state, fees |-> r.fees, ok |-> r.ok, created |-> r.created]
  /\ StateOK(r.state) /\ r.fees \in Nat /\ r.ok \in BOOLEAN
  /\ Supply(r.state) + r.fees = supply

Unapplied(st) == [state |-> st, fees |-> 0, ok |-> TRUE, created |-> {}]

(* One turn of the loop. *)
LEMMA NextKeeps ==
  ASSUME NEW supply, NEW r, RunOK(r, supply), NEW tx, IsTx(tx), NEW ctx, ctx.height \in Nat
  PROVE  RunOK(ApplyNext(r, tx, ctx), supply)
<1>1. CASE ~r.ok
  BY <1>1 DEF ApplyNext
<1>2. CASE r.ok /\ ~Applicable(r.state, tx, r.created, ctx)
  <2>1. PICK s, f, c : r = [state |-> s, fees |-> f, ok |-> TRUE, created |-> c]
    BY <1>2 DEF RunOK
  <2>2. ApplyNext(r, tx, ctx) = [r EXCEPT !.ok = FALSE]
    BY <1>2, Zenon DEF ApplyNext
  <2>3. ApplyNext(r, tx, ctx) = [state |-> s, fees |-> f, ok |-> FALSE, created |-> c]
    BY <2>1, <2>2
  <2>4. r.state = s /\ r.fees = f
    BY <2>1
  <2> QED
    BY <2>3, <2>4 DEF RunOK
<1>3. CASE r.ok /\ Applicable(r.state, tx, r.created, ctx)
  <2>1. ApplyNext(r, tx, ctx) =
          [state |-> Applied(r.state, tx, ctx), fees |-> r.fees + tx.fee, ok |-> TRUE,
           created |-> r.created \union (IF tx.kind = "lock" THEN {tx} ELSE {})]
    BY <1>3, Zenon DEF ApplyNext
  <2>2. StateOK(r.state) /\ r.fees \in Nat /\ Supply(r.state) + r.fees = supply
    BY DEF RunOK
  <2>3. /\ StateOK(Applied(r.state, tx, ctx)) /\ tx.fee \in Nat
        /\ Supply(Applied(r.state, tx, ctx)) = Supply(r.state) - tx.fee /\ Supply(r.state) \in Int
    BY <1>3, <2>2, AppliedKeeps
  <2> DEFINE a == Applied(r.state, tx, ctx)
             c == r.created \union (IF tx.kind = "lock" THEN {tx} ELSE {})
  <2> HIDE DEF a, c
  <2>4. Supply(a) + (r.fees + tx.fee) = supply
    BY <2>2, <2>3 DEF a
  <2>5. RunOK([state |-> a, fees |-> r.fees + tx.fee, ok |-> TRUE, created |-> c], supply)
    BY <2>2, <2>3, <2>4 DEF RunOK, a
  <2> QED
    BY <2>1, <2>5 DEF a, c
<1> QED
  BY <1>1, <1>2, <1>3 DEF RunOK

(* Every turn of it. *)
LEMMA RunKeeps ==
  ASSUME NEW st, StateOK(st), NEW n \in Nat, NEW txs, \A i \in 1 .. n : IsTx(txs[i]),
         NEW ctx, ctx.height \in Nat, NEW run, IsRun(run, n, Unapplied(st), txs, ctx)
  PROVE  \A i \in 0 .. n : RunOK(run[i], Supply(st))
<1> DEFINE T == {i \in Nat : i <= n => RunOK(run[i], Supply(st))}
<1>1. 0 \in T
  <2>1. run[0] = Unapplied(st) /\ Supply(st) \in Int
    BY StateSums DEF IsRun
  <2>2. RunOK(Unapplied(st), Supply(st))
    BY <2>1 DEF RunOK, Unapplied
  <2> QED
    BY <2>1, <2>2
<1>2. ASSUME NEW i \in T PROVE i + 1 \in T
  <2> SUFFICES ASSUME i + 1 <= n PROVE RunOK(run[i+1], Supply(st))
    OBVIOUS
  <2>1. RunOK(run[i], Supply(st)) /\ i + 1 \in 1 .. n /\ (i + 1) - 1 = i
    OBVIOUS
  <2>2. run[i+1] = ApplyNext(run[i], txs[i+1], ctx)
    BY <2>1 DEF IsRun
  <2>3. IsTx(txs[i+1])
    BY <2>1
  <2> QED
    BY <2>1, <2>2, <2>3, NextKeeps
<1> HIDE DEF T
<1>3. T = Nat
  BY <1>1, <1>2, Induct DEF T
<1> QED
  BY <1>3 DEF T

IsBody(txs) == \E n \in Nat : DOMAIN txs = 1 .. n /\ \A i \in 1 .. n : IsTx(txs[i])

(* Whatever a body does, a state it is applied to stays one, and if all of it
   applies the sum is the block's reward up. *)
LEMMA BlockKeeps ==
  ASSUME NEW st, StateOK(st), NEW height \in Nat, NEW miner \in Addresses,
         NEW txs, IsBody(txs), NEW mtp,
         NEW r, r = ApplyBlockTxs(st, height, miner, txs, mtp)
  PROVE  /\ r = [state |-> r.state, ok |-> r.ok] /\ r.ok \in BOOLEAN /\ StateOK(r.state)
         /\ r.ok => Supply(r.state) = Supply(st) + BlockReward(height)
         /\ Supply(st) \in Int
<1> DEFINE ctx == [height |-> height, mtp |-> mtp]
<1>1. PICK n \in Nat : DOMAIN txs = 1 .. n /\ \A i \in 1 .. n : IsTx(txs[i])
  BY DEF IsBody
<1>2. r = Settled(Fold(Unapplied(st), txs, ctx), height, miner)
  BY Zenon DEF ApplyBlockTxs, Fold, Unapplied
<1>3. ctx.height = height
  OBVIOUS
<1> HIDE DEF ctx
<1>4. PICK run : IsRun(run, n, Unapplied(st), txs, ctx) /\ Fold(Unapplied(st), txs, ctx) = run[n]
  BY <1>1, FoldRuns
<1>5. RunOK(run[n], Supply(st))
  BY <1>1, <1>3, <1>4, RunKeeps
<1>6. PICK s, f, k, c : run[n] = [state |-> s, fees |-> f, ok |-> k, created |-> c]
  BY <1>5 DEF RunOK
<1>7. /\ StateOK(s) /\ f \in Nat /\ k \in BOOLEAN /\ Supply(s) + f = Supply(st)
      /\ run[n].state = s /\ run[n].ok = k /\ run[n].fees = f
  BY <1>5, <1>6 DEF RunOK
<1>8. BlockReward(height) \in Nat /\ Supply(st) \in Int /\ Supply(s) \in Int
  BY <1>7, RewardIsNat, StateSums
<1>9. CASE k
  <2>1. PICK m \in Nat : m = BlockReward(height) + f
    BY <1>7, <1>8
  <2>2. r = [state |-> Credit(s, miner, m), ok |-> TRUE]
    BY <1>2, <1>4, <1>7, <1>9, <2>1 DEF Settled
  <2>3. StateOK(Credit(s, miner, m)) /\ Supply(Credit(s, miner, m)) = Supply(s) + m
    BY <1>7, CreditAdds
  <2>4. Supply(s) + m = Supply(st) + BlockReward(height)
    BY <1>7, <1>8, <2>1
  <2>5. r.state = Credit(s, miner, m) /\ r.ok = TRUE
    BY <2>2
  <2> QED
    BY <1>8, <2>2, <2>3, <2>4, <2>5
<1>10. CASE ~k
  <2>1. r = [state |-> s, ok |-> FALSE]
    BY <1>2, <1>4, <1>7, <1>10 DEF Settled
  <2>2. r.state = s /\ r.ok = FALSE
    BY <2>1
  <2> QED
    BY <1>7, <1>8, <2>1, <2>2
<1> QED
  BY <1>9, <1>10

-----------------------------------------------------------------------------
(* The clock of a branch. *)

(* Finitely many naturals have a bound. *)
LEMMA BoundExists ==
  ASSUME NEW W, IsFiniteSet(W), NEW f, \A i \in W : f[i] \in Nat
  PROVE  \E m \in Nat : \A i \in W : f[i] <= m
<1> DEFINE T == {n \in Nat : \A s \in SUBSET W : Cardinality(s) = n => \E m \in Nat : \A i \in s : f[i] <= m}
<1>1. \A s \in SUBSET W : IsFiniteSet(s) /\ Cardinality(s) \in Nat
  BY FS_Subset, FS_CardinalityType
<1>2. 0 \in T
  <2> SUFFICES ASSUME NEW s \in SUBSET W, Cardinality(s) = 0 PROVE \E m \in Nat : \A i \in s : f[i] <= m
    OBVIOUS
  <2>1. s = {}
    BY <1>1, FS_EmptySet
  <2> QED
    BY <2>1
<1>3. ASSUME NEW n \in T PROVE n + 1 \in T
  <2> SUFFICES ASSUME NEW s \in SUBSET W, Cardinality(s) = n + 1
               PROVE  \E m \in Nat : \A i \in s : f[i] <= m
    OBVIOUS
  <2>1. s # {}
    BY FS_EmptySet
  <2>2. One(s) \in s /\ Cardinality(s \ {One(s)}) = n
    BY <1>1, <2>1, OneLess
  <2>3. PICK m \in Nat : \A i \in s \ {One(s)} : f[i] <= m
    BY <2>2
  <2>4. PICK k \in Nat : k = f[One(s)]
    BY <2>2
  <2>5. PICK u \in Nat : u >= m /\ u >= k
    <3>1. m + k \in Nat /\ m + k >= m /\ m + k >= k
      OBVIOUS
    <3> QED
      BY <3>1
  <2>6. \A i \in s : f[i] <= u
    BY <2>3, <2>4, <2>5
  <2> QED
    BY <2>6
<1> HIDE DEF T
<1>4. T = Nat
  BY <1>2, <1>3, Induct DEF T
<1> QED
  BY <1>1, <1>4 DEF T

Medians(W, f, middle) ==
  {t \in {f[i] : i \in W} :
     /\ Cardinality({i \in W : f[i] < t}) <= middle
     /\ Cardinality({i \in W : f[i] <= t}) > middle}

(* Finitely many times have an upper middle one: the least t with more than
   half of them up to it. *)
LEMMA MedianExists ==
  ASSUME NEW W, IsFiniteSet(W), NEW f, \A i \in W : f[i] \in Nat,
         NEW middle \in Nat, middle < Cardinality(W)
  PROVE  Medians(W, f, middle) # {}
<1> DEFINE Below(t) == {i \in W : f[i] <= t}
           Enough == {t \in Nat : Cardinality(Below(t)) > middle}
<1>1. Enough # {}
  <2>1. PICK m \in Nat : \A i \in W : f[i] <= m
    BY BoundExists
  <2>2. Below(m) = W
    BY <2>1
  <2> HIDE DEF Below
  <2>3. m \in Enough
    BY <2>2, FS_CardinalityType
  <2> QED
    BY <2>3
<1>2. PICK t \in Enough : \A u \in Enough : t <= u
  BY <1>1, LeastNat
<1>3. t \in Nat /\ Cardinality(Below(t)) > middle
  OBVIOUS
<1>4. \A k \in Nat : Cardinality(Below(k)) \in Nat
  <2>1. \A k \in Nat : Below(k) \subseteq W
    OBVIOUS
  <2> HIDE DEF Below
  <2> QED
    BY <2>1, FS_Subset, FS_CardinalityType
<1>5. CASE t = 0
  <2>1. {i \in W : f[i] < t} = {}
    BY <1>5
  <2>2. Cardinality({i \in W : f[i] < t}) <= middle
    BY <2>1, FS_EmptySet
  <2>3. \E i \in W : f[i] = t
    <3>1. SUFFICES ASSUME Below(t) = {} PROVE FALSE
      BY <1>5
    <3> HIDE DEF Below
    <3> QED
      BY <1>3, <3>1, FS_EmptySet
  <2> QED
    BY <1>3, <2>2, <2>3 DEF Medians
<1>6. CASE t # 0
  <2>1. t - 1 \in Nat /\ t - 1 < t
    BY <1>3, <1>6
  <2>2. t - 1 \notin Enough
    BY <1>2, <1>3, <2>1
  <2>3. Cardinality(Below(t - 1)) <= middle
    <3> HIDE DEF Below
    <3> QED
      BY <1>4, <2>1, <2>2
  <2>4. {i \in W : f[i] < t} = Below(t - 1)
    BY <1>3
  <2>5. \E i \in W : f[i] = t
    <3>1. SUFFICES ASSUME \A i \in W : f[i] # t PROVE FALSE
      OBVIOUS
    <3>2. Below(t) = Below(t - 1)
      BY <1>3, <3>1
    <3> HIDE DEF Below
    <3> QED
      BY <1>3, <1>4, <2>1, <2>3, <3>2
  <2> QED
    BY <1>3, <2>3, <2>4, <2>5 DEF Medians
<1> QED
  BY <1>5, <1>6

(* A block is a finite sequence of bodies, of whatever sort. *)
IsBlock(b) == \E S : b \in Seq(S)

BodyOK(body) == body.miner \in Addresses /\ IsBody(body.txs) /\ body.time \in Nat

BlockOK(b) == IsBlock(b) /\ \A i \in 1 .. Len(b) : BodyOK(b[i])

(* The median time past of a branch is one of its times, a natural. *)
LEMMA MedianIsNat ==
  ASSUME NEW b, BlockOK(b)
  PROVE  MedianTimePast(b) \in Nat
<1> DEFINE times == <<GenesisTime>> \o [i \in DOMAIN b |-> b[i].time]
           window == (IF Len(times) <= MtpWindow THEN 1 ELSE Len(times) - MtpWindow + 1) .. Len(times)
           middle == Cardinality(window) \div 2
<1>1. times \in Seq(Nat) /\ Len(times) \in Nat \ {0}
  <2>1. DOMAIN b = 1 .. Len(b) /\ Len(b) \in Nat
    BY DEF BlockOK, IsBlock
  <2>2. [i \in DOMAIN b |-> b[i].time] \in [1 .. Len(b) -> Nat]
    BY <2>1 DEF BlockOK, BodyOK
  <2>3. [i \in DOMAIN b |-> b[i].time] \in Seq(Nat)
    BY <2>1, <2>2
  <2>4. <<GenesisTime>> \in Seq(Nat) /\ Len(<<GenesisTime>>) = 1
    BY LedgerAssumption
  <2>5. PICK u, v : u = <<GenesisTime>> /\ v = [i \in DOMAIN b |-> b[i].time]
    OBVIOUS
  <2>6. u \in Seq(Nat) /\ Len(u) = 1 /\ v \in Seq(Nat)
    BY <2>3, <2>4, <2>5
  <2>7. u \o v \in Seq(Nat) /\ Len(u \o v) = 1 + Len(v) /\ Len(v) \in Nat
    BY <2>6, ConcatProperties, LenProperties
  <2> QED
    BY <2>5, <2>7
<1> HIDE DEF times
<1>2. /\ IsFiniteSet(window) /\ window \subseteq 1 .. Len(times)
      /\ Cardinality(window) \in Nat \ {0}
  <2>1. MtpWindow \in Nat \ {0}
    BY LedgerAssumption
  <2> DEFINE n == Len(times)
             lo == IF n <= MtpWindow THEN 1 ELSE n - MtpWindow + 1
  <2>2. lo \in Nat \ {0} /\ lo <= n /\ n \in Nat
    BY <1>1, <2>1
  <2>3. window = lo .. n
    OBVIOUS
  <2> HIDE DEF lo, n, window
  <2>4. IsFiniteSet(lo .. n) /\ Cardinality(lo .. n) = n - lo + 1
    BY <2>2, FS_Interval
  <2> QED
    BY <2>2, <2>3, <2>4 DEF n
<1> HIDE DEF window
<1>3. middle \in Nat /\ middle < Cardinality(window)
  BY <1>2
<1>4. \A i \in window : times[i] \in Nat
  BY <1>1, <1>2
<1> HIDE DEF middle
<1>5. Medians(window, times, middle) # {}
  BY <1>2, <1>3, <1>4, MedianExists
<1>6. MedianTimePast(b) =
        CHOOSE t \in {times[i] : i \in window} :
          /\ Cardinality({i \in window : times[i] < t}) <= middle
          /\ Cardinality({i \in window : times[i] <= t}) > middle
  BY Zenon DEF MedianTimePast, times, window, middle
<1>7. MedianTimePast(b) \in {times[i] : i \in window}
  BY <1>5, <1>6 DEF Medians
<1> QED
  BY <1>4, <1>7

(* A template's timestamp is later than the median time past. *)
LEMMA StampIsLate ==
  ASSUME NEW b, BlockOK(b), NEW now \in Clock
  PROVE  Timestamp(b, now) \in Nat /\ Timestamp(b, now) > MedianTimePast(b)
<1>1. now \in Nat /\ MedianTimePast(b) \in Nat
  BY MedianIsNat, LedgerAssumption
<1>2. PICK k \in Nat : k = MedianTimePast(b) + 1
  BY <1>1
<1>3. PICK L \in Nat : L = now + k
  BY <1>1
<1>4. {now, k} \in SUBSET (0 .. L) /\ {now, k} # {} /\ k \in {now, k}
  BY <1>1, <1>2, <1>3
<1>5. Max({now, k}) \in {now, k} /\ \A y \in {now, k} : y <= Max({now, k})
  <2>1. PICK T : T = {now, k}
    OBVIOUS
  <2> QED
    BY <1>4, <2>1, MaxIsMember
<1> QED
  BY <1>1, <1>2, <1>5 DEF Timestamp

-----------------------------------------------------------------------------
(* The state of every stored block. *)

(* What the last of the first i bodies of b makes of the state before it. *)
StateAfter(b, i) ==
  ApplyBlockTxs(states[SubSeq(b, 1, i - 1)], i, b[i].miner, b[i].txs,
                MedianTimePast(SubSeq(b, 1, i - 1))).state

LedgerInv ==
  /\ <<>> \in Stored /\ tip \in Stored
  /\ \A b \in Stored : BlockOK(b) /\ StateOK(states[b])
  /\ \A b \in Stored : \A i \in 0 .. Len(b) : SubSeq(b, 1, i) \in Stored
  /\ \A b \in Stored : \A i \in 1 .. Len(b) : states[SubSeq(b, 1, i)] = StateAfter(b, i)
  /\ states[<<>>] = EmptyState
  /\ SupplyConserved

(* A block is the longest of its prefixes. *)
LEMMA BlockParts ==
  ASSUME NEW b, IsBlock(b)
  PROVE  Len(b) \in Nat /\ DOMAIN b = 1 .. Len(b) /\ SubSeq(b, 1, Len(b)) = b /\ SubSeq(b, 1, 0) = <<>>
BY DEF IsBlock

(* An extended block has its parent's prefixes and itself. *)
LEMMA AppendParts ==
  ASSUME NEW b, NEW x, IsBlock(b), NEW c, c = Append(b, x)
  PROVE  /\ IsBlock(c) /\ Len(c) = Len(b) + 1 /\ Len(b) \in Nat
         /\ \A i \in 1 .. Len(b) : c[i] = b[i]
         /\ c[Len(b) + 1] = x
         /\ \A i \in 0 .. Len(b) : SubSeq(c, 1, i) = SubSeq(b, 1, i)
         /\ SubSeq(c, 1, Len(b) + 1) = c /\ SubSeq(c, 1, Len(b)) = b
<1>1. PICK S : b \in Seq(S)
  BY DEF IsBlock
<1>2. PICK T : b \in Seq(T) /\ x \in T
  <2>1. b \in Seq(S \union {x}) /\ x \in S \union {x}
    BY <1>1
  <2> QED
    BY <2>1
<1>3. /\ c \in Seq(T) /\ Len(c) = Len(b) + 1 /\ Len(b) \in Nat
      /\ \A i \in 1 .. Len(b) : c[i] = b[i]
      /\ c[Len(b) + 1] = x
  BY <1>2, AppendProperties, LenProperties
<1>4. IsBlock(c)
  BY <1>3 DEF IsBlock
<1>5. ASSUME NEW i \in 0 .. Len(b) PROVE SubSeq(c, 1, i) = SubSeq(b, 1, i)
  <2>1. \A j \in 1 .. i : c[j] = b[j]
    BY <1>3
  <2>2. SubSeq(c, 1, i) = [j \in 1 .. i |-> c[j]] /\ SubSeq(b, 1, i) = [j \in 1 .. i |-> b[j]]
    BY <1>2, <1>3
  <2> QED
    BY <2>1, <2>2
<1>6. SubSeq(c, 1, Len(b) + 1) = c
  BY <1>3, <1>4, BlockParts
<1>7. SubSeq(c, 1, Len(b)) = b
  <2>1. SubSeq(c, 1, Len(b)) = SubSeq(b, 1, Len(b))
    BY <1>3, <1>5
  <2> QED
    BY <2>1, BlockParts
<1> QED
  BY <1>3, <1>4, <1>5, <1>6, <1>7

(* Genesis alone. *)
LEMMA LedgerInvInit == Init => LedgerInv
<1> SUFFICES ASSUME Init PROVE LedgerInv
  OBVIOUS
<1>1. Stored = {<<>>} /\ states[<<>>] = EmptyState /\ tip = <<>>
  BY DEF Init, JustGenesis, Stored
<1>2. <<>> \in Seq({}) /\ Len(<<>>) = 0 /\ SubSeq(<<>>, 1, 0) = <<>>
  OBVIOUS
<1>3. IsBlock(<<>>)
  BY <1>2 DEF IsBlock
<1>4. BlockOK(<<>>)
  BY <1>2, <1>3 DEF BlockOK
<1>5. MapThenSumSet(BlockReward, 1 .. 0) = 0
  BY RewardsGrow DEF Rewards
<1>6. SupplyConserved
  BY <1>1, <1>2, <1>5, EmptyStateOK DEF SupplyConserved
<1> QED
  BY <1>1, <1>2, <1>4, <1>6, EmptyStateOK DEF LedgerInv

(* A block goes in on a parent whose state it applies to. *)
LEMMA InsertKeepsLedger ==
  ASSUME LedgerInv, NEW parent \in Stored, NEW body, BodyOK(body), Insert(parent, body),
         Append(parent, body) \notin Stored, Tried(parent, body).ok
  PROVE  LedgerInv'
<1> DEFINE c == Append(parent, body)
           n == Len(parent)
<1>1. BlockOK(parent) /\ StateOK(states[parent]) /\ IsBlock(parent)
  BY DEF LedgerInv, BlockOK
<1>2. /\ IsBlock(c) /\ Len(c) = n + 1 /\ n \in Nat
      /\ \A i \in 1 .. n : c[i] = parent[i]
      /\ c[n + 1] = body
      /\ \A i \in 0 .. n : SubSeq(c, 1, i) = SubSeq(parent, 1, i)
      /\ SubSeq(c, 1, n + 1) = c /\ SubSeq(c, 1, n) = parent
  BY <1>1, AppendParts
<1>3. /\ Stored' = Stored \union {c} /\ states'[c] = Tried(parent, body).state
      /\ \A b \in Stored : states'[b] = states[b]
      /\ tip' \in {c, tip} /\ c \notin Stored
  BY DEF Insert, Kept, Stored
<1> HIDE DEF c
<1>4. BlockOK(c)
  <2>1. \A i \in 1 .. n + 1 : i \in 1 .. n \/ i = n + 1
    BY <1>2
  <2> QED
    BY <1>1, <1>2, <2>1 DEF BlockOK
<1>5. /\ StateOK(states'[c])
      /\ Supply(states'[c]) = Supply(states[parent]) + BlockReward(n + 1)
  <2>1. PICK r : r = ApplyBlockTxs(states[parent], n + 1, body.miner, body.txs, MedianTimePast(parent))
    OBVIOUS
  <2>2. r = Tried(parent, body)
    BY <2>1 DEF Tried
  <2>3. n + 1 \in Nat /\ body.miner \in Addresses /\ IsBody(body.txs)
    BY <1>2 DEF BodyOK
  <2>4. StateOK(r.state) /\ (r.ok => Supply(r.state) = Supply(states[parent]) + BlockReward(n + 1))
    BY <1>1, <2>1, <2>3, BlockKeeps
  <2> QED
    BY <1>3, <2>2, <2>4
<1>6. Supply(states'[c]) = MapThenSumSet(BlockReward, 1 .. Len(c))
  <2>1. Supply(states[parent]) = MapThenSumSet(BlockReward, 1 .. n)
    BY DEF LedgerInv, SupplyConserved
  <2>2. Rewards(n + 1) = Rewards(n) + BlockReward(n + 1)
    BY <1>2, RewardsGrow
  <2> QED
    BY <1>2, <1>5, <2>1, <2>2 DEF Rewards
<1>7. SupplyConserved'
  <2>1. \A b \in Stored : Supply(states[b]) = MapThenSumSet(BlockReward, 1 .. Len(b))
    BY DEF LedgerInv, SupplyConserved
  <2> QED
    BY <1>3, <1>6, <2>1 DEF SupplyConserved
<1>8. ASSUME NEW b \in Stored', NEW i \in 0 .. Len(b) PROVE SubSeq(b, 1, i) \in Stored'
  <2>1. CASE b = c /\ i = n + 1
    BY <1>2, <1>3, <2>1
  <2>2. CASE b = c /\ i # n + 1
    <3>1. i \in 0 .. n
      BY <1>2, <2>2
    <3>2. SubSeq(c, 1, i) = SubSeq(parent, 1, i)
      BY <1>2, <3>1
    <3> QED
      BY <1>3, <2>2, <3>1, <3>2 DEF LedgerInv
  <2>3. CASE b # c
    BY <1>3, <2>3 DEF LedgerInv
  <2> QED
    BY <2>1, <2>2, <2>3
<1>9. ASSUME NEW b \in Stored', NEW i \in 1 .. Len(b) PROVE states'[SubSeq(b, 1, i)] = StateAfter(b, i)'
  <2>1. ASSUME NEW d \in Stored, NEW j \in 1 .. Len(d)
        PROVE  states'[SubSeq(d, 1, j)] = StateAfter(d, j)'
    <3>1. states[SubSeq(d, 1, j)] = StateAfter(d, j)
      BY DEF LedgerInv
    <3>2. Len(d) \in Nat
      BY BlockParts DEF LedgerInv, BlockOK
    <3>3. j \in 0 .. Len(d) /\ j - 1 \in 0 .. Len(d)
      BY <3>2
    <3>4. SubSeq(d, 1, j) \in Stored /\ SubSeq(d, 1, j - 1) \in Stored
      BY <3>3 DEF LedgerInv
    <3>5. states'[SubSeq(d, 1, j)] = states[SubSeq(d, 1, j)] /\ states'[SubSeq(d, 1, j - 1)] = states[SubSeq(d, 1, j - 1)]
      BY <1>3, <3>4
    <3> QED
      BY <3>1, <3>5 DEF StateAfter
  <2>2. CASE b = c /\ i = n + 1
    <3>1. SubSeq(c, 1, n + 1) = c /\ SubSeq(c, 1, (n + 1) - 1) = parent /\ c[n + 1] = body
      BY <1>2
    <3>2. states'[parent] = states[parent]
      BY <1>3
    <3>3. StateAfter(c, n + 1)' =
            ApplyBlockTxs(states[parent], n + 1, body.miner, body.txs, MedianTimePast(parent)).state
      BY <3>1, <3>2 DEF StateAfter
    <3> QED
      BY <1>3, <2>2, <3>1, <3>3 DEF Tried
  <2>3. CASE b = c /\ i # n + 1
    <3>1. i \in 1 .. n /\ i \in 0 .. n /\ i - 1 \in 0 .. n
      BY <1>2, <2>3
    <3>2. SubSeq(c, 1, i) = SubSeq(parent, 1, i) /\ SubSeq(c, 1, i - 1) = SubSeq(parent, 1, i - 1) /\ c[i] = parent[i]
      BY <1>2, <3>1
    <3>3. StateAfter(c, i)' = StateAfter(parent, i)'
      BY <3>2 DEF StateAfter
    <3> QED
      BY <2>1, <2>3, <3>1, <3>2, <3>3
  <2>4. CASE b # c
    BY <1>3, <2>1, <2>4
  <2> QED
    BY <2>2, <2>3, <2>4
<1>10. <<>> \in Stored' /\ tip' \in Stored' /\ states'[<<>>] = EmptyState
  BY <1>3 DEF LedgerInv
<1>11. \A b \in Stored' : BlockOK(b) /\ StateOK(states'[b])
  BY <1>3, <1>4, <1>5 DEF LedgerInv
<1> QED
  BY <1>7, <1>8, <1>9, <1>10, <1>11 DEF LedgerInv

(* What others offer is a body of transactions. *)
LEMMA OffersAreBodies ==
  ASSUME LedgerInv, NEW parent \in Stored, NEW offer \in Offers(parent)
  PROVE  BodyOK(offer[1]) /\ offer[2] \in BOOLEAN
<1> DEFINE times == {Timestamp(parent, now) : now \in Clock}
           body == offer[1]
<1>1. BlockOK(parent)
  BY DEF LedgerInv
<1>2. \A t \in times : t \in Nat
  BY <1>1, StampIsLate
<1>3. MedianTimePast(parent) \in Nat
  BY <1>1, MedianIsNat
<1>4. \A txs \in TxLists : IsBody(txs)
  <2> SUFFICES ASSUME NEW txs \in TxLists PROVE IsBody(txs)
    OBVIOUS
  <2>1. txs \in Seq(Range(txs)) /\ \A i \in DOMAIN txs : IsTx(txs[i])
    BY TransactionAssumption
  <2>2. Len(txs) \in Nat /\ DOMAIN txs = 1 .. Len(txs)
    BY <2>1
  <2> QED
    BY <2>1, <2>2 DEF IsBody
<1>5. IsBody(<<>>)
  <2>1. DOMAIN <<>> = 1 .. 0 /\ 1 .. 0 = {} /\ 0 \in Nat
    OBVIOUS
  <2> QED
    BY <2>1 DEF IsBody
<1>6. {Miner, Us} \subseteq Addresses
  BY LedgerAssumption
<1>7. /\ body.miner \in {Miner, Us} /\ body.txs \in TxLists \union {<<>>}
      /\ body.time \in times \union {MedianTimePast(parent)} /\ offer[2] \in BOOLEAN
  BY DEF Offers
<1> HIDE DEF body, times
<1> QED
  BY <1>2, <1>3, <1>4, <1>5, <1>6, <1>7 DEF BodyOK, body

(* So is what this miner makes. *)
LEMMA SoloBodyOK ==
  ASSUME LedgerInv, NEW now \in Clock
  PROVE  BodyOK(SoloBody(now)) /\ SoloBody(now).txs = <<>> /\ SoloBody(now).time = Timestamp(tip, now)
<1>1. IsBody(<<>>)
  <2>1. DOMAIN <<>> = 1 .. 0 /\ 1 .. 0 = {} /\ 0 \in Nat
    OBVIOUS
  <2> QED
    BY <2>1 DEF IsBody
<1>2. Timestamp(tip, now) \in Nat
  BY StampIsLate DEF LedgerInv
<1>3. Us \in Addresses
  BY LedgerAssumption
<1>4. /\ SoloBody(now).miner = Us /\ SoloBody(now).txs = <<>>
      /\ SoloBody(now).time = Timestamp(tip, now)
  BY DEF SoloBody
<1> QED
  BY <1>1, <1>2, <1>3, <1>4 DEF BodyOK

(* Every step, stutters included. *)
LEMMA LedgerInvStep ==
  ASSUME LedgerInv, [Next]_vars
  PROVE  LedgerInv'
<1>1. ASSUME NEW parent \in Stored, NEW offer \in Offers(parent), Receive(parent, offer[1], offer[2])
      PROVE  LedgerInv'
  <2> DEFINE body == offer[1]
  <2>1. BodyOK(body)
    BY OffersAreBodies
  <2>2. CASE Insert(parent, body) /\ Tried(parent, body).ok
    BY <1>1, <2>1, <2>2, InsertKeepsLedger DEF Receive
  <2>3. CASE states' = states /\ tip' = tip
    <3> QED
      BY <2>3 DEF LedgerInv, Stored, SupplyConserved, StateAfter
  <2> QED
    BY <1>1, <2>2, <2>3 DEF Receive, Accepts, Agrees, Kept
<1>2. ASSUME NEW now \in Clock, FindSolo(now)
      PROVE  LedgerInv'
  <2>1. BodyOK(SoloBody(now)) /\ tip \in Stored
    BY SoloBodyOK DEF LedgerInv
  <2>2. /\ Insert(tip, SoloBody(now)) /\ Append(tip, SoloBody(now)) \notin Stored
        /\ Tried(tip, SoloBody(now)).ok
    BY <1>2 DEF FindSolo, Accepts, Agrees
  <2> QED
    BY <2>1, <2>2, InsertKeepsLedger
<1>3. CASE Reset
  <2>1. Stored' = {<<>>} /\ states'[<<>>] = EmptyState /\ tip' = <<>>
    BY <1>3 DEF Reset, JustGenesis, Stored
  <2>2. <<>> \in Seq({}) /\ Len(<<>>) = 0 /\ SubSeq(<<>>, 1, 0) = <<>>
    OBVIOUS
  <2>3. BlockOK(<<>>)
    BY <2>2 DEF BlockOK, IsBlock
  <2>4. MapThenSumSet(BlockReward, 1 .. 0) = 0
    BY RewardsGrow DEF Rewards
  <2>5. SupplyConserved'
    BY <2>1, <2>2, <2>4, EmptyStateOK DEF SupplyConserved
  <2> QED
    BY <2>1, <2>2, <2>3, <2>5, EmptyStateOK DEF LedgerInv
<1>4. CASE UNCHANGED vars
  BY <1>4 DEF vars, LedgerInv, Stored, SupplyConserved, StateAfter
<1> QED
  BY <1>1, <1>2, <1>3, <1>4 DEF Next

(* The inductive invariant of the ledger: the tree holds every prefix of its
   blocks, each state is typed, what its last body made of the one before, and
   in balance with the rewards. addBlockInternal keeps it, and so does reset. *)
THEOREM LedgerInvHolds == Spec => []LedgerInv
<1>1. Init => LedgerInv
  BY LedgerInvInit
<1>2. LedgerInv /\ [Next]_vars => LedgerInv'
  BY LedgerInvStep
<1> QED
  BY <1>1, <1>2, PTL DEF Spec

(* The replay of a branch meets its stored states one by one. *)
LEMMA ReplayMeetsStates ==
  ASSUME LedgerInv
  PROVE  StateIsReplay
<1> SUFFICES ASSUME NEW b \in Stored
             PROVE  LET replay[i \in 0 .. Len(b)] ==
                          IF i = 0 THEN EmptyState
                          ELSE ApplyBlockTxs(replay[i - 1], i, b[i].miner, b[i].txs,
                                             MedianTimePast(SubSeq(b, 1, i - 1))).state
                    IN states[b] = replay[Len(b)]
  BY DEF StateIsReplay
<1> DEFINE n == Len(b)
           Replays(r) == r = [i \in 0 .. n |->
                          IF i = 0 THEN EmptyState
                          ELSE ApplyBlockTxs(r[i - 1], i, b[i].miner, b[i].txs,
                                             MedianTimePast(SubSeq(b, 1, i - 1))).state]
           replay == CHOOSE r : Replays(r)
           held == [i \in 0 .. n |-> states[SubSeq(b, 1, i)]]
<1>1. n \in Nat /\ SubSeq(b, 1, n) = b /\ SubSeq(b, 1, 0) = <<>>
  BY BlockParts DEF LedgerInv, BlockOK
<1> HIDE DEF n
<1>2. Replays(held)
  <2>1. held[0] = EmptyState
    <3>1. held[0] = states[SubSeq(b, 1, 0)]
      BY <1>1
    <3> QED
      BY <1>1, <3>1 DEF LedgerInv
  <2>2. ASSUME NEW i \in 0 .. n, i # 0
        PROVE  held[i] = ApplyBlockTxs(held[i - 1], i, b[i].miner, b[i].txs,
                                       MedianTimePast(SubSeq(b, 1, i - 1))).state
    <3>1. i \in 1 .. n /\ i - 1 \in 0 .. n
      BY <1>1, <2>2
    <3>2. states[SubSeq(b, 1, i)] = StateAfter(b, i)
      BY <3>1 DEF LedgerInv, n
    <3> QED
      BY <3>1, <3>2 DEF StateAfter
  <2>3. held = [i \in 0 .. n |-> held[i]]
    OBVIOUS
  <2> HIDE DEF held
  <2> QED
    BY <2>1, <2>2, <2>3
<1>3. Replays(replay)
  <2> HIDE DEF Replays
  <2> QED
    BY <1>2
<1> HIDE DEF replay
<1> DEFINE T == {i \in Nat : i <= n => replay[i] = held[i]}
<1>4. 0 \in T
  <2>0. 0 \in 0 .. n
    BY <1>1
  <2> HIDE DEF held
  <2>1. replay[0] = EmptyState
    BY <1>3, <2>0
  <2>2. held[0] = EmptyState
    BY <1>2, <2>0
  <2> QED
    BY <2>1, <2>2
<1>5. ASSUME NEW i \in T PROVE i + 1 \in T
  <2> SUFFICES ASSUME i + 1 <= n PROVE replay[i + 1] = held[i + 1]
    OBVIOUS
  <2>1. i + 1 \in 0 .. n /\ i + 1 # 0 /\ (i + 1) - 1 = i /\ replay[i] = held[i]
    BY <1>1
  <2> HIDE DEF held
  <2>2. replay[i + 1] = ApplyBlockTxs(replay[i], i + 1, b[i + 1].miner, b[i + 1].txs, MedianTimePast(SubSeq(b, 1, i))).state
    BY <1>3, <2>1
  <2>3. held[i + 1] = ApplyBlockTxs(held[i], i + 1, b[i + 1].miner, b[i + 1].txs, MedianTimePast(SubSeq(b, 1, i))).state
    BY <1>2, <2>1
  <2> QED
    BY <2>1, <2>2, <2>3
<1> HIDE DEF T
<1>6. T = Nat
  BY <1>4, <1>5, Induct DEF T
<1>7. replay[n] = states[b]
  <2>1. replay[n] = held[n]
    <3> HIDE DEF held
    <3> QED
      BY <1>1, <1>6 DEF T
  <2>2. n \in 0 .. n
    BY <1>1
  <2> QED
    BY <1>1, <2>1, <2>2
<1> QED
  BY <1>7 DEF replay, n

(* Whatever is received, found, refused halfway, reorganised or reset: no
   coin is made or lost (applyTx, applyBlockTxs, blockReward), and cloneState
   keeps each stored state the replay of its own branch. *)
THEOREM StatesAreReplays == Spec => []StatesSound
<1>1. LedgerInv => StatesSound
  BY ReplayMeetsStates DEF LedgerInv, StatesSound
<1> QED
  BY <1>1, LedgerInvHolds, PTL

-----------------------------------------------------------------------------
(* Templates. *)

(* An empty body always applies. *)
LEMMA EmptyApplies ==
  ASSUME NEW st, NEW height, NEW miner, NEW mtp
  PROVE  ApplyBlockTxs(st, height, miner, <<>>, mtp).ok
<1> DEFINE ctx == [height |-> height, mtp |-> mtp]
<1>1. ApplyBlockTxs(st, height, miner, <<>>, mtp) = Settled(Fold(Unapplied(st), <<>>, ctx), height, miner)
  BY Zenon DEF ApplyBlockTxs, Fold, Unapplied
<1>2. 0 \in Nat /\ DOMAIN <<>> = 1 .. 0
  OBVIOUS
<1>3. PICK run : IsRun(run, 0, Unapplied(st), <<>>, ctx) /\ Fold(Unapplied(st), <<>>, ctx) = run[0]
  <2> HIDE DEF ctx
  <2>1. PICK n, txs : n = 0 /\ txs = <<>>
    OBVIOUS
  <2>2. n \in Nat /\ DOMAIN txs = 1 .. n
    BY <1>2, <2>1
  <2>3. \E run : IsRun(run, n, Unapplied(st), txs, ctx) /\ Fold(Unapplied(st), txs, ctx) = run[n]
    BY <2>2, FoldRuns
  <2> QED
    BY <2>1, <2>3
<1>4. Fold(Unapplied(st), <<>>, ctx).ok = TRUE
  <2>1. Fold(Unapplied(st), <<>>, ctx) = Unapplied(st)
    BY <1>3 DEF IsRun
  <2> QED
    BY <2>1 DEF Unapplied
<1> HIDE DEF ctx
<1> QED
  BY <1>1, <1>4 DEF Settled

(* What is left of a mempool is well formed and within the budget. *)
LEMMA DecodedIsSound ==
  ASSUME NEW mempool \in Mempools, NEW txs, txs = DecodeMempool(mempool)
  PROVE  /\ \A i \in DOMAIN txs : WellFormed(txs[i]) /\ IsTx(txs[i])
         /\ Len(txs) <= MaxTxs /\ Len(txs) \in Nat /\ DOMAIN txs = 1 .. Len(txs)
<1> DEFINE n == Len(mempool)
           Good == {x \in Range(mempool) : WellFormed(x)}
           V == Seq(Good)
           step == [p \in Nat \X V |->
                      IF p[1] \in 1 .. n /\ WellFormed(mempool[p[1]]) /\ Len(p[2]) < TxBudget
                      THEN Append(p[2], mempool[p[1]]) ELSE p[2]]
           Decodes(f) == f = [i \in 0 .. n |->
             IF i = 0 THEN <<>>
             ELSE IF WellFormed(mempool[i]) /\ Len(f[i - 1]) < TxBudget THEN Append(f[i - 1], mempool[i])
             ELSE f[i - 1]]
           F == CHOOSE f : Decodes(f)
<1>1. n \in Nat /\ DOMAIN mempool = 1 .. n /\ \A i \in 1 .. n : mempool[i] \in Range(mempool) /\ IsTx(mempool[i])
  <2>1. mempool \in Seq(Range(mempool)) /\ \A i \in DOMAIN mempool : IsTx(mempool[i])
    BY TransactionAssumption
  <2>2. n \in Nat /\ DOMAIN mempool = 1 .. n
    BY <2>1, LenProperties
  <2>3. \A i \in 1 .. n : mempool[i] \in Range(mempool)
    BY <2>2 DEF Range
  <2> QED
    BY <2>1, <2>2, <2>3
<1>2. \A x \in Good : IsTx(x) /\ WellFormed(x)
  BY <1>1 DEF Range
<1>3. txs = F[n]
  BY Zenon DEF DecodeMempool
<1> HIDE DEF n
<1>4. ASSUME NEW s \in V, NEW i \in 1 .. n, WellFormed(mempool[i])
      PROVE  Append(s, mempool[i]) \in V /\ Len(Append(s, mempool[i])) = Len(s) + 1
  <2>1. mempool[i] \in Good
    BY <1>1, <1>4
  <2> HIDE DEF Good
  <2> QED
    BY <2>1, AppendProperties
<1>5. <<>> \in V /\ Len(<<>>) = 0
  OBVIOUS
<1>6. \A s \in V : Len(s) \in Nat /\ DOMAIN s = 1 .. Len(s) /\ \A i \in 1 .. Len(s) : s[i] \in Good
  <2> HIDE DEF Good
  <2> QED
    BY LenProperties, ElementOfSeq
<1> HIDE DEF V, Good
<1>7. step \in [Nat \X V -> V]
  <2> SUFFICES ASSUME NEW p \in Nat \X V
               PROVE  (IF p[1] \in 1 .. n /\ WellFormed(mempool[p[1]]) /\ Len(p[2]) < TxBudget
                       THEN Append(p[2], mempool[p[1]]) ELSE p[2]) \in V
    OBVIOUS
  <2>1. p[2] \in V
    OBVIOUS
  <2>2. p[1] \in 1 .. n /\ WellFormed(mempool[p[1]]) => Append(p[2], mempool[p[1]]) \in V
    BY <1>4, <2>1
  <2> QED
    BY <2>1, <2>2
<1>8. PICK f \in [0 .. n -> V] : f[0] = <<>> /\ \A i \in 1 .. n : f[i] = step[<<i, f[i-1]>>]
  <2> HIDE DEF step
  <2>1. Upto(V, <<>>, step, n) # {}
    BY <1>1, <1>5, <1>7, RecursionUpto
  <2> QED
    BY <2>1 DEF Upto
<1>9. ASSUME NEW i \in 0 .. n
      PROVE  f[i] = IF i = 0 THEN <<>>
                    ELSE IF WellFormed(mempool[i]) /\ Len(f[i - 1]) < TxBudget THEN Append(f[i - 1], mempool[i])
                    ELSE f[i - 1]
  <2>1. CASE i = 0
    BY <1>8, <2>1
  <2>2. CASE i # 0
    <3>1. i \in 1 .. n /\ i - 1 \in 0 .. n /\ i \in Nat
      BY <1>1, <2>2
    <3>2. <<i, f[i-1]>> \in Nat \X V
      BY <3>1, <1>8
    <3>3. f[i] = IF i \in 1 .. n /\ WellFormed(mempool[i]) /\ Len(f[i - 1]) < TxBudget
                 THEN Append(f[i - 1], mempool[i]) ELSE f[i - 1]
      BY <1>8, <3>1, <3>2
    <3> QED
      BY <2>2, <3>1, <3>3
  <2> QED
    BY <2>1, <2>2
<1>10. Decodes(f)
  BY <1>8, <1>9
<1>11. Decodes(F)
  <2> HIDE DEF Decodes
  <2> QED
    BY <1>10
<1> HIDE DEF F
<1>12. \A i \in 0 .. n : F[i] = IF i = 0 THEN <<>>
                ELSE IF WellFormed(mempool[i]) /\ Len(F[i - 1]) < TxBudget THEN Append(F[i - 1], mempool[i])
                ELSE F[i - 1]
  BY <1>11
<1> DEFINE T == {i \in Nat : i <= n => F[i] \in V /\ Len(F[i]) <= TxBudget}
<1>13. 0 \in T
  <2>1. TxBudget \in Nat /\ 0 \in 0 .. n
    BY <1>1, LedgerAssumption
  <2>2. F[0] = <<>>
    BY <1>12, <2>1
  <2> QED
    BY <1>5, <2>1, <2>2
<1>14. ASSUME NEW i \in T PROVE i + 1 \in T
  <2> SUFFICES ASSUME i + 1 <= n PROVE F[i + 1] \in V /\ Len(F[i + 1]) <= TxBudget
    OBVIOUS
  <2>1. i + 1 \in 0 .. n /\ i + 1 # 0 /\ (i + 1) - 1 = i /\ i + 1 \in 1 .. n
    BY <1>1
  <2>2. F[i] \in V /\ Len(F[i]) <= TxBudget
    BY <1>1
  <2>3. F[i + 1] = IF WellFormed(mempool[i + 1]) /\ Len(F[i]) < TxBudget THEN Append(F[i], mempool[i + 1])
                   ELSE F[i]
    BY <1>12, <2>1
  <2>4. TxBudget \in Nat /\ Len(F[i]) \in Nat
    BY <1>6, <2>2, LedgerAssumption
  <2>5. CASE WellFormed(mempool[i + 1]) /\ Len(F[i]) < TxBudget
    <3>1. F[i + 1] \in V /\ Len(F[i + 1]) = Len(F[i]) + 1
      BY <1>4, <2>1, <2>2, <2>3, <2>5
    <3> QED
      BY <2>4, <2>5, <3>1
  <2>6. CASE ~(WellFormed(mempool[i + 1]) /\ Len(F[i]) < TxBudget)
    BY <2>2, <2>3, <2>6
  <2> QED
    BY <2>5, <2>6
<1> HIDE DEF T
<1>15. T = Nat
  BY <1>13, <1>14, Induct DEF T
<1>16. txs \in V /\ Len(txs) <= TxBudget
  BY <1>1, <1>3, <1>15 DEF T
<1>17. TxBudget <= MaxTxs /\ TxBudget \in Nat /\ MaxTxs \in Nat
  BY LedgerAssumption
<1> QED
  BY <1>2, <1>6, <1>16, <1>17

(* Solo and negotiated templates pass: the trial that made the root is the one
   the validator repeats. *)
LEMMA TemplatesPass ==
  ASSUME LedgerInv
  PROVE  TemplatesAccepted
<1>1. ASSUME NEW now \in Clock
      PROVE  Accepts(tip, SoloBody(now), StateRoot(Tried(tip, SoloBody(now)).state))
  <2>1. /\ SoloBody(now).txs = <<>> /\ SoloBody(now).time = Timestamp(tip, now)
    BY SoloBodyOK
  <2>2. Timestamp(tip, now) > MedianTimePast(tip)
    BY StampIsLate DEF LedgerInv
  <2>3. Tried(tip, SoloBody(now)).ok
    BY <2>1, EmptyApplies DEF Tried
  <2>4. Len(<<>>) <= MaxTxs /\ DOMAIN <<>> = {}
    BY LedgerAssumption
  <2> QED
    BY <2>1, <2>2, <2>3, <2>4 DEF Accepts, Agrees
<1>2. ASSUME NEW now \in Clock, NEW mempool \in Mempools
      PROVE  TemplateAccepted(NegotiatedTemplate(mempool, now))
  <2> DEFINE txs == DecodeMempool(mempool)
             sim == Simulated(txs)
             t == NegotiatedTemplate(mempool, now)
  <2>1. /\ \A i \in DOMAIN txs : WellFormed(txs[i])
        /\ Len(txs) <= MaxTxs
    BY DecodedIsSound
  <2> HIDE DEF txs
  <2>2. /\ \A i \in DOMAIN sim.txs : WellFormed(sim.txs[i])
        /\ Len(sim.txs) <= MaxTxs
        /\ Trial(sim.txs).ok /\ sim.root = StateRoot(Trial(sim.txs).state)
    <3>1. CASE Trial(txs).ok
      <4>1. sim = [txs |-> txs, root |-> StateRoot(Trial(txs).state)]
        BY <3>1, Zenon DEF Simulated
      <4>2. sim.txs = txs /\ sim.root = StateRoot(Trial(txs).state)
        BY <4>1
      <4> QED
        BY <2>1, <3>1, <4>2
    <3>2. CASE ~Trial(txs).ok
      <4>1. sim = [txs |-> <<>>, root |-> StateRoot(Trial(<<>>).state)]
        BY <3>2, Zenon DEF Simulated
      <4>2. sim.txs = <<>> /\ sim.root = StateRoot(Trial(<<>>).state)
        BY <4>1
      <4>3. Trial(<<>>).ok
        BY EmptyApplies DEF Trial
      <4>4. Len(<<>>) <= MaxTxs /\ DOMAIN <<>> = {}
        BY LedgerAssumption
      <4> QED
        BY <4>2, <4>3, <4>4
    <3> QED
      BY <3>1, <3>2
  <2>3. t = [body |-> [miner |-> Miner, txs |-> sim.txs, time |-> Timestamp(tip, now)], root |-> sim.root]
    BY Zenon DEF NegotiatedTemplate, Stamped, txs
  <2> HIDE DEF sim
  <2>4. /\ t.body.miner = Miner /\ t.body.txs = sim.txs
        /\ t.body.time = Timestamp(tip, now) /\ t.root = sim.root
    BY <2>3
  <2> HIDE DEF t
  <2>5. Tried(tip, t.body) = Trial(sim.txs)
    BY <2>4 DEF Tried, Trial
  <2>6. Timestamp(tip, now) > MedianTimePast(tip)
    BY StampIsLate DEF LedgerInv
  <2>7. Accepts(tip, t.body, t.root)
    BY <2>2, <2>4, <2>5, <2>6 DEF Accepts, Agrees
  <2> QED
    BY <2>7 DEF TemplateAccepted, t
<1> QED
  BY <1>1, <1>2 DEF TemplatesAccepted

(* Whatever the tip, the clock and the mempool: buildTemplate and
   buildNegotiatedTemplate make a block that addBlockInternal takes, in size,
   time, shape and state root. *)
THEOREM TemplatesAlwaysPass == Spec => []TemplatesAccepted
<1>1. LedgerInv => TemplatesAccepted
  BY TemplatesPass
<1> QED
  BY <1>1, LedgerInvHolds, PTL

-----------------------------------------------------------------------------
(* Locks and those who spend them. *)

(* The nonce of its owner has passed a lock's own: nobody can make it again. *)
Past(st, l) ==
  l.from \in Addresses /\ l.nonce \in Nat /\ st.accounts[l.from].nonce > l.nonce

Live(st) == \A l \in DOMAIN st.locks : Past(st, l)
Spent(st, l) == l \notin DOMAIN st.locks /\ Past(st, l)

NoncesGrow(st, st1) == \A a \in Addresses : st1.accounts[a].nonce >= st.accounts[a].nonce

Passed(tx, ctx) ==
  EvalScript(CodeOf[tx.script], tx.witness,
             [sighash |-> Sighash(tx), height |-> ctx.height, mtp |-> ctx.mtp])

(* A nonce passed stays passed while nonces only grow. *)
LEMMA PastStays ==
  ASSUME NEW st, StateOK(st), NEW st1, StateOK(st1), NoncesGrow(st, st1), NEW l, Past(st, l)
  PROVE  Past(st1, l)
<1>1. l.from \in Addresses /\ l.nonce \in Nat /\ st.accounts[l.from].nonce > l.nonce
  BY DEF Past
<1>2. st.accounts[l.from].nonce \in Nat /\ st1.accounts[l.from].nonce \in Nat
  BY <1>1 DEF StateOK
<1>3. st1.accounts[l.from].nonce >= st.accounts[l.from].nonce
  BY <1>1 DEF NoncesGrow
<1>4. PICK x, y, z : x = l.nonce /\ y = st.accounts[l.from].nonce /\ z = st1.accounts[l.from].nonce
  OBVIOUS
<1>5. z > x
  BY <1>1, <1>2, <1>3, <1>4
<1> QED
  BY <1>1, <1>4, <1>5 DEF Past

(* A credit changes no lock and no nonce. *)
LEMMA CreditKeepsLocks ==
  ASSUME NEW st, StateOK(st), NEW a \in Addresses, NEW n \in Nat, NEW st1, st1 = Credit(st, a, n)
  PROVE  /\ StateOK(st1) /\ st1.locks = st.locks /\ NoncesGrow(st, st1)
         /\ \A l : Past(st, l) => Past(st1, l)
<1>1. StateOK(st1) /\ st1.locks = st.locks /\ \A b \in Addresses : st1.accounts[b].nonce = st.accounts[b].nonce
  BY CreditAdds
<1>2. \A b \in Addresses : st.accounts[b].nonce \in Nat
  BY DEF StateOK
<1>3. NoncesGrow(st, st1)
  BY <1>1, <1>2 DEF NoncesGrow
<1> QED
  BY <1>1, <1>3, PastStays

(* A lock is made once, of a nonce just used; it is spent whole, by a script
   that passed, and not in the block that makes it. *)
LEMMA AppliedSpends ==
  ASSUME NEW st, StateOK(st), Live(st), NEW tx, IsTx(tx), NEW created, NEW ctx, ctx.height \in Nat,
         Applicable(st, tx, created, ctx), NEW st1, st1 = Applied(st, tx, ctx)
  PROVE  /\ StateOK(st1) /\ Live(st1)
         /\ \A l : Spent(st, l) => Spent(st1, l)
         /\ DOMAIN st1.locks \subseteq DOMAIN st.locks \union (IF tx.kind = "lock" THEN {tx} ELSE {})
         /\ tx.kind = "redeem" => /\ tx.lock \in DOMAIN st.locks \ created
                                  /\ Spent(st1, tx.lock) /\ Passed(tx, ctx)
<1>1. tx.kind \in {"transfer", "lock", "redeem"} /\ tx.amount \in Nat /\ tx.fee \in Nat
  BY DEF IsTx
<1>2. StateOK(st1)
  BY AppliedKeeps
<1>3. CASE tx.kind = "transfer"
  <2>1. Payable(st, tx) /\ st1 = Credit(Debit(st, tx), tx.to, tx.amount)
    BY <1>3 DEF Applicable, Applied
  <2>2. tx.from \in Addresses /\ tx.to \in Addresses
    BY <1>3 DEF IsTx
  <2> DEFINE d == Debit(st, tx)
  <2>3. StateOK(d) /\ d.locks = st.locks /\ NoncesGrow(st, d)
    BY <1>1, <2>1, <2>2, DebitTakes DEF NoncesGrow
  <2> HIDE DEF d
  <2>4. \A l : Past(st, l) => Past(d, l)
    BY <2>3, PastStays
  <2>5. st1.locks = d.locks /\ \A l : Past(d, l) => Past(st1, l)
    <3>1. PICK n \in Nat, a \in Addresses : st1 = Credit(d, a, n)
      BY <1>1, <2>1, <2>2 DEF d
    <3> QED
      BY <2>3, <3>1, CreditKeepsLocks
  <2> QED
    BY <1>2, <1>3, <2>3, <2>4, <2>5 DEF Live, Spent
<1>4. CASE tx.kind = "lock"
  <2>1. Payable(st, tx) /\ tx \notin DOMAIN st.locks /\ st1 = WithLock(Debit(st, tx), tx, ctx.height)
    BY <1>4 DEF Applicable, Applied
  <2>2. tx.from \in Addresses /\ tx.script \in Scripts /\ tx.nonce \in Nat
    BY <1>4 DEF IsTx
  <2> DEFINE d == Debit(st, tx)
  <2>3. /\ StateOK(d) /\ d.locks = st.locks /\ NoncesGrow(st, d)
        /\ d.accounts[tx.from].nonce = tx.nonce + 1
    BY <1>1, <2>1, <2>2, DebitTakes DEF NoncesGrow
  <2> HIDE DEF d
  <2>4. \A l : Past(st, l) => Past(d, l)
    BY <2>3, PastStays
  <2>5. st1.accounts = d.accounts /\ DOMAIN st1.locks = DOMAIN st.locks \union {tx}
    BY <1>1, <2>1, <2>2, <2>3, LockTakesIn DEF d
  <2>6. \A l : Past(d, l) => Past(st1, l)
    BY <2>5 DEF Past
  <2>7. Past(st1, tx)
    BY <2>2, <2>3, <2>5 DEF Past
  <2>8. ASSUME NEW l, Spent(st, l) PROVE l # tx
    <3>1. st.accounts[l.from].nonce > l.nonce /\ l.nonce \in Nat
      BY <2>8 DEF Spent, Past
    <3>2. st.accounts[tx.from].nonce = tx.nonce
      BY <2>1 DEF Payable
    <3> QED
      BY <2>2, <3>1, <3>2
  <2> QED
    BY <1>2, <1>4, <2>4, <2>5, <2>6, <2>7, <2>8 DEF Live, Spent
<1>5. CASE tx.kind = "redeem"
  <2>1. Redeemable(st, tx, created, ctx) /\ st1 = Credit(WithoutLock(st, tx.lock), tx.to, tx.amount - tx.fee)
    BY <1>5 DEF Applicable, Applied
  <2>2. /\ tx.lock \in DOMAIN st.locks \ created /\ tx.to \in Addresses
        /\ tx.amount = st.locks[tx.lock].amount /\ tx.fee <= st.locks[tx.lock].amount
        /\ Passed(tx, ctx)
    BY <1>5, <2>1 DEF Redeemable, IsTx, Passed
  <2> DEFINE w == WithoutLock(st, tx.lock)
  <2>3. /\ StateOK(w) /\ w.accounts = st.accounts /\ DOMAIN w.locks = DOMAIN st.locks \ {tx.lock}
    BY <2>2, LockGivesOut
  <2> HIDE DEF w
  <2>4. \A l : Past(st, l) => Past(w, l)
    BY <2>3 DEF Past
  <2>5. PICK n \in Nat : n = tx.amount - tx.fee
    BY <1>1, <2>2
  <2>6. st1.locks = w.locks /\ \A l : Past(w, l) => Past(st1, l)
    BY <2>1, <2>2, <2>3, <2>5, CreditKeepsLocks DEF w
  <2> QED
    BY <1>2, <1>5, <2>2, <2>3, <2>4, <2>6 DEF Live, Spent
<1> QED
  BY <1>1, <1>3, <1>4, <1>5

(* What the first i transactions of a body have spent, as long as all applied. *)
SpentSoFar(r, i, st, txs, ctx) ==
  /\ StateOK(r.state) /\ Live(r.state)
  /\ DOMAIN r.state.locks \subseteq DOMAIN st.locks \union r.created
  /\ r.created \subseteq {txs[j] : j \in 1 .. i}
  /\ \A l : Spent(st, l) => Spent(r.state, l)
  /\ \A j \in 1 .. i : txs[j].kind = "redeem" =>
       /\ txs[j].lock \in DOMAIN st.locks
       /\ Spent(r.state, txs[j].lock)
       /\ Passed(txs[j], ctx)
  /\ \A j, k \in 1 .. i : /\ txs[j].kind = "redeem" /\ txs[k].kind = "redeem"
                          /\ txs[j].lock = txs[k].lock
                          => j = k

(* One more transaction that applies spends a lock not spent so far. *)
LEMMA NextSpends ==
  ASSUME NEW st, NEW txs, NEW ctx, ctx.height \in Nat, NEW i \in Nat, NEW r,
         r.ok => SpentSoFar(r, i, st, txs, ctx), IsTx(txs[i + 1]),
         NEW r1, r1 = ApplyNext(r, txs[i + 1], ctx), r1.ok
  PROVE  SpentSoFar(r1, i + 1, st, txs, ctx)
<1> DEFINE tx == txs[i + 1]
           made == IF tx.kind = "lock" THEN {tx} ELSE {}
<1>1. r.ok /\ Applicable(r.state, tx, r.created, ctx)
  <2>1. CASE ~r.ok
    BY <2>1 DEF ApplyNext
  <2>2. CASE r.ok /\ ~Applicable(r.state, tx, r.created, ctx)
    <3>1. r1 = [r EXCEPT !.ok = FALSE]
      BY <2>2, Zenon DEF ApplyNext
    <3>2. r1.ok = r.ok \/ r1.ok = FALSE
      BY <3>1
    <3> QED
      BY <2>2, <3>1
  <2> QED
    BY <2>1, <2>2
<1>2. r1 = [state |-> Applied(r.state, tx, ctx), fees |-> r.fees + tx.fee, ok |-> TRUE,
            created |-> r.created \union made]
  BY <1>1, Zenon DEF ApplyNext
<1>3. r1.state = Applied(r.state, tx, ctx) /\ r1.created = r.created \union made
  BY <1>2
<1>4. SpentSoFar(r, i, st, txs, ctx)
  BY <1>1
<1>5. StateOK(r.state) /\ Live(r.state) /\ IsTx(tx)
  BY <1>4 DEF SpentSoFar
<1>6. /\ StateOK(r1.state) /\ Live(r1.state)
      /\ \A l : Spent(r.state, l) => Spent(r1.state, l)
      /\ DOMAIN r1.state.locks \subseteq DOMAIN r.state.locks \union made
      /\ tx.kind = "redeem" => /\ tx.lock \in DOMAIN r.state.locks \ r.created
                               /\ Spent(r1.state, tx.lock) /\ Passed(tx, ctx)
  BY <1>1, <1>3, <1>5, AppliedSpends
<1>7. \A j \in 1 .. i + 1 : j \in 1 .. i \/ j = i + 1
  OBVIOUS
<1>8. \A j \in 1 .. i : j \in 1 .. i + 1
  OBVIOUS
<1>9. made \subseteq {tx} /\ i + 1 \in 1 .. i + 1
  OBVIOUS
<1>10. r1.created \subseteq {txs[j] : j \in 1 .. i + 1}
  BY <1>3, <1>4, <1>8, <1>9 DEF SpentSoFar
<1>11. DOMAIN r1.state.locks \subseteq DOMAIN st.locks \union r1.created
  BY <1>3, <1>4, <1>6 DEF SpentSoFar
<1>12. \A l : Spent(st, l) => Spent(r1.state, l)
  BY <1>4, <1>6 DEF SpentSoFar
<1>13. tx.kind = "redeem" => tx.lock \in DOMAIN st.locks /\ \A j \in 1 .. i : txs[j].kind = "redeem" => txs[j].lock # tx.lock
  BY <1>4, <1>6 DEF SpentSoFar, Spent
<1> HIDE DEF made
<1>14. ASSUME NEW j \in 1 .. i + 1, txs[j].kind = "redeem"
       PROVE  txs[j].lock \in DOMAIN st.locks /\ Spent(r1.state, txs[j].lock) /\ Passed(txs[j], ctx)
  <2>1. CASE j = i + 1
    BY <1>6, <1>13, <1>14, <2>1
  <2>2. CASE j \in 1 .. i
    BY <1>4, <1>6, <1>14, <2>2 DEF SpentSoFar
  <2> QED
    BY <1>7, <2>1, <2>2
<1>15. ASSUME NEW j \in 1 .. i + 1, NEW k \in 1 .. i + 1, txs[j].kind = "redeem", txs[k].kind = "redeem",
              txs[j].lock = txs[k].lock
       PROVE  j = k
  <2>1. CASE j \in 1 .. i /\ k \in 1 .. i
    BY <1>4, <1>15, <2>1 DEF SpentSoFar
  <2>2. CASE j = i + 1 /\ k \in 1 .. i
    BY <1>13, <1>15, <2>2
  <2>3. CASE j \in 1 .. i /\ k = i + 1
    BY <1>13, <1>15, <2>3
  <2> QED
    BY <1>7, <2>1, <2>2, <2>3
<1> QED
  BY <1>6, <1>10, <1>11, <1>12, <1>14, <1>15 DEF SpentSoFar

(* So do all of them. *)
LEMMA RunSpends ==
  ASSUME NEW st, StateOK(st), Live(st), NEW n \in Nat, NEW txs, \A i \in 1 .. n : IsTx(txs[i]),
         NEW ctx, ctx.height \in Nat, NEW run, IsRun(run, n, Unapplied(st), txs, ctx), run[n].ok
  PROVE  SpentSoFar(run[n], n, st, txs, ctx)
<1> DEFINE T == {i \in Nat : i <= n /\ run[i].ok => SpentSoFar(run[i], i, st, txs, ctx)}
<1>1. 0 \in T
  <2>1. run[0] = Unapplied(st)
    BY DEF IsRun
  <2>2. run[0].state = st /\ run[0].created = {}
    BY <2>1 DEF Unapplied
  <2>3. 1 .. 0 = {}
    OBVIOUS
  <2> QED
    BY <2>2, <2>3 DEF SpentSoFar
<1>2. ASSUME NEW i \in T PROVE i + 1 \in T
  <2> SUFFICES ASSUME i + 1 <= n, run[i + 1].ok PROVE SpentSoFar(run[i + 1], i + 1, st, txs, ctx)
    OBVIOUS
  <2>1. i \in Nat /\ i + 1 \in 1 .. n /\ (i + 1) - 1 = i /\ i <= n
    OBVIOUS
  <2>2. run[i].ok => SpentSoFar(run[i], i, st, txs, ctx)
    BY <2>1
  <2>3. run[i + 1] = ApplyNext(run[i], txs[i + 1], ctx)
    BY <2>1 DEF IsRun
  <2>4. IsTx(txs[i + 1])
    BY <2>1
  <2> HIDE DEF T
  <2> QED
    BY <2>1, <2>2, <2>3, <2>4, NextSpends
<1> HIDE DEF T
<1>3. T = Nat
  BY <1>1, <1>2, Induct DEF T
<1> QED
  BY <1>3 DEF T

(* What a body that applies makes and spends. *)
LEMMA BlockSpends ==
  ASSUME NEW st, StateOK(st), Live(st), NEW height \in Nat, NEW miner \in Addresses,
         NEW txs, IsBody(txs), NEW mtp,
         NEW r, r = ApplyBlockTxs(st, height, miner, txs, mtp), r.ok
  PROVE  /\ Live(r.state)
         /\ DOMAIN r.state.locks \subseteq DOMAIN st.locks \union Range(txs)
         /\ \A l : Spent(st, l) => Spent(r.state, l)
         /\ \A j \in DOMAIN txs : txs[j].kind = "redeem" =>
              /\ txs[j].lock \in DOMAIN st.locks
              /\ Spent(r.state, txs[j].lock)
              /\ Passed(txs[j], [height |-> height, mtp |-> mtp])
         /\ \A j, k \in DOMAIN txs : /\ txs[j].kind = "redeem" /\ txs[k].kind = "redeem"
                                     /\ txs[j].lock = txs[k].lock
                                     => j = k
<1> DEFINE ctx == [height |-> height, mtp |-> mtp]
<1>1. PICK n \in Nat : DOMAIN txs = 1 .. n /\ \A i \in 1 .. n : IsTx(txs[i])
  BY DEF IsBody
<1>2. r = Settled(Fold(Unapplied(st), txs, ctx), height, miner)
  BY Zenon DEF ApplyBlockTxs, Fold, Unapplied
<1>3. ctx.height = height
  OBVIOUS
<1> HIDE DEF ctx
<1>4. PICK run : IsRun(run, n, Unapplied(st), txs, ctx) /\ Fold(Unapplied(st), txs, ctx) = run[n]
  BY <1>1, FoldRuns
<1>5. run[n].ok
  <2>1. CASE ~run[n].ok
    <3>1. r = [state |-> run[n].state, ok |-> FALSE]
      BY <1>2, <1>4, <2>1, Zenon DEF Settled
    <3> QED
      BY <3>1
  <2> QED
    BY <2>1
<1>6. SpentSoFar(run[n], n, st, txs, ctx)
  BY <1>1, <1>3, <1>4, <1>5, RunSpends
<1>7. RunOK(run[n], Supply(st))
  BY <1>1, <1>3, <1>4, RunKeeps
<1>8. PICK m \in Nat : m = BlockReward(height) + run[n].fees
  BY <1>7, RewardIsNat DEF RunOK
<1>9. r = [state |-> Credit(run[n].state, miner, BlockReward(height) + run[n].fees), ok |-> TRUE]
  BY <1>2, <1>4, <1>5, Zenon DEF Settled
<1>10. r.state = Credit(run[n].state, miner, m)
  BY <1>8, <1>9
<1>11. r.state.locks = run[n].state.locks /\ \A l : Past(run[n].state, l) => Past(r.state, l)
  BY <1>6, <1>10, CreditKeepsLocks DEF SpentSoFar
<1>12. Live(r.state) /\ \A l : Spent(run[n].state, l) => Spent(r.state, l)
  BY <1>6, <1>11 DEF SpentSoFar, Live, Spent
<1>13. run[n].created \subseteq Range(txs)
  BY <1>1, <1>6 DEF SpentSoFar, Range
<1>14. DOMAIN r.state.locks \subseteq DOMAIN st.locks \union Range(txs)
  BY <1>6, <1>11, <1>13 DEF SpentSoFar
<1>15. \A l : Spent(st, l) => Spent(r.state, l)
  BY <1>6, <1>12 DEF SpentSoFar
<1>16. \A j \in DOMAIN txs : txs[j].kind = "redeem" =>
         txs[j].lock \in DOMAIN st.locks /\ Spent(r.state, txs[j].lock) /\ Passed(txs[j], ctx)
  BY <1>1, <1>6, <1>12 DEF SpentSoFar
<1>17. \A j, k \in DOMAIN txs :
         txs[j].kind = "redeem" /\ txs[k].kind = "redeem" /\ txs[j].lock = txs[k].lock => j = k
  BY <1>1, <1>6 DEF SpentSoFar
<1> QED
  BY <1>12, <1>14, <1>15, <1>16, <1>17 DEF ctx

(* The spends of a branch. *)
MadeBefore(b, n, l) == \E i \in 1 .. n : l \in Range(b[i].txs)

IsRedeem(b, i, j) == i \in 1 .. Len(b) /\ j \in DOMAIN b[i].txs /\ b[i].txs[j].kind = "redeem"

Context(b, i) == [height |-> i, mtp |-> MedianTimePast(SubSeq(b, 1, i - 1))]

SpendOK(b, i, j) ==
  /\ b[i].txs \in TxLists
  /\ Passed(b[i].txs[j], Context(b, i))
  /\ MadeBefore(b, i - 1, b[i].txs[j].lock)

BranchOK(b, st) ==
  /\ Live(st)
  /\ \A l \in DOMAIN st.locks : MadeBefore(b, Len(b), l)
  /\ \A i, j : IsRedeem(b, i, j) => Spent(st, b[i].txs[j].lock) /\ SpendOK(b, i, j)
  /\ \A i, j, p, q : /\ IsRedeem(b, i, j) /\ IsRedeem(b, p, q)
                     /\ b[i].txs[j].lock = b[p].txs[q].lock
                     => i = p /\ j = q

SpendInv == \A b \in Stored : BranchOK(b, states[b])

(* Genesis spends nothing. *)
LEMMA EmptyBranchOK == BranchOK(<<>>, EmptyState)
<1>1. Len(<<>>) = 0 /\ 1 .. 0 = {}
  OBVIOUS
<1>2. DOMAIN EmptyState.locks = {}
  BY DEF EmptyState
<1>3. \A i, j : ~IsRedeem(<<>>, i, j)
  BY <1>1 DEF IsRedeem
<1> QED
  BY <1>2, <1>3 DEF BranchOK, Live

(* A block that goes in spends locks of its own branch, not spent there
   before. *)
LEMMA InsertKeepsSpends ==
  ASSUME LedgerInv, SpendInv, NEW parent \in Stored, NEW body, BodyOK(body),
         body.txs \in TxLists \union {<<>>}, Insert(parent, body), Tried(parent, body).ok,
         Append(parent, body) \notin Stored
  PROVE  SpendInv'
<1> DEFINE c == Append(parent, body)
           n == Len(parent)
           txs == body.txs
           st == states[parent]
           st1 == Tried(parent, body).state
           ctx == [height |-> n + 1, mtp |-> MedianTimePast(parent)]
<1>1. BlockOK(parent) /\ StateOK(st) /\ IsBlock(parent) /\ BranchOK(parent, st) /\ Live(st)
  BY DEF LedgerInv, BlockOK, SpendInv, BranchOK
<1>2. /\ IsBlock(c) /\ Len(c) = n + 1 /\ n \in Nat
      /\ \A i \in 1 .. n : c[i] = parent[i]
      /\ c[n + 1] = body
      /\ \A i \in 0 .. n : SubSeq(c, 1, i) = SubSeq(parent, 1, i)
      /\ SubSeq(c, 1, n + 1) = c /\ SubSeq(c, 1, n) = parent
  BY <1>1, AppendParts
<1>3. /\ Stored' = Stored \union {c} /\ states'[c] = st1
      /\ \A b \in Stored : states'[b] = states[b]
  BY DEF Insert, Kept, Stored
<1>4. /\ Live(st1)
      /\ DOMAIN st1.locks \subseteq DOMAIN st.locks \union Range(txs)
      /\ \A l : Spent(st, l) => Spent(st1, l)
      /\ \A j \in DOMAIN txs : txs[j].kind = "redeem" =>
           txs[j].lock \in DOMAIN st.locks /\ Spent(st1, txs[j].lock) /\ Passed(txs[j], ctx)
      /\ \A j, k \in DOMAIN txs :
           txs[j].kind = "redeem" /\ txs[k].kind = "redeem" /\ txs[j].lock = txs[k].lock => j = k
  <2>1. PICK r : r = ApplyBlockTxs(st, n + 1, body.miner, txs, MedianTimePast(parent))
    OBVIOUS
  <2>2. r = Tried(parent, body) /\ r.ok
    BY <2>1 DEF Tried
  <2>3. n + 1 \in Nat /\ body.miner \in Addresses /\ IsBody(txs)
    BY <1>2 DEF BodyOK
  <2> HIDE DEF n, txs, st
  <2>4. /\ Live(r.state)
        /\ DOMAIN r.state.locks \subseteq DOMAIN st.locks \union Range(txs)
        /\ \A l : Spent(st, l) => Spent(r.state, l)
        /\ \A j \in DOMAIN txs : txs[j].kind = "redeem" =>
             /\ txs[j].lock \in DOMAIN st.locks
             /\ Spent(r.state, txs[j].lock)
             /\ Passed(txs[j], [height |-> n + 1, mtp |-> MedianTimePast(parent)])
        /\ \A j, k \in DOMAIN txs : /\ txs[j].kind = "redeem" /\ txs[k].kind = "redeem"
                                    /\ txs[j].lock = txs[k].lock
                                    => j = k
    BY <1>1, <2>1, <2>2, <2>3, BlockSpends
  <2> QED
    BY <2>2, <2>4
<1> HIDE DEF c, n, txs, st, st1, ctx
<1>5. c[n + 1].txs = txs
  BY <1>2 DEF txs
<1>6. ASSUME NEW l, MadeBefore(parent, n, l) PROVE MadeBefore(c, n, l) /\ MadeBefore(c, n + 1, l)
  BY <1>2, <1>6 DEF MadeBefore
<1>7. \A i, j : IsRedeem(c, i, j) => IsRedeem(parent, i, j) \/ (i = n + 1 /\ j \in DOMAIN txs /\ txs[j].kind = "redeem")
  <2> SUFFICES ASSUME NEW i, NEW j, IsRedeem(c, i, j)
               PROVE  IsRedeem(parent, i, j) \/ (i = n + 1 /\ j \in DOMAIN txs /\ txs[j].kind = "redeem")
    OBVIOUS
  <2>1. i \in 1 .. n + 1 /\ j \in DOMAIN c[i].txs /\ c[i].txs[j].kind = "redeem"
    BY <1>2 DEF IsRedeem
  <2>2. CASE i = n + 1
    BY <1>5, <2>1, <2>2
  <2>3. CASE i # n + 1
    <3>1. i \in 1 .. n /\ c[i] = parent[i]
      BY <1>2, <2>1, <2>3
    <3> QED
      BY <2>1, <3>1 DEF IsRedeem, n
  <2> QED
    BY <2>2, <2>3
<1>8. ASSUME NEW i, NEW j, IsRedeem(parent, i, j)
      PROVE  /\ i \in 1 .. n /\ c[i] = parent[i]
             /\ Spent(st1, c[i].txs[j].lock) /\ SpendOK(c, i, j)
             /\ c[i].txs[j].lock \notin DOMAIN st.locks
  <2>1. i \in 1 .. n /\ c[i] = parent[i]
    BY <1>2, <1>8 DEF IsRedeem, n
  <2>2. Spent(st, parent[i].txs[j].lock) /\ SpendOK(parent, i, j)
    BY <1>1, <1>8 DEF BranchOK
  <2>3. Spent(st1, c[i].txs[j].lock) /\ c[i].txs[j].lock \notin DOMAIN st.locks
    BY <1>4, <2>1, <2>2 DEF Spent
  <2>4. Context(c, i) = Context(parent, i)
    <3>1. i - 1 \in 0 .. n
      BY <1>2, <2>1
    <3> QED
      BY <1>2, <3>1 DEF Context
  <2>5. \A k \in 1 .. i - 1 : c[k] = parent[k]
    BY <1>2, <2>1
  <2>6. SpendOK(c, i, j)
    BY <2>1, <2>2, <2>4, <2>5 DEF SpendOK, MadeBefore
  <2> QED
    BY <2>1, <2>3, <2>6
<1>9. ASSUME NEW j \in DOMAIN txs, txs[j].kind = "redeem"
      PROVE  /\ Spent(st1, c[n + 1].txs[j].lock) /\ SpendOK(c, n + 1, j)
             /\ c[n + 1].txs[j].lock \in DOMAIN st.locks
  <2>1. txs[j].lock \in DOMAIN st.locks /\ Spent(st1, txs[j].lock) /\ Passed(txs[j], ctx)
    BY <1>4, <1>9
  <2>2. txs \in TxLists
    <3>1. DOMAIN <<>> = {}
      OBVIOUS
    <3> QED
      BY <3>1 DEF txs
  <2>3. (n + 1) - 1 = n
    BY <1>2
  <2>4. Context(c, n + 1) = ctx
    BY <1>2, <2>3 DEF Context, ctx
  <2>5. MadeBefore(parent, n, txs[j].lock)
    BY <1>1, <2>1 DEF BranchOK, n
  <2>6. MadeBefore(c, (n + 1) - 1, txs[j].lock)
    BY <1>6, <2>3, <2>5
  <2> QED
    BY <1>5, <2>1, <2>2, <2>4, <2>6 DEF SpendOK
<1>10. \A l \in DOMAIN st1.locks : MadeBefore(c, Len(c), l)
  <2> SUFFICES ASSUME NEW l \in DOMAIN st1.locks PROVE MadeBefore(c, n + 1, l)
    BY <1>2
  <2>1. CASE l \in DOMAIN st.locks
    <3>1. MadeBefore(parent, n, l)
      BY <1>1, <2>1 DEF BranchOK, n
    <3> QED
      BY <1>6, <3>1
  <2>2. CASE l \in Range(txs)
    <3>1. n + 1 \in 1 .. n + 1 /\ l \in Range(c[n + 1].txs)
      BY <1>2, <1>5, <2>2
    <3> QED
      BY <3>1 DEF MadeBefore
  <2> QED
    BY <1>4, <2>1, <2>2
<1>11. \A i, j : IsRedeem(c, i, j) => Spent(st1, c[i].txs[j].lock) /\ SpendOK(c, i, j)
  BY <1>7, <1>8, <1>9
<1>12. ASSUME NEW i, NEW j, NEW p, NEW q, IsRedeem(c, i, j), IsRedeem(c, p, q),
              c[i].txs[j].lock = c[p].txs[q].lock
       PROVE  i = p /\ j = q
  <2>1. CASE IsRedeem(parent, i, j) /\ IsRedeem(parent, p, q)
    <3>1. c[i] = parent[i] /\ c[p] = parent[p]
      BY <1>8, <2>1
    <3> QED
      BY <1>1, <1>12, <2>1, <3>1 DEF BranchOK
  <2>2. CASE IsRedeem(parent, i, j) /\ ~IsRedeem(parent, p, q)
    <3>1. p = n + 1 /\ q \in DOMAIN txs /\ txs[q].kind = "redeem"
      BY <1>7, <1>12, <2>2
    <3>2. c[p].txs[q].lock \in DOMAIN st.locks
      BY <1>9, <3>1
    <3>3. c[i].txs[j].lock \notin DOMAIN st.locks
      BY <1>8, <2>2
    <3> QED
      BY <1>12, <3>2, <3>3
  <2>3. CASE ~IsRedeem(parent, i, j) /\ IsRedeem(parent, p, q)
    <3>1. i = n + 1 /\ j \in DOMAIN txs /\ txs[j].kind = "redeem"
      BY <1>7, <1>12, <2>3
    <3>2. c[i].txs[j].lock \in DOMAIN st.locks
      BY <1>9, <3>1
    <3>3. c[p].txs[q].lock \notin DOMAIN st.locks
      BY <1>8, <2>3
    <3> QED
      BY <1>12, <3>2, <3>3
  <2>4. CASE ~IsRedeem(parent, i, j) /\ ~IsRedeem(parent, p, q)
    <3>1. /\ i = n + 1 /\ j \in DOMAIN txs /\ txs[j].kind = "redeem"
          /\ p = n + 1 /\ q \in DOMAIN txs /\ txs[q].kind = "redeem"
      BY <1>7, <1>12, <2>4
    <3>2. txs[j].lock = txs[q].lock
      BY <1>5, <1>12, <3>1
    <3> QED
      BY <1>4, <3>1, <3>2
  <2> QED
    BY <2>1, <2>2, <2>3, <2>4
<1>13. BranchOK(c, st1)
  BY <1>4, <1>10, <1>11, <1>12 DEF BranchOK
<1> QED
  BY <1>3, <1>13 DEF SpendInv

(* Every step, stutters included. *)
LEMMA SpendInvStep ==
  ASSUME LedgerInv, SpendInv, [Next]_vars
  PROVE  SpendInv'
<1>1. ASSUME NEW parent \in Stored, NEW offer \in Offers(parent), Receive(parent, offer[1], offer[2])
      PROVE  SpendInv'
  <2> DEFINE body == offer[1]
  <2>1. BodyOK(body)
    BY OffersAreBodies
  <2>2. body.txs \in TxLists \union {<<>>}
    BY DEF Offers
  <2> HIDE DEF body
  <2>3. CASE Insert(parent, body) /\ Tried(parent, body).ok
    BY <1>1, <2>1, <2>2, <2>3, InsertKeepsSpends DEF Receive, body
  <2>4. CASE states' = states
    BY <2>4 DEF SpendInv, Stored
  <2> QED
    BY <1>1, <2>3, <2>4 DEF Receive, Accepts, Agrees, Kept, body
<1>2. ASSUME NEW now \in Clock, FindSolo(now)
      PROVE  SpendInv'
  <2>1. BodyOK(SoloBody(now)) /\ tip \in Stored /\ SoloBody(now).txs \in TxLists \union {<<>>}
    BY SoloBodyOK DEF LedgerInv
  <2>2. /\ Insert(tip, SoloBody(now)) /\ Append(tip, SoloBody(now)) \notin Stored
        /\ Tried(tip, SoloBody(now)).ok
    BY <1>2 DEF FindSolo, Accepts, Agrees
  <2> QED
    BY <2>1, <2>2, InsertKeepsSpends
<1>3. CASE Reset
  <2>1. Stored' = {<<>>} /\ states'[<<>>] = EmptyState
    BY <1>3 DEF Reset, JustGenesis, Stored
  <2> QED
    BY <2>1, EmptyBranchOK DEF SpendInv
<1>4. CASE UNCHANGED vars
  BY <1>4 DEF vars, SpendInv, Stored
<1> QED
  BY <1>1, <1>2, <1>3, <1>4 DEF Next

(* What the invariant says of each spend is what is promised. *)
LEMMA SpendsFollow ==
  ASSUME ScriptsMeanIt(Nat, Nat), LedgerInv, SpendInv
  PROVE  SpendsAuthorised
<1> SUFFICES ASSUME NEW b \in Stored, NEW x \in Redeems(b)
             PROVE  LET tx == b[x[1]].txs[x[2]]
                    IN /\ MaySpend(tx.script, Signers(tx),
                                   [height |-> x[1], mtp |-> MedianTimePast(SubSeq(b, 1, x[1] - 1))])
                       /\ \E i \in 1 .. x[1] - 1 : tx.lock \in Range(b[i].txs)
                       /\ \A q \in Redeems(b) \ {x} : b[q[1]].txs[q[2]].lock # tx.lock
  BY DEF SpendsAuthorised
<1>1. BlockOK(b) /\ BranchOK(b, states[b]) /\ Len(b) \in Nat /\ DOMAIN b = 1 .. Len(b)
  BY BlockParts DEF LedgerInv, SpendInv, BlockOK
<1>2. \A y \in Redeems(b) : IsRedeem(b, y[1], y[2]) /\ y = <<y[1], y[2]>>
  BY <1>1 DEF Redeems, IsRedeem
<1> DEFINE i == x[1]
           j == x[2]
           tx == b[i].txs[j]
           mtp == MedianTimePast(SubSeq(b, 1, i - 1))
<1>3. IsRedeem(b, i, j) /\ SpendOK(b, i, j)
  BY <1>1, <1>2 DEF BranchOK
<1>4. i \in 1 .. Len(b) /\ i \in Nat /\ j \in DOMAIN b[i].txs /\ tx.kind = "redeem"
  BY <1>1, <1>3 DEF IsRedeem
<1>5. mtp \in Nat
  <2> DEFINE front == SubSeq(b, 1, i - 1)
  <2>1. i - 1 \in 0 .. Len(b)
    BY <1>1, <1>4
  <2>2. BlockOK(front)
    BY <2>1 DEF LedgerInv
  <2> QED
    BY <2>2, MedianIsNat
<1>6. MaySpend(tx.script, Signers(tx), [height |-> i, mtp |-> mtp])
  <2>1. /\ b[i].txs \in TxLists
        /\ EvalScript(CodeOf[tx.script], tx.witness, [sighash |-> Sighash(tx), height |-> i, mtp |-> mtp])
    BY <1>3 DEF SpendOK, Passed, Context
  <2> HIDE DEF i, j, mtp
  <2> QED
    BY <1>4, <1>5, <2>1 DEF ScriptsMeanIt
<1>7. \E k \in 1 .. i - 1 : tx.lock \in Range(b[k].txs)
  BY <1>3 DEF SpendOK, MadeBefore
<1>8. ASSUME NEW y \in Redeems(b) \ {x} PROVE b[y[1]].txs[y[2]].lock # tx.lock
  <2>1. IsRedeem(b, y[1], y[2]) /\ y = <<y[1], y[2]>> /\ x = <<i, j>>
    BY <1>2
  <2> QED
    BY <1>1, <1>3, <1>8, <2>1 DEF BranchOK
<1> QED
  BY <1>6, <1>7, <1>8

(* If the scripts, one by one, let through whom they are for, then applyRedeem
   spends a lock only by those, at this height and time, once on a branch, and
   in a block after the one that made it: the nonce of a lock's owner has
   passed the lock's own, so nothing makes the same lock twice. *)
THEOREM SpendsAreAuthorised ==
  ASSUME ScriptsMeanIt(Nat, Nat)
  PROVE  Spec => []SpendsAuthorised
<1>1. Init => LedgerInv /\ SpendInv
  <2>1. Init => Stored = {<<>>} /\ states[<<>>] = EmptyState
    BY DEF Init, JustGenesis, Stored
  <2> QED
    BY <2>1, LedgerInvInit, EmptyBranchOK DEF SpendInv
<1>2. LedgerInv /\ SpendInv /\ [Next]_vars => LedgerInv' /\ SpendInv'
  BY LedgerInvStep, SpendInvStep
<1>3. LedgerInv /\ SpendInv => SpendsAuthorised
  BY SpendsFollow
<1> QED
  BY <1>1, <1>2, <1>3, PTL DEF Spec

-----------------------------------------------------------------------------
(* The earnings. *)

EarningsInv ==
  /\ \A b \in Stored : IsBlock(b)
  /\ tip \in Stored
  /\ <<>> \notin solo
  /\ EarningsMatchChain

(* An extended block is a block, one longer, on its own line and not on that
   of its parent. *)
LEMMA AppendIsNew ==
  ASSUME NEW b, NEW x, IsBlock(b)
  PROVE  /\ IsBlock(Append(b, x)) /\ Len(Append(b, x)) = Len(b) + 1
         /\ Len(b) \in Nat
         /\ Append(b, x) \in Line(Append(b, x)) /\ Append(b, x) \notin Line(b)
<1>1. PICK S : b \in Seq(S) BY DEF IsBlock
<1> DEFINE T == S \union {x}
           c == Append(b, x)
<1>2. b \in Seq(T) /\ x \in T BY <1>1
<1>3. c \in Seq(T) /\ Len(c) = Len(b) + 1 /\ Len(b) \in Nat
  BY <1>2, AppendProperties, LenProperties
<1>4. SubSeq(c, 1, Len(c)) = c BY <1>3
<1>5. c \in Line(c) BY <1>3, <1>4 DEF Line
<1>6. ASSUME c \in Line(b) PROVE FALSE
  <2>1. PICK i \in 0 .. Len(b) : c = SubSeq(b, 1, i) BY <1>6 DEF Line
  <2>2. Len(SubSeq(b, 1, i)) = i BY <1>2, <1>3, <2>1
  <2> QED BY <1>3, <2>1, <2>2
<1> QED BY <1>3, <1>5, <1>6 DEF IsBlock

(* The reporter's reorg() keeps count for the blocks it knows: written off are
   those off the new branch, whatever the two tips are. *)
LEMMA ReorgKeepsCount ==
  ASSUME NEW old, NEW new, solo \ orphaned = solo \intersect Line(old)
  PROVE  solo \ Reorged(Connected(old, new), Connected(new, old)) = solo \intersect Line(new)
BY DEF Reorged, Connected

(* Any block that goes in, found or received, keeps the count right for the
   blocks found before it. *)
LEMMA InsertKeepsCount ==
  ASSUME EarningsInv, NEW parent \in Stored, NEW body, Insert(parent, body)
  PROVE  /\ \A b \in Stored' : IsBlock(b)
         /\ tip' \in Stored'
         /\ solo \ orphaned' = solo \intersect Line(tip')
         /\ Append(parent, body) \in Stored'
         /\ tip' = IF Len(Append(parent, body)) > Len(tip) THEN Append(parent, body) ELSE tip
         /\ orphaned' = Reorged(Connected(tip, tip'), Connected(tip', tip))
<1> DEFINE c == Append(parent, body)
<1>1. IsBlock(c) BY AppendIsNew DEF EarningsInv
<1>2. Stored' = {c} \union Stored
  BY DEF Insert, Stored
<1>3. tip' = (IF Len(c) > Len(tip) THEN c ELSE tip) /\ orphaned' = Reorged(Connected(tip, tip'), Connected(tip', tip))
  BY DEF Insert
<1>4. solo \ orphaned' = solo \intersect Line(tip')
  BY <1>3, ReorgKeepsCount DEF EarningsInv, EarningsMatchChain
<1> QED BY <1>1, <1>2, <1>3, <1>4 DEF EarningsInv

(* A found block is on the new branch and counted, not written off. *)
LEMMA FindKeepsCount ==
  ASSUME EarningsInv, NEW now, FindSolo(now)
  PROVE  EarningsInv'
<1> DEFINE body == SoloBody(now)
           c == Append(tip, body)
<1>1. Insert(tip, body) /\ solo' = solo \union {c} BY DEF FindSolo
<1>2. tip \in Stored BY DEF EarningsInv
<1>3. /\ \A b \in Stored' : IsBlock(b)
      /\ tip' \in Stored'
      /\ solo \ orphaned' = solo \intersect Line(tip')
      /\ tip' = IF Len(c) > Len(tip) THEN c ELSE tip
      /\ orphaned' = Reorged(Connected(tip, tip'), Connected(tip', tip))
  BY <1>1, <1>2, InsertKeepsCount
<1>4. /\ Len(c) = Len(tip) + 1 /\ Len(tip) \in Nat
      /\ c \in Line(c) /\ c \notin Line(tip)
  BY <1>2, AppendIsNew DEF EarningsInv
<1>5. tip' = c /\ c # <<>> BY <1>3, <1>4
<1>6. c \notin orphaned' BY <1>3, <1>4, <1>5 DEF Reorged, Connected
<1>7. solo' \ orphaned' = solo' \intersect Line(tip')
  BY <1>1, <1>3, <1>4, <1>5, <1>6
<1> QED BY <1>1, <1>3, <1>5, <1>7 DEF EarningsInv, EarningsMatchChain, Line, Stored

(* Every step, stutters included. *)
LEMMA EarningsStep == EarningsInv /\ [Next]_vars => EarningsInv'
<1> SUFFICES ASSUME EarningsInv, [Next]_vars PROVE EarningsInv'
  OBVIOUS
<1>1. ASSUME NEW parent \in Stored, NEW body, NEW rooted, Receive(parent, body, rooted)
      PROVE  EarningsInv'
  <2>1. solo' = solo BY <1>1 DEF Receive
  <2>2. CASE Insert(parent, body)
    BY <2>1, <2>2, <1>1, InsertKeepsCount DEF EarningsInv, EarningsMatchChain, Line, Stored
  <2>3. CASE states' = Kept(parent, body) /\ UNCHANGED <<tip, orphaned>>
    BY <2>1, <2>3 DEF Kept, EarningsInv, EarningsMatchChain, Line, Stored
  <2> QED BY <1>1, <2>2, <2>3 DEF Receive
<1>2. ASSUME NEW now \in Clock, FindSolo(now) PROVE EarningsInv'
  BY <1>2, FindKeepsCount
<1>3. CASE Reset
  <2>1. Stored' = {<<>>} /\ tip' = <<>> /\ solo' = solo /\ orphaned' = solo
    BY <1>3 DEF Reset, Stored, JustGenesis
  <2>2. IsBlock(<<>>)
    <3>1. <<>> \in Seq({}) OBVIOUS
    <3> QED BY <3>1 DEF IsBlock
  <2>3. Line(<<>>) = {<<>>}
    <3>1. Len(<<>>) = 0 /\ 0 .. 0 = {0} /\ SubSeq(<<>>, 1, 0) = <<>> OBVIOUS
    <3> QED BY <3>1 DEF Line
  <2> QED BY <2>1, <2>2, <2>3 DEF EarningsInv, EarningsMatchChain, Line
<1>4. CASE UNCHANGED vars
  BY <1>4 DEF vars, EarningsInv, EarningsMatchChain, Line, Stored
<1> QED BY <1>1, <1>2, <1>3, <1>4 DEF Next

(* canonicalSolo, which the earnings are computed from, counts exactly the
   found blocks on the branch of the tip. *)
THEOREM EarningsAreCanonical == Spec => []EarningsMatchChain
<1>1. Init => EarningsInv
  <2> SUFFICES ASSUME Init PROVE EarningsInv
    OBVIOUS
  <2>1. Stored = {<<>>} /\ tip = <<>> BY DEF Init, Stored, JustGenesis
  <2>2. <<>> \in Seq({}) OBVIOUS
  <2> QED BY <2>1, <2>2 DEF Init, EarningsInv, EarningsMatchChain, IsBlock
<1>2. EarningsInv => EarningsMatchChain BY DEF EarningsInv
<1> QED BY <1>1, <1>2, EarningsStep, PTL DEF Spec
=============================================================================
