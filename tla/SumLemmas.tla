------------------------------ MODULE SumLemmas ------------------------------
(***************************************************************************)
(* Sums of numbers over finite sets, SumFunctionOnSet of the community's   *)
(* Functions, whose recursion is unfolded here by induction over sets.     *)
(***************************************************************************)
EXTENDS Integers, Functions, FiniteSetTheorems, WellFoundedInduction, TLAPS

-----------------------------------------------------------------------------
(* Induction *)

\* A family of sets that a nonempty set is in when it is with any of its elements taken
\* out has every finite set in it.
LEMMA FewerInduction ==
  ASSUME NEW S, IsFiniteSet(S), NEW Good, {} \in Good,
         \A T \in SUBSET S : T # {} /\ (\A x \in T : T \ {x} \in Good) => T \in Good
  PROVE  S \in Good
<1> DEFINE Bad == {T \in FiniteSubsetsOf(S) : T \notin Good}
<1>1. FiniteSubsetsOf(S) = SUBSET S
  BY FS_FiniteSubsetsOfFinite
<1>2. SUFFICES ASSUME Bad # {}
               PROVE  FALSE
  <2>1. S \in SUBSET S
    OBVIOUS
  <2> QED
    BY <1>1, <2>1
<1>3. Bad \subseteq FiniteSubsetsOf(S)
  OBVIOUS
<1>4. IsWellFoundedOn(StrictSubsetOrdering(S), FiniteSubsetsOf(S))
  BY FS_StrictSubsetOrderingWellFounded
<1> HIDE DEF Bad
<1>5. PICK T \in Bad : \A U \in Bad : ~ (<<U, T>> \in StrictSubsetOrdering(S))
  BY ONLY <1>2, <1>3, <1>4, WFMin
<1>6. T \in SUBSET S /\ T \notin Good /\ T # {}
  BY <1>1, <1>5 DEF Bad
<1>7. ASSUME NEW x \in T
      PROVE  T \ {x} \in Good
  <2>1. T \ {x} \in SUBSET S /\ T \ {x} # T /\ T \ {x} \subseteq T
    BY <1>6
  <2>2. <<T \ {x}, T>> \in StrictSubsetOrdering(S)
    BY <1>6, <2>1 DEF StrictSubsetOrdering
  <2> QED
    BY <1>1, <1>5, <2>1, <2>2 DEF Bad
<1> QED
  BY <1>6, <1>7

-----------------------------------------------------------------------------
(* What the recursion computes *)

\* The element a sum takes first.
First(s) == CHOOSE x \in s : TRUE

\* g is the table of the sums of f over the subsets of S.
SumTable(g, f, S) ==
  g = [s \in SUBSET S |-> IF s = {} THEN 0 ELSE f[First(s)] + g[s \ {First(s)}]]

Table(f, S) == CHOOSE g : SumTable(g, f, S)

LEMMA SumIsTable ==
  ASSUME NEW f, NEW S
  PROVE  SumFunctionOnSet(f, S) = Table(f, S)[S]
BY DEF SumFunctionOnSet, FoldFunctionOnSet, MapThenFoldSet, Table, SumTable, First

LEMMA FirstIn ==
  ASSUME NEW s, s # {}
  PROVE  First(s) \in s
BY DEF First

LEMMA TableUnique ==
  ASSUME NEW f, NEW S, IsFiniteSet(S), NEW U, S \subseteq U,
         NEW g, NEW h, SumTable(g, f, S), SumTable(h, f, U)
  PROVE  g[S] = h[S]
<1> DEFINE Good == {T \in SUBSET S : g[T] = h[T]}
<1>1. {} \in Good
  BY DEF SumTable
<1>2. ASSUME NEW T \in SUBSET S, T # {}, \A x \in T : T \ {x} \in Good
      PROVE  T \in Good
  <2>1. g[T] = f[First(T)] + g[T \ {First(T)}]
    BY <1>2 DEF SumTable
  <2>2. h[T] = f[First(T)] + h[T \ {First(T)}]
    BY <1>2 DEF SumTable
  <2> QED
    BY <1>2, <2>1, <2>2, FirstIn
<1> HIDE DEF Good
<1>3. S \in Good
  BY <1>1, <1>2, FewerInduction
<1> QED
  BY <1>3 DEF Good

LEMMA TableStep ==
  ASSUME NEW f, NEW S, IsFiniteSet(S), S # {},
         SumTable(Table(f, S), f, S),
         SumTable(Table(f, S \ {First(S)}), f, S \ {First(S)})
  PROVE  SumFunctionOnSet(f, S) = f[First(S)] + SumFunctionOnSet(f, S \ {First(S)})
<1>1. Table(f, S)[S] = f[First(S)] + Table(f, S)[S \ {First(S)}]
  BY DEF SumTable
<1>2. IsFiniteSet(S \ {First(S)}) /\ S \ {First(S)} \subseteq S
  BY FS_RemoveElement
<1>3. Table(f, S)[S \ {First(S)}] = Table(f, S \ {First(S)})[S \ {First(S)}]
  BY <1>2, TableUnique
<1> QED
  BY <1>1, <1>3, SumIsTable

LEMMA TableEmpty ==
  ASSUME NEW f
  PROVE  SumTable(Table(f, {}), f, {}) /\ SumFunctionOnSet(f, {}) = 0
<1>1. SUBSET {} = {{}}
  OBVIOUS
<1>2. SumTable([s \in SUBSET {} |-> 0], f, {})
  BY <1>1 DEF SumTable
<1>3. SumTable(Table(f, {}), f, {})
  BY <1>2 DEF Table
<1>4. Table(f, {})[{}] = 0
  BY <1>3 DEF SumTable
<1> QED
  BY <1>3, <1>4, SumIsTable

\* The table exists: it is made of the sums over smaller sets.
LEMMA TableExists ==
  ASSUME NEW f, NEW S, IsFiniteSet(S)
  PROVE  \A T \in SUBSET S : SumTable(Table(f, T), f, T)
<1> DEFINE Good == {T \in SUBSET S : \A s \in SUBSET T : SumTable(Table(f, s), f, s)}
<1>1. {} \in Good
  BY TableEmpty
<1>2. ASSUME NEW T \in SUBSET S, T # {}, \A x \in T : T \ {x} \in Good
      PROVE  T \in Good
  <2>1. \A s \in SUBSET T : s # T => SumTable(Table(f, s), f, s)
    BY <1>2
  <2> DEFINE h == [s \in SUBSET T |-> IF s = {} THEN 0
                                      ELSE f[First(s)] + SumFunctionOnSet(f, s \ {First(s)})]
  <2>2. ASSUME NEW s \in SUBSET T, s # T
        PROVE  h[s] = SumFunctionOnSet(f, s)
    <3>1. CASE s = {}
      BY <3>1, TableEmpty
    <3>2. CASE s # {}
      <4>1. IsFiniteSet(s)
        BY FS_Subset
      <4>2. SumTable(Table(f, s \ {First(s)}), f, s \ {First(s)})
        <5>1. s \ {First(s)} \in SUBSET T /\ s \ {First(s)} # T
          BY <2>2, <3>2, FirstIn
        <5> QED
          BY <2>1, <5>1
      <4> QED
        BY <2>1, <2>2, <3>2, <4>1, <4>2, TableStep
    <3> QED
      BY <3>1, <3>2
  <2>3. ASSUME NEW s \in SUBSET T, s # {}
        PROVE  h[s] = f[First(s)] + h[s \ {First(s)}]
    <3>1. s \ {First(s)} \in SUBSET T /\ s \ {First(s)} # T
      BY <2>3, FirstIn
    <3>2. h[s \ {First(s)}] = SumFunctionOnSet(f, s \ {First(s)})
      BY <2>2, <3>1
    <3> QED
      BY <2>3, <3>2
  <2>4. h[{}] = 0
    OBVIOUS
  <2>5. h = [s \in SUBSET T |-> h[s]]
    OBVIOUS
  <2> HIDE DEF h
  <2>6. SumTable(h, f, T)
    BY <2>3, <2>4, <2>5 DEF SumTable
  <2>7. SumTable(Table(f, T), f, T)
    BY <2>6 DEF Table
  <2> QED
    BY <2>1, <2>7
<1> HIDE DEF Good
<1>3. S \in Good
  BY <1>1, <1>2, FewerInduction
<1> QED
  BY <1>3 DEF Good

LEMMA SumFirst ==
  ASSUME NEW f, NEW S, IsFiniteSet(S), S # {}
  PROVE  SumFunctionOnSet(f, S) = f[First(S)] + SumFunctionOnSet(f, S \ {First(S)})
BY TableExists, TableStep

\* The parts of a finite set, with one element less.
LEMMA Parts ==
  ASSUME NEW S, IsFiniteSet(S), NEW T \in SUBSET S
  PROVE  /\ IsFiniteSet(T)
         /\ \A x : IsFiniteSet(T \ {x}) /\ T \ {x} \in SUBSET S
BY FS_Subset

LEMMA SumEmpty ==
  ASSUME NEW f
  PROVE  SumFunctionOnSet(f, {}) = 0
BY TableEmpty

-----------------------------------------------------------------------------
(* Sums of integers *)

\* A sum of integers is one, and any element may be taken first.
LEMMA SumType ==
  ASSUME NEW f, NEW S, IsFiniteSet(S), \A x \in S : f[x] \in Int
  PROVE  SumFunctionOnSet(f, S) \in Int
<1> DEFINE Good == {T \in SUBSET S : SumFunctionOnSet(f, T) \in Int}
<1>1. {} \in Good
  BY SumEmpty
<1>2. ASSUME NEW T \in SUBSET S, T # {}, \A x \in T : T \ {x} \in Good
      PROVE  T \in Good
  <2>1. First(T) \in T
    BY <1>2, FirstIn
  <2>2. SumFunctionOnSet(f, T) = f[First(T)] + SumFunctionOnSet(f, T \ {First(T)})
    BY <1>2, Parts, SumFirst
  <2>3. f[First(T)] \in Int /\ SumFunctionOnSet(f, T \ {First(T)}) \in Int
    BY <1>2, <2>1
  <2> QED
    BY <2>2, <2>3
<1> HIDE DEF Good
<1>3. S \in Good
  BY <1>1, <1>2, FewerInduction
<1> QED
  BY <1>3 DEF Good

LEMMA SumTakes ==
  ASSUME NEW f, NEW S, IsFiniteSet(S), \A x \in S : f[x] \in Int, NEW e \in S
  PROVE  SumFunctionOnSet(f, S) = f[e] + SumFunctionOnSet(f, S \ {e})
<1> DEFINE Good == {T \in SUBSET S :
                      \A x \in T : SumFunctionOnSet(f, T) = f[x] + SumFunctionOnSet(f, T \ {x})}
<1>1. {} \in Good
  OBVIOUS
<1>2. ASSUME NEW T \in SUBSET S, T # {}, \A x \in T : T \ {x} \in Good
      PROVE  T \in Good
  <2> SUFFICES ASSUME NEW x \in T
               PROVE  SumFunctionOnSet(f, T) = f[x] + SumFunctionOnSet(f, T \ {x})
    OBVIOUS
  <2>1. PICK c \in T : SumFunctionOnSet(f, T) = f[c] + SumFunctionOnSet(f, T \ {c})
    <3>1. First(T) \in T
      BY <1>2, FirstIn
    <3>2. SumFunctionOnSet(f, T) = f[First(T)] + SumFunctionOnSet(f, T \ {First(T)})
      BY <1>2, Parts, SumFirst
    <3> QED
      BY <3>1, <3>2
  <2>2. CASE x = c
    BY <2>1, <2>2
  <2>3. CASE x # c
    <3>1. SumFunctionOnSet(f, T \ {c}) = f[x] + SumFunctionOnSet(f, (T \ {c}) \ {x})
      BY <1>2, <2>3
    <3>2. SumFunctionOnSet(f, T \ {x}) = f[c] + SumFunctionOnSet(f, (T \ {x}) \ {c})
      BY <1>2, <2>3
    <3>3. (T \ {x}) \ {c} = (T \ {c}) \ {x}
      OBVIOUS
    <3>4. PICK rest \in Int : rest = SumFunctionOnSet(f, (T \ {c}) \ {x})
      <4>1. IsFiniteSet((T \ {c}) \ {x}) /\ (T \ {c}) \ {x} \subseteq S
        BY FS_Subset
      <4> QED
        BY <4>1, SumType
    <3>5. f[x] \in Int /\ f[c] \in Int
      OBVIOUS
    <3>6. f[c] + (f[x] + rest) = f[x] + (f[c] + rest)
      BY <3>4, <3>5
    <3> QED
      BY <2>1, <3>1, <3>2, <3>3, <3>4, <3>6
  <2> QED
    BY <2>2, <2>3
<1> HIDE DEF Good
<1>3. S \in Good
  BY <1>1, <1>2, FewerInduction
<1> QED
  BY <1>3 DEF Good

LEMMA SumAdds ==
  ASSUME NEW f, NEW S, IsFiniteSet(S), NEW e, e \notin S, \A x \in S \cup {e} : f[x] \in Int
  PROVE  SumFunctionOnSet(f, S \cup {e}) = f[e] + SumFunctionOnSet(f, S)
<1>1. IsFiniteSet(S \cup {e}) /\ (S \cup {e}) \ {e} = S
  BY FS_AddElement
<1> QED
  BY <1>1, SumTakes

\* Sums compare as their terms do.
LEMMA SumMonotone ==
  ASSUME NEW f, NEW g, NEW S, IsFiniteSet(S), 
         \A x \in S : f[x] \in Int /\ g[x] \in Int /\ f[x] <= g[x]
  PROVE  SumFunctionOnSet(f, S) <= SumFunctionOnSet(g, S)
<1> DEFINE Good == {T \in SUBSET S : SumFunctionOnSet(f, T) <= SumFunctionOnSet(g, T)}
<1>1. {} \in Good
  BY SumEmpty
<1>2. ASSUME NEW T \in SUBSET S, T # {}, \A x \in T : T \ {x} \in Good
      PROVE  T \in Good
  <2>1. PICK c \in T : TRUE
    BY <1>2
  <2>2. IsFiniteSet(T) /\ IsFiniteSet(T \ {c}) /\ T \ {c} \subseteq S
    BY FS_Subset
  <2>3. SumFunctionOnSet(f, T \ {c}) \in Int /\ SumFunctionOnSet(g, T \ {c}) \in Int
    BY <2>2, SumType
  <2>4. /\ SumFunctionOnSet(f, T) = f[c] + SumFunctionOnSet(f, T \ {c})
        /\ SumFunctionOnSet(g, T) = g[c] + SumFunctionOnSet(g, T \ {c})
    BY <2>2, SumTakes
  <2>5. SumFunctionOnSet(f, T \ {c}) <= SumFunctionOnSet(g, T \ {c})
    BY <1>2
  <2>6. f[c] \in Int /\ g[c] \in Int /\ f[c] <= g[c]
    OBVIOUS
  <2> QED
    BY <2>3, <2>4, <2>5, <2>6
<1> HIDE DEF Good
<1>3. S \in Good
  BY <1>1, <1>2, FewerInduction
<1> QED
  BY <1>3 DEF Good

LEMMA SumSame ==
  ASSUME NEW f, NEW g, NEW S, IsFiniteSet(S), \A x \in S : f[x] \in Int /\ f[x] = g[x]
  PROVE  SumFunctionOnSet(f, S) = SumFunctionOnSet(g, S)
<1>1. SumFunctionOnSet(f, S) \in Int /\ SumFunctionOnSet(g, S) \in Int
  BY SumType
<1>2. SumFunctionOnSet(f, S) <= SumFunctionOnSet(g, S) /\ SumFunctionOnSet(g, S) <= SumFunctionOnSet(f, S)
  BY SumMonotone
<1> QED
  BY <1>1, <1>2

\* One term changes.
LEMMA SumChanges ==
  ASSUME NEW f, NEW g, NEW S, IsFiniteSet(S), NEW e \in S, g[e] \in Int,
         \A x \in S : f[x] \in Int, \A x \in S \ {e} : g[x] = f[x]
  PROVE  SumFunctionOnSet(g, S) = SumFunctionOnSet(f, S) - f[e] + g[e]
<1>1. IsFiniteSet(S \ {e})
  BY FS_Subset
<1>2. SumFunctionOnSet(g, S \ {e}) = SumFunctionOnSet(f, S \ {e}) /\ SumFunctionOnSet(f, S \ {e}) \in Int
  BY <1>1, SumSame, SumType
<1>3. /\ SumFunctionOnSet(f, S) = f[e] + SumFunctionOnSet(f, S \ {e})
      /\ SumFunctionOnSet(g, S) = g[e] + SumFunctionOnSet(g, S \ {e})
  BY SumTakes
<1> QED
  BY <1>2, <1>3

\* Terms that are sums of two.
LEMMA SumPlus ==
  ASSUME NEW f, NEW g, NEW h, NEW S, IsFiniteSet(S),
         \A x \in S : f[x] \in Int /\ g[x] \in Int /\ h[x] = f[x] + g[x]
  PROVE  SumFunctionOnSet(h, S) = SumFunctionOnSet(f, S) + SumFunctionOnSet(g, S)
<1> DEFINE Good == {T \in SUBSET S :
              SumFunctionOnSet(h, T) = SumFunctionOnSet(f, T) + SumFunctionOnSet(g, T)}
<1>1. {} \in Good
  BY SumEmpty
<1>2. ASSUME NEW T \in SUBSET S, T # {}, \A x \in T : T \ {x} \in Good
      PROVE  T \in Good
  <2>1. PICK c \in T : TRUE
    BY <1>2
  <2>2. IsFiniteSet(T) /\ IsFiniteSet(T \ {c}) /\ T \ {c} \subseteq S
    BY FS_Subset
  <2>3. SumFunctionOnSet(f, T \ {c}) \in Int /\ SumFunctionOnSet(g, T \ {c}) \in Int
    BY <2>2, SumType
  <2>4. /\ SumFunctionOnSet(f, T) = f[c] + SumFunctionOnSet(f, T \ {c})
        /\ SumFunctionOnSet(g, T) = g[c] + SumFunctionOnSet(g, T \ {c})
        /\ SumFunctionOnSet(h, T) = h[c] + SumFunctionOnSet(h, T \ {c})
    BY <2>2, SumTakes
  <2>5. SumFunctionOnSet(h, T \ {c}) = SumFunctionOnSet(f, T \ {c}) + SumFunctionOnSet(g, T \ {c})
    BY <1>2
  <2>6. f[c] \in Int /\ g[c] \in Int /\ h[c] = f[c] + g[c]
    OBVIOUS
  <2> QED
    BY <2>3, <2>4, <2>5, <2>6
<1> HIDE DEF Good
<1>3. S \in Good
  BY <1>1, <1>2, FewerInduction
<1> QED
  BY <1>3 DEF Good

\* A sum of natural numbers is one; it is that of any set outside which they are zero.
LEMMA SumNatural ==
  ASSUME NEW f, NEW S, IsFiniteSet(S), \A x \in S : f[x] \in Nat
  PROVE  SumFunctionOnSet(f, S) \in Nat
<1> DEFINE Good == {T \in SUBSET S : SumFunctionOnSet(f, T) \in Nat}
<1>1. {} \in Good
  BY SumEmpty
<1>2. ASSUME NEW T \in SUBSET S, T # {}, \A x \in T : T \ {x} \in Good
      PROVE  T \in Good
  <2>1. First(T) \in T
    BY <1>2, FirstIn
  <2>2. SumFunctionOnSet(f, T) = f[First(T)] + SumFunctionOnSet(f, T \ {First(T)})
    BY <1>2, Parts, SumFirst
  <2>3. f[First(T)] \in Nat /\ SumFunctionOnSet(f, T \ {First(T)}) \in Nat
    BY <1>2, <2>1
  <2> QED
    BY <2>2, <2>3
<1> HIDE DEF Good
<1>3. S \in Good
  BY <1>1, <1>2, FewerInduction
<1> QED
  BY <1>3 DEF Good

LEMMA SumSupport ==
  ASSUME NEW f, NEW S, IsFiniteSet(S), NEW U \in SUBSET S, \A x \in S : f[x] \in Int,
         \A x \in S \ U : f[x] = 0
  PROVE  SumFunctionOnSet(f, U) = SumFunctionOnSet(f, S)
<1> DEFINE Good == {T \in SUBSET S : SumFunctionOnSet(f, T \cap U) = SumFunctionOnSet(f, T)}
<1>1. {} \in Good
  OBVIOUS
<1>2. ASSUME NEW T \in SUBSET S, T # {}, \A x \in T : T \ {x} \in Good
      PROVE  T \in Good
  <2>1. PICK c \in T : TRUE
    BY <1>2
  <2>2. /\ IsFiniteSet(T) /\ IsFiniteSet(T \cap U) /\ T \cap U \subseteq S
        /\ IsFiniteSet((T \ {c}) \cap U) /\ (T \ {c}) \cap U \subseteq S
    BY FS_Subset
  <2>3. SumFunctionOnSet(f, (T \ {c}) \cap U) \in Int
    BY <2>2, SumType
  <2>4. SumFunctionOnSet(f, T) = f[c] + SumFunctionOnSet(f, T \ {c})
    BY <2>2, SumTakes
  <2>5. SumFunctionOnSet(f, (T \ {c}) \cap U) = SumFunctionOnSet(f, T \ {c})
    BY <1>2
  <2>6. CASE c \in U
    <3>1. SumFunctionOnSet(f, T \cap U) = f[c] + SumFunctionOnSet(f, (T \cap U) \ {c})
      BY <2>2, <2>6, SumTakes
    <3>2. (T \cap U) \ {c} = (T \ {c}) \cap U
      OBVIOUS
    <3> QED
      BY <2>4, <2>5, <3>1, <3>2
  <2>7. CASE c \notin U
    <3>1. T \cap U = (T \ {c}) \cap U
      BY <2>7
    <3>2. f[c] = 0
      BY <2>7
    <3>3. SumFunctionOnSet(f, T) = SumFunctionOnSet(f, T \ {c})
      BY <2>3, <2>4, <2>5, <3>2
    <3> QED
      BY <2>5, <3>1, <3>3
  <2> QED
    BY <2>6, <2>7
<1> HIDE DEF Good
<1>3. S \in Good
  BY <1>1, <1>2, FewerInduction
<1>4. S \cap U = U
  OBVIOUS
<1> QED
  BY <1>3, <1>4 DEF Good

\* Fewer terms, none of them negative.
LEMMA SumFewer ==
  ASSUME NEW f, NEW S, IsFiniteSet(S), NEW U \in SUBSET S, \A x \in S : f[x] \in Nat
  PROVE  SumFunctionOnSet(f, U) <= SumFunctionOnSet(f, S)
<1> DEFINE g == [x \in S |-> IF x \in U THEN f[x] ELSE 0]
<1>1. /\ \A x \in S : g[x] \in Int /\ g[x] <= f[x] /\ f[x] \in Int
      /\ \A x \in S \ U : g[x] = 0
      /\ \A x \in U : f[x] \in Int /\ f[x] = g[x]
  OBVIOUS
<1> HIDE DEF g
<1>2. SumFunctionOnSet(f, U) = SumFunctionOnSet(g, U)
  <2>1. IsFiniteSet(U)
    BY FS_Subset
  <2> QED
    BY <1>1, <2>1, SumSame
<1>3. SumFunctionOnSet(g, U) = SumFunctionOnSet(g, S)
  BY <1>1, SumSupport
<1>4. SumFunctionOnSet(g, S) <= SumFunctionOnSet(f, S)
  BY <1>1, SumMonotone
<1> QED
  BY <1>2, <1>3, <1>4

-----------------------------------------------------------------------------
(* Bounds *)

\* A finite set of integers has a largest element.
LEMMA LargestExists ==
  ASSUME NEW S, IsFiniteSet(S), S \subseteq Int, S # {}
  PROVE  \E x \in S : \A y \in S : x >= y
<1> DEFINE Good == {T \in SUBSET S : T # {} => \E x \in T : \A y \in T : x >= y}
<1>1. {} \in Good
  OBVIOUS
<1>2. ASSUME NEW T \in SUBSET S, T # {}, \A x \in T : T \ {x} \in Good
      PROVE  T \in Good
  <2>1. PICK c \in T : TRUE
    BY <1>2
  <2>2. CASE T \ {c} = {}
    BY <2>1, <2>2
  <2>3. CASE T \ {c} # {}
    <3>1. PICK x \in T \ {c} : \A y \in T \ {c} : x >= y
      BY <1>2, <2>3
    <3>2. c \in Int /\ x \in Int /\ \A y \in T : y \in Int
      OBVIOUS
    <3>3. CASE x >= c
      BY <3>1, <3>3
    <3>4. CASE ~(x >= c)
      <4>1. c >= c /\ \A y \in T \ {c} : c >= y
        BY <3>1, <3>2, <3>4
      <4> QED
        BY <4>1
    <3> QED
      BY <3>3, <3>4
  <2> QED
    BY <2>2, <2>3
<1> HIDE DEF Good
<1>3. S \in Good
  BY <1>1, <1>2, FewerInduction
<1> QED
  BY <1>3 DEF Good

=============================================================================
