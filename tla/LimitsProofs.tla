---------------------------- MODULE LimitsProofs ----------------------------
(***************************************************************************)
(* What TLAPS proves of the limits JARVIS works within: how often          *)
(* schedules run, who answers a call, and what a workflow spends; for any  *)
(* number of processes, schedules, calls, tasks and runs, and any limits.  *)
(*                                                                         *)
(* Counts and money are sums over rows.  A sum is a fold over a finite set *)
(* (SumFunctionOnSet), and what is said of it for every set goes from a    *)
(* set to the sets with one element less (OneByOne): the strict subsets of *)
(* a finite set are well founded, and the sets a fact holds of are a set.  *)
(*                                                                         *)
(* Scheduler.  next_due moves a row past every moment up to the one it     *)
(* runs at, so a run takes a moment that no other run of the row takes;    *)
(* and the lock lets one pass at a time look at the ceiling and claim.     *)
(*                                                                         *)
(* Providers.  A reading that is about to be filled in is current unless   *)
(* the process is known to be behind, and a call's chain always holds      *)
(* whichever configured provider has not failed yet.                       *)
(*                                                                         *)
(* Spending.  What is spent and what the runs that were let through may    *)
(* still cost stay within one bound together.                              *)
(***************************************************************************)
EXTENDS Scheduler, Spending, FiniteSetTheorems, SequenceTheorems,
        WellFoundedInduction, TLAPS

-----------------------------------------------------------------------------
(* Sums *)

\* What holds of a set whenever it holds of the sets with one element less
\* holds of every finite set.
LEMMA OneByOne ==
    ASSUME NEW S, IsFiniteSet(S), NEW Good,
           \A T \in SUBSET S : (\A x \in T : T \ {x} \in Good) => T \in Good
    PROVE  S \in Good
<1> DEFINE Bad == {T \in SUBSET S : T \notin Good}
<1>1. IsWellFoundedOn(StrictSubsetOrdering(S), SUBSET S)
  BY FS_StrictSubsetOrderingWellFounded, FS_FiniteSubsetsOfFinite
<1>2. ASSUME Bad # {} PROVE FALSE
  <2>1. Bad \subseteq SUBSET S
    OBVIOUS
  <2>2. \E T \in Bad : \A U \in Bad : <<U, T>> \notin StrictSubsetOrdering(S)
    <3> HIDE DEF Bad
    <3> QED
      BY <1>1, <1>2, <2>1, WFMin
  <2>3. PICK T \in Bad : \A U \in Bad : <<U, T>> \notin StrictSubsetOrdering(S)
    BY <2>2
  <2>4. ASSUME NEW x \in T PROVE T \ {x} \in Good
    <3>1. T \ {x} \in SUBSET S /\ T \in SUBSET S /\ T \ {x} \subseteq T /\ T \ {x} # T
      OBVIOUS
    <3>2. <<T \ {x}, T>> \in StrictSubsetOrdering(S)
      BY <3>1 DEF StrictSubsetOrdering
    <3> QED
      BY <2>3, <3>1, <3>2
  <2> QED
    BY <2>4
<1> QED
  BY <1>2

Pick(s) == CHOOSE x \in s : TRUE

\* g adds f up along the sets it is defined on.
Adds(g, f, S) ==
    g = [s \in SUBSET S |-> IF s = {} THEN 0 ELSE f[Pick(s)] + g[s \ {Pick(s)}]]

LEMMA SumIs ==
    ASSUME NEW f, NEW S
    PROVE  SumFunctionOnSet(f, S) = (CHOOSE g : Adds(g, f, S))[S]
BY DEF SumFunctionOnSet, FoldFunctionOnSet, MapThenFoldSet, Adds, Pick

\* Two of them agree.
LEMMA AddsUnique ==
    ASSUME NEW f, NEW S, IsFiniteSet(S), NEW g, NEW T \in SUBSET S, NEW h,
           Adds(g, f, S), Adds(h, f, T)
    PROVE  g[T] = h[T]
<1> DEFINE Good == {s \in SUBSET T : g[s] = h[s]}
<1>1. IsFiniteSet(T)
  BY FS_Subset
<1>2. ASSUME NEW s \in SUBSET T, \A x \in s : s \ {x} \in Good
      PROVE  s \in Good
  <2>1. g[s] = IF s = {} THEN 0 ELSE f[Pick(s)] + g[s \ {Pick(s)}]
    BY DEF Adds
  <2>2. h[s] = IF s = {} THEN 0 ELSE f[Pick(s)] + h[s \ {Pick(s)}]
    BY DEF Adds
  <2>3. s # {} => Pick(s) \in s
    BY DEF Pick
  <2>4. s # {} => g[s \ {Pick(s)}] = h[s \ {Pick(s)}]
    BY <1>2, <2>3
  <2> QED
    BY <2>1, <2>2, <2>4
<1>3. T \in Good
  <2> HIDE DEF Good
  <2> QED
    BY <1>1, <1>2, OneByOne
<1> QED
  BY <1>3

\* There is one for every finite set.
LEMMA AddsExists ==
    ASSUME NEW f, NEW S, IsFiniteSet(S)
    PROVE  \E g : Adds(g, f, S)
<1> DEFINE Good == {T \in SUBSET S : \A U \in SUBSET T : \E g : Adds(g, f, U)}
<1>1. ASSUME NEW T \in SUBSET S, \A x \in T : T \ {x} \in Good
      PROVE  T \in Good
  <2> DEFINE G(u) == CHOOSE g : Adds(g, f, u)
             h == [s \in SUBSET T |->
                     IF s = {} THEN 0
                     ELSE f[Pick(s)] + G(s \ {Pick(s)})[s \ {Pick(s)}]]
  <2>5. ASSUME NEW u \in SUBSET T, u # T
        PROVE  Adds(G(u), f, u)
    <3>1. PICK x \in T : x \notin u
      BY <2>5
    <3>2. T \ {x} \in Good /\ u \in SUBSET (T \ {x})
      BY <1>1, <3>1
    <3>3. \E g : Adds(g, f, u)
      BY <3>2
    <3> QED
      BY <3>3
  <2>6. ASSUME NEW s \in SUBSET T, s # T
        PROVE  h[s] = G(s)[s]
    <3>1. Adds(G(s), f, s)
      BY <2>5, <2>6
    <3>2. G(s)[s] = IF s = {} THEN 0 ELSE f[Pick(s)] + G(s)[s \ {Pick(s)}]
      <4> HIDE DEF G
      <4> QED
        BY <3>1 DEF Adds
    <3>3. CASE s = {}
      BY <3>2, <3>3
    <3>4. CASE s # {}
      <4>1. Pick(s) \in s
        BY <3>4 DEF Pick
      <4> DEFINE u == s \ {Pick(s)}
      <4>2. u \in SUBSET T /\ u # T /\ u \in SUBSET s /\ IsFiniteSet(s)
        BY <4>1, FS_Subset
      <4>3. Adds(G(u), f, u)
        BY <2>5, <4>2
      <4>4. G(s)[u] = G(u)[u]
        <5> HIDE DEF G, u
        <5> QED
          BY <3>1, <4>2, <4>3, AddsUnique
      <4>5. h[s] = f[Pick(s)] + G(u)[u]
        BY <3>4
      <4> QED
        <5> HIDE DEF G, h
        <5> QED
          BY <3>2, <3>4, <4>4, <4>5
    <3> QED
      BY <3>3, <3>4
  <2>7. h = [s \in SUBSET T |->
               IF s = {} THEN 0 ELSE f[Pick(s)] + h[s \ {Pick(s)}]]
    <3>1. ASSUME NEW s \in SUBSET T
          PROVE  h[s] = IF s = {} THEN 0 ELSE f[Pick(s)] + h[s \ {Pick(s)}]
      <4>1. CASE s = {}
        BY <4>1
      <4>2. CASE s # {}
        <5>1. Pick(s) \in s
          BY <4>2 DEF Pick
        <5> DEFINE u == s \ {Pick(s)}
        <5>2. u \in SUBSET T /\ u # T
          BY <5>1
        <5>3. h[s] = f[Pick(s)] + G(u)[u]
          BY <4>2
        <5>4. h[u] = G(u)[u]
          <6> HIDE DEF h, G, u
          <6> QED
            BY <2>6, <5>2
        <5> QED
          <6> HIDE DEF G, h
          <6> QED
            BY <4>2, <5>3, <5>4
      <4> QED
        BY <4>1, <4>2
    <3>2. h = [s \in SUBSET T |-> h[s]]
      OBVIOUS
    <3> QED
      <4> HIDE DEF h
      <4> QED
        BY <3>1, <3>2
  <2>8. Adds(h, f, T)
    <3> HIDE DEF h
    <3> QED
      BY <2>7 DEF Adds
  <2>9. ASSUME NEW U \in SUBSET T PROVE \E g : Adds(g, f, U)
    <3> HIDE DEF h, G, Good
    <3>1. CASE U = T
      BY <2>8, <3>1
    <3>2. CASE U # T
      BY <2>5, <3>2
    <3> QED
      BY <3>1, <3>2
  <2> QED
    <3> HIDE DEF h, G
    <3> QED
      BY <2>9
<1>2. S \in Good
  <2> HIDE DEF Good
  <2> QED
    BY <1>1, OneByOne
<1> QED
  BY <1>2

\* A sum, unfolded once.
LEMMA SumUnfold ==
    ASSUME NEW f, NEW S, IsFiniteSet(S)
    PROVE  /\ S = {} => SumFunctionOnSet(f, S) = 0
           /\ S # {} => /\ Pick(S) \in S
                        /\ SumFunctionOnSet(f, S) = f[Pick(S)] + SumFunctionOnSet(f, S \ {Pick(S)})
<1> DEFINE g == CHOOSE g : Adds(g, f, S)
<1>1. Adds(g, f, S)
  BY AddsExists
<1>2. SumFunctionOnSet(f, S) = g[S]
  BY SumIs
<1> HIDE DEF g
<1>3. g[S] = IF S = {} THEN 0 ELSE f[Pick(S)] + g[S \ {Pick(S)}]
  BY <1>1 DEF Adds
<1>4. ASSUME S # {}
      PROVE  /\ Pick(S) \in S
             /\ g[S \ {Pick(S)}] = SumFunctionOnSet(f, S \ {Pick(S)})
  <2>1. Pick(S) \in S
    BY <1>4 DEF Pick
  <2> DEFINE T == S \ {Pick(S)}
             h == CHOOSE h : Adds(h, f, T)
  <2>2. T \in SUBSET S /\ IsFiniteSet(T)
    BY FS_Subset
  <2>3. Adds(h, f, T)
    BY <2>2, AddsExists
  <2>4. SumFunctionOnSet(f, T) = h[T]
    BY SumIs
  <2> HIDE DEF T, h
  <2>5. g[T] = h[T]
    BY <1>1, <2>2, <2>3, AddsUnique
  <2> QED
    BY <2>1, <2>4, <2>5 DEF T
<1> QED
  BY <1>2, <1>3, <1>4
\* Sums of naturals, which is what everything here adds up.
Counts(f, S) == \A x \in S : f[x] \in Nat

LEMMA SumNat ==
    ASSUME NEW f, NEW S, IsFiniteSet(S), Counts(f, S)
    PROVE  SumFunctionOnSet(f, S) \in Nat
<1> DEFINE Good == {T \in SUBSET S : SumFunctionOnSet(f, T) \in Nat}
<1>1. ASSUME NEW T \in SUBSET S, \A x \in T : T \ {x} \in Good
      PROVE  T \in Good
  <2>1. IsFiniteSet(T)
    BY FS_Subset
  <2>2. CASE T = {}
    <3>1. SumFunctionOnSet(f, T) = 0
      BY <2>1, <2>2, SumUnfold
    <3> QED
      BY <3>1
  <2>3. CASE T # {}
    <3>1. /\ Pick(T) \in T
          /\ SumFunctionOnSet(f, T) = f[Pick(T)] + SumFunctionOnSet(f, T \ {Pick(T)})
      BY <2>1, <2>3, SumUnfold
    <3>2. f[Pick(T)] \in Nat /\ SumFunctionOnSet(f, T \ {Pick(T)}) \in Nat
      BY <1>1, <3>1 DEF Counts
    <3> QED
      BY <3>1, <3>2
  <2> QED
    BY <2>2, <2>3
<1>2. S \in Good
  <2> HIDE DEF Good
  <2> QED
    BY <1>1, OneByOne
<1> QED
  BY <1>2

\* The order does not matter: any element may be taken out first.
LEMMA SumTake ==
    ASSUME NEW f, NEW S, IsFiniteSet(S), Counts(f, S), NEW z \in S
    PROVE  SumFunctionOnSet(f, S) = f[z] + SumFunctionOnSet(f, S \ {z})
<1> DEFINE Total(T) == SumFunctionOnSet(f, T)
           Good == {T \in SUBSET S : \A x \in T : Total(T) = f[x] + Total(T \ {x})}
<1>1. ASSUME NEW T \in SUBSET S, \A x \in T : T \ {x} \in Good
      PROVE  T \in Good
  <2>1. IsFiniteSet(T)
    BY FS_Subset
  <2>2. ASSUME NEW x \in T PROVE Total(T) = f[x] + Total(T \ {x})
    <3> DEFINE p == Pick(T)
    <3>1. p \in T /\ Total(T) = f[p] + Total(T \ {p})
      BY <2>1, SumUnfold
    <3> HIDE DEF p
    <3>2. CASE x = p
      BY <3>1, <3>2
    <3>3. CASE x # p
      <4> DEFINE U == (T \ {p}) \ {x}
      <4>1. (T \ {x}) \ {p} = U
        OBVIOUS
      <4>2. Total(T \ {p}) = f[x] + Total(U)
        BY <1>1, <3>1, <3>3
      <4>3. Total(T \ {x}) = f[p] + Total(U)
        BY <1>1, <3>1, <3>3, <4>1
      <4>4. IsFiniteSet(U) /\ Counts(f, U)
        BY <2>1, FS_Subset DEF Counts
      <4>5. Total(U) \in Nat
        <5> HIDE DEF U
        <5> QED
          BY <4>4, SumNat
      <4>6. f[x] \in Nat /\ f[p] \in Nat
        BY <3>1 DEF Counts
      <4> QED
        <5> HIDE DEF U, Total
        <5> QED
          BY <3>1, <4>2, <4>3, <4>5, <4>6
    <3> QED
      BY <3>2, <3>3
  <2> QED
    BY <2>2
<1>2. S \in Good
  <2> HIDE DEF Good
  <2> QED
    BY <1>1, OneByOne
<1> QED
  BY <1>2

\* No term of one sum is above its term of the other.
LEMMA SumBelow ==
    ASSUME NEW f, NEW g, NEW S, IsFiniteSet(S), Counts(f, S), Counts(g, S),
           \A x \in S : f[x] <= g[x]
    PROVE  SumFunctionOnSet(f, S) <= SumFunctionOnSet(g, S)
<1> DEFINE Good == {T \in SUBSET S : SumFunctionOnSet(f, T) <= SumFunctionOnSet(g, T)}
<1>1. ASSUME NEW T \in SUBSET S, \A x \in T : T \ {x} \in Good
      PROVE  T \in Good
  <2>1. IsFiniteSet(T)
    BY FS_Subset
  <2>2. CASE T = {}
    <3>1. SumFunctionOnSet(f, T) = 0
      BY <2>1, <2>2, SumUnfold
    <3>2. SumFunctionOnSet(g, T) = 0
      BY <2>1, <2>2, SumUnfold
    <3> QED
      BY <3>1, <3>2
  <2>3. CASE T # {}
    <3> DEFINE p == Pick(T)
               U == T \ {p}
    <3>1. p \in T
      BY <2>1, <2>3, SumUnfold
    <3>2. SumFunctionOnSet(f, T) = f[p] + SumFunctionOnSet(f, U)
      BY <2>1, <2>3, SumUnfold
    <3>3. SumFunctionOnSet(g, T) = g[p] + SumFunctionOnSet(g, U)
      BY <2>1, <2>3, SumUnfold
    <3>4. SumFunctionOnSet(f, U) <= SumFunctionOnSet(g, U)
      BY <1>1, <3>1
    <3>5. IsFiniteSet(U) /\ Counts(f, U) /\ Counts(g, U)
      BY <2>1, FS_Subset DEF Counts
    <3>6. SumFunctionOnSet(f, U) \in Nat /\ SumFunctionOnSet(g, U) \in Nat
      <4> HIDE DEF U
      <4> QED
        BY <3>5, SumNat
    <3>7. f[p] \in Nat /\ g[p] \in Nat /\ f[p] <= g[p]
      BY <3>1 DEF Counts
    <3> QED
      <4> HIDE DEF p, U
      <4> QED
        BY <3>2, <3>3, <3>4, <3>6, <3>7
  <2> QED
    BY <2>2, <2>3
<1>2. S \in Good
  <2> HIDE DEF Good
  <2> QED
    BY <1>1, OneByOne
<1> QED
  BY <1>2

\* Functions that agree on a set have one sum over it.
LEMMA SumSame ==
    ASSUME NEW f, NEW g, NEW S, IsFiniteSet(S), Counts(f, S),
           \A x \in S : f[x] = g[x]
    PROVE  SumFunctionOnSet(f, S) = SumFunctionOnSet(g, S)
<1>1. Counts(g, S) /\ (\A x \in S : f[x] <= g[x]) /\ (\A x \in S : g[x] <= f[x])
  BY DEF Counts
<1>2. SumFunctionOnSet(f, S) <= SumFunctionOnSet(g, S)
  BY <1>1, SumBelow
<1>3. SumFunctionOnSet(g, S) <= SumFunctionOnSet(f, S)
  BY <1>1, SumBelow
<1>4. SumFunctionOnSet(f, S) \in Nat /\ SumFunctionOnSet(g, S) \in Nat
  BY <1>1, SumNat
<1> QED
  BY <1>2, <1>3, <1>4

\* Elements that count for nothing may be left out.
LEMMA SumPart ==
    ASSUME NEW f, NEW S, IsFiniteSet(S), Counts(f, S), NEW T \in SUBSET S,
           \A x \in S \ T : f[x] = 0
    PROVE  SumFunctionOnSet(f, S) = SumFunctionOnSet(f, T)
<1> DEFINE Good == {R \in SUBSET (S \ T) :
                       SumFunctionOnSet(f, T \cup R) = SumFunctionOnSet(f, T)}
<1>1. ASSUME NEW R \in SUBSET (S \ T), \A x \in R : R \ {x} \in Good
      PROVE  R \in Good
  <2>1. CASE R = {}
    BY <2>1
  <2>2. CASE R # {}
    <3>1. PICK x \in R : TRUE
      BY <2>2
    <3> DEFINE U == T \cup R
    <3>2. U \in SUBSET S /\ x \in U /\ U \ {x} = T \cup (R \ {x}) /\ f[x] = 0
      OBVIOUS
    <3>3. IsFiniteSet(U) /\ IsFiniteSet(U \ {x}) /\ Counts(f, U) /\ Counts(f, U \ {x})
      BY <3>2, FS_Subset DEF Counts
    <3>4. SumFunctionOnSet(f, U) = f[x] + SumFunctionOnSet(f, U \ {x})
      <4> HIDE DEF U
      <4> QED
        BY <3>2, <3>3, SumTake
    <3>5. SumFunctionOnSet(f, U \ {x}) \in Nat
      <4> HIDE DEF U
      <4> QED
        BY <3>3, SumNat
    <3>6. SumFunctionOnSet(f, U \ {x}) = SumFunctionOnSet(f, T)
      BY <1>1, <3>1, <3>2
    <3> QED
      <4>1. SumFunctionOnSet(f, U) = SumFunctionOnSet(f, T)
        <5> HIDE DEF U
        <5> QED
          BY <3>2, <3>4, <3>5, <3>6
      <4> QED
        BY <4>1
  <2> QED
    BY <2>1, <2>2
<1>2. IsFiniteSet(S \ T)
  BY FS_Subset
<1>3. S \ T \in Good
  <2> HIDE DEF Good
  <2> QED
    BY <1>1, <1>2, OneByOne
<1>4. T \cup (S \ T) = S
  OBVIOUS
<1> QED
  BY <1>3, <1>4

\* The sum of a function, when one of its values changes.
LEMMA SumChange ==
    ASSUME NEW f, NEW g, NEW S, IsFiniteSet(S), DOMAIN f = S, DOMAIN g = S,
           Counts(f, S), NEW z \in S, g[z] \in Nat,
           \A x \in S \ {z} : f[x] = g[x]
    PROVE  /\ SumFunction(f) \in Nat /\ SumFunction(g) \in Nat
           /\ SumFunction(g) - g[z] = SumFunction(f) - f[z]
           /\ f[z] <= SumFunction(f)
<1> DEFINE T == S \ {z}
<1>1. IsFiniteSet(T) /\ Counts(f, T) /\ Counts(g, S) /\ f[z] \in Nat
  BY FS_Subset DEF Counts
<1>2. SumFunctionOnSet(f, S) = f[z] + SumFunctionOnSet(f, T)
  BY SumTake
<1>3. SumFunctionOnSet(g, S) = g[z] + SumFunctionOnSet(g, T)
  BY <1>1, SumTake
<1>4. SumFunctionOnSet(f, T) = SumFunctionOnSet(g, T)
  <2>1. \A x \in T : f[x] = g[x]
    OBVIOUS
  <2> HIDE DEF T
  <2> QED
    BY <1>1, <2>1, SumSame
<1>5. SumFunctionOnSet(f, T) \in Nat
  <2> HIDE DEF T
  <2> QED
    BY <1>1, SumNat
<1> HIDE DEF T
<1> QED
  BY <1>1, <1>2, <1>3, <1>4, <1>5 DEF SumFunction

LEMMA SumZero ==
    ASSUME NEW f, IsFiniteSet(DOMAIN f), \A x \in DOMAIN f : f[x] = 0
    PROVE  SumFunction(f) = 0
<1>1. Counts(f, DOMAIN f) /\ {} \in SUBSET DOMAIN f
  BY DEF Counts
<1>2. SumFunctionOnSet(f, DOMAIN f) = SumFunctionOnSet(f, {})
  <2>1. \A x \in DOMAIN f \ {} : f[x] = 0
    OBVIOUS
  <2> QED
    BY <1>1, <2>1, SumPart
<1>3. SumFunctionOnSet(f, {}) = 0
  BY FS_EmptySet, SumUnfold
<1> QED
  BY <1>2, <1>3 DEF SumFunction

-----------------------------------------------------------------------------
(* The scheduler: the inductive invariant *)

\* The moments s names after a, up to b.
Moments(s, a, b) == {t \in (a + 1)..b : Names(s, t)}

\* Runs of all schedules on day d.
DayTotal(d) == SumFunction([s \in Schedule |-> runs[s][d]])
TodayTotal == SumFunction([s \in Schedule |-> runs[s][Today]])

\* Passes that have looked at the ceiling and not claimed yet, and those of
\* them that hold no lock any more.
Claims == {i \in Instance : pass[i].pc = "claim"}
Orphans == {i \in Claims : lock # i}

RowShape == [state : {"absent", "row", "deleted"}, enabled : BOOLEAN,
             due : Nat, runs : Nat, on : DaysSeen \cup {Never}]
PassShape == [pc : {"idle", "lock", "due", "ceiling", "claim", "run", "unlock"},
              todo : SUBSET Schedule, at : Schedule \cup {NoOne}]

PassesOK ==
    /\ pass \in [Instance -> PassShape]
    /\ \A i \in Instance : pass[i].pc \in {"claim", "run"} => pass[i].at \in Schedule

SchedulerTypeOK ==
    /\ now \in 0..Horizon
    /\ row \in [Schedule -> RowShape]
    /\ stopped \in BOOLEAN /\ spent \in BOOLEAN
    /\ lock \in Instance \cup {NoOne}
    /\ PassesOK
    /\ upsets \in Nat /\ drops \in Nat
    /\ runs \in [Schedule -> [DaysSeen -> Nat]]
    /\ born \in [Schedule -> Nat]

\* A row's count is that of the last day it ran, and no day after it has one.
RowsTell ==
    \A s \in Schedule :
        /\ row[s].on <= Today
        /\ row[s].on # Never => row[s].runs = runs[s][row[s].on]
        /\ \A d \in DaysSeen : d > row[s].on => runs[s][d] = 0
        /\ row[s].state # "row" => row[s].on = Never

\* Every run had a moment of its own, before the one the row waits for.
EachItsMoment ==
    \A s \in Schedule :
        /\ born[s] <= now
        /\ SumFunction(runs[s]) <= Cardinality(Moments(s, born[s], now))
        /\ Exists(s) =>
              /\ born[s] < row[s].due /\ Names(s, row[s].due)
              /\ SumFunction(runs[s])
                    <= Cardinality(Moments(s, born[s], row[s].due - 1))

CapKept ==
    \A s \in Schedule, d \in DaysSeen : runs[s][d] <= MaxPerDay[s]

\* A claim that is about to be made counts as made.  A pass without its lock
\* is a drop's doing; with it there is one.
CeilingKept ==
    /\ Cardinality(Orphans) <= drops
    /\ Claims # {} => Ceiling >= 1
    /\ TodayTotal + Cardinality(Claims) <= Ceiling + drops
    /\ \A d \in DaysSeen : DayTotal(d) <= Ceiling + drops

Counted == RowsTell /\ EachItsMoment /\ CapKept
SchedulerInv == SchedulerTypeOK /\ Counted /\ CeilingKept

-----------------------------------------------------------------------------
(* The scheduler: moments *)

LEMMA Bounds ==
    /\ PerDay \in Nat \ {0} /\ Week \in Nat \ {0} /\ Horizon \in Nat
    /\ Ceiling \in Nat /\ Limit \in Nat \ {0}
    /\ \A s \in Schedule : /\ Hour[s] \in Nat /\ Hour[s] < PerDay
                           /\ Days[s] \subseteq 0..(Week - 1)
                           /\ MaxPerDay[s] \in Nat /\ MaxPerDay[s] >= 1
    /\ IsFiniteSet(Schedule) /\ IsFiniteSet(Instance)
    /\ NoOne \notin Instance /\ NoOne \notin Schedule
BY ScheduleAssumption

LEMMA DayIs ==
    ASSUME NEW t \in Nat
    PROVE  /\ Day(t) \in Nat /\ t % PerDay \in 0..(PerDay - 1)
           /\ t = PerDay * Day(t) + (t % PerDay)
BY Bounds DEF Day

LEMMA DayUp ==
    ASSUME NEW t \in Nat, NEW u \in Nat, t <= u
    PROVE  Day(t) <= Day(u)
BY Bounds DEF Day

\* The moment at s's hour of a day.
LEMMA AtHour ==
    ASSUME NEW s \in Schedule, NEW d \in Nat
    PROVE  LET u == PerDay * d + Hour[s] IN
           u \in Nat /\ Day(u) = d /\ u % PerDay = Hour[s]
<1> DEFINE h == Hour[s]
<1>1. h \in Nat /\ h < PerDay /\ PerDay \in Nat \ {0}
  BY Bounds
<1> HIDE DEF h
<1>2. PerDay * d + h \in Nat /\ (PerDay * d + h) \div PerDay = d /\ (PerDay * d + h) % PerDay = h
  BY <1>1
<1> QED
  BY <1>2 DEF h, Day

\* In the Week days after any day there is one of each day of the week.
LEMMA DayOfWeek ==
    ASSUME NEW d \in Nat, NEW w \in 0..(Week - 1)
    PROVE  \E e \in (d + 1)..(d + Week) : e % Week = w
<1> DEFINE q == d \div Week
           r == d % Week
<1>1. Week \in Nat \ {0}
  BY Bounds
<1>2. q \in Nat /\ r \in 0..(Week - 1) /\ d = Week * q + r
  BY <1>1
<1> HIDE DEF q, r
<1>3. CASE w > r
  <2>1. (Week * q + w) % Week = w
    BY <1>1, <1>2
  <2>2. Week * q + w \in (d + 1)..(d + Week)
    BY <1>1, <1>2, <1>3
  <2> QED
    BY <2>1, <2>2
<1>4. CASE w <= r
  <2>1. (Week * (q + 1) + w) % Week = w
    BY <1>1, <1>2
  <2>2. Week * (q + 1) + w \in (d + 1)..(d + Week)
    <3>1. Week * (q + 1) = Week * q + Week
      BY <1>1, <1>2
    <3>2. Week * q \in Nat
      BY <1>1, <1>2
    <3> QED
      BY <1>1, <1>2, <1>4, <3>1, <3>2
  <2> QED
    BY <2>1, <2>2
<1> QED
  BY <1>1, <1>2, <1>3, <1>4

\* Naturals have a least one, the one Min finds.
LEMMA MinIs ==
    ASSUME NEW S \in SUBSET Nat, S # {}
    PROVE  /\ Min(S) \in S
           /\ \A x \in S : Min(S) <= x
<1>1. \E x \in S : \A y \in S : <<y, x>> \notin OpToRel(<, Nat)
  BY NatLessThanWellFounded, WFMin
<1>2. PICK x \in S : \A y \in S : <<y, x>> \notin OpToRel(<, Nat)
  BY <1>1
<1>3. ASSUME NEW y \in S PROVE x <= y
  <2>1. ~(y < x)
    BY <1>2 DEF OpToRel
  <2> QED
    BY <2>1
<1> QED
  BY <1>3 DEF Min

\* next_due gives the first moment after t that the schedule names, however
\* its hour and days are chosen, and never one further off than a week and a
\* day.
THEOREM NextDueIs ==
    ASSUME NEW s \in Schedule, NEW t \in Nat
    PROVE  /\ NextDue(s, t) \in Nat /\ NextDue(s, t) > t
           /\ NextDue(s, t) <= t + PerDay * (Week + 1)
           /\ Names(s, NextDue(s, t))
           /\ \A u \in Nat : u > t /\ Names(s, u) => NextDue(s, t) <= u
<1> DEFINE last == t + PerDay * (Week + 1)
           S == {u \in (t + 1)..last : Names(s, u)}
           d == Day(t)
<1>1. /\ PerDay \in Nat \ {0} /\ Week \in Nat \ {0}
      /\ Hour[s] \in Nat /\ Hour[s] < PerDay /\ Days[s] \subseteq 0..(Week - 1)
  BY Bounds
<1>2. d \in Nat /\ t \in Nat /\ t % PerDay \in 0..(PerDay - 1) /\ t = PerDay * d + (t % PerDay)
  BY DayIs
<1>3. last \in Nat
  BY <1>1
<1>4. ASSUME NEW e \in (d + 1)..(d + Week), Days[s] = {} \/ e % Week \in Days[s]
      PROVE  S # {}
  <2> DEFINE u == PerDay * e + Hour[s]
  <2>1. e \in Nat
    BY <1>2
  <2>2. u \in Nat /\ Day(u) = e /\ u % PerDay = Hour[s]
    BY <2>1, AtHour
  <2>3. Names(s, u)
    <3> HIDE DEF u
    <3> QED
      BY <2>2, <1>4 DEF Names
  <2>4. u > t /\ u <= last
    <3> HIDE DEF d
    <3>1. PICK k \in Nat : e = d + 1 + k /\ k <= Week - 1
      <4>1. e - d - 1 \in Nat /\ e = d + 1 + (e - d - 1) /\ e - d - 1 <= Week - 1
        BY <1>1, <1>2
      <4> QED
        BY <4>1
    <3>2. PerDay * e = PerDay * d + PerDay + PerDay * k
      BY <1>1, <1>2, <3>1
    <3>3. PerDay * k \in Nat /\ PerDay * d \in Nat /\ PerDay * k <= PerDay * (Week - 1)
      BY <1>1, <1>2, <3>1
    <3>4. PerDay * (Week + 1) = PerDay * (Week - 1) + PerDay + PerDay
      BY <1>1
    <3>5. PerDay * (Week - 1) \in Nat
      BY <1>1
    <3> QED
      BY <1>1, <1>2, <3>2, <3>3, <3>4, <3>5
  <2>5. u \in S
    <3> HIDE DEF u, last
    <3> QED
      BY <1>3, <2>2, <2>3, <2>4
  <2> QED
    BY <2>5
<1>5. S # {}
  <2> HIDE DEF S, d
  <2>1. CASE Days[s] = {}
    <3>1. d + 1 \in (d + 1)..(d + Week)
      BY <1>1, <1>2
    <3> QED
      BY <1>4, <2>1, <3>1
  <2>2. CASE Days[s] # {}
    <3>1. PICK w \in Days[s] : TRUE
      BY <2>2
    <3>2. PICK e \in (d + 1)..(d + Week) : e % Week = w
      BY <1>1, <1>2, <3>1, DayOfWeek
    <3> QED
      BY <1>4, <3>1, <3>2
  <2> QED
    BY <2>1, <2>2
<1>6. S \subseteq Nat
  <2> HIDE DEF last
  <2> QED
    BY <1>3
<1>7. Min(S) \in S /\ \A u \in S : Min(S) <= u
  <2> HIDE DEF S
  <2> QED
    BY <1>5, <1>6, MinIs
<1>8. NextDue(s, t) = Min(S)
  BY DEF NextDue
<1>9. /\ NextDue(s, t) \in Nat /\ NextDue(s, t) > t /\ NextDue(s, t) <= last
      /\ Names(s, NextDue(s, t))
  <2> HIDE DEF last
  <2> QED
    BY <1>3, <1>7, <1>8
<1>10. ASSUME NEW u \in Nat, u > t, Names(s, u)
       PROVE  NextDue(s, t) <= u
  <2> HIDE DEF last
  <2>1. CASE u <= last
    <3>1. u \in S
      BY <1>3, <1>10, <2>1
    <3> HIDE DEF S
    <3> QED
      BY <1>7, <1>8, <3>1
  <2>2. CASE u > last
    BY <1>3, <1>9, <2>2
  <2> QED
    BY <1>3, <2>1, <2>2
<1> QED
  BY <1>9, <1>10

LEMMA MomentsFinite ==
    ASSUME NEW s \in Schedule, NEW a \in Nat, NEW b \in Int
    PROVE  IsFiniteSet(Moments(s, a, b)) /\ Cardinality(Moments(s, a, b)) \in Nat
<1>1. IsFiniteSet((a + 1)..b)
  BY FS_Interval
<1>2. Moments(s, a, b) \subseteq (a + 1)..b
  BY DEF Moments
<1>3. IsFiniteSet(Moments(s, a, b))
  BY <1>1, <1>2, FS_Subset
<1> QED
  BY <1>3, FS_CardinalityType

\* Later, there are no fewer.
LEMMA MomentsUp ==
    ASSUME NEW s \in Schedule, NEW a \in Nat, NEW b \in Int, NEW c \in Int, b <= c
    PROVE  Cardinality(Moments(s, a, b)) <= Cardinality(Moments(s, a, c))
<1>1. Moments(s, a, b) \subseteq Moments(s, a, c)
  BY DEF Moments
<1>2. IsFiniteSet(Moments(s, a, c))
  BY MomentsFinite
<1> QED
  BY <1>1, <1>2, FS_Subset

\* A moment that is named counts for one.
LEMMA MomentsOneMore ==
    ASSUME NEW s \in Schedule, NEW a \in Nat, NEW b \in Nat, a < b, Names(s, b)
    PROVE  Cardinality(Moments(s, a, b)) = Cardinality(Moments(s, a, b - 1)) + 1
<1>1. b \notin Moments(s, a, b - 1)
  BY DEF Moments
<1>2. Moments(s, a, b) = Moments(s, a, b - 1) \cup {b}
  <2>1. ASSUME NEW x \in Moments(s, a, b) PROVE x \in Moments(s, a, b - 1) \cup {b}
    BY DEF Moments
  <2>2. ASSUME NEW x \in Moments(s, a, b - 1) \cup {b} PROVE x \in Moments(s, a, b)
    BY DEF Moments
  <2> QED
    BY <2>1, <2>2
<1>3. IsFiniteSet(Moments(s, a, b - 1))
  BY MomentsFinite
<1> QED
  BY <1>1, <1>2, <1>3, FS_AddElement

-----------------------------------------------------------------------------
(* The scheduler: what the steps do *)

LEMMA TodayIs ==
    ASSUME SchedulerTypeOK
    PROVE  /\ now \in Nat /\ Today \in Nat /\ Today \in DaysSeen
           /\ DaysSeen \subseteq Nat /\ Never \notin DaysSeen
<1>1. now \in Nat /\ Horizon \in Nat /\ now <= Horizon
  BY Bounds DEF SchedulerTypeOK
<1>2. Day(now) \in Nat /\ Day(Horizon) \in Nat /\ Day(now) <= Day(Horizon)
  BY <1>1, DayIs, DayUp
<1> QED
  BY <1>1, <1>2 DEF Today, DaysSeen, Never

LEMMA DaysFinite == IsFiniteSet(DaysSeen)
BY FS_Interval, Bounds, DayIs DEF DaysSeen

LEMMA RowIs ==
    ASSUME SchedulerTypeOK, NEW s \in Schedule
    PROVE  /\ row[s].state \in {"absent", "row", "deleted"} /\ row[s].enabled \in BOOLEAN
           /\ row[s].due \in Nat /\ row[s].runs \in Nat
           /\ row[s].on \in DaysSeen \cup {Never}
           /\ row[s] \in RowShape
           /\ born[s] \in Nat
           /\ DOMAIN runs[s] = DaysSeen
           /\ \A d \in DaysSeen : runs[s][d] \in Nat
BY DEF SchedulerTypeOK, RowShape

LEMMA OnType ==
    ASSUME SchedulerTypeOK, NEW s \in Schedule
    PROVE  row[s].on \in Int
<1>1. row[s].on \in DaysSeen \cup {Never}
  BY RowIs
<1>2. DaysSeen \subseteq Nat
  BY TodayIs
<1>3. CASE row[s].on = Never
  BY <1>3 DEF Never
<1>4. CASE row[s].on \in DaysSeen
  <2>1. row[s].on \in Nat
    BY <1>2, <1>4
  <2> QED
    BY <2>1
<1> QED
  BY <1>1, <1>3, <1>4

\* The scheduler: what a pass moves.
LEMMA Moved ==
    ASSUME SchedulerTypeOK, NEW i \in Instance, NEW pc, NEW todo, NEW at,
           Move(i, pc, todo, at),
           pc \in {"idle", "lock", "due", "ceiling", "claim", "run", "unlock"},
           todo \subseteq Schedule, at \in Schedule \cup {NoOne},
           pc \in {"claim", "run"} => at \in Schedule
    PROVE  /\ PassesOK'
           /\ pc # "claim" => Claims' = Claims \ {i}
           /\ pc = "claim" => Claims' = Claims \cup {i}
<1>1. pass \in [Instance -> PassShape]
  BY DEF SchedulerTypeOK, PassesOK
<1>2. [pc |-> pc, todo |-> todo, at |-> at] \in PassShape
  BY DEF PassShape
<1>3. pass' \in [Instance -> PassShape]
  BY <1>1, <1>2 DEF Move
<1>4. /\ pass'[i].pc = pc /\ pass'[i].at = at
      /\ \A j \in Instance \ {i} : pass'[j] = pass[j]
  BY <1>1 DEF Move
<1>5. PassesOK'
  BY <1>3, <1>4 DEF PassesOK, SchedulerTypeOK
<1>6. pc # "claim" => Claims' = Claims \ {i}
  BY <1>4 DEF Claims
<1>7. pc = "claim" => Claims' = Claims \cup {i}
  BY <1>4 DEF Claims
<1> QED
  BY <1>5, <1>6, <1>7

LEMMA PassIs ==
    ASSUME SchedulerTypeOK, NEW i \in Instance
    PROVE  /\ pass[i].todo \subseteq Schedule
           /\ pass[i].pc \in {"claim", "run"} => pass[i].at \in Schedule
BY DEF SchedulerTypeOK, PassesOK, PassShape

\* The steps of a pass that claim nothing, and of its connection.
QuietStep(i) ==
    \/ Begin(i) \/ TryLock(i) \/ ReadDue(i) \/ CeilingFails(i)
    \/ ClaimLost(i) \/ Ran(i) \/ Unlock(i) \/ Die(i)

\* They make no claim and leave no pass without its lock.
LEMMA QuietPass ==
    ASSUME SchedulerTypeOK, NEW i \in Instance, QuietStep(i)
    PROVE  /\ PassesOK' /\ lock' \in Instance \cup {NoOne} /\ upsets' \in Nat
           /\ Claims' \subseteq Claims /\ Orphans' \subseteq Orphans
           /\ UNCHANGED <<now, row, stopped, spent, runs, born, drops>>
<1> DEFINE Fine == /\ PassesOK' /\ lock' \in Instance \cup {NoOne} /\ upsets' \in Nat
                   /\ Claims' \subseteq Claims /\ Orphans' \subseteq Orphans
                   /\ UNCHANGED <<now, row, stopped, spent, runs, born, drops>>
<1>1. /\ lock \in Instance \cup {NoOne} /\ upsets \in Nat
      /\ pass[i].todo \subseteq Schedule
  BY PassIs DEF SchedulerTypeOK
<1>2. NoOne \in Schedule \cup {NoOne} /\ NoOne \notin Instance
  BY Bounds
<1>3. ASSUME NEW pc, NEW todo, Move(i, pc, todo, NoOne),
             pc \in {"idle", "lock", "due", "ceiling", "unlock"}, todo \subseteq Schedule
      PROVE  PassesOK' /\ Claims' = Claims \ {i}
  BY <1>2, <1>3, Moved
<1>4. ASSUME Claims' = Claims \ {i}, lock' = lock
      PROVE  Claims' \subseteq Claims /\ Orphans' \subseteq Orphans
  BY <1>4 DEF Orphans
<1>5. CASE Begin(i)
  BY <1>1, <1>3, <1>4, <1>5 DEF Begin
<1>6. CASE TryLock(i)
  <2>1. Claims' = Claims \ {i} /\ PassesOK'
    BY <1>3, <1>6 DEF TryLock
  <2>2. CASE lock = NoOne
    <3>1. Orphans' \subseteq Orphans
      BY <1>2, <2>1, <2>2 DEF Orphans, Claims
    <3> QED
      BY <1>1, <1>6, <2>1, <2>2, <3>1 DEF TryLock
  <2>3. CASE lock # NoOne
    BY <1>1, <1>4, <1>6, <2>1, <2>3 DEF TryLock
  <2> QED
    BY <2>2, <2>3
<1>7. CASE ReadDue(i)
  <2>1. PICK batch \in SUBSET {s \in Schedule : Due(s)} :
            IF spent THEN Move(i, "unlock", {}, NoOne)
            ELSE Move(i, "ceiling", batch, NoOne)
    BY <1>7 DEF ReadDue
  <2>2. PassesOK' /\ Claims' = Claims \ {i}
    BY <1>3, <2>1
  <2> QED
    BY <1>1, <1>4, <1>7, <2>2 DEF ReadDue
<1>8. CASE CeilingFails(i)
  BY <1>1, <1>3, <1>4, <1>8 DEF CeilingFails
<1>9. CASE ClaimLost(i)
  BY <1>1, <1>3, <1>4, <1>9 DEF ClaimLost
<1>10. CASE Ran(i)
  BY <1>1, <1>3, <1>4, <1>10 DEF Ran
<1>11. ASSUME Move(i, "idle", {}, NoOne), lock' = IF lock = i THEN NoOne ELSE lock
       PROVE  /\ PassesOK' /\ lock' \in Instance \cup {NoOne}
              /\ Claims' \subseteq Claims /\ Orphans' \subseteq Orphans
  <2>1. PassesOK' /\ Claims' = Claims \ {i}
    BY <1>3, <1>11
  <2>2. Orphans' \subseteq Orphans
    BY <1>2, <1>11, <2>1 DEF Orphans
  <2> QED
    BY <1>1, <1>11, <2>1, <2>2
<1>12. CASE Unlock(i)
  BY <1>1, <1>11, <1>12 DEF Unlock
<1>13. CASE Die(i)
  BY <1>1, <1>11, <1>13 DEF Die, Upset
<1> QED
  BY <1>5, <1>6, <1>7, <1>8, <1>9, <1>10, <1>12, <1>13 DEF QuietStep

\* What is counted depends on the rows, the runs and the time.
LEMMA CountedAside ==
    ASSUME Counted, UNCHANGED <<now, row, runs, born>>
    PROVE  Counted'
BY DEF Counted, RowsTell, EachItsMoment, CapKept, Today, Exists, Moments

LEMMA ClaimsFinite ==
    ASSUME SchedulerTypeOK
    PROVE  /\ IsFiniteSet(Claims) /\ Cardinality(Claims) \in Nat
           /\ IsFiniteSet(Orphans) /\ Cardinality(Orphans) \in Nat
           /\ Orphans \subseteq Claims
<1>1. Claims \subseteq Instance /\ Orphans \subseteq Claims
  BY DEF Claims, Orphans
<1>2. IsFiniteSet(Claims) /\ IsFiniteSet(Orphans)
  BY <1>1, Bounds, FS_Subset
<1> QED
  BY <1>1, <1>2, FS_CardinalityType

LEMMA TotalsType ==
    ASSUME SchedulerTypeOK
    PROVE  /\ \A d \in DaysSeen : DayTotal(d) \in Nat
           /\ TodayTotal \in Nat /\ TodayTotal = DayTotal(Today)
<1>1. ASSUME NEW d \in DaysSeen PROVE DayTotal(d) \in Nat
  <2> DEFINE f == [s \in Schedule |-> runs[s][d]]
  <2>1. Counts(f, Schedule)
    BY RowIs DEF Counts
  <2>2. SumFunctionOnSet(f, Schedule) \in Nat
    <3> HIDE DEF f
    <3> QED
      BY <2>1, Bounds, SumNat
  <2> QED
    BY <2>2 DEF DayTotal, SumFunction
<1>2. TodayTotal = DayTotal(Today)
  BY DEF TodayTotal, DayTotal
<1> QED
  BY <1>1, <1>2, TodayIs

LEMMA CeilingAside ==
    ASSUME SchedulerTypeOK, CeilingKept, Claims' \subseteq Claims,
           Orphans' \subseteq Orphans, UNCHANGED <<now, runs, drops>>
    PROVE  CeilingKept'
<1>1. /\ IsFiniteSet(Claims) /\ IsFiniteSet(Orphans)
      /\ Cardinality(Claims) \in Nat /\ Cardinality(Orphans) \in Nat
  BY ClaimsFinite
<1>2. /\ IsFiniteSet(Claims') /\ Cardinality(Claims') <= Cardinality(Claims)
      /\ IsFiniteSet(Orphans') /\ Cardinality(Orphans') <= Cardinality(Orphans)
  BY <1>1, FS_Subset
<1>3. Cardinality(Claims') \in Nat /\ Cardinality(Orphans') \in Nat
  BY <1>2, FS_CardinalityType
<1>4. TodayTotal' = TodayTotal /\ \A d \in DaysSeen : DayTotal(d)' = DayTotal(d)
  BY DEF TodayTotal, DayTotal, Today
<1>5. TodayTotal \in Nat /\ (\A d \in DaysSeen : DayTotal(d) \in Nat)
  BY TotalsType
<1>6. drops \in Nat /\ Ceiling \in Nat
  BY Bounds DEF SchedulerTypeOK
<1>7. Cardinality(Orphans') <= drops'
  BY <1>1, <1>2, <1>3, <1>6 DEF CeilingKept
<1>8. Claims' # {} => Ceiling >= 1
  BY DEF CeilingKept
<1>9. TodayTotal' + Cardinality(Claims') <= Ceiling + drops'
  BY <1>1, <1>2, <1>3, <1>4, <1>5, <1>6 DEF CeilingKept
<1> QED
  BY <1>4, <1>7, <1>8, <1>9 DEF CeilingKept

\* What _at_daily_ceiling adds up is what ran today, deleted rows apart.
LEMMA CeilingSeen ==
    ASSUME SchedulerTypeOK, RowsTell
    PROVE  AtCeiling <=> TodayTotal >= Ceiling
<1> DEFINE today == {s \in Schedule : row[s].on = Today}
           f == [s \in today |-> row[s].runs]
           g == [s \in Schedule |-> runs[s][Today]]
<1>1. Today \in Nat /\ Today \in DaysSeen /\ DaysSeen \subseteq Nat /\ Never \notin DaysSeen
  BY TodayIs
<1>2. Counts(f, today) /\ Counts(g, Schedule)
  BY <1>1, RowIs DEF Counts
<1>3. \A s \in today : f[s] = g[s]
  BY <1>1 DEF RowsTell
<1>4. ASSUME NEW s \in Schedule \ today PROVE g[s] = 0
  <2>1. row[s].on <= Today /\ row[s].on # Today /\ row[s].on \in DaysSeen \cup {Never}
    BY RowIs DEF RowsTell
  <2>2. row[s].on \in Int
    BY OnType
  <2>3. Today > row[s].on
    BY <1>1, <2>1, <2>2
  <2> QED
    BY <1>1, <2>3 DEF RowsTell
<1>5. today \in SUBSET Schedule /\ IsFiniteSet(Schedule) /\ IsFiniteSet(today)
  BY Bounds, FS_Subset
<1>6. SumFunction(f) = SumFunctionOnSet(f, today) /\ TodayTotal = SumFunctionOnSet(g, Schedule)
  BY DEF SumFunction, TodayTotal
<1>7. AtCeiling <=> SumFunction(f) >= Ceiling
  BY DEF AtCeiling
<1> HIDE DEF today, f, g
<1>8. SumFunctionOnSet(f, today) = SumFunctionOnSet(g, today)
  BY <1>2, <1>3, <1>5, SumSame
<1>9. SumFunctionOnSet(g, Schedule) = SumFunctionOnSet(g, today)
  BY <1>2, <1>4, <1>5, SumPart
<1> QED
  BY <1>6, <1>7, <1>8, <1>9

\* A new row waits for the first moment after it was made.
LEMMA CreateStep ==
    ASSUME SchedulerInv, NEW s \in Schedule, Create(s)
    PROVE  SchedulerInv'
<1> USE DEF SchedulerInv, Counted
<1>1. /\ now \in Nat /\ Today \in Nat /\ Never \notin DaysSeen /\ DaysSeen \subseteq Nat
      /\ Today' = Today
  BY TodayIs DEF Create, Today
<1> DEFINE due == NextDue(s, now)
<1>2. due \in Nat /\ due > now /\ Names(s, due)
  BY <1>1, NextDueIs
<1> HIDE DEF due
<1>3. /\ \E new \in RowShape :
            /\ row' = [row EXCEPT ![s] = new] /\ new.state = "row"
            /\ new.due = due /\ new.runs = 0 /\ new.on = Never
      /\ born' = [born EXCEPT ![s] = now] /\ row[s].state = "absent"
      /\ UNCHANGED <<now, stopped, spent, lock, pass, upsets, runs, drops>>
  <2> DEFINE new == [Absent EXCEPT !.state = "row", !.enabled = TRUE, !.due = due]
  <2>1. new \in RowShape /\ new.state = "row" /\ new.due = due /\ new.runs = 0 /\ new.on = Never
    BY <1>2 DEF Absent, RowShape
  <2>2. due = NextDue(s, now)
    BY DEF due
  <2>3. /\ row' = [row EXCEPT ![s] = new]
        /\ born' = [born EXCEPT ![s] = now] /\ row[s].state = "absent"
        /\ UNCHANGED <<now, stopped, spent, lock, pass, upsets, runs, drops>>
    BY <2>2 DEF Create
  <2> HIDE DEF new
  <2> QED
    BY <2>1, <2>3
<1>4. SchedulerTypeOK'
  BY <1>1, <1>2, <1>3 DEF SchedulerTypeOK, PassesOK, RowShape
<1>5. /\ \A z \in Schedule \ {s} : row'[z] = row[z] /\ born'[z] = born[z]
      /\ row'[s].state = "row" /\ row'[s].due = due
      /\ row'[s].runs = 0 /\ row'[s].on = Never
      /\ born'[s] = now
  BY <1>3 DEF SchedulerTypeOK
<1>6. row[s].on = Never /\ \A d \in DaysSeen : runs[s][d] = 0
  BY <1>1, <1>3 DEF RowsTell, Never
<1>7. RowsTell'
  <2>1. ASSUME NEW z \in Schedule
        PROVE  /\ row'[z].on <= Today /\ (row'[z].state # "row" => row'[z].on = Never)
               /\ row'[z].on # Never => row'[z].runs = runs[z][row'[z].on]
               /\ \A d \in DaysSeen : d > row'[z].on => runs[z][d] = 0
    <3>1. CASE z = s
      BY <1>1, <1>5, <1>6, <3>1 DEF Never
    <3>2. CASE z # s
      BY <1>5, <3>2 DEF RowsTell
    <3> QED
      BY <3>1, <3>2
  <2> QED
    BY <1>1, <1>3, <2>1 DEF RowsTell
<1>8. SumFunction(runs[s]) = 0
  BY <1>6, DaysFinite, SumZero, RowIs
<1>9. /\ Cardinality(Moments(s, now, now)) \in Nat
      /\ Cardinality(Moments(s, now, due - 1)) \in Nat
  BY <1>1, <1>2, MomentsFinite
<1>10. EachItsMoment'
  <2>1. ASSUME NEW z \in Schedule, z # s
        PROVE  /\ born'[z] <= now
               /\ SumFunction(runs[z]) <= Cardinality(Moments(z, born'[z], now))
               /\ row'[z].state = "row" =>
                     /\ born'[z] < row'[z].due /\ Names(z, row'[z].due)
                     /\ SumFunction(runs[z])
                           <= Cardinality(Moments(z, born'[z], row'[z].due - 1))
    BY <1>5, <2>1 DEF EachItsMoment, Exists
  <2>2. /\ born'[s] <= now
        /\ SumFunction(runs[s]) <= Cardinality(Moments(s, born'[s], now))
        /\ born'[s] < row'[s].due /\ Names(s, row'[s].due)
        /\ SumFunction(runs[s]) <= Cardinality(Moments(s, born'[s], row'[s].due - 1))
    BY <1>1, <1>2, <1>5, <1>8, <1>9
  <2> QED
    BY <1>3, <2>1, <2>2 DEF EachItsMoment, Exists
<1>11. CapKept'
  BY <1>3 DEF CapKept
<1>12. CeilingKept'
  <2>1. Claims' = Claims /\ Orphans' = Orphans
    BY <1>3 DEF Claims, Orphans
  <2> QED
    BY <1>3, <2>1, CeilingAside
<1> QED
  BY <1>4, <1>7, <1>10, <1>11, <1>12

\* Enabling and disabling touch nothing that is counted.
LEMMA SetEnabledStep ==
    ASSUME SchedulerInv, NEW s \in Schedule, SetEnabled(s)
    PROVE  SchedulerInv'
<1> USE DEF SchedulerInv, Counted
<1>1. /\ row' = [row EXCEPT ![s].enabled = ~row[s].enabled]
      /\ UNCHANGED <<now, stopped, spent, lock, pass, runs, born, drops>>
      /\ upsets' = upsets + 1
  BY DEF SetEnabled, Upset
<1>2. SchedulerTypeOK'
  <2>1. [row[s] EXCEPT !.enabled = ~row[s].enabled] \in RowShape
    BY RowIs DEF RowShape
  <2>2. row' \in [Schedule -> RowShape]
    BY <1>1, <2>1 DEF SchedulerTypeOK
  <2>3. upsets' \in Nat
    BY <1>1 DEF SchedulerTypeOK
  <2> QED
    BY <1>1, <2>2, <2>3 DEF SchedulerTypeOK, PassesOK
<1>3. \A z \in Schedule : /\ row'[z].state = row[z].state /\ row'[z].due = row[z].due
                          /\ row'[z].runs = row[z].runs /\ row'[z].on = row[z].on
  BY <1>1 DEF SchedulerTypeOK, RowShape
<1>4. Today' = Today
  BY <1>1 DEF Today
<1>5. RowsTell'
  BY <1>1, <1>3, <1>4 DEF RowsTell
<1>6. EachItsMoment'
  BY <1>1, <1>3 DEF EachItsMoment, Exists
<1>7. CapKept'
  BY <1>1 DEF CapKept
<1>8. CeilingKept'
  <2>1. Claims' = Claims /\ Orphans' = Orphans
    BY <1>1 DEF Claims, Orphans
  <2> QED
    BY <1>1, <2>1, CeilingAside
<1> QED
  BY <1>2, <1>5, <1>6, <1>7, <1>8

\* A deleted row takes its runs with it: sums only go down.
LEMMA DeleteStep ==
    ASSUME SchedulerInv, NEW s \in Schedule, Delete(s)
    PROVE  SchedulerInv'
<1> USE DEF SchedulerInv, Counted
<1>1. /\ \E gone \in RowShape : /\ row' = [row EXCEPT ![s] = gone]
                                 /\ gone.state = "deleted" /\ gone.on = Never
      /\ runs' = [runs EXCEPT ![s] = [d \in DaysSeen |-> 0]]
      /\ UNCHANGED <<now, stopped, spent, lock, pass, born, drops>>
      /\ upsets' = upsets + 1
  <2> DEFINE gone == [Absent EXCEPT !.state = "deleted"]
  <2>1. gone \in RowShape /\ gone.state = "deleted" /\ gone.on = Never
    BY DEF Absent, RowShape
  <2>2. row' = [row EXCEPT ![s] = gone]
    BY DEF Delete
  <2> HIDE DEF gone
  <2> QED
    BY <2>1, <2>2 DEF Delete, Upset
<1>2. SchedulerTypeOK'
  BY <1>1 DEF SchedulerTypeOK, PassesOK, RowShape
<1>3. /\ \A z \in Schedule \ {s} : row'[z] = row[z] /\ runs'[z] = runs[z]
      /\ row'[s].state = "deleted" /\ row'[s].on = Never
      /\ runs'[s] = [d \in DaysSeen |-> 0]
  BY <1>1 DEF SchedulerTypeOK
<1>4. Today' = Today /\ Today \in Nat /\ Never \notin DaysSeen /\ now \in Nat
  BY <1>1, TodayIs DEF Today
<1>5. RowsTell'
  BY <1>1, <1>3, <1>4 DEF RowsTell, Never
<1>6. SumFunction(runs'[s]) = 0
  BY <1>3, DaysFinite, SumZero
<1>7. EachItsMoment'
  <2>1. born[s] <= now /\ Cardinality(Moments(s, born[s], now)) \in Nat
    <3>1. born[s] \in Nat /\ now \in Int
      BY <1>4, RowIs
    <3>2. Cardinality(Moments(s, born[s], now)) \in Nat
      BY <3>1, MomentsFinite
    <3> QED
      BY <3>2 DEF EachItsMoment
  <2>2. ASSUME NEW z \in Schedule
        PROVE  /\ born[z] <= now
               /\ SumFunction(runs'[z]) <= Cardinality(Moments(z, born[z], now))
               /\ row'[z].state = "row" =>
                     /\ born[z] < row'[z].due /\ Names(z, row'[z].due)
                     /\ SumFunction(runs'[z])
                           <= Cardinality(Moments(z, born[z], row'[z].due - 1))
    <3>1. CASE z = s
      BY <1>3, <1>6, <2>1, <3>1
    <3>2. CASE z # s
      BY <1>3, <3>2 DEF EachItsMoment, Exists
    <3> QED
      BY <3>1, <3>2
  <2> QED
    BY <1>1, <2>2 DEF EachItsMoment, Exists
<1>8. ASSUME NEW z \in Schedule, NEW d \in DaysSeen
      PROVE  runs'[z][d] \in Nat /\ runs'[z][d] <= runs[z][d]
  BY <1>3, RowIs
<1>9. CapKept'
  <2>1. \A z \in Schedule, d \in DaysSeen : runs[z][d] \in Nat /\ MaxPerDay[z] \in Nat
    BY RowIs, Bounds
  <2>2. ASSUME NEW z \in Schedule, NEW d \in DaysSeen PROVE runs'[z][d] <= MaxPerDay[z]
    BY <1>8, <2>1 DEF CapKept
  <2> QED
    BY <2>2 DEF CapKept
<1>10. ASSUME NEW d \in DaysSeen PROVE DayTotal(d)' <= DayTotal(d) /\ DayTotal(d)' \in Nat
  <2> DEFINE f == [z \in Schedule |-> runs'[z][d]]
             g == [z \in Schedule |-> runs[z][d]]
  <2>1. Counts(f, Schedule) /\ Counts(g, Schedule) /\ \A z \in Schedule : f[z] <= g[z]
    BY <1>8, RowIs DEF Counts
  <2>2. DayTotal(d)' = SumFunctionOnSet(f, Schedule) /\ DayTotal(d) = SumFunctionOnSet(g, Schedule)
    BY DEF DayTotal, SumFunction
  <2> HIDE DEF f, g
  <2>3. SumFunctionOnSet(f, Schedule) <= SumFunctionOnSet(g, Schedule)
    BY <2>1, Bounds, SumBelow
  <2>4. SumFunctionOnSet(f, Schedule) \in Nat
    BY <2>1, Bounds, SumNat
  <2> QED
    BY <2>2, <2>3, <2>4
<1>11. CeilingKept'
  <2>1. Claims' = Claims /\ Orphans' = Orphans
    BY <1>1 DEF Claims, Orphans
  <2>2. TodayTotal' <= TodayTotal /\ TodayTotal' \in Nat
    <3>1. PICK today \in DaysSeen : today = Today
      BY TodayIs
    <3>2. TodayTotal = DayTotal(today) /\ TodayTotal' = DayTotal(today)'
      BY <1>4, <3>1 DEF TodayTotal, DayTotal
    <3> QED
      BY <1>10, <3>2
  <2>3. /\ Cardinality(Claims) \in Nat /\ drops \in Nat /\ Ceiling \in Nat
        /\ TodayTotal \in Nat /\ \A d \in DaysSeen : DayTotal(d) \in Nat
    BY ClaimsFinite, TotalsType, Bounds DEF SchedulerTypeOK
  <2>4. TodayTotal' + Cardinality(Claims) <= Ceiling + drops
    BY <2>2, <2>3 DEF CeilingKept
  <2>5. ASSUME NEW d \in DaysSeen PROVE DayTotal(d)' <= Ceiling + drops
    BY <1>10, <2>3 DEF CeilingKept
  <2> QED
    BY <1>1, <2>1, <2>4, <2>5 DEF CeilingKept
<1> QED
  BY <1>2, <1>5, <1>7, <1>9, <1>11

\* A pass that claims nothing counts nothing.
LEMMA QuietKept ==
    ASSUME SchedulerInv, NEW i \in Instance, QuietStep(i)
    PROVE  SchedulerInv'
<1> USE DEF SchedulerInv
<1>1. /\ PassesOK' /\ lock' \in Instance \cup {NoOne} /\ upsets' \in Nat
      /\ Claims' \subseteq Claims /\ Orphans' \subseteq Orphans
      /\ UNCHANGED <<now, row, stopped, spent, runs, born, drops>>
  BY QuietPass
<1>2. SchedulerTypeOK'
  BY <1>1 DEF SchedulerTypeOK
<1>3. Counted'
  BY <1>1, CountedAside
<1>4. CeilingKept'
  BY <1>1, CeilingAside
<1> QED
  BY <1>2, <1>3, <1>4

\* With the lock, one claim beside those that lost theirs.
LEMMA CheckCeilingStep ==
    ASSUME SchedulerInv, NEW i \in Instance, CheckCeiling(i)
    PROVE  SchedulerInv'
<1> USE DEF SchedulerInv
<1>1. /\ lock = i /\ pass[i].todo \subseteq Schedule
      /\ UNCHANGED <<now, row, stopped, spent, lock, upsets, runs, born, drops>>
  BY PassIs DEF CheckCeiling
<1>2. PICK s \in pass[i].todo :
          IF AtCeiling THEN Move(i, "ceiling", pass[i].todo \ {s}, NoOne)
          ELSE Move(i, "claim", pass[i].todo \ {s}, s)
  BY DEF CheckCeiling
<1>3. pass[i].todo \ {s} \subseteq Schedule /\ s \in Schedule
  BY <1>1, <1>2
<1>4. Counted'
  BY <1>1, CountedAside
<1>5. CASE AtCeiling
  <2>1. PassesOK' /\ Claims' = Claims \ {i}
    BY <1>2, <1>3, <1>5, Moved
  <2>2. Orphans' \subseteq Orphans
    BY <1>1, <2>1 DEF Orphans
  <2>3. CeilingKept'
    BY <1>1, <2>1, <2>2, CeilingAside
  <2> QED
    BY <1>1, <1>4, <2>1, <2>3 DEF SchedulerTypeOK
<1>6. CASE ~AtCeiling
  <2>1. PassesOK' /\ Claims' = Claims \cup {i}
    BY <1>2, <1>3, <1>6, Moved
  <2>2. Orphans' = Orphans /\ Claims' = Orphans \cup {i} /\ i \notin Orphans
    BY <1>1, <2>1 DEF Orphans
  <2>3. /\ IsFiniteSet(Orphans) /\ Cardinality(Orphans) \in Nat
        /\ TodayTotal \in Nat /\ (\A d \in DaysSeen : DayTotal(d) \in Nat)
        /\ drops \in Nat /\ Ceiling \in Nat
    BY ClaimsFinite, TotalsType, Bounds DEF SchedulerTypeOK
  <2>4. Cardinality(Claims') = Cardinality(Orphans) + 1
    BY <2>2, <2>3, FS_AddElement
  <2>5. TodayTotal < Ceiling
    BY <1>6, <2>3, CeilingSeen DEF Counted
  <2>6. TodayTotal' = TodayTotal /\ \A d \in DaysSeen : DayTotal(d)' = DayTotal(d)
    BY <1>1 DEF TodayTotal, DayTotal, Today
  <2>7. /\ Cardinality(Orphans') <= drops' /\ Ceiling >= 1
        /\ TodayTotal' + Cardinality(Claims') <= Ceiling + drops'
    BY <1>1, <2>2, <2>3, <2>4, <2>5, <2>6 DEF CeilingKept
  <2>8. CeilingKept'
    BY <1>1, <2>6, <2>7 DEF CeilingKept
  <2> QED
    BY <1>1, <1>4, <2>1, <2>8 DEF SchedulerTypeOK
<1> QED
  BY <1>5, <1>6

\* A lost lock is one more drop.
LEMMA DropStep ==
    ASSUME SchedulerInv, NEW i \in Instance, Drop(i)
    PROVE  SchedulerInv'
<1> USE DEF SchedulerInv
<1>1. /\ lock = i /\ lock' = NoOne /\ drops' = drops + 1 /\ upsets' = upsets + 1
      /\ UNCHANGED <<now, row, stopped, spent, pass, runs, born>>
  BY DEF Drop, Upset
<1>2. SchedulerTypeOK'
  BY <1>1 DEF SchedulerTypeOK, PassesOK
<1>3. Counted'
  BY <1>1, CountedAside
<1>4. Claims' = Claims /\ Orphans' \subseteq Orphans \cup {i} /\ i \notin Orphans
  BY <1>1 DEF Claims, Orphans
<1>5. /\ IsFiniteSet(Orphans) /\ Cardinality(Orphans) \in Nat /\ Cardinality(Claims) \in Nat
      /\ TodayTotal \in Nat /\ (\A d \in DaysSeen : DayTotal(d) \in Nat)
      /\ drops \in Nat /\ Ceiling \in Nat
  BY ClaimsFinite, TotalsType, Bounds DEF SchedulerTypeOK
<1>6. IsFiniteSet(Orphans \cup {i}) /\ Cardinality(Orphans \cup {i}) = Cardinality(Orphans) + 1
  BY <1>4, <1>5, FS_AddElement
<1>7. IsFiniteSet(Orphans') /\ Cardinality(Orphans') <= Cardinality(Orphans) + 1
  BY <1>4, <1>6, FS_Subset
<1>8. Cardinality(Orphans') \in Nat
  BY <1>7, FS_CardinalityType
<1>9. TodayTotal' = TodayTotal /\ \A d \in DaysSeen : DayTotal(d)' = DayTotal(d)
  BY <1>1 DEF TodayTotal, DayTotal, Today
<1>10. Cardinality(Orphans') <= drops'
  BY <1>1, <1>5, <1>7, <1>8 DEF CeilingKept
<1>11. TodayTotal' + Cardinality(Claims') <= Ceiling + drops'
  BY <1>1, <1>4, <1>5, <1>9 DEF CeilingKept
<1>12. ASSUME NEW d \in DaysSeen PROVE DayTotal(d)' <= Ceiling + drops'
  BY <1>1, <1>5, <1>9 DEF CeilingKept
<1>13. CeilingKept'
  BY <1>4, <1>10, <1>11, <1>12 DEF CeilingKept
<1> QED
  BY <1>2, <1>3, <1>13

\* _claim: the run takes the moment the row waited for, whoever makes it and
\* however late, and the row waits for one that is still to come.
LEMMA ClaimStep ==
    ASSUME SchedulerInv, NEW i \in Instance, Claim(i)
    PROVE  SchedulerInv'
<1> USE DEF SchedulerInv, Counted
<1> DEFINE s == pass[i].at
           due == NextDue(s, now)
           old == row[s].due
<1>1. s \in Schedule /\ pass[i].pc = "claim" /\ pass[i].todo \subseteq Schedule
  BY PassIs DEF Claim
<1>2. /\ Exists(s) /\ old <= now
      /\ row[s].on # Today \/ row[s].runs < MaxPerDay[s]
  BY DEF Claim, MayClaim, Due
<1>3. /\ row' = [row EXCEPT ![s].runs = IF row[s].on = Today THEN @ + 1 ELSE 1,
                            ![s].on = Today, ![s].due = due]
      /\ runs' = [runs EXCEPT ![s][Today] = @ + 1]
      /\ Move(i, "run", pass[i].todo, s)
      /\ UNCHANGED <<now, stopped, spent, lock, upsets, born, drops>>
  BY DEF Claim
<1>4. /\ now \in Nat /\ Today \in Nat /\ Today \in DaysSeen
      /\ DaysSeen \subseteq Nat /\ Never \notin DaysSeen
  BY TodayIs
<1>5. due \in Nat /\ due > now /\ Names(s, due)
  BY <1>1, <1>4, NextDueIs
<1> HIDE DEF s, due, old
<1>6. /\ row[s].due = old /\ old \in Nat /\ row[s].state = "row"
      /\ row[s].runs \in Nat /\ row[s] \in RowShape /\ born[s] \in Nat
      /\ row[s].on \in Int
      /\ DOMAIN runs[s] = DaysSeen /\ \A d \in DaysSeen : runs[s][d] \in Nat
  BY <1>1, <1>2, RowIs, OnType DEF Exists, old
<1>7. /\ MaxPerDay[s] \in Nat /\ MaxPerDay[s] >= 1
  BY <1>1, Bounds
<1>8. Today' = Today
  BY <1>3 DEF Today
<1> DEFINE count == IF row[s].on = Today THEN row[s].runs + 1 ELSE 1
<1>9. /\ \A z \in Schedule \ {s} : row'[z] = row[z] /\ runs'[z] = runs[z]
      /\ row'[s].state = "row" /\ row'[s].runs = count
      /\ row'[s].on = Today /\ row'[s].due = due
      /\ runs'[s] = [runs[s] EXCEPT ![Today] = @ + 1]
      /\ row' \in [Schedule -> RowShape]
      /\ runs' \in [Schedule -> [DaysSeen -> Nat]]
  <2>1. count \in Nat
    BY <1>6
  <2>2. row' \in [Schedule -> RowShape]
    <3>1. [row[s] EXCEPT !.runs = count, !.on = Today, !.due = due] \in RowShape
      <4> HIDE DEF count
      <4> QED
        BY <1>4, <1>5, <1>6, <2>1 DEF RowShape
    <3>2. row' = [row EXCEPT ![s] = [row[s] EXCEPT !.runs = count, !.on = Today, !.due = due]]
      BY <1>1, <1>3 DEF SchedulerTypeOK
    <3> HIDE DEF count
    <3> QED
      BY <1>1, <3>1, <3>2 DEF SchedulerTypeOK
  <2>3. runs' \in [Schedule -> [DaysSeen -> Nat]]
    BY <1>1, <1>3, <1>4 DEF SchedulerTypeOK
  <2>4. /\ row'[s].state = "row" /\ row'[s].runs = count
        /\ row'[s].on = Today /\ row'[s].due = due
    BY <1>1, <1>3, <1>6 DEF SchedulerTypeOK, RowShape
  <2>5. runs'[s] = [runs[s] EXCEPT ![Today] = @ + 1]
    BY <1>1, <1>3 DEF SchedulerTypeOK
  <2>6. \A z \in Schedule \ {s} : row'[z] = row[z] /\ runs'[z] = runs[z]
    BY <1>3 DEF SchedulerTypeOK
  <2> QED
    BY <2>2, <2>3, <2>4, <2>5, <2>6
<1>10. PassesOK' /\ Claims' = Claims \ {i}
  BY <1>1, <1>3, Moved
<1>11. SchedulerTypeOK'
  BY <1>3, <1>9, <1>10 DEF SchedulerTypeOK
<1>12. /\ runs'[s][Today] = runs[s][Today] + 1
       /\ \A d \in DaysSeen \ {Today} : runs'[s][d] = runs[s][d]
       /\ DOMAIN runs'[s] = DaysSeen
  BY <1>4, <1>6, <1>9
<1>13. /\ row[s].on = Today => row[s].runs = runs[s][Today]
       /\ row[s].on # Today => runs[s][Today] = 0
       /\ row[s].on <= Today
       /\ \A d \in DaysSeen : d > Today => runs[s][d] = 0
  <2>1. row[s].on <= Today
    BY <1>1 DEF RowsTell
  <2>2. row[s].on = Today => row[s].runs = runs[s][Today]
    BY <1>1, <1>4 DEF RowsTell
  <2>3. ASSUME row[s].on # Today PROVE runs[s][Today] = 0
    <3>1. Today > row[s].on
      BY <1>4, <1>6, <2>1, <2>3
    <3> QED
      BY <1>1, <1>4, <3>1 DEF RowsTell
  <2>4. ASSUME NEW d \in DaysSeen, d > Today PROVE runs[s][d] = 0
    <3>1. d \in Nat
      BY <1>4
    <3>2. d > row[s].on
      BY <1>4, <1>6, <2>1, <2>4, <3>1
    <3> QED
      BY <1>1, <3>2 DEF RowsTell
  <2> QED
    BY <2>1, <2>2, <2>3, <2>4
<1>14. count = runs'[s][Today]
  BY <1>12, <1>13
<1> HIDE DEF count
<1>15. RowsTell'
  <2>1. ASSUME NEW z \in Schedule
        PROVE  /\ row'[z].on <= Today /\ (row'[z].state # "row" => row'[z].on = Never)
               /\ row'[z].on # Never => row'[z].runs = runs'[z][row'[z].on]
               /\ \A d \in DaysSeen : d > row'[z].on => runs'[z][d] = 0
    <3>1. CASE z = s
      <4>1. ASSUME NEW d \in DaysSeen, d > Today PROVE runs'[s][d] = 0
        <5>1. d \in Nat /\ d # Today
          BY <1>4, <4>1
        <5> QED
          BY <1>12, <1>13, <4>1, <5>1
      <4> QED
        BY <1>4, <1>9, <1>14, <3>1, <4>1
    <3>2. CASE z # s
      BY <1>9, <3>2 DEF RowsTell
    <3> QED
      BY <3>1, <3>2
  <2> QED
    BY <1>8, <2>1 DEF RowsTell
<1>16. /\ SumFunction(runs[s]) \in Nat
       /\ SumFunction(runs'[s]) = SumFunction(runs[s]) + 1
  <2>1. Counts(runs[s], DaysSeen) /\ runs'[s][Today] \in Nat
    BY <1>4, <1>6, <1>12 DEF Counts
  <2>2. /\ SumFunction(runs[s]) \in Nat /\ SumFunction(runs'[s]) \in Nat
        /\ SumFunction(runs'[s]) - runs'[s][Today] = SumFunction(runs[s]) - runs[s][Today]
    BY <1>4, <1>6, <1>12, <2>1, DaysFinite, SumChange
  <2>3. runs[s][Today] \in Nat
    BY <1>4, <1>6
  <2> QED
    BY <1>12, <2>2, <2>3
<1>17. EachItsMoment'
  <2>1. /\ born[s] <= now /\ born[s] < old /\ Names(s, old)
        /\ SumFunction(runs[s]) <= Cardinality(Moments(s, born[s], old - 1))
    BY <1>1, <1>2, <1>6 DEF EachItsMoment
  <2>2. Cardinality(Moments(s, born[s], old)) = Cardinality(Moments(s, born[s], old - 1)) + 1
    BY <1>1, <1>6, <2>1, MomentsOneMore
  <2>3. Cardinality(Moments(s, born[s], old)) <= Cardinality(Moments(s, born[s], now))
    BY <1>1, <1>2, <1>4, <1>6, MomentsUp
  <2>4. Cardinality(Moments(s, born[s], now)) <= Cardinality(Moments(s, born[s], due - 1))
    <3>1. due - 1 \in Int /\ now \in Int /\ now <= due - 1
      BY <1>4, <1>5
    <3> QED
      BY <1>1, <1>6, <3>1, MomentsUp
  <2>5. /\ Cardinality(Moments(s, born[s], old - 1)) \in Nat
        /\ Cardinality(Moments(s, born[s], old)) \in Nat
        /\ Cardinality(Moments(s, born[s], now)) \in Nat
        /\ Cardinality(Moments(s, born[s], due - 1)) \in Nat
    <3>1. old - 1 \in Int /\ old \in Int /\ now \in Int /\ due - 1 \in Int
      BY <1>4, <1>5, <1>6
    <3> QED
      BY <1>1, <1>6, <3>1, MomentsFinite
  <2>6. /\ SumFunction(runs'[s]) <= Cardinality(Moments(s, born[s], now))
        /\ SumFunction(runs'[s]) <= Cardinality(Moments(s, born[s], due - 1))
    BY <1>16, <2>1, <2>2, <2>3, <2>4, <2>5
  <2>7. born[s] < due
    BY <1>4, <1>5, <1>6, <2>1
  <2>8. ASSUME NEW z \in Schedule
        PROVE  /\ born[z] <= now
               /\ SumFunction(runs'[z]) <= Cardinality(Moments(z, born[z], now))
               /\ row'[z].state = "row" =>
                     /\ born[z] < row'[z].due /\ Names(z, row'[z].due)
                     /\ SumFunction(runs'[z])
                           <= Cardinality(Moments(z, born[z], row'[z].due - 1))
    <3>1. CASE z = s
      BY <1>5, <1>9, <2>1, <2>6, <2>7, <3>1
    <3>2. CASE z # s
      BY <1>9, <3>2 DEF EachItsMoment, Exists
    <3> QED
      BY <3>1, <3>2
  <2> QED
    BY <1>3, <2>8 DEF EachItsMoment, Exists
<1>18. CapKept'
  <2>1. runs'[s][Today] <= MaxPerDay[s]
    BY <1>2, <1>4, <1>6, <1>7, <1>12, <1>13
  <2>2. ASSUME NEW z \in Schedule, NEW d \in DaysSeen PROVE runs'[z][d] <= MaxPerDay[z]
    <3>1. CASE z = s /\ d = Today
      BY <2>1, <3>1
    <3>2. CASE z = s /\ d # Today
      BY <1>12, <3>2 DEF CapKept
    <3>3. CASE z # s
      BY <1>9, <3>3 DEF CapKept
    <3> QED
      BY <3>1, <3>2, <3>3
  <2> QED
    BY <2>2 DEF CapKept
<1>19. CeilingKept'
  <2> DEFINE f == [z \in Schedule |-> runs[z][Today]]
             g == [z \in Schedule |-> runs'[z][Today]]
  <2>1. TodayTotal = SumFunction(f) /\ TodayTotal' = SumFunction(g)
    BY <1>8 DEF TodayTotal
  <2>2. /\ f[s] = runs[s][Today] /\ g[s] = runs[s][Today] + 1
        /\ \A z \in Schedule \ {s} : f[z] = g[z]
        /\ Counts(f, Schedule) /\ DOMAIN f = Schedule /\ DOMAIN g = Schedule
    BY <1>1, <1>4, <1>9, <1>12, RowIs DEF Counts
  <2>3. f[s] \in Nat /\ g[s] \in Nat /\ g[s] = f[s] + 1
    BY <1>4, <1>6, <2>2
  <2>4. TodayTotal' = TodayTotal + 1 /\ TodayTotal \in Nat
    <3> HIDE DEF f, g
    <3>1. /\ SumFunction(f) \in Nat /\ SumFunction(g) \in Nat
          /\ SumFunction(g) - g[s] = SumFunction(f) - f[s]
      BY <1>1, <2>2, <2>3, Bounds, SumChange
    <3> QED
      BY <2>1, <2>3, <3>1
  <2> HIDE DEF f, g
  <2>5. ASSUME NEW d \in DaysSeen, d # Today PROVE DayTotal(d)' = DayTotal(d)
    <3>1. \A z \in Schedule : runs'[z][d] = runs[z][d]
      BY <1>9, <1>12, <2>5
    <3> QED
      BY <3>1 DEF DayTotal
  <2>6. /\ IsFiniteSet(Claims) /\ Cardinality(Claims) \in Nat
        /\ IsFiniteSet(Orphans) /\ Cardinality(Orphans) \in Nat
        /\ drops \in Nat /\ Ceiling \in Nat
    BY ClaimsFinite, Bounds DEF SchedulerTypeOK
  <2>7. i \in Claims
    BY <1>1 DEF Claims
  <2>8. Cardinality(Claims') = Cardinality(Claims) - 1
    BY <1>10, <2>6, <2>7, FS_RemoveElement
  <2>9. Orphans' \subseteq Orphans
    BY <1>3, <1>10 DEF Orphans
  <2>10. IsFiniteSet(Orphans') /\ Cardinality(Orphans') <= Cardinality(Orphans)
    BY <2>6, <2>9, FS_Subset
  <2>11. Cardinality(Orphans') \in Nat
    BY <2>10, FS_CardinalityType
  <2>12. Cardinality(Orphans') <= drops
    BY <2>6, <2>10, <2>11 DEF CeilingKept
  <2>13. Ceiling >= 1
    BY <2>7 DEF CeilingKept
  <2>14. TodayTotal' + Cardinality(Claims') <= Ceiling + drops
    BY <2>4, <2>6, <2>8 DEF CeilingKept
  <2>15. Cardinality(Claims) >= 1
    BY <2>6, <2>7, FS_EmptySet
  <2>16. TodayTotal' <= Ceiling + drops
    BY <2>4, <2>6, <2>8, <2>14, <2>15
  <2>17. ASSUME NEW d \in DaysSeen PROVE DayTotal(d)' <= Ceiling + drops
    <3>1. CASE d = Today
      <4>1. DayTotal(d)' = TodayTotal'
        BY <1>8, <3>1 DEF DayTotal, TodayTotal
      <4> QED
        BY <2>16, <4>1
    <3>2. CASE d # Today
      BY <2>5, <3>2 DEF CeilingKept
    <3> QED
      BY <3>1, <3>2
  <2> QED
    BY <1>3, <2>12, <2>13, <2>14, <2>17 DEF CeilingKept
<1> QED
  BY <1>11, <1>15, <1>17, <1>18, <1>19

\* At midnight the count starts from nothing, but for claims under way.
LEMMA TickStep ==
    ASSUME SchedulerInv, Tick
    PROVE  SchedulerInv'
<1> USE DEF SchedulerInv, Counted
<1>1. /\ now < Horizon /\ now' = now + 1
      /\ UNCHANGED <<row, stopped, spent, lock, pass, upsets, runs, born, drops>>
  BY DEF Tick
<1>2. SchedulerTypeOK'
  BY <1>1, Bounds DEF SchedulerTypeOK, PassesOK
<1>3. /\ now \in Nat /\ Today \in Nat /\ Today \in DaysSeen /\ DaysSeen \subseteq Nat
  BY TodayIs
<1>4. Today' \in Nat /\ Today' \in DaysSeen /\ Today <= Today'
  <2>1. now' \in Nat /\ now <= now' /\ now' <= Horizon /\ Horizon \in Nat
    BY <1>1, <1>3, Bounds
  <2>2. /\ Day(now') \in Nat /\ Day(Horizon) \in Nat
        /\ Day(now) <= Day(now') /\ Day(now') <= Day(Horizon)
    BY <1>3, <2>1, DayIs, DayUp
  <2> QED
    BY <2>2 DEF Today, DaysSeen
<1>5. RowsTell'
  <2>1. ASSUME NEW s \in Schedule PROVE row[s].on <= Today'
    BY <1>3, <1>4, OnType DEF RowsTell
  <2> QED
    BY <1>1, <2>1 DEF RowsTell
<1>6. EachItsMoment'
  <2>1. ASSUME NEW s \in Schedule
        PROVE  /\ born[s] <= now'
               /\ SumFunction(runs[s]) <= Cardinality(Moments(s, born[s], now'))
    <3>1. born[s] \in Nat /\ now \in Int /\ now' \in Int /\ now <= now'
      BY <1>1, <1>3, RowIs
    <3>2. Cardinality(Moments(s, born[s], now)) <= Cardinality(Moments(s, born[s], now'))
      BY <3>1, MomentsUp
    <3>3. /\ Cardinality(Moments(s, born[s], now)) \in Nat
          /\ Cardinality(Moments(s, born[s], now')) \in Nat
      BY <3>1, MomentsFinite
    <3>4. SumFunction(runs[s]) \in Nat
      <4>1. Counts(runs[s], DaysSeen) /\ DOMAIN runs[s] = DaysSeen
        BY RowIs DEF Counts
      <4> QED
        BY <4>1, DaysFinite, SumNat DEF SumFunction
    <3>5. born[s] <= now /\ SumFunction(runs[s]) <= Cardinality(Moments(s, born[s], now))
      BY DEF EachItsMoment
    <3> QED
      BY <3>1, <3>2, <3>3, <3>4, <3>5
  <2> QED
    BY <1>1, <2>1 DEF EachItsMoment, Exists
<1>7. CapKept'
  BY <1>1 DEF CapKept
<1>8. Claims' = Claims /\ Orphans' = Orphans
  BY <1>1 DEF Claims, Orphans
<1>9. \A d \in DaysSeen : DayTotal(d)' = DayTotal(d)
  BY <1>1 DEF DayTotal
<1>10. /\ IsFiniteSet(Orphans) /\ Cardinality(Orphans) \in Nat
       /\ IsFiniteSet(Claims) /\ Cardinality(Claims) \in Nat
       /\ drops \in Nat /\ Ceiling \in Nat
  BY ClaimsFinite, Bounds DEF SchedulerTypeOK
<1>11. TodayTotal' + Cardinality(Claims) <= Ceiling + drops
  <2>1. CASE Today' = Today
    <3>1. TodayTotal' = TodayTotal
      BY <1>1, <2>1 DEF TodayTotal
    <3> QED
      BY <3>1 DEF CeilingKept
  <2>2. CASE Today' # Today
    <3>1. ASSUME NEW s \in Schedule PROVE runs[s][Today'] = 0
      <4>1. row[s].on <= Today /\ row[s].on \in Int
        BY OnType DEF RowsTell
      <4>2. Today' > row[s].on
        BY <1>3, <1>4, <2>2, <4>1
      <4> QED
        BY <1>4, <4>2 DEF RowsTell
    <3> DEFINE f == [s \in Schedule |-> runs[s][Today']]
    <3>2. TodayTotal' = SumFunction(f)
      BY <1>1 DEF TodayTotal
    <3>3. DOMAIN f = Schedule /\ \A s \in Schedule : f[s] = 0
      BY <3>1
    <3>4. TodayTotal' = 0
      <4> HIDE DEF f
      <4> QED
        BY <3>2, <3>3, Bounds, SumZero
    <3>5. CASE Claims = {}
      <4>1. Cardinality(Claims) = 0
        BY <3>5, FS_EmptySet
      <4> QED
        BY <1>10, <3>4, <4>1
    <3>6. CASE Claims # {}
      <4>1. Ceiling >= 1 /\ Cardinality(Orphans) <= drops
        BY <3>6 DEF CeilingKept
      <4>2. Claims \subseteq Orphans \cup {lock}
        BY DEF Orphans
      <4>3. /\ IsFiniteSet(Orphans \cup {lock})
            /\ Cardinality(Orphans \cup {lock}) <= Cardinality(Orphans) + 1
        <5>1. /\ IsFiniteSet(Orphans \cup {lock})
              /\ Cardinality(Orphans \cup {lock})
                    = IF lock \in Orphans THEN Cardinality(Orphans)
                      ELSE Cardinality(Orphans) + 1
          BY <1>10, FS_AddElement
        <5> QED
          BY <1>10, <5>1
      <4>4. Cardinality(Claims) <= Cardinality(Orphans \cup {lock})
        BY <4>2, <4>3, FS_Subset
      <4>5. Cardinality(Orphans \cup {lock}) \in Nat
        BY <4>3, FS_CardinalityType
      <4> QED
        BY <1>10, <3>4, <4>1, <4>3, <4>4, <4>5
    <3> QED
      BY <3>5, <3>6
  <2> QED
    BY <2>1, <2>2
<1>12. CeilingKept'
  BY <1>1, <1>8, <1>9, <1>11 DEF CeilingKept
<1> QED
  BY <1>2, <1>5, <1>6, <1>7, <1>12

\* The owner's stop and the month's share are looked at, not counted.
LEMMA SwitchStep ==
    ASSUME SchedulerInv, Spend \/ ToggleStop
    PROVE  SchedulerInv'
<1> USE DEF SchedulerInv
<1>1. /\ stopped' \in BOOLEAN /\ spent' \in BOOLEAN /\ upsets' = upsets + 1
      /\ UNCHANGED <<now, row, lock, pass, runs, born, drops>>
  <2>1. CASE Spend
    BY <2>1 DEF Spend, Upset, SchedulerTypeOK
  <2>2. CASE ToggleStop
    <3>1. stopped' = ~stopped /\ spent' = spent
      BY <2>2 DEF ToggleStop
    <3>2. stopped' \in BOOLEAN
      BY <3>1
    <3> QED
      BY <2>2, <3>1, <3>2 DEF ToggleStop, Upset, SchedulerTypeOK
  <2> QED
    BY <2>1, <2>2
<1>2. SchedulerTypeOK'
  BY <1>1 DEF SchedulerTypeOK, PassesOK
<1>3. Counted'
  BY <1>1, CountedAside
<1>4. Claims' = Claims /\ Orphans' = Orphans
  BY <1>1 DEF Claims, Orphans
<1>5. CeilingKept'
  BY <1>1, <1>4, CeilingAside
<1> QED
  BY <1>2, <1>3, <1>5

LEMMA SchedulerStutter ==
    ASSUME SchedulerInv, UNCHANGED schedulerVars
    PROVE  SchedulerInv'
<1> USE DEF SchedulerInv, schedulerVars
<1>1. SchedulerTypeOK'
  BY DEF SchedulerTypeOK, PassesOK
<1>2. Counted'
  BY CountedAside
<1>3. Claims' = Claims /\ Orphans' = Orphans
  BY DEF Claims, Orphans
<1>4. CeilingKept'
  BY <1>3, CeilingAside
<1> QED
  BY <1>1, <1>2, <1>4

LEMMA SchedulerStart ==
    ASSUME SchedulerInit
    PROVE  SchedulerInv
<1>1. /\ now = 0 /\ row = [s \in Schedule |-> Absent]
      /\ stopped = FALSE /\ spent = FALSE /\ lock = NoOne
      /\ pass = [i \in Instance |-> Asleep] /\ upsets = 0 /\ drops = 0
      /\ runs = [s \in Schedule |-> [d \in DaysSeen |-> 0]]
      /\ born = [s \in Schedule |-> 0]
  BY DEF SchedulerInit
<1>2. Absent \in RowShape /\ Absent.state = "absent" /\ Absent.on = Never
  BY DEF Absent, RowShape
<1>3. Asleep \in PassShape /\ Asleep.pc = "idle"
  BY DEF Asleep, PassShape
<1>4. SchedulerTypeOK
  <2>1. now \in 0..Horizon
    BY <1>1, Bounds
  <2>2. PassesOK
    BY <1>1, <1>3 DEF PassesOK
  <2> QED
    BY <1>1, <1>2, <2>1, <2>2 DEF SchedulerTypeOK
<1>5. now \in Nat /\ Today \in Nat /\ Today \in DaysSeen
  BY <1>4, TodayIs
<1>6. RowsTell
  BY <1>1, <1>2, <1>5 DEF RowsTell, Never
<1>7. ASSUME NEW s \in Schedule
      PROVE  /\ SumFunction(runs[s]) = 0
             /\ Cardinality(Moments(s, born[s], now)) \in Nat
  <2>1. DOMAIN runs[s] = DaysSeen /\ \A d \in DaysSeen : runs[s][d] = 0
    BY <1>1
  <2>2. SumFunction(runs[s]) = 0
    BY <2>1, DaysFinite, SumZero
  <2>3. born[s] \in Nat /\ now \in Int
    BY <1>1
  <2> QED
    BY <2>2, <2>3, MomentsFinite
<1>8. EachItsMoment
  <2>1. \A s \in Schedule : ~Exists(s) /\ born[s] <= now
    BY <1>1, <1>2 DEF Exists
  <2> QED
    BY <1>7, <2>1 DEF EachItsMoment
<1>9. CapKept
  BY <1>1, Bounds DEF CapKept
<1>10. ASSUME NEW d \in DaysSeen PROVE DayTotal(d) = 0
  <2> DEFINE f == [s \in Schedule |-> runs[s][d]]
  <2>1. DOMAIN f = Schedule /\ \A s \in Schedule : f[s] = 0
    BY <1>1
  <2>2. SumFunction(f) = 0
    <3> HIDE DEF f
    <3> QED
      BY <2>1, Bounds, SumZero
  <2> QED
    BY <2>2 DEF DayTotal
<1>11. Claims = {} /\ Orphans = {}
  BY <1>1, <1>3 DEF Claims, Orphans
<1>12. TodayTotal = 0
  BY <1>5, <1>10 DEF TodayTotal, DayTotal
<1>13. CeilingKept
  BY <1>1, <1>10, <1>11, <1>12, Bounds, FS_EmptySet DEF CeilingKept
<1> QED
  BY <1>4, <1>6, <1>8, <1>9, <1>13 DEF SchedulerInv, Counted

\* The inductive invariant of the scheduler: a row's count is that of the last
\* day it ran, each run took a moment of its own out of those named since the
\* row was made, and a pass that has looked at the ceiling still finds room
\* below it, but for the passes whose lock was dropped meanwhile.
THEOREM SchedulerInvariant == SchedulerSpec => []SchedulerInv
<1>1. ASSUME SchedulerInv, SchedulerNext PROVE SchedulerInv'
  <2>1. ASSUME NEW s \in Schedule, Create(s) \/ SetEnabled(s) \/ Delete(s)
        PROVE  SchedulerInv'
    BY <1>1, <2>1, CreateStep, SetEnabledStep, DeleteStep
  <2>2. ASSUME NEW i \in Instance, RunDue(i) \/ Die(i) \/ Drop(i)
        PROVE  SchedulerInv'
    <3>1. QuietStep(i) \/ CheckCeiling(i) \/ Claim(i) \/ Drop(i)
      BY <2>2 DEF RunDue, QuietStep
    <3> QED
      BY <1>1, <3>1, QuietKept, CheckCeilingStep, ClaimStep, DropStep
  <2>3. CASE Tick \/ Spend \/ ToggleStop
    BY <1>1, <2>3, TickStep, SwitchStep
  <2> QED
    BY <1>1, <2>1, <2>2, <2>3 DEF SchedulerNext
<1> QED
  BY <1>1, SchedulerStart, SchedulerStutter, PTL DEF SchedulerSpec

\* A schedule runs at most once for every moment it names, at most
\* max_per_day times a day (_claim), and all of them together stay within the
\* day's ceiling (_at_daily_ceiling) but for one run for each lock that was
\* dropped, however many calls of run_due look, die or lose the lock, and
\* however often rows are switched off and on.
THEOREM RunsAreBounded == SchedulerSpec => []RunsBounded
<1>1. SchedulerInv => RunsBounded
  BY DEF SchedulerInv, Counted, EachItsMoment, CapKept, CeilingKept, RunsBounded,
         Moments, DayTotal
<1> QED
  BY <1>1, SchedulerInvariant, PTL

-----------------------------------------------------------------------------
(* Who answers: the inductive invariants *)

Keys == [Stored -> Nat]
EditShape == [at : {"none", "read", "fill"}, in : Process, boot : BOOLEAN, rows : Keys]

KeysTypeOK ==
    /\ table \in Keys
    /\ cache \in [Process -> Keys]
    /\ edit \in [Request -> EditShape]
    /\ changes \in Nat
    /\ behind \subseteq Process

\* What is about to be filled in is what is on record, unless another
\* process wrote meanwhile, or a request crossed.
FillsAreFresh ==
    \A r \in Request :
        edit[r].at = "fill" /\ edit[r].in \notin behind => edit[r].rows = table

KeysInv == KeysTypeOK /\ FillsAreFresh /\ CacheAgrees

Providers4 == {"gemini", "openai", "claude", "local"}
Anybody == Providers4 \cup {"mock"}

CallShape ==
    [at : {"idle", "asking", "answered", "failed"}, in : Process,
     kind : {"none", "message", "probe", "agent", "review"},
     want : Providers4 \cup {Nobody}, mode : {"none", "hard", "soft"},
     left : Seq(Anybody), by : Anybody \cup {Nobody}, plain : BOOLEAN,
     could : SUBSET Providers4, failed : SUBSET Anybody]

\* x comes last in s or not at all.
LastOnly(s, x) == \A k \in 1..(Len(s) - 1) : s[k] # x

\* A provider that was named is all there is to try.
HardAlone(one) ==
    one.mode = "hard" =>
        /\ one.at = "asking" => one.left = <<one.want>>
        /\ one.at = "answered" => one.by = one.want

\* Whoever was configured has failed or is still to be tried, the local
\* model last, and a placeholder only where there was nobody.
NobodySkipped(one) ==
    one.at # "idle" /\ one.want = Nobody =>
        /\ one.could \subseteq one.failed \cup ToSet(one.left)
        /\ one.at = "failed" => one.left = <<>>
        /\ "mock" \in ToSet(one.left) => one.could = {}
        /\ Primary # "local" => LastOnly(one.left, "local")
        /\ one.by = "local" /\ Primary # "local" => one.could \ {"local"} \subseteq one.failed
        /\ one.by = "mock" => one.could = {}

CallFine(one) ==
    /\ one \in CallShape
    /\ one.at = "asking" => one.left # <<>>
    /\ HardAlone(one)
    /\ FallbackEnabled => NobodySkipped(one)

CallsInv == \A c \in Call : CallFine(call[c])
CallsTypeOK == call \in [Call -> CallShape]

ServedInv == KeysInv /\ CallsTypeOK /\ CallsInv

-----------------------------------------------------------------------------
(* Money: the inductive invariant *)

Flights == {"taken", "afforded", "routed", "handed", "between", "charged"}
TaskShape == [status : {"queued", "running", "completed", "failed"},
              attempts : Nat, spend : Nat]
RunShape == [at : {"free"} \cup Flights, task : Task,
             label : Providers4 \cup {Nobody}, amount : Nat]

PurseTypeOK ==
    /\ task \in [Task -> TaskShape]
    /\ flow \in Nat
    /\ run \in [Runner -> RunShape]
    /\ measured \in [Providers4 -> [runs : Nat, wins : Nat]]
    /\ handed \in [Providers4 -> Nat]
    /\ cut \in Nat /\ adrift \in Nat

\* A run that has a model is priced and measured under it.
Labelled ==
    \A c \in Runner :
        /\ run[c].at \in {"routed", "handed", "between", "charged"}
              => run[c].label \in Providers4
        /\ run[c].at = "between" => run[c].amount <= MaxPrice

\* Runs that were let through and are not paid yet may each still cost
\* MaxPrice.
Committed ==
    {c \in Runner : run[c].at \in {"afforded", "routed", "handed", "between"}}
WithinPromise ==
    flow + Cardinality(Committed) * MaxPrice
        <= Budget - Estimate + Cardinality(Runner) * MaxPrice

Spent == SumFunction([t \in Task |-> task[t].spend])
BooksBalance == Spent = flow + cut + adrift + HalfMade

\* Runs that p was given and that nobody has measured yet.
Given(p) ==
    {c \in Runner : run[c].at \in {"handed", "between", "charged"} /\ run[c].label = p}
HeldToAccount ==
    \A p \in Providers4 : measured[p].runs + Cardinality(Given(p)) <= handed[p]

PurseInv ==
    PurseTypeOK /\ Labelled /\ WithinPromise /\ BooksBalance /\ HeldToAccount

-----------------------------------------------------------------------------
(* Who answers: keys *)

LEMMA RealIs ==
    /\ Real[1] = "gemini" /\ Real[2] = "openai" /\ Real[3] = "claude" /\ Real[4] = "local"
    /\ ToSet(Real) = Providers4
    /\ Stored \subseteq Providers4
    /\ Primary \in Providers4 /\ Env \subseteq Providers4
    /\ Nobody \notin Anybody
    /\ Process # {}
<1>1. /\ Real[1] = "gemini" /\ Real[2] = "openai" /\ Real[3] = "claude" /\ Real[4] = "local"
      /\ DOMAIN Real = 1..4
  BY DEF Real
<1>2. ToSet(Real) = {Real[k] : k \in DOMAIN Real}
  BY DEF ToSet
<1>3. ToSet(Real) = Providers4
  <2>1. 1..4 = {1, 2, 3, 4}
    OBVIOUS
  <2>2. ToSet(Real) = {Real[1], Real[2], Real[3], Real[4]}
    BY <1>1, <1>2, <2>1
  <2> QED
    BY <1>1, <2>2 DEF Providers4
<1> QED
  BY <1>1, <1>3, ProvidersAssumption DEF Providers4, Stored, Anybody, Nobody

LEMMA QuietIs == /\ Quiet \in EditShape /\ Quiet.at = "none"
                 /\ NoKeys \in Keys
BY RealIs DEF Quiet, EditShape, NoKeys, Keys

LEMMA ReadingIs ==
    ASSUME NEW i \in Process
    PROVE  /\ Reading(i) \in EditShape /\ Reading(i).at = "read" /\ Reading(i).in = i
           /\ [Reading(i) EXCEPT !.boot = TRUE] \in EditShape
           /\ [Reading(i) EXCEPT !.boot = TRUE].at = "read"
           /\ [Reading(i) EXCEPT !.boot = TRUE].in = i
BY QuietIs DEF Reading, EditShape

LEMMA EditIs ==
    ASSUME KeysTypeOK, NEW r \in Request
    PROVE  /\ edit[r] \in EditShape /\ edit[r].at \in {"none", "read", "fill"}
           /\ edit[r].in \in Process /\ edit[r].rows \in Keys
BY DEF KeysTypeOK, EditShape

LEMMA KeysAsideKept ==
    ASSUME KeysInv, KeysAside
    PROVE  KeysInv'
BY DEF KeysInv, KeysAside, KeysTypeOK, FillsAreFresh, CacheAgrees, Editing

\* A write is read back by its own process; the others are behind.
LEMMA ChangeKept ==
    ASSUME KeysInv, NEW r \in Request, NEW i \in Process, Change(r, i)
    PROVE  KeysInv'
<1> USE DEF KeysInv
<1>1. /\ edit[r].at = "none" /\ changes' = changes + 1
      /\ edit' = [edit EXCEPT ![r] = Reading(i)]
      /\ behind' = (IF table' = table THEN behind ELSE Process)
                      \ (IF Editing(i) = {} THEN {i} ELSE {})
      /\ UNCHANGED <<cache, call>>
  BY DEF Change
<1>2. PICK p \in Edited, key \in {0, changes'} : table' = [table EXCEPT ![p] = key]
  BY DEF Change
<1>3. table' \in Keys /\ changes' \in Nat
  BY <1>1, <1>2, ProvidersAssumption DEF KeysTypeOK, Keys
<1>4. /\ edit' \in [Request -> EditShape]
      /\ edit'[r].at = "read" /\ edit'[r].in = i
      /\ \A q \in Request \ {r} : edit'[q] = edit[q]
  BY <1>1, ReadingIs DEF KeysTypeOK
<1>5. KeysTypeOK'
  BY <1>1, <1>3, <1>4 DEF KeysTypeOK
<1>6. ASSUME NEW q \in Request, edit'[q].at = "fill", edit'[q].in \notin behind'
      PROVE  edit'[q].rows = table'
  <2>1. q # r /\ edit'[q] = edit[q]
    BY <1>4, <1>6
  <2>2. edit[q].in \in Process /\ q \in Editing(edit[q].in)
    BY <1>6, <2>1, EditIs DEF Editing
  <2>3. edit[q].in \notin (IF table' = table THEN behind ELSE Process)
    BY <1>1, <1>6, <2>1, <2>2
  <2>4. table' = table /\ edit[q].in \notin behind
    BY <2>2, <2>3
  <2> QED
    BY <1>6, <2>1, <2>4 DEF FillsAreFresh
<1>7. FillsAreFresh'
  BY <1>6 DEF FillsAreFresh
<1>8. ASSUME NEW j \in Process, Editing(j)' = {}, j \notin behind'
      PROVE  cache'[j] = table'
  <2>1. j # i
    BY <1>4, <1>8 DEF Editing
  <2>2. table' = table /\ j \notin behind
    BY <1>1, <1>8, <2>1
  <2>3. Editing(j) = {}
    BY <1>1, <1>4, <1>8 DEF Editing
  <2> QED
    BY <1>1, <2>2, <2>3 DEF CacheAgrees
<1>9. CacheAgrees'
  BY <1>8 DEF CacheAgrees
<1> QED
  BY <1>5, <1>7, <1>9

LEMMA ReadKept ==
    ASSUME KeysInv, NEW r \in Request, Read(r)
    PROVE  KeysInv'
<1> USE DEF KeysInv
<1>1. /\ edit[r].at = "read"
      /\ edit' = [edit EXCEPT ![r].at = "fill", ![r].rows = table]
      /\ UNCHANGED <<table, cache, changes, call, behind>>
  BY DEF Read
<1>2. /\ edit' \in [Request -> EditShape]
      /\ edit'[r].at = "fill" /\ edit'[r].in = edit[r].in /\ edit'[r].rows = table
      /\ \A q \in Request \ {r} : edit'[q] = edit[q]
  BY <1>1 DEF KeysTypeOK, EditShape
<1>3. KeysTypeOK'
  BY <1>1, <1>2 DEF KeysTypeOK
<1>4. FillsAreFresh'
  BY <1>1, <1>2 DEF FillsAreFresh
<1>5. \A j \in Process : Editing(j)' = Editing(j)
  BY <1>1, <1>2 DEF Editing
<1>6. CacheAgrees'
  BY <1>1, <1>5 DEF CacheAgrees
<1> QED
  BY <1>3, <1>4, <1>6

LEMMA ReadFailsKept ==
    ASSUME KeysInv, NEW r \in Request, ReadFails(r)
    PROVE  KeysInv'
<1> USE DEF KeysInv
<1>1. /\ edit[r].at = "read" /\ changes' = changes + 1
      /\ edit' = [edit EXCEPT ![r] = Quiet]
      /\ behind' = behind \cup {edit[r].in}
      /\ UNCHANGED <<table, cache, call>>
  BY DEF ReadFails
<1>2. /\ edit' \in [Request -> EditShape] /\ edit'[r].at = "none"
      /\ \A q \in Request \ {r} : edit'[q] = edit[q]
  BY <1>1, QuietIs DEF KeysTypeOK
<1>3. KeysTypeOK'
  BY <1>1, <1>2, EditIs DEF KeysTypeOK
<1>4. FillsAreFresh'
  BY <1>1, <1>2 DEF FillsAreFresh
<1>5. ASSUME NEW j \in Process, Editing(j)' = {}, j \notin behind'
      PROVE  cache[j] = table
  <2>1. j # edit[r].in /\ j \notin behind
    BY <1>1, <1>5
  <2>2. Editing(j) = {}
    BY <1>2, <1>5, <2>1 DEF Editing
  <2> QED
    BY <2>1, <2>2 DEF CacheAgrees
<1>6. CacheAgrees'
  BY <1>1, <1>5 DEF CacheAgrees
<1> QED
  BY <1>3, <1>4, <1>6

LEMMA FillKept ==
    ASSUME KeysInv, NEW r \in Request, Fill(r)
    PROVE  KeysInv'
<1> USE DEF KeysInv
<1> DEFINE i == edit[r].in
<1>1. /\ edit[r].at = "fill"
      /\ cache' = [cache EXCEPT ![i] = edit[r].rows]
      /\ edit' = [edit EXCEPT ![r] = Quiet]
      /\ UNCHANGED <<table, changes, call, behind>>
  BY DEF Fill, Filled
<1>2. /\ edit' \in [Request -> EditShape] /\ edit'[r].at = "none"
      /\ \A q \in Request \ {r} : edit'[q] = edit[q]
  BY <1>1, QuietIs DEF KeysTypeOK
<1>3. i \in Process /\ edit[r].rows \in Keys
  BY EditIs
<1>4. cache' \in [Process -> Keys] /\ cache'[i] = edit[r].rows
      /\ \A j \in Process \ {i} : cache'[j] = cache[j]
  BY <1>1, <1>3 DEF KeysTypeOK
<1>5. KeysTypeOK'
  BY <1>1, <1>2, <1>4 DEF KeysTypeOK
<1>6. FillsAreFresh'
  BY <1>1, <1>2 DEF FillsAreFresh
<1>7. ASSUME NEW j \in Process, Editing(j)' = {}, j \notin behind
      PROVE  cache'[j] = table
  <2>1. CASE j = i
    BY <1>1, <1>4, <1>7, <2>1 DEF FillsAreFresh
  <2>2. CASE j # i
    <3>1. Editing(j) = {}
      BY <1>2, <1>7, <2>2 DEF Editing
    <3> QED
      BY <1>4, <1>7, <2>2, <3>1 DEF CacheAgrees
  <2> QED
    BY <2>1, <2>2
<1>8. CacheAgrees'
  BY <1>1, <1>7 DEF CacheAgrees
<1> QED
  BY <1>5, <1>6, <1>8

\* Another process in its place starts by reading.
LEMMA RestartKept ==
    ASSUME KeysInv, NEW r \in Request, NEW i \in Process, Restart(r, i)
    PROVE  KeysInv'
<1> USE DEF KeysInv
<1> DEFINE boot == [Reading(i) EXCEPT !.boot = TRUE]
<1>1. /\ edit[r].at = "none" \/ edit[r].in = i
      /\ changes' = changes + 1
      /\ cache' = [cache EXCEPT ![i] = NoKeys]
      /\ edit' = [q \in Request |->
                     IF q = r THEN boot
                     ELSE IF edit[q].in = i THEN Quiet ELSE edit[q]]
      /\ behind' = behind \ {i}
      /\ UNCHANGED table
  BY DEF Restart
<1>2. boot \in EditShape /\ boot.at = "read" /\ boot.in = i
  BY ReadingIs
<1> HIDE DEF boot
<1>3. /\ edit' \in [Request -> EditShape]
      /\ edit'[r].at = "read" /\ edit'[r].in = i
      /\ \A q \in Request \ {r} :
             edit'[q] = IF edit[q].in = i THEN Quiet ELSE edit[q]
  BY <1>1, <1>2, QuietIs DEF KeysTypeOK
<1>4. cache' \in [Process -> Keys] /\ \A j \in Process \ {i} : cache'[j] = cache[j]
  BY <1>1, QuietIs DEF KeysTypeOK
<1>5. KeysTypeOK'
  BY <1>1, <1>3, <1>4 DEF KeysTypeOK
<1>6. ASSUME NEW q \in Request, edit'[q].at = "fill", edit'[q].in \notin behind'
      PROVE  edit'[q].rows = table
  <2>1. q # r /\ edit[q].in # i /\ edit'[q] = edit[q]
    BY <1>3, <1>6, QuietIs
  <2>2. edit[q].in \notin behind
    BY <1>1, <1>6, <2>1
  <2> QED
    BY <1>6, <2>1, <2>2 DEF FillsAreFresh
<1>7. FillsAreFresh'
  BY <1>1, <1>6 DEF FillsAreFresh
<1>8. ASSUME NEW j \in Process, Editing(j)' = {}, j \notin behind'
      PROVE  cache'[j] = table
  <2>1. j # i
    BY <1>3, <1>8 DEF Editing
  <2>2. j \notin behind
    BY <1>1, <1>8, <2>1
  <2>3. \A q \in Request : ~(edit[q].at # "none" /\ edit[q].in = j)
    <3>1. ASSUME NEW q \in Request, edit[q].at # "none", edit[q].in = j PROVE FALSE
      <4>1. q # r
        BY <1>1, <2>1, <3>1
      <4>2. edit'[q] = edit[q]
        BY <1>3, <2>1, <3>1, <4>1
      <4> QED
        BY <1>8, <3>1, <4>2 DEF Editing
    <3> QED
      BY <3>1
  <2>4. Editing(j) = {}
    BY <2>3 DEF Editing
  <2> QED
    BY <1>4, <2>1, <2>2, <2>4 DEF CacheAgrees
<1>9. CacheAgrees'
  BY <1>1, <1>8 DEF CacheAgrees
<1> QED
  BY <1>5, <1>7, <1>9

-----------------------------------------------------------------------------
(* Who answers: chains *)

\* Sequences of providers, one after the other.
LEMMA Joined ==
    ASSUME NEW N, NEW s \in Seq(N), NEW t \in Seq(N)
    PROVE  /\ s \o t \in Seq(N)
           /\ ToSet(s \o t) = ToSet(s) \cup ToSet(t)
           /\ \A x : x \notin ToSet(s) /\ LastOnly(t, x) => LastOnly(s \o t, x)
<1>1. /\ s \o t \in Seq(N) /\ Len(s \o t) = Len(s) + Len(t)
      /\ \A k \in 1..(Len(s) + Len(t)) :
             (s \o t)[k] = IF k <= Len(s) THEN s[k] ELSE t[k - Len(s)]
  BY ConcatProperties
<1>2. /\ Len(s) \in Nat /\ Len(t) \in Nat
      /\ DOMAIN s = 1..Len(s) /\ DOMAIN t = 1..Len(t)
      /\ DOMAIN (s \o t) = 1..(Len(s) + Len(t))
  BY <1>1, LenProperties
<1> DEFINE u == s \o t
<1> HIDE DEF u
<1>3. ASSUME NEW x \in ToSet(u) PROVE x \in ToSet(s) \cup ToSet(t)
  <2>1. PICK k \in 1..(Len(s) + Len(t)) : x = u[k]
    BY <1>2, <1>3 DEF ToSet, u
  <2>2. CASE k <= Len(s)
    BY <1>1, <1>2, <2>1, <2>2 DEF ToSet, u
  <2>3. CASE k > Len(s)
    <3>1. k - Len(s) \in 1..Len(t) /\ x = t[k - Len(s)]
      BY <1>1, <1>2, <2>1, <2>3 DEF u
    <3> QED
      BY <1>2, <3>1 DEF ToSet
  <2> QED
    BY <1>2, <2>1, <2>2, <2>3
<1>4. ASSUME NEW x \in ToSet(s) PROVE x \in ToSet(u)
  <2>1. PICK k \in 1..Len(s) : x = s[k]
    BY <1>2, <1>4 DEF ToSet
  <2>2. k \in 1..(Len(s) + Len(t)) /\ u[k] = x
    BY <1>1, <1>2, <2>1 DEF u
  <2> QED
    BY <1>2, <2>2 DEF ToSet, u
<1>5. ASSUME NEW x \in ToSet(t) PROVE x \in ToSet(u)
  <2>1. PICK k \in 1..Len(t) : x = t[k]
    BY <1>2, <1>5 DEF ToSet
  <2>2. k + Len(s) \in 1..(Len(s) + Len(t)) /\ ~(k + Len(s) <= Len(s)) /\ (k + Len(s)) - Len(s) = k
    BY <1>2, <2>1
  <2>3. u[k + Len(s)] = x
    BY <1>1, <2>1, <2>2 DEF u
  <2> QED
    BY <1>2, <2>2, <2>3 DEF ToSet, u
<1>6. ASSUME NEW x, x \notin ToSet(s), LastOnly(t, x) PROVE LastOnly(u, x)
  <2>1. Len(u) = Len(s) + Len(t)
    BY <1>1 DEF u
  <2>2. ASSUME NEW k \in 1..(Len(s) + Len(t) - 1) PROVE u[k] # x
    <3>1. CASE k <= Len(s)
      <4>1. k \in 1..Len(s) /\ u[k] = s[k]
        BY <1>1, <1>2, <3>1 DEF u
      <4> QED
        BY <1>2, <1>6, <4>1 DEF ToSet
    <3>2. CASE k > Len(s)
      <4>1. k - Len(s) \in 1..(Len(t) - 1) /\ u[k] = t[k - Len(s)]
        BY <1>1, <1>2, <3>2 DEF u
      <4> QED
        BY <1>6, <4>1 DEF LastOnly
    <3> QED
      BY <1>2, <3>1, <3>2
  <2> QED
    BY <2>1, <2>2 DEF LastOnly
<1> QED
  BY <1>1, <1>3, <1>4, <1>5, <1>6 DEF u

LEMMA Singly ==
    ASSUME NEW N, NEW p \in N
    PROVE  /\ <<p>> \in Seq(N) /\ ToSet(<<p>>) = {p} /\ Len(<<p>>) = 1
           /\ <<>> \in Seq(N) /\ ToSet(<<>>) = {}
           /\ \A x : LastOnly(<<p>>, x) /\ LastOnly(<<>>, x)
<1>1. /\ <<p>> \in Seq(N) /\ Len(<<p>>) = 1 /\ <<p>>[1] = p /\ DOMAIN <<p>> = 1..1
      /\ <<>> \in Seq(N) /\ Len(<<>>) = 0 /\ DOMAIN <<>> = {}
  OBVIOUS
<1>2. 1..1 = {1}
  OBVIOUS
<1>3. ToSet(<<p>>) = {p} /\ ToSet(<<>>) = {}
  BY <1>1, <1>2 DEF ToSet
<1>4. \A x : LastOnly(<<p>>, x) /\ LastOnly(<<>>, x)
  BY <1>1 DEF LastOnly
<1> QED
  BY <1>1, <1>3, <1>4

\* p, when it is not the primary and is configured.
Piece(i, p) == IF p # Primary /\ Configured(i, p) THEN <<p>> ELSE <<>>

LEMMA PieceIs ==
    ASSUME NEW i, NEW p \in Providers4
    PROVE  /\ Piece(i, p) \in Seq(Providers4)
           /\ ToSet(Piece(i, p)) = {q \in {p} : p # Primary /\ Configured(i, p)}
           /\ \A x : LastOnly(Piece(i, p), x)
BY Singly DEF Piece

\* _others: all that are configured but the primary, the local model last.
LEMMA OthersIs ==
    ASSUME NEW i
    PROVE  /\ Others(i) \in Seq(Providers4)
           /\ ToSet(Others(i)) = AllConfigured(i) \ {Primary}
           /\ LastOnly(Others(i), "local")
<1> DEFINE a == Piece(i, "gemini")
           b == Piece(i, "openai")
           c == Piece(i, "claude")
           d == Piece(i, "local")
<1>1. Others(i) = ((a \o b) \o c) \o d
  BY RealIs DEF Others, Piece
<1>2. /\ "gemini" \in Providers4 /\ "openai" \in Providers4
      /\ "claude" \in Providers4 /\ "local" \in Providers4
  BY DEF Providers4
<1>3. /\ a \in Seq(Providers4) /\ b \in Seq(Providers4)
      /\ c \in Seq(Providers4) /\ d \in Seq(Providers4)
      /\ ToSet(a) = {q \in {"gemini"} : q # Primary /\ Configured(i, q)}
      /\ ToSet(b) = {q \in {"openai"} : q # Primary /\ Configured(i, q)}
      /\ ToSet(c) = {q \in {"claude"} : q # Primary /\ Configured(i, q)}
      /\ ToSet(d) = {q \in {"local"} : q # Primary /\ Configured(i, q)}
      /\ LastOnly(d, "local")
  BY <1>2, PieceIs
<1> HIDE DEF a, b, c, d
<1> DEFINE ab == a \o b
           abc == ab \o c
           local == "local"
<1>4. ab \in Seq(Providers4) /\ ToSet(ab) = ToSet(a) \cup ToSet(b)
  BY <1>3, Joined
<1> HIDE DEF ab
<1>5. abc \in Seq(Providers4) /\ ToSet(abc) = ToSet(ab) \cup ToSet(c)
  BY <1>3, <1>4, Joined
<1>6. local \notin ToSet(abc) /\ LastOnly(d, local)
  <2> HIDE DEF abc
  <2> QED
    BY <1>3, <1>4, <1>5
<1> HIDE DEF abc, local
<1>7. /\ Others(i) \in Seq(Providers4)
      /\ ToSet(Others(i)) = ToSet(a) \cup ToSet(b) \cup ToSet(c) \cup ToSet(d)
      /\ LastOnly(Others(i), "local")
  <2>1. Others(i) = abc \o d
    BY <1>1 DEF ab, abc
  <2>2. /\ abc \o d \in Seq(Providers4)
        /\ ToSet(abc \o d) = ToSet(abc) \cup ToSet(d)
        /\ LastOnly(abc \o d, local)
    BY <1>3, <1>5, <1>6, Joined
  <2> QED
    BY <1>4, <1>5, <2>1, <2>2 DEF local
<1>8. AllConfigured(i) = {q \in Providers4 : Configured(i, q)}
  BY RealIs DEF AllConfigured
<1>9. ToSet(Others(i)) = AllConfigured(i) \ {Primary}
  BY <1>3, <1>7, <1>8 DEF Providers4
<1> QED
  BY <1>7, <1>9

\* get_provider: whoever is configured is tried, the local model last, and a
\* placeholder answers where there is nobody.
LEMMA UsualIs ==
    ASSUME NEW i
    PROVE  /\ Usual(i) \in Seq(Anybody)
           /\ "mock" \in ToSet(Usual(i)) => AllConfigured(i) = {}
           /\ FallbackEnabled => AllConfigured(i) \subseteq ToSet(Usual(i))
           /\ Primary # "local" => LastOnly(Usual(i), "local")
<1>1. /\ Others(i) \in Seq(Anybody)
      /\ ToSet(Others(i)) = AllConfigured(i) \ {Primary}
      /\ LastOnly(Others(i), "local")
  <2>1. Others(i) \in Seq(Providers4) /\ Providers4 \subseteq Anybody
    BY OthersIs DEF Anybody
  <2>2. Others(i) \in Seq(Anybody)
    BY <2>1, SeqDef
  <2> QED
    BY <2>2, OthersIs
<1>2. /\ AllConfigured(i) \subseteq Providers4 /\ "mock" \notin Providers4
      /\ Configured(i, Primary) => Primary \in AllConfigured(i)
      /\ ~Configured(i, Primary) => Primary \notin AllConfigured(i)
      /\ Primary \in Anybody /\ "mock" \in Anybody /\ Primary # "mock"
  BY RealIs DEF AllConfigured, Providers4, Anybody
<1>3. CASE AllConfigured(i) = {}
  <2>1. Usual(i) = <<"mock">>
    BY <1>2, <1>3 DEF Usual
  <2> QED
    BY <1>2, <1>3, <2>1, Singly
<1>4. CASE AllConfigured(i) # {} /\ ~Configured(i, Primary)
  <2>1. Usual(i) = Others(i)
    BY <1>4 DEF Usual
  <2> QED
    BY <1>1, <1>2, <1>4, <2>1
<1>5. CASE Configured(i, Primary) /\ FallbackEnabled
  <2>1. Usual(i) = <<Primary>> \o Others(i)
    BY <1>2, <1>5 DEF Usual
  <2>2. /\ <<Primary>> \in Seq(Anybody) /\ ToSet(<<Primary>>) = {Primary}
    BY <1>2, Singly
  <2>3. /\ Usual(i) \in Seq(Anybody)
        /\ ToSet(Usual(i)) = {Primary} \cup ToSet(Others(i))
        /\ Primary # "local" => LastOnly(Usual(i), "local")
    <3> DEFINE first == <<Primary>>
               local == "local"
    <3>1. local \notin {Primary} => local \notin ToSet(first)
      BY <2>2
    <3> HIDE DEF first, local
    <3>2. /\ first \o Others(i) \in Seq(Anybody)
          /\ ToSet(first \o Others(i)) = ToSet(first) \cup ToSet(Others(i))
          /\ local \notin ToSet(first) /\ LastOnly(Others(i), local)
                => LastOnly(first \o Others(i), local)
      BY <1>1, <2>2, Joined DEF first
    <3> QED
      BY <1>1, <2>1, <2>2, <3>1, <3>2 DEF first, local
  <2> QED
    BY <1>1, <1>2, <2>3
<1>6. CASE Configured(i, Primary) /\ ~FallbackEnabled
  <2>1. Usual(i) = <<Primary>>
    BY <1>2, <1>6 DEF Usual
  <2> QED
    BY <1>2, <1>6, <2>1, Singly
<1> QED
  BY <1>3, <1>4, <1>5, <1>6

\* What is left to try after one that did not answer.
LEMMA TailIs ==
    ASSUME NEW N, NEW s \in Seq(N), s # <<>>
    PROVE  /\ Head(s) \in N /\ Tail(s) \in Seq(N)
           /\ ToSet(s) = {Head(s)} \cup ToSet(Tail(s))
           /\ \A x : LastOnly(s, x) => /\ LastOnly(Tail(s), x)
                                       /\ Head(s) = x => ToSet(Tail(s)) = {}
<1>1. /\ Head(s) \in N /\ Tail(s) \in Seq(N) /\ Head(s) = s[1]
      /\ Len(Tail(s)) = Len(s) - 1
      /\ \A k \in 1..Len(Tail(s)) : Tail(s)[k] = s[k + 1]
  BY HeadTailProperties
<1>2. /\ Len(s) \in Nat /\ Len(s) # 0 /\ DOMAIN s = 1..Len(s)
      /\ DOMAIN Tail(s) = 1..(Len(s) - 1)
  BY <1>1, LenProperties, EmptySeq
<1> DEFINE t == Tail(s)
<1> HIDE DEF t
<1>3. ASSUME NEW x \in ToSet(s) PROVE x \in {Head(s)} \cup ToSet(t)
  <2>1. PICK k \in 1..Len(s) : x = s[k]
    BY <1>2, <1>3 DEF ToSet
  <2>2. CASE k = 1
    BY <1>1, <2>1, <2>2
  <2>3. CASE k # 1
    <3>1. k - 1 \in 1..(Len(s) - 1) /\ t[k - 1] = s[(k - 1) + 1] /\ (k - 1) + 1 = k
      BY <1>1, <1>2, <2>3 DEF t
    <3> QED
      BY <1>2, <2>1, <3>1 DEF ToSet, t
  <2> QED
    BY <2>2, <2>3
<1>4. ASSUME NEW x \in ToSet(t) PROVE x \in ToSet(s)
  <2>1. PICK k \in 1..(Len(s) - 1) : x = t[k]
    BY <1>2, <1>4 DEF ToSet, t
  <2>2. k + 1 \in 1..Len(s) /\ x = s[k + 1]
    BY <1>1, <1>2, <2>1 DEF t
  <2> QED
    BY <1>2, <2>2 DEF ToSet
<1>5. Head(s) \in ToSet(s)
  BY <1>1, <1>2 DEF ToSet
<1>6. ASSUME NEW x, LastOnly(s, x) PROVE LastOnly(t, x)
  <2>1. ASSUME NEW k \in 1..((Len(s) - 1) - 1) PROVE t[k] # x
    <3>1. k + 1 \in 1..(Len(s) - 1) /\ t[k] = s[k + 1]
      BY <1>1, <1>2 DEF t
    <3> QED
      BY <1>6, <3>1 DEF LastOnly
  <2>2. Len(t) = Len(s) - 1
    BY <1>1 DEF t
  <2> QED
    BY <2>1, <2>2 DEF LastOnly
<1>7. ASSUME NEW x, LastOnly(s, x), Head(s) = x PROVE ToSet(t) = {}
  <2>1. ~(1 \in 1..(Len(s) - 1))
    BY <1>1, <1>7 DEF LastOnly
  <2>2. 1..(Len(s) - 1) = {}
    BY <1>2, <2>1
  <2>3. DOMAIN t = {}
    BY <1>2, <2>2 DEF t
  <2> QED
    BY <2>3 DEF ToSet
<1> QED
  BY <1>1, <1>3, <1>4, <1>5, <1>6, <1>7 DEF t

-----------------------------------------------------------------------------
(* Who answers: calls *)

LEMMA IdleIs == CallFine(Idle) /\ Idle.at = "idle" /\ Idle.mode = "none"
<1>1. /\ Idle.at = "idle" /\ Idle.in \in Process /\ Idle.kind = "none"
      /\ Idle.want = Nobody /\ Idle.mode = "none" /\ Idle.left = <<>>
      /\ Idle.by = Nobody /\ Idle.plain = FALSE /\ Idle.could = {}
      /\ Idle.failed = {}
  BY RealIs DEF Idle
<1>2. Idle \in CallShape
  BY RealIs, Singly DEF Idle, CallShape
<1> QED
  BY <1>1, <1>2 DEF CallFine, HardAlone, NobodySkipped

Hopeful(i, want, mode, chain) ==
    /\ mode = "hard" => want # Nobody /\ chain \in {<<>>, <<want>>}
    /\ want = Nobody =>
          /\ "mock" \in ToSet(chain) => AllConfigured(i) = {}
          /\ FallbackEnabled => AllConfigured(i) \subseteq ToSet(chain)
          /\ Primary # "local" => LastOnly(chain, "local")

\* A call that goes the way get_provider says.
LEMMA AskedIs ==
    ASSUME NEW i \in Process, NEW kind \in {"message", "probe", "agent", "review"},
           NEW want \in Providers4 \cup {Nobody}, NEW mode \in {"none", "hard", "soft"},
           NEW chain \in Seq(Anybody), Hopeful(i, want, mode, chain)
    PROVE  CallFine(Asked(i, kind, want, mode, chain))
<1> DEFINE one == Asked(i, kind, want, mode, chain)
<1>1. /\ one.at = (IF chain = <<>> THEN "failed" ELSE "asking")
      /\ one.want = want /\ one.mode = mode /\ one.left = chain
      /\ one.by = Nobody /\ one.could = AllConfigured(i) /\ one.failed = {}
  BY DEF Asked, Idle
<1>2. AllConfigured(i) \in SUBSET Providers4
  BY RealIs DEF AllConfigured
<1>3. one \in CallShape
  BY <1>2 DEF Asked, Idle, CallShape
<1>4. Nobody # "local" /\ Nobody # "mock"
  BY DEF Nobody
<1> HIDE DEF one
<1>5. HardAlone(one)
  BY <1>1 DEF HardAlone, Hopeful
<1>6. FallbackEnabled => NobodySkipped(one)
  BY <1>1, <1>4 DEF NobodySkipped, Hopeful
<1>7. CallFine(one)
  BY <1>1, <1>3, <1>5, <1>6 DEF CallFine
<1> QED
  BY <1>7 DEF one

LEMMA UsuallyHopeful ==
    ASSUME NEW i
    PROVE  Hopeful(i, Nobody, "none", Usual(i)) /\ Usual(i) \in Seq(Anybody)
BY UsualIs DEF Hopeful

LEMMA PreferenceIs ==
    ASSUME NEW i, NEW want \in Providers4, NEW mode \in {"hard", "soft"}
    PROVE  /\ Hopeful(i, want, mode, ForPreference(i, want, mode))
           /\ ForPreference(i, want, mode) \in Seq(Anybody)
<1>1. want \in Anybody /\ want # Nobody
  BY RealIs DEF Anybody
<1>2. ForPreference(i, want, mode) \in Seq(Anybody)
  BY <1>1, UsualIs, Singly DEF ForPreference
<1> QED
  BY <1>1, <1>2 DEF Hopeful, ForPreference

\* One call was put in another's place.
LEMMA OneCall ==
    ASSUME CallsTypeOK, CallsInv, NEW c \in Call, NEW one, CallFine(one),
           call' = [call EXCEPT ![c] = one]
    PROVE  CallsTypeOK' /\ CallsInv'
<1>1. /\ call' \in [Call -> CallShape] /\ call'[c] = one
      /\ \A d \in Call \ {c} : call'[d] = call[d]
  BY DEF CallsTypeOK, CallFine
<1>2. \A d \in Call : CallFine(call'[d])
  BY <1>1 DEF CallsInv
<1> QED
  BY <1>1, <1>2 DEF CallsTypeOK, CallsInv

LEMMA AskKept ==
    ASSUME CallsTypeOK, CallsInv, NEW c \in Call, NEW i \in Process,
           Ask(c, i) \/ Probe(c, i) \/ AskAgent(c, i) \/ Review(c, i)
    PROVE  CallsTypeOK' /\ CallsInv'
<1>1. CASE \/ call' = [call EXCEPT ![c] = Asked(i, "message", Nobody, "none", Usual(i))]
           \/ AskAgent(c, i) \/ Review(c, i)
  <2>1. PICK kind \in {"message", "agent", "review"} :
            call' = [call EXCEPT ![c] = Asked(i, kind, Nobody, "none", Usual(i))]
    BY <1>1 DEF AskAgent, Review
  <2>2. CallFine(Asked(i, kind, Nobody, "none", Usual(i)))
    BY UsuallyHopeful, AskedIs
  <2> QED
    BY <2>1, <2>2, OneCall
<1>2. ASSUME NEW want \in Providers4, NEW mode \in {"hard", "soft"},
             NEW kind \in {"message", "probe"},
             call' = [call EXCEPT ![c] =
                        Asked(i, kind, want, mode, ForPreference(i, want, mode))]
      PROVE  CallsTypeOK' /\ CallsInv'
  <2>1. CallFine(Asked(i, kind, want, mode, ForPreference(i, want, mode)))
    BY PreferenceIs, AskedIs
  <2> QED
    BY <1>2, <2>1, OneCall
<1>3. CASE Probe(c, i)
  <2>1. PICK p \in Stored :
            call' = [call EXCEPT ![c] =
                       Asked(i, "probe", p, "hard", ForPreference(i, p, "hard"))]
    BY <1>3 DEF Probe
  <2> QED
    BY <1>2, <2>1, RealIs
<1>4. CASE Ask(c, i)
  <2>1. \/ call' = [call EXCEPT ![c] = Asked(i, "message", Nobody, "none", Usual(i))]
        \/ \E want \in Providers4, mode \in {"hard", "soft"} :
             call' = [call EXCEPT ![c] =
                        Asked(i, "message", want, mode, ForPreference(i, want, mode))]
    BY <1>4, RealIs DEF Ask
  <2> QED
    BY <1>1, <1>2, <2>1
<1> QED
  BY <1>1, <1>3, <1>4

LEMMA AgainKept ==
    ASSUME CallsTypeOK, CallsInv, NEW c \in Call, Again(c)
    PROVE  CallsTypeOK' /\ CallsInv'
<1> DEFINE one == [call[c] EXCEPT !.plain = TRUE]
<1>1. /\ call' = [call EXCEPT ![c] = one] /\ CallFine(call[c]) /\ call[c] \in CallShape
  BY DEF Again, CallsTypeOK, CallsInv
<1>2. one \in CallShape
  BY <1>1 DEF CallShape
<1>3. /\ one.at = call[c].at /\ one.want = call[c].want /\ one.mode = call[c].mode
      /\ one.left = call[c].left /\ one.by = call[c].by
      /\ one.could = call[c].could /\ one.failed = call[c].failed
  BY <1>1 DEF CallShape
<1> HIDE DEF one
<1>4. CallFine(one)
  BY <1>1, <1>2, <1>3 DEF CallFine, HardAlone, NobodySkipped
<1> QED
  BY <1>1, <1>4, OneCall

LEMMA AnswerKept ==
    ASSUME CallsTypeOK, CallsInv, NEW c \in Call, Answer(c)
    PROVE  CallsTypeOK' /\ CallsInv'
<1> DEFINE old == call[c]
           one == [old EXCEPT !.at = "answered", !.by = Head(old.left)]
<1>1. /\ call' = [call EXCEPT ![c] = one] /\ CallFine(old) /\ old \in CallShape
      /\ old.at = "asking"
  BY DEF Answer, CallsTypeOK, CallsInv
<1>2. /\ old.left \in Seq(Anybody) /\ old.left # <<>>
  BY <1>1 DEF CallFine, CallShape
<1>3. /\ Head(old.left) \in Anybody
      /\ ToSet(old.left) = {Head(old.left)} \cup ToSet(Tail(old.left))
      /\ LastOnly(old.left, "local") /\ Head(old.left) = "local"
            => ToSet(Tail(old.left)) = {}
  <2> DEFINE s == old.left
  <2> HIDE DEF s, old
  <2>1. s \in Seq(Anybody) /\ s # <<>>
    BY <1>2 DEF s
  <2>2. /\ Head(s) \in Anybody
        /\ ToSet(s) = {Head(s)} \cup ToSet(Tail(s))
        /\ \A x : LastOnly(s, x) => /\ LastOnly(Tail(s), x)
                                    /\ Head(s) = x => ToSet(Tail(s)) = {}
    BY <2>1, TailIs
  <2> QED
    BY <2>2 DEF s
<1>4. one \in CallShape
  BY <1>1, <1>3 DEF CallShape
<1>5. /\ one.at = "answered" /\ one.want = old.want /\ one.mode = old.mode
      /\ one.left = old.left /\ one.by = Head(old.left)
      /\ one.could = old.could /\ one.failed = old.failed
  BY <1>1 DEF CallShape
<1> HIDE DEF one, old
<1>6. HardAlone(one)
  BY <1>1, <1>5 DEF CallFine, HardAlone
<1>7. FallbackEnabled => NobodySkipped(one)
  <2> SUFFICES ASSUME FallbackEnabled, one.want = Nobody PROVE NobodySkipped(one)
    BY DEF NobodySkipped
  <2>1. NobodySkipped(old) /\ old.want = Nobody /\ old.at # "idle"
    BY <1>1, <1>5 DEF CallFine
  <2>2. one.by = "local" /\ Primary # "local" => one.could \ {"local"} \subseteq one.failed
    BY <1>3, <1>5, <2>1 DEF NobodySkipped
  <2>3. one.by = "mock" => one.could = {}
    BY <1>3, <1>5, <2>1 DEF NobodySkipped
  <2> QED
    BY <1>5, <2>1, <2>2, <2>3 DEF NobodySkipped
<1>8. CallFine(one)
  BY <1>4, <1>5, <1>6, <1>7 DEF CallFine
<1> QED
  BY <1>1, <1>8, OneCall

LEMMA NoAnswerKept ==
    ASSUME CallsTypeOK, CallsInv, NEW c \in Call, NoAnswer(c)
    PROVE  CallsTypeOK' /\ CallsInv'
<1> DEFINE old == call[c]
           rest == Tail(old.left)
           next == IF rest = <<>> THEN "failed" ELSE old.at
           one == [old EXCEPT !.left = rest, !.failed = @ \cup {Head(old.left)},
                              !.plain = FALSE, !.at = next]
<1>1. /\ call' = [call EXCEPT ![c] = one] /\ CallFine(old) /\ old \in CallShape
      /\ old.at = "asking"
  BY DEF NoAnswer, CallsTypeOK, CallsInv
<1>2. /\ old.left \in Seq(Anybody) /\ old.left # <<>>
  BY <1>1 DEF CallFine, CallShape
<1>3. /\ Head(old.left) \in Anybody /\ rest \in Seq(Anybody)
      /\ ToSet(old.left) = {Head(old.left)} \cup ToSet(rest)
      /\ LastOnly(old.left, "local") => LastOnly(rest, "local")
  <2> DEFINE s == old.left
  <2> HIDE DEF s, old
  <2>1. s \in Seq(Anybody) /\ s # <<>>
    BY <1>2 DEF s
  <2>2. /\ Head(s) \in Anybody /\ Tail(s) \in Seq(Anybody)
        /\ ToSet(s) = {Head(s)} \cup ToSet(Tail(s))
        /\ \A x : LastOnly(s, x) => /\ LastOnly(Tail(s), x)
                                    /\ Head(s) = x => ToSet(Tail(s)) = {}
    BY <2>1, TailIs
  <2> QED
    BY <2>2 DEF s
<1>4. next \in {"asking", "failed"}
  BY <1>1
<1> HIDE DEF rest, next
<1>5. one \in CallShape
  BY <1>1, <1>3, <1>4 DEF CallShape
<1>6. /\ one.at = next /\ one.want = old.want /\ one.mode = old.mode
      /\ one.left = rest /\ one.by = old.by /\ one.could = old.could
      /\ one.failed = old.failed \cup {Head(old.left)}
  BY <1>1 DEF CallShape
<1> HIDE DEF one
<1>7. /\ next = "failed" <=> rest = <<>>
      /\ next # "failed" => next = "asking"
  BY <1>1 DEF next
<1>8. HardAlone(one)
  <2>1. old.mode = "hard" => rest = <<>>
    <3>1. old.mode = "hard" => old.left = <<old.want>>
      BY <1>1 DEF CallFine, HardAlone
    <3>2. \A w : Tail(<<w>>) = <<>>
      OBVIOUS
    <3> QED
      BY <3>1, <3>2 DEF rest
  <2> QED
    BY <1>6, <1>7, <2>1 DEF HardAlone
<1>9. FallbackEnabled => NobodySkipped(one)
  <2> HIDE DEF old
  <2> SUFFICES ASSUME FallbackEnabled, one.want = Nobody PROVE NobodySkipped(one)
    BY DEF NobodySkipped
  <2>1. NobodySkipped(old) /\ old.want = Nobody /\ old.at # "idle"
    BY <1>1, <1>6 DEF CallFine
  <2> QED
    BY <1>3, <1>6, <1>7, <2>1 DEF NobodySkipped
<1>10. CallFine(one)
  BY <1>5, <1>6, <1>7, <1>8, <1>9 DEF CallFine
<1> QED
  BY <1>1, <1>10, OneCall

LEMMA DoneKept ==
    ASSUME CallsTypeOK, CallsInv, NEW c \in Call, Done(c)
    PROVE  CallsTypeOK' /\ CallsInv'
BY IdleIs, OneCall DEF Done

LEMMA SurvivorsKept ==
    ASSUME CallsTypeOK, CallsInv, NEW i \in Process, call' = Survivors(i)
    PROVE  CallsTypeOK' /\ CallsInv'
<1>1. \A c \in Call : CallFine(call'[c])
  BY IdleIs DEF Survivors, CallsInv
<1>2. CallsTypeOK'
  BY <1>1 DEF CallsTypeOK, Survivors, CallFine
<1> QED
  BY <1>1, <1>2 DEF CallsInv

-----------------------------------------------------------------------------
(* Who answers: the theorems *)

LEMMA KeyStepKept ==
    ASSUME KeysInv, KeyStep
    PROVE  KeysInv' /\ UNCHANGED call
BY ChangeKept, ReadKept, ReadFailsKept, FillKept
   DEF KeyStep, Change, Read, ReadFails, Fill

LEMMA CallStepAside ==
    ASSUME NEW c, CallStep(c)
    PROVE  KeysAside
BY DEF CallStep, Ask, Probe, AskAgent, Review, Again, Answer, NoAnswer, Done

LEMMA CallStepKept ==
    ASSUME CallsTypeOK, CallsInv, NEW c \in Call, CallStep(c)
    PROVE  CallsTypeOK' /\ CallsInv'
BY AskKept, AgainKept, AnswerKept, NoAnswerKept, DoneKept DEF CallStep

LEMMA ServedStart == Init => ServedInv
<1> SUFFICES ASSUME Init PROVE ServedInv
  OBVIOUS
<1>1. KeysTypeOK
  BY QuietIs DEF Init, KeysTypeOK
<1>2. FillsAreFresh /\ CacheAgrees
  BY QuietIs DEF Init, FillsAreFresh, CacheAgrees
<1>3. CallsTypeOK /\ CallsInv
  BY IdleIs DEF Init, CallsTypeOK, CallsInv, CallFine
<1> QED
  BY <1>1, <1>2, <1>3 DEF ServedInv, KeysInv

LEMMA ServedStep ==
    ASSUME ServedInv, [Next]_vars
    PROVE  ServedInv'
<1> USE DEF ServedInv
<1>1. CASE KeyStep
  BY <1>1, KeyStepKept DEF CallsTypeOK, CallsInv
<1>2. ASSUME NEW r \in Request, NEW i \in Process, Restart(r, i), call' = Survivors(i)
      PROVE  ServedInv'
  BY <1>2, RestartKept, SurvivorsKept
<1>3. ASSUME NEW c \in Call, CallStep(c) PROVE ServedInv'
  BY <1>3, CallStepAside, CallStepKept, KeysAsideKept
<1>4. CASE UNCHANGED vars
  BY <1>4, KeysAsideKept DEF vars, KeysAside, CallsTypeOK, CallsInv
<1> QED
  BY <1>1, <1>2, <1>3, <1>4 DEF Next

\* The inductive invariant of who answers: a reading that is about to be
\* filled in is current unless somebody wrote meanwhile, and a call's chain
\* still holds every configured provider that has not failed.
THEOREM ServedInvariant == Spec => []ServedInv
<1>1. Init => ServedInv
  BY ServedStart
<1>2. ServedInv /\ [Next]_vars => ServedInv'
  BY ServedStep
<1> QED
  BY <1>1, <1>2, PTL DEF Spec

LEMMA ServedWell == ServedInv => CacheAgrees /\ AnsweredAsAsked
<1> SUFFICES ASSUME ServedInv PROVE AnsweredAsAsked
  BY DEF ServedInv, KeysInv
<1>1. ASSUME NEW c \in Call PROVE
        /\ call[c].mode = "hard" /\ call[c].at = "answered" => call[c].by = call[c].want
        /\ FallbackEnabled /\ call[c].at # "idle" /\ call[c].want = Nobody =>
              /\ call[c].at = "failed" => call[c].could \subseteq call[c].failed
              /\ call[c].by = "local" /\ Primary # "local" =>
                    call[c].could \ {"local"} \subseteq call[c].failed
              /\ call[c].by = "mock" => call[c].could = {}
  <2>1. CallFine(call[c])
    BY DEF ServedInv, CallsInv
  <2>2. ToSet(<<>>) = {}
    BY Singly
  <2> QED
    BY <2>1, <2>2 DEF CallFine, HardAlone, NobodySkipped
<1> QED
  BY <1>1 DEF AnsweredAsAsked

\* A process at rest goes by the keys on record (keys.refresh, after every
\* keys.store and keys.clear, and main.lifespan), unless another process
\* wrote last, the reading failed, or two requests to it crossed.
THEOREM KeysAreCurrent == Spec => []CacheAgrees
BY ServedInvariant, ServedWell, PTL

\* "Use Claude only" is answered by Claude or not at all; a call that named
\* nobody tries every configured provider, the local model last
\* (get_provider, FallbackProvider.complete).
THEOREM AnswersAreAsAsked == Spec => []AnsweredAsAsked
BY ServedInvariant, ServedWell, PTL

\* A step of a workflow's purse is, to the providers, a call or nothing.
LEMMA PurseStepServes ==
    ASSUME [SpendingNext]_allvars
    PROVE  [Next]_vars
<1>1. Runner \subseteq Call
  BY SpendingAssumption
<1>2. ASSUME NEW c \in Runner, Step(c) PROVE [Next]_vars
  <2>1. CASE Hand(c)
    BY <1>1, <2>1 DEF Hand, Next, CallStep
  <2>2. CASE Done(c)
    BY <1>1, <2>2 DEF Next, CallStep
  <2>3. CASE UNCHANGED vars
    BY <2>3
  <2>4. \/ Hand(c) \/ Done(c) \/ UNCHANGED vars
    BY <1>2 DEF Step, Take, Afford, Route, Refuse, Fail, ChargeTask, ChargeFlow,
                Complete, CallsAside
  <2> QED
    BY <2>1, <2>2, <2>3, <2>4
<1>3. ASSUME NEW t \in Task, Recover(t) PROVE [Next]_vars
  BY <1>3 DEF Recover, CallsAside
<1>4. ASSUME NEW r \in Request, NEW i \in Process, Crash(r, i) PROVE [Next]_vars
  BY <1>4 DEF Crash, Next
<1>5. CASE \/ KeyStep
           \/ \E c \in Call \ Runner : CallStep(c)
           \/ \E c \in Runner : Again(c) \/ Answer(c) \/ NoAnswer(c)
  BY <1>1, <1>5 DEF Next, CallStep
<1>6. CASE UNCHANGED allvars
  BY <1>6 DEF allvars
<1> QED
  BY <1>2, <1>3, <1>4, <1>5, <1>6 DEF SpendingNext

\* A workflow that spends asks like anybody else: whatever its runs do to
\* their rows, the calls they make are those of llm/ (run_task, get_provider).
THEOREM SpendingIsServed == SpendingSpec => Spec
<1>1. SpendingInit => Init
  BY DEF SpendingInit
<1>2. [SpendingNext]_allvars => [Next]_vars
  BY PurseStepServes
<1> QED
  BY <1>1, <1>2, PTL DEF SpendingSpec, Spec

-----------------------------------------------------------------------------
(* Money: what a step of a run does *)

\* Two sets that differ in one element at most.
LEMMA OneMoreOrLess ==
    ASSUME NEW R, IsFiniteSet(R), NEW S \in SUBSET R, NEW T \in SUBSET R, NEW c \in R,
           \A d \in R \ {c} : d \in S <=> d \in T
    PROVE  /\ Cardinality(S) \in Nat /\ Cardinality(T) \in Nat /\ Cardinality(R) \in Nat
           /\ Cardinality(S) <= Cardinality(R) /\ Cardinality(T) <= Cardinality(R)
           /\ (c \in S <=> c \in T) => Cardinality(T) = Cardinality(S)
           /\ c \notin S /\ c \in T => Cardinality(T) = Cardinality(S) + 1
           /\ c \in S /\ c \notin T => Cardinality(T) = Cardinality(S) - 1
<1>1. /\ IsFiniteSet(S) /\ Cardinality(S) <= Cardinality(R)
      /\ IsFiniteSet(T) /\ Cardinality(T) <= Cardinality(R)
  BY FS_Subset
<1>2. Cardinality(S) \in Nat /\ Cardinality(T) \in Nat /\ Cardinality(R) \in Nat
  BY <1>1, FS_CardinalityType
<1>3. (c \in S <=> c \in T) => Cardinality(T) = Cardinality(S)
  <2>1. (c \in S <=> c \in T) => T = S
    OBVIOUS
  <2> QED
    BY <2>1
<1>4. ASSUME c \notin S, c \in T PROVE Cardinality(T) = Cardinality(S) + 1
  <2>1. T = S \cup {c}
    BY <1>4
  <2>2. Cardinality(S \cup {c}) = IF c \in S THEN Cardinality(S) ELSE Cardinality(S) + 1
    BY <1>1, FS_AddElement
  <2> QED
    BY <1>4, <2>1, <2>2
<1>5. ASSUME c \in S, c \notin T PROVE Cardinality(T) = Cardinality(S) - 1
  <2>1. T = S \ {c}
    BY <1>5
  <2>2. Cardinality(S \ {c}) = IF c \in S THEN Cardinality(S) - 1 ELSE Cardinality(S)
    BY <1>1, FS_RemoveElement
  <2> QED
    BY <1>5, <2>1, <2>2
<1> QED
  BY <1>1, <1>2, <1>3, <1>4, <1>5

LEMMA Times ==
    ASSUME NEW P \in Nat
    PROVE  /\ \A n \in Nat : n * P \in Nat /\ (n + 1) * P = n * P + P
           /\ \A n \in Nat : n # 0 => (n - 1) * P = n * P - P
           /\ \A m, n \in Nat : m <= n => m * P <= n * P
<1>1. \A n \in Nat : n * P \in Nat /\ (n + 1) * P = n * P + P
  OBVIOUS
<1>2. \A n \in Nat : n # 0 => (n - 1) * P = n * P - P
  OBVIOUS
<1>3. ASSUME NEW m \in Nat, NEW n \in Nat, m <= n PROVE m * P <= n * P
  <2>1. PICK k \in Nat : n = m + k
    <3>1. n - m \in Nat /\ n = m + (n - m)
      BY <1>3
    <3> QED
      BY <3>1
  <2>2. n * P = m * P + k * P /\ k * P \in Nat /\ m * P \in Nat
    BY <2>1
  <2> QED
    BY <2>2
<1> QED
  BY <1>1, <1>2, <1>3

LEMMA PurseBounds ==
    /\ Budget \in Nat /\ MaxPrice \in Nat /\ MaxPrice >= 1 /\ MaxAttempts \in Nat
    /\ IsFiniteSet(Runner) /\ IsFiniteSet(Task)
    /\ Cardinality(Runner) \in Nat /\ Cardinality(Runner) >= 1
    /\ Runner \subseteq Call
<1>1. IsFiniteSet(Runner) /\ Runner # {}
  BY SpendingAssumption
<1>2. Cardinality(Runner) \in Nat /\ Cardinality(Runner) # 0
  BY <1>1, FS_CardinalityType, FS_EmptySet
<1> QED
  BY <1>1, <1>2, SpendingAssumption

LEMMA FreeIs == Free \in RunShape /\ Free.at = "free" /\ Free.amount = 0
BY SpendingAssumption DEF Free, RunShape

\* What a run owes its workflow, may still cost it, and counts for p.
Owes(one) == IF one.at = "between" THEN one.amount ELSE 0
MayCost(one) ==
    IF one.at \in {"afforded", "routed", "handed", "between"} THEN MaxPrice ELSE 0
CountsFor(one, p) ==
    IF one.at \in {"handed", "between", "charged"} /\ one.label = p THEN 1 ELSE 0

LEMMA HalfMadeChanges ==
    ASSUME PurseTypeOK, NEW c \in Runner, NEW new \in RunShape,
           run' = [run EXCEPT ![c] = new]
    PROVE  /\ HalfMade \in Nat /\ HalfMade' \in Nat
           /\ HalfMade' - Owes(new) = HalfMade - Owes(run[c])
<1> DEFINE f == [d \in Runner |-> Owes(run[d])]
           g == [d \in Runner |-> Owes(run'[d])]
<1>1. HalfMade = SumFunction(f) /\ HalfMade' = SumFunction(g)
  BY DEF HalfMade, Owed, Owes
<1>2. /\ run \in [Runner -> RunShape] /\ run' \in [Runner -> RunShape]
      /\ run'[c] = new /\ \A d \in Runner \ {c} : run'[d] = run[d]
  BY DEF PurseTypeOK
<1>3. /\ \A d \in Runner : Owes(run[d]) \in Nat /\ Owes(run'[d]) \in Nat
  BY <1>2 DEF Owes, RunShape
<1>4. /\ DOMAIN f = Runner /\ DOMAIN g = Runner /\ Counts(f, Runner)
      /\ f[c] = Owes(run[c]) /\ g[c] = Owes(new) /\ g[c] \in Nat
      /\ \A d \in Runner \ {c} : f[d] = g[d]
  BY <1>2, <1>3 DEF Counts
<1> HIDE DEF f, g
<1>5. /\ SumFunction(f) \in Nat /\ SumFunction(g) \in Nat
      /\ SumFunction(g) - g[c] = SumFunction(f) - f[c]
  BY <1>4, PurseBounds, SumChange
<1> QED
  BY <1>1, <1>4, <1>5

LEMMA SpentSame ==
    ASSUME \A t \in Task : task'[t].spend = task[t].spend
    PROVE  Spent' = Spent
BY DEF Spent

LEMMA SpentChanges ==
    ASSUME PurseTypeOK, NEW t \in Task, NEW amount \in Nat,
           task' = [task EXCEPT ![t].spend = @ + amount]
    PROVE  /\ task' \in [Task -> TaskShape]
           /\ Spent' = Spent + amount
<1> DEFINE f == [u \in Task |-> task[u].spend]
           g == [u \in Task |-> task'[u].spend]
<1>1. /\ task \in [Task -> TaskShape] /\ task' \in [Task -> TaskShape]
      /\ task'[t].spend = task[t].spend + amount
      /\ \A u \in Task \ {t} : task'[u] = task[u]
  BY DEF PurseTypeOK, TaskShape
<1>2. \A u \in Task : task[u].spend \in Nat /\ task'[u].spend \in Nat
  BY <1>1 DEF TaskShape
<1>3. Spent = SumFunction(f) /\ Spent' = SumFunction(g)
  BY DEF Spent
<1>4. /\ DOMAIN f = Task /\ DOMAIN g = Task /\ Counts(f, Task)
      /\ f[t] \in Nat /\ g[t] = f[t] + amount /\ g[t] \in Nat
      /\ \A u \in Task \ {t} : f[u] = g[u]
  BY <1>1, <1>2 DEF Counts
<1> HIDE DEF f, g
<1>5. /\ SumFunction(f) \in Nat /\ SumFunction(g) \in Nat
      /\ SumFunction(g) - g[t] = SumFunction(f) - f[t]
  BY <1>4, PurseBounds, SumChange
<1> QED
  BY <1>1, <1>3, <1>4, <1>5

LEMMA SpentNat == PurseTypeOK => Spent \in Nat
<1> SUFFICES ASSUME PurseTypeOK PROVE Spent \in Nat
  OBVIOUS
<1> DEFINE f == [u \in Task |-> task[u].spend]
<1>1. Counts(f, Task) /\ DOMAIN f = Task
  BY DEF PurseTypeOK, TaskShape, Counts
<1> HIDE DEF f
<1>2. SumFunctionOnSet(f, DOMAIN f) \in Nat
  BY <1>1, PurseBounds, SumNat
<1> QED
  BY <1>2 DEF Spent, SumFunction, f

\* What a step of a run must see to: the types of what it touches, ...
Written(new) ==
    /\ new.at \in {"routed", "handed", "between", "charged"}
          => new.label \in Providers4
    /\ new.at = "between" => new.amount <= MaxPrice
    /\ task' \in [Task -> TaskShape]
    /\ flow' \in Nat
    /\ cut' = cut /\ adrift' \in Nat
    /\ measured' \in [Providers4 -> [runs : Nat, wins : Nat]]
    /\ handed' \in [Providers4 -> Nat]

\* ... that what it adds to the workflow it no longer may cost, ...
Promised(c, new) ==
    \/ flow' + MayCost(new) <= flow + MayCost(run[c])
    \/ flow' = flow /\ Affordable /\ MayCost(run[c]) = 0

\* ... that what it charges is owed, and that it counts once.
PaidFor(c, new) ==
    /\ Spent' = Spent + (flow' - flow) + (adrift' - adrift)
                  + Owes(new) - Owes(run[c])
    /\ \A p \in Providers4 :
          measured'[p].runs + CountsFor(new, p) + handed[p]
             <= measured[p].runs + CountsFor(run[c], p) + handed'[p]

\* A run goes on: the purse stays true if the run pays its own way.
LEMMA RunGoesOn ==
    ASSUME PurseInv, NEW c \in Runner, NEW new \in RunShape,
           run' = [run EXCEPT ![c] = new],
           Written(new), Promised(c, new), PaidFor(c, new)
    PROVE  PurseInv'
<1>0. /\ new.at \in {"routed", "handed", "between", "charged"}
             => new.label \in Providers4
      /\ new.at = "between" => new.amount <= MaxPrice
      /\ task' \in [Task -> TaskShape] /\ flow' \in Nat /\ cut' = cut /\ adrift' \in Nat
      /\ measured' \in [Providers4 -> [runs : Nat, wins : Nat]]
      /\ handed' \in [Providers4 -> Nat]
      /\ Spent' = Spent + (flow' - flow) + (adrift' - adrift)
                    + Owes(new) - Owes(run[c])
  BY DEF Written, PaidFor
<1>1. /\ run \in [Runner -> RunShape] /\ run' \in [Runner -> RunShape]
      /\ run'[c] = new /\ \A d \in Runner \ {c} : run'[d] = run[d]
      /\ flow \in Nat /\ cut \in Nat /\ adrift \in Nat
  BY DEF PurseInv, PurseTypeOK
<1>2. PurseTypeOK'
  BY <1>0, <1>1 DEF PurseInv, PurseTypeOK
<1>3. Labelled'
  BY <1>0, <1>1 DEF PurseInv, Labelled
<1>4. WithinPromise'
  <2> DEFINE n == Cardinality(Committed)
             m == Cardinality(Committed')
             all == Cardinality(Runner)
  <2>1. /\ Committed \in SUBSET Runner /\ Committed' \in SUBSET Runner
        /\ \A d \in Runner \ {c} : d \in Committed <=> d \in Committed'
        /\ c \in Committed <=> MayCost(run[c]) = MaxPrice
        /\ c \notin Committed <=> MayCost(run[c]) = 0
        /\ c \in Committed' <=> MayCost(new) = MaxPrice
        /\ c \notin Committed' <=> MayCost(new) = 0
    BY <1>1, PurseBounds DEF Committed, MayCost
  <2>2. /\ n \in Nat /\ m \in Nat /\ all \in Nat /\ n <= all /\ m <= all
        /\ (c \in Committed <=> c \in Committed') => m = n
        /\ c \notin Committed /\ c \in Committed' => m = n + 1
        /\ c \in Committed /\ c \notin Committed' => m = n - 1
    <3> DEFINE S == Committed
               T == Committed'
    <3>1. /\ IsFiniteSet(Runner) /\ S \in SUBSET Runner /\ T \in SUBSET Runner
          /\ \A d \in Runner \ {c} : d \in S <=> d \in T
      BY <2>1, PurseBounds
    <3> HIDE DEF S, T
    <3>2. /\ Cardinality(S) \in Nat /\ Cardinality(T) \in Nat /\ Cardinality(Runner) \in Nat
          /\ Cardinality(S) <= Cardinality(Runner) /\ Cardinality(T) <= Cardinality(Runner)
          /\ (c \in S <=> c \in T) => Cardinality(T) = Cardinality(S)
          /\ c \notin S /\ c \in T => Cardinality(T) = Cardinality(S) + 1
          /\ c \in S /\ c \notin T => Cardinality(T) = Cardinality(S) - 1
      BY <3>1, OneMoreOrLess
    <3> QED
      BY <3>2 DEF S, T
  <2>3. flow + n * MaxPrice <= Budget - Estimate + all * MaxPrice
    BY DEF PurseInv, WithinPromise
  <2> HIDE DEF n, m, all
  <2>4. /\ n * MaxPrice \in Nat /\ m * MaxPrice \in Nat /\ all * MaxPrice \in Nat
        /\ m * MaxPrice <= all * MaxPrice
        /\ m = n + 1 => m * MaxPrice = n * MaxPrice + MaxPrice
        /\ m = n - 1 => m * MaxPrice = n * MaxPrice - MaxPrice
    BY <2>2, PurseBounds, Times
  <2>5. flow' + m * MaxPrice <= Budget - Estimate + all * MaxPrice
    <3>1. CASE flow' + MayCost(new) <= flow + MayCost(run[c])
      <4>1. /\ MayCost(new) \in Nat /\ MayCost(run[c]) \in Nat
            /\ m * MaxPrice = n * MaxPrice + MayCost(new) - MayCost(run[c])
        <5>1. \/ MayCost(new) = MaxPrice /\ c \in Committed'
              \/ MayCost(new) = 0 /\ c \notin Committed'
          BY <2>1
        <5>2. \/ MayCost(run[c]) = MaxPrice /\ c \in Committed
              \/ MayCost(run[c]) = 0 /\ c \notin Committed
          BY <2>1
        <5>3. \/ m = n /\ MayCost(new) = MayCost(run[c])
              \/ m = n + 1 /\ MayCost(new) = MaxPrice /\ MayCost(run[c]) = 0
              \/ m = n - 1 /\ MayCost(new) = 0 /\ MayCost(run[c]) = MaxPrice
          BY <2>2, <5>1, <5>2
        <5>4. MayCost(new) \in Nat /\ MayCost(run[c]) \in Nat
          BY <5>1, <5>2, PurseBounds
        <5>5. CASE m = n /\ MayCost(new) = MayCost(run[c])
          <6>1. m * MaxPrice = n * MaxPrice
            BY <5>5
          <6> QED
            BY <2>4, <5>4, <5>5, <6>1
        <5>6. CASE m = n + 1 /\ MayCost(new) = MaxPrice /\ MayCost(run[c]) = 0
          BY <2>4, <5>4, <5>6, PurseBounds
        <5>7. CASE m = n - 1 /\ MayCost(new) = 0 /\ MayCost(run[c]) = MaxPrice
          BY <2>4, <5>4, <5>7, PurseBounds
        <5> QED
          BY <5>3, <5>4, <5>5, <5>6, <5>7
      <4> QED
        BY <1>0, <1>1, <2>3, <2>4, <3>1, <4>1, PurseBounds DEF Estimate
    <3>2. CASE flow' = flow /\ Affordable /\ MayCost(run[c]) = 0
      BY <1>0, <1>1, <2>4, <3>2, PurseBounds DEF Affordable, Estimate
    <3> QED
      BY <3>1, <3>2 DEF Promised
  <2> QED
    BY <2>5 DEF WithinPromise, m, all
<1>5. BooksBalance'
  <2>1. /\ HalfMade \in Nat /\ HalfMade' \in Nat
        /\ HalfMade' - Owes(new) = HalfMade - Owes(run[c])
    BY HalfMadeChanges DEF PurseInv
  <2>2. Spent \in Nat /\ Spent = flow + cut + adrift + HalfMade
    BY SpentNat DEF PurseInv, BooksBalance
  <2>3. Owes(new) \in Nat /\ Owes(run[c]) \in Nat
    BY <1>1 DEF Owes, RunShape
  <2>4. /\ Spent' = flow' + cut + adrift' + HalfMade + Owes(new) - Owes(run[c])
        /\ HalfMade' = HalfMade + Owes(new) - Owes(run[c])
    BY <1>0, <1>1, <2>1, <2>2, <2>3
  <2>5. Spent' = flow' + cut' + adrift' + HalfMade'
    BY <1>0, <1>1, <2>1, <2>3, <2>4
  <2> QED
    BY <2>5 DEF BooksBalance
<1>6. ASSUME NEW p \in Providers4
      PROVE  measured'[p].runs + Cardinality(Given(p)') <= handed'[p]
  <2> DEFINE S == Given(p)
             T == {d \in Runner : /\ run'[d].at \in {"handed", "between", "charged"}
                                  /\ run'[d].label = p}
  <2>1. T = Given(p)'
    BY DEF Given
  <2>2. /\ S \in SUBSET Runner /\ T \in SUBSET Runner
        /\ \A d \in Runner \ {c} : d \in S <=> d \in T
        /\ CountsFor(run[c], p) = IF c \in S THEN 1 ELSE 0
        /\ CountsFor(new, p) = IF c \in T THEN 1 ELSE 0
    BY <1>1 DEF Given, CountsFor
  <2>3. measured[p].runs + Cardinality(S) <= handed[p]
    BY DEF PurseInv, HeldToAccount
  <2> HIDE DEF S, T
  <2>4. /\ Cardinality(S) \in Nat /\ Cardinality(T) \in Nat
        /\ (c \in S <=> c \in T) => Cardinality(T) = Cardinality(S)
        /\ c \notin S /\ c \in T => Cardinality(T) = Cardinality(S) + 1
        /\ c \in S /\ c \notin T => Cardinality(T) = Cardinality(S) - 1
    BY <2>2, PurseBounds, OneMoreOrLess
  <2>5. Cardinality(T) = Cardinality(S) + CountsFor(new, p) - CountsFor(run[c], p)
    BY <2>2, <2>4
  <2>6. /\ measured[p].runs \in Nat /\ measured'[p].runs \in Nat
        /\ handed[p] \in Nat /\ handed'[p] \in Nat
        /\ CountsFor(new, p) \in Nat /\ CountsFor(run[c], p) \in Nat
    BY <1>0, <2>2 DEF PurseInv, PurseTypeOK
  <2>7. measured'[p].runs + CountsFor(new, p) + handed[p]
           <= measured[p].runs + CountsFor(run[c], p) + handed'[p]
    BY DEF PaidFor
  <2> QED
    BY <2>1, <2>3, <2>4, <2>5, <2>6, <2>7
<1>7. HeldToAccount'
  BY <1>6 DEF HeldToAccount
<1> QED
  BY <1>2, <1>3, <1>4, <1>5, <1>7 DEF PurseInv

LEMMA OnPurse ==
    ASSUME PurseInv, NEW c \in Runner
    PROVE  /\ run[c] \in RunShape /\ run[c].task \in Task /\ run[c].amount \in Nat
           /\ run[c].at \in {"free"} \cup Flights
           /\ run[c].label \in Providers4 \cup {Nobody}
           /\ run[c].at \in {"routed", "handed", "between", "charged"}
                 => run[c].label \in Providers4
           /\ run[c].at = "between" => run[c].amount <= MaxPrice
           /\ flow \in Nat /\ cut \in Nat /\ adrift \in Nat /\ Spent \in Nat
           /\ task \in [Task -> TaskShape]
           /\ measured \in [Providers4 -> [runs : Nat, wins : Nat]]
           /\ handed \in [Providers4 -> Nat]
           /\ \A p \in Providers4 : measured[p].runs \in Nat /\ handed[p] \in Nat
<1>1. PurseTypeOK /\ Labelled
  BY DEF PurseInv
<1>2. run[c] \in RunShape
  BY <1>1 DEF PurseTypeOK
<1>3. \A p \in Providers4 : measured[p].runs \in Nat /\ handed[p] \in Nat
  BY <1>1 DEF PurseTypeOK
<1> QED
  BY <1>1, <1>2, <1>3, SpentNat DEF PurseTypeOK, RunShape, Labelled

\* tasks.fail leaves what was spent.
LEMMA FailedIs ==
    ASSUME PurseInv, NEW t \in Task, NEW terminal, task' = Failed(t, terminal)
    PROVE  task' \in [Task -> TaskShape] /\ Spent' = Spent
<1>1. task \in [Task -> TaskShape]
  BY DEF PurseInv, PurseTypeOK
<1>2. /\ task' \in [Task -> TaskShape]
      /\ \A u \in Task : task'[u].spend = task[u].spend
  BY <1>1 DEF Failed, TaskShape
<1> QED
  BY <1>2, SpentSame

\* _measure counts a run against its model once it was handed over.
LEMMA MeasureIs ==
    ASSUME PurseInv, NEW c \in Runner, Measure(c, 0)
    PROVE  /\ measured' \in [Providers4 -> [runs : Nat, wins : Nat]]
           /\ \A p \in Providers4 :
                 measured'[p].runs <= measured[p].runs + CountsFor(run[c], p)
<1>1. CASE ~Attributed(c)
  <2>1. measured' = measured
    BY <1>1 DEF Measure
  <2> QED
    BY <2>1, OnPurse DEF CountsFor
<1>2. CASE Attributed(c)
  <2> DEFINE l == run[c].label
  <2>1. l \in Providers4
    BY <1>2, OnPurse DEF Attributed
  <2>2. measured' = [measured EXCEPT ![l].runs = @ + 1, ![l].wins = @ + 0]
    BY <1>2 DEF Measure
  <2>3. /\ measured' \in [Providers4 -> [runs : Nat, wins : Nat]]
        /\ measured'[l].runs = measured[l].runs + 1
        /\ \A p \in Providers4 \ {l} : measured'[p] = measured[p]
    BY <2>1, <2>2, OnPurse
  <2>4. CountsFor(run[c], l) = 1 /\ \A p \in Providers4 : CountsFor(run[c], p) \in Nat
    BY <1>2 DEF CountsFor, Attributed
  <2> QED
    BY <2>1, <2>3, <2>4, OnPurse
<1> QED
  BY <1>1, <1>2

LEMMA TakeKept ==
    ASSUME PurseInv, NEW c \in Runner, NEW t \in Task, Take(c, t)
    PROVE  PurseInv'
<1> DEFINE new == [Free EXCEPT !.at = "taken", !.task = t]
<1>1. /\ run[c].at = "free"
      /\ task' = [task EXCEPT ![t].status = "running", ![t].attempts = @ + 1]
      /\ run' = [run EXCEPT ![c] = new]
      /\ UNCHANGED <<flow, measured, handed, cut, adrift>>
  BY DEF Take
<1>2. new \in RunShape /\ new.at = "taken"
  BY FreeIs DEF RunShape, Flights
<1> HIDE DEF new
<1>3. /\ task' \in [Task -> TaskShape]
      /\ \A u \in Task : task'[u].spend = task[u].spend
  BY <1>1, OnPurse DEF TaskShape
<1>4. Spent' = Spent
  BY <1>3, SpentSame
<1>5. /\ Owes(new) = 0 /\ Owes(run[c]) = 0 /\ MayCost(new) = 0 /\ MayCost(run[c]) = 0
      /\ \A p \in Providers4 : CountsFor(new, p) = 0 /\ CountsFor(run[c], p) = 0
  BY <1>1, <1>2 DEF Owes, MayCost, CountsFor
<1>6. Written(new)
  BY <1>1, <1>2, <1>3, <1>4, <1>5, OnPurse DEF Written
<1>7. Promised(c, new)
  BY <1>1, <1>2, <1>3, <1>4, <1>5, OnPurse DEF Promised
<1>8. PaidFor(c, new)
  BY <1>1, <1>2, <1>3, <1>4, <1>5, OnPurse DEF PaidFor
<1> QED
  BY <1>1, <1>2, <1>3, <1>4, <1>5, <1>6, <1>7, <1>8, RunGoesOn

LEMMA AffordKept ==
    ASSUME PurseInv, NEW c \in Runner, Afford(c)
    PROVE  PurseInv'
<1> DEFINE new == [run[c] EXCEPT !.at = "afforded"]
<1>1. /\ run[c].at = "taken" /\ Affordable
      /\ run' = [run EXCEPT ![c] = new]
      /\ UNCHANGED <<task, flow, measured, handed, cut, adrift>>
  BY DEF Afford
<1>2. new \in RunShape /\ new.at = "afforded"
  BY OnPurse DEF RunShape, Flights
<1> HIDE DEF new
<1>3. Spent' = Spent
  BY <1>1, SpentSame
<1>4. /\ Owes(new) = 0 /\ Owes(run[c]) = 0 /\ MayCost(run[c]) = 0
      /\ \A p \in Providers4 : CountsFor(new, p) = 0 /\ CountsFor(run[c], p) = 0
  BY <1>1, <1>2 DEF Owes, MayCost, CountsFor
<1>5. Written(new)
  BY <1>1, <1>2, <1>3, <1>4, OnPurse DEF Written
<1>6. Promised(c, new)
  BY <1>1, <1>2, <1>3, <1>4, OnPurse DEF Promised
<1>7. PaidFor(c, new)
  BY <1>1, <1>2, <1>3, <1>4, OnPurse DEF PaidFor
<1> QED
  BY <1>1, <1>2, <1>3, <1>4, <1>5, <1>6, <1>7, RunGoesOn

LEMMA RouteKept ==
    ASSUME PurseInv, NEW c \in Runner, Route(c)
    PROVE  PurseInv'
<1> DEFINE label == ModelFor(Chosen(run[c].task, Budget - flow))
           new == [run[c] EXCEPT !.at = "routed", !.label = label]
<1>1. label \in Providers4
  BY RealIs DEF ModelFor, Providers4
<1> HIDE DEF label
<1>2. /\ run[c].at = "afforded"
      /\ run' = [run EXCEPT ![c] = new]
      /\ UNCHANGED <<task, flow, measured, handed, cut, adrift>>
  BY DEF Route, label
<1>3. new \in RunShape /\ new.at = "routed" /\ new.label = label
  BY <1>1, OnPurse DEF RunShape, Flights
<1> HIDE DEF new
<1>4. Spent' = Spent
  BY <1>2, SpentSame
<1>5. /\ Owes(new) = 0 /\ Owes(run[c]) = 0
      /\ MayCost(new) = MaxPrice /\ MayCost(run[c]) = MaxPrice
      /\ \A p \in Providers4 : CountsFor(new, p) = 0 /\ CountsFor(run[c], p) = 0
  BY <1>2, <1>3 DEF Owes, MayCost, CountsFor
<1>6. Written(new)
  BY <1>1, <1>2, <1>3, <1>4, <1>5, OnPurse, PurseBounds DEF Written
<1>7. Promised(c, new)
  BY <1>1, <1>2, <1>3, <1>4, <1>5, OnPurse, PurseBounds DEF Promised
<1>8. PaidFor(c, new)
  BY <1>1, <1>2, <1>3, <1>4, <1>5, OnPurse, PurseBounds DEF PaidFor
<1> QED
  BY <1>1, <1>2, <1>3, <1>4, <1>5, <1>6, <1>7, <1>8, RunGoesOn

LEMMA HandKept ==
    ASSUME PurseInv, NEW c \in Runner, Hand(c)
    PROVE  PurseInv'
<1> DEFINE l == run[c].label
           new == [run[c] EXCEPT !.at = "handed"]
<1>1. /\ run[c].at = "routed"
      /\ run' = [run EXCEPT ![c] = new]
      /\ handed' = [handed EXCEPT ![l] = @ + 1]
      /\ UNCHANGED <<task, flow, measured, cut, adrift>>
  BY DEF Hand
<1>2. l \in Providers4 /\ new \in RunShape /\ new.at = "handed" /\ new.label = l
  BY <1>1, OnPurse DEF RunShape, Flights
<1> HIDE DEF new
<1>3. Spent' = Spent
  BY <1>1, SpentSame
<1>4. /\ Owes(new) = 0 /\ Owes(run[c]) = 0
      /\ MayCost(new) = MaxPrice /\ MayCost(run[c]) = MaxPrice
      /\ CountsFor(new, l) = 1
      /\ \A p \in Providers4 \ {l} : CountsFor(new, p) = 0
      /\ \A p \in Providers4 : CountsFor(run[c], p) = 0
  BY <1>1, <1>2 DEF Owes, MayCost, CountsFor
<1>5. /\ handed' \in [Providers4 -> Nat] /\ handed'[l] = handed[l] + 1
      /\ \A p \in Providers4 \ {l} : handed'[p] = handed[p]
  BY <1>1, <1>2, OnPurse
<1>6. \A p \in Providers4 :
         measured'[p].runs + CountsFor(new, p) + handed[p]
            <= measured[p].runs + CountsFor(run[c], p) + handed'[p]
  BY <1>1, <1>2, <1>4, <1>5, OnPurse
<1>7. Written(new)
  BY <1>1, <1>2, <1>3, <1>4, <1>5, <1>6, OnPurse, PurseBounds DEF Written
<1>8. Promised(c, new)
  BY <1>1, <1>2, <1>3, <1>4, <1>5, <1>6, OnPurse, PurseBounds DEF Promised
<1>9. PaidFor(c, new)
  BY <1>1, <1>2, <1>3, <1>4, <1>5, <1>6, OnPurse, PurseBounds DEF PaidFor
<1> QED
  BY <1>1, <1>2, <1>3, <1>4, <1>5, <1>6, <1>7, <1>8, <1>9, RunGoesOn

LEMMA GivenUp ==
    ASSUME PurseInv, NEW c \in Runner,
           run[c].at \in Flights,
           task' \in {Failed(run[c].task, TRUE), Failed(run[c].task, FALSE)},
           Measure(c, 0),
           adrift' = adrift + Owed(c),
           run' = [run EXCEPT ![c] = Free], UNCHANGED <<flow, handed, cut>>
    PROVE  PurseInv'
<1>1. task' \in [Task -> TaskShape] /\ Spent' = Spent
  BY FailedIs, OnPurse
<1>2. /\ measured' \in [Providers4 -> [runs : Nat, wins : Nat]]
      /\ \A p \in Providers4 :
            measured'[p].runs <= measured[p].runs + CountsFor(run[c], p)
  BY MeasureIs
<1>3. /\ Owes(Free) = 0 /\ Owes(run[c]) \in Nat
      /\ adrift' = adrift + Owes(run[c]) /\ adrift' \in Nat
      /\ MayCost(Free) = 0 /\ MayCost(run[c]) \in Nat
      /\ \A p \in Providers4 : CountsFor(Free, p) = 0 /\ CountsFor(run[c], p) \in Nat
  BY FreeIs, OnPurse, PurseBounds DEF Owes, Owed, MayCost, CountsFor
<1>4. \A p \in Providers4 :
         measured'[p].runs + CountsFor(Free, p) + handed[p]
            <= measured[p].runs + CountsFor(run[c], p) + handed'[p]
  BY <1>2, <1>3, OnPurse
<1>5. Written(Free)
  BY <1>1, <1>2, <1>3, <1>4, OnPurse, FreeIs DEF Written
<1>6. Promised(c, Free)
  BY <1>1, <1>2, <1>3, <1>4, OnPurse, FreeIs DEF Promised
<1>7. PaidFor(c, Free)
  BY <1>1, <1>2, <1>3, <1>4, OnPurse, FreeIs DEF PaidFor
<1> QED
  BY <1>1, <1>2, <1>3, <1>4, <1>5, <1>6, <1>7, FreeIs, RunGoesOn

LEMMA ChargeTaskKept ==
    ASSUME PurseInv, NEW c \in Runner, ChargeTask(c)
    PROVE  PurseInv'
<1>1. /\ run[c].at = "handed"
      /\ UNCHANGED <<flow, measured, handed, cut, adrift>>
  BY DEF ChargeTask
<1>2. PICK amount \in Prices(run[c].label) :
         /\ task' = [task EXCEPT ![run[c].task].spend = @ + amount]
         /\ run' = [run EXCEPT ![c].amount = amount,
                               ![c].at = IF amount = 0 THEN "charged" ELSE "between"]
  BY DEF ChargeTask
<1>3. amount \in Nat /\ amount <= MaxPrice
  BY PurseBounds DEF Prices
<1> DEFINE at == IF amount = 0 THEN "charged" ELSE "between"
           new == [run[c] EXCEPT !.amount = amount, !.at = at]
<1>4. run' = [run EXCEPT ![c] = new]
  BY <1>2, OnPurse DEF PurseInv, PurseTypeOK
<1>5. /\ new \in RunShape /\ new.at = at /\ new.amount = amount
      /\ new.label = run[c].label /\ run[c].label \in Providers4
  BY <1>1, <1>3, OnPurse DEF RunShape, Flights
<1> HIDE DEF new
<1>6. task' \in [Task -> TaskShape] /\ Spent' = Spent + amount
  BY <1>2, <1>3, OnPurse, SpentChanges DEF PurseInv
<1>7. /\ Owes(new) = amount /\ Owes(run[c]) = 0
      /\ MayCost(new) \in {0, MaxPrice} /\ MayCost(run[c]) = MaxPrice
      /\ \A p \in Providers4 : /\ CountsFor(new, p) = CountsFor(run[c], p)
                               /\ CountsFor(new, p) \in Nat
  BY <1>1, <1>3, <1>5 DEF Owes, MayCost, CountsFor
<1>8. Written(new)
  BY <1>1, <1>3, <1>4, <1>5, <1>6, <1>7, OnPurse, PurseBounds DEF Written
<1>9. Promised(c, new)
  BY <1>1, <1>3, <1>4, <1>5, <1>6, <1>7, OnPurse, PurseBounds DEF Promised
<1>10. PaidFor(c, new)
  BY <1>1, <1>3, <1>4, <1>5, <1>6, <1>7, OnPurse, PurseBounds DEF PaidFor
<1> QED
  BY <1>1, <1>3, <1>4, <1>5, <1>6, <1>7, <1>8, <1>9, <1>10, RunGoesOn

LEMMA ChargeFlowKept ==
    ASSUME PurseInv, NEW c \in Runner, ChargeFlow(c)
    PROVE  PurseInv'
<1> DEFINE new == [run[c] EXCEPT !.at = "charged", !.amount = 0]
<1>1. /\ run[c].at = "between" /\ flow' = flow + run[c].amount
      /\ run' = [run EXCEPT ![c].at = "charged", ![c].amount = 0]
      /\ UNCHANGED <<task, measured, handed, cut, adrift>>
  BY DEF ChargeFlow
<1>2. run' = [run EXCEPT ![c] = new]
  BY <1>1, OnPurse DEF PurseInv, PurseTypeOK
<1>3. /\ new \in RunShape /\ new.at = "charged" /\ new.amount = 0
      /\ new.label = run[c].label /\ run[c].label \in Providers4
  BY <1>1, OnPurse DEF RunShape, Flights
<1> HIDE DEF new
<1>4. Spent' = Spent
  BY <1>1, SpentSame
<1>5. /\ Owes(new) = 0 /\ Owes(run[c]) = run[c].amount
      /\ MayCost(new) = 0 /\ MayCost(run[c]) = MaxPrice
      /\ \A p \in Providers4 : /\ CountsFor(new, p) = CountsFor(run[c], p)
                               /\ CountsFor(new, p) \in Nat
  BY <1>1, <1>3 DEF Owes, MayCost, CountsFor
<1>6. flow' \in Nat /\ run[c].amount \in Nat /\ run[c].amount <= MaxPrice
  BY <1>1, OnPurse
<1>7. Written(new)
  BY <1>1, <1>2, <1>3, <1>4, <1>5, <1>6, OnPurse, PurseBounds DEF Written
<1>8. Promised(c, new)
  BY <1>1, <1>2, <1>3, <1>4, <1>5, <1>6, OnPurse, PurseBounds DEF Promised
<1>9. PaidFor(c, new)
  BY <1>1, <1>2, <1>3, <1>4, <1>5, <1>6, OnPurse, PurseBounds DEF PaidFor
<1> QED
  BY <1>1, <1>2, <1>3, <1>4, <1>5, <1>6, <1>7, <1>8, <1>9, RunGoesOn

LEMMA CompleteKept ==
    ASSUME PurseInv, NEW c \in Runner, Complete(c)
    PROVE  PurseInv'
<1> DEFINE l == run[c].label
<1>1. /\ run[c].at = "charged"
      /\ task' = [task EXCEPT ![run[c].task].status = "completed"]
      /\ measured' = [measured EXCEPT ![l] = [runs |-> @.runs + 1, wins |-> @.wins + 1]]
      /\ run' = [run EXCEPT ![c] = Free]
      /\ UNCHANGED <<flow, handed, cut, adrift>>
  BY DEF Complete
<1>2. l \in Providers4
  BY <1>1, OnPurse
<1>3. /\ measured' \in [Providers4 -> [runs : Nat, wins : Nat]]
      /\ measured'[l].runs = measured[l].runs + 1
      /\ \A p \in Providers4 \ {l} : measured'[p] = measured[p]
  BY <1>1, <1>2, OnPurse
<1>4. /\ task' \in [Task -> TaskShape]
      /\ \A u \in Task : task'[u].spend = task[u].spend
  BY <1>1, OnPurse DEF TaskShape
<1>5. Spent' = Spent
  BY <1>4, SpentSame
<1>6. /\ Owes(Free) = 0 /\ Owes(run[c]) = 0 /\ MayCost(Free) = 0 /\ MayCost(run[c]) = 0
      /\ CountsFor(run[c], l) = 1
      /\ \A p \in Providers4 : CountsFor(Free, p) = 0 /\ CountsFor(run[c], p) \in Nat
  BY <1>1, FreeIs DEF Owes, MayCost, CountsFor
<1>7. \A p \in Providers4 :
         measured'[p].runs + CountsFor(Free, p) + handed[p]
            <= measured[p].runs + CountsFor(run[c], p) + handed'[p]
  BY <1>1, <1>2, <1>3, <1>6, OnPurse
<1>8. Written(Free)
  BY <1>1, <1>3, <1>4, <1>5, <1>6, <1>7, OnPurse, FreeIs DEF Written
<1>9. Promised(c, Free)
  BY <1>1, <1>3, <1>4, <1>5, <1>6, <1>7, OnPurse, FreeIs DEF Promised
<1>10. PaidFor(c, Free)
  BY <1>1, <1>3, <1>4, <1>5, <1>6, <1>7, OnPurse, FreeIs DEF PaidFor
<1> QED
  BY <1>1, <1>3, <1>4, <1>5, <1>6, <1>7, <1>8, <1>9, <1>10, FreeIs, RunGoesOn

\* The purse itself is left alone, but for a task's status.
LEMMA PurseAside ==
    ASSUME PurseInv, task' \in [Task -> TaskShape], Spent' = Spent,
           UNCHANGED <<flow, run, measured, handed, cut, adrift>>
    PROVE  PurseInv'
<1>1. PurseTypeOK' /\ Labelled'
  BY DEF PurseInv, PurseTypeOK, Labelled
<1>2. Committed' = Committed /\ HalfMade' = HalfMade
  BY DEF Committed, HalfMade, Owed
<1>3. \A p : Given(p)' = Given(p)
  BY DEF Given
<1>4. WithinPromise' /\ BooksBalance'
  BY <1>2 DEF PurseInv, WithinPromise, BooksBalance
<1>5. HeldToAccount'
  BY <1>3 DEF PurseInv, HeldToAccount
<1> QED
  BY <1>1, <1>4, <1>5 DEF PurseInv

\* What was half made is cut; nobody is at work any more.
LEMMA CrashKept ==
    ASSUME PurseInv, NEW r \in Request, NEW i \in Process, Crash(r, i)
    PROVE  PurseInv'
<1>1. /\ run' = [c \in Runner |-> Free] /\ cut' = cut + HalfMade
      /\ UNCHANGED <<task, flow, measured, handed, adrift>>
  BY DEF Crash
<1>2. /\ flow \in Nat /\ cut \in Nat /\ adrift \in Nat /\ HalfMade \in Nat /\ Spent \in Nat
      /\ HalfMade' = 0 /\ Spent' = Spent
  <2>1. HalfMade \in Nat
    <3> DEFINE f == [c \in Runner |-> Owed(c)]
    <3>1. Counts(f, Runner) /\ DOMAIN f = Runner
      BY OnPurse DEF Counts, Owed
    <3> HIDE DEF f
    <3>2. SumFunctionOnSet(f, DOMAIN f) \in Nat
      BY <3>1, PurseBounds, SumNat
    <3> QED
      BY <3>2 DEF HalfMade, SumFunction, f
  <2>2. HalfMade' = 0
    <3> DEFINE g == [c \in Runner |-> Owed(c)']
    <3>1. DOMAIN g = Runner /\ \A c \in Runner : g[c] = 0
      BY <1>1, FreeIs DEF Owed
    <3> HIDE DEF g
    <3>2. SumFunction(g) = 0
      BY <3>1, PurseBounds, SumZero
    <3> QED
      BY <3>2 DEF HalfMade, g
  <2>3. Spent' = Spent
    BY <1>1, SpentSame
  <2> QED
    BY <2>1, <2>2, <2>3, SpentNat DEF PurseInv, PurseTypeOK
<1>3. PurseTypeOK' /\ Labelled'
  BY <1>1, <1>2, FreeIs DEF PurseInv, PurseTypeOK, Labelled
<1>4. WithinPromise'
  <2>1. Committed' = {}
    BY <1>1, FreeIs DEF Committed
  <2>2. Cardinality(Committed') = 0 /\ Cardinality({}) = 0
    BY <2>1, FS_EmptySet
  <2> DEFINE n == Cardinality(Committed)
             all == Cardinality(Runner)
  <2>3. n \in Nat /\ all \in Nat /\ flow + n * MaxPrice <= Budget - Estimate + all * MaxPrice
    <3>1. Committed \in SUBSET Runner
      BY DEF Committed
    <3>2. IsFiniteSet(Committed)
      BY <3>1, PurseBounds, FS_Subset
    <3> QED
      BY <3>2, FS_CardinalityType, PurseBounds DEF PurseInv, WithinPromise
  <2> HIDE DEF n, all
  <2>4. n * MaxPrice \in Nat /\ all * MaxPrice \in Nat /\ 0 * MaxPrice = 0
    BY <2>3, PurseBounds, Times
  <2>5. flow + 0 * MaxPrice <= Budget - Estimate + all * MaxPrice
    BY <1>2, <2>3, <2>4, PurseBounds DEF Estimate
  <2> QED
    BY <1>1, <2>2, <2>5 DEF WithinPromise, all
<1>5. BooksBalance'
  BY <1>1, <1>2 DEF PurseInv, BooksBalance
<1>6. HeldToAccount'
  <2>1. ASSUME NEW p \in Providers4
        PROVE  measured'[p].runs + Cardinality(Given(p)') <= handed'[p]
    <3>1. Given(p)' = {}
      BY <1>1, FreeIs DEF Given
    <3>2. Cardinality(Given(p)') = 0
      BY <3>1, FS_EmptySet
    <3>3. IsFiniteSet(Given(p))
      <4>1. Given(p) \in SUBSET Runner
        BY DEF Given
      <4> QED
        BY <4>1, PurseBounds, FS_Subset
    <3>4. Cardinality(Given(p)) \in Nat /\ measured[p].runs \in Nat /\ handed[p] \in Nat
      BY <3>3, FS_CardinalityType DEF PurseInv, PurseTypeOK
    <3>5. measured[p].runs + Cardinality(Given(p)) <= handed[p]
      BY DEF PurseInv, HeldToAccount
    <3> QED
      BY <1>1, <3>2, <3>4, <3>5
  <2> QED
    BY <2>1 DEF HeldToAccount
<1> QED
  BY <1>3, <1>4, <1>5, <1>6 DEF PurseInv

LEMMA RecoverKept ==
    ASSUME PurseInv, NEW t \in Task, Recover(t)
    PROVE  PurseInv'
<1>1. task' = Failed(t, FALSE) /\ UNCHANGED <<flow, run, measured, handed, cut, adrift>>
  BY DEF Recover
<1>2. task' \in [Task -> TaskShape] /\ Spent' = Spent
  BY <1>1, FailedIs
<1> QED
  BY <1>1, <1>2, PurseAside

LEMMA PurseStart == SpendingInit => PurseInv
<1> SUFFICES ASSUME SpendingInit PROVE PurseInv
  OBVIOUS
<1>1. /\ task = [t \in Task |-> [status |-> "queued", attempts |-> 0, spend |-> 0]]
      /\ flow = 0 /\ run = [c \in Runner |-> Free] /\ cut = 0
      /\ adrift = 0
      /\ measured = [p \in Providers4 |-> [runs |-> 0, wins |-> 0]]
      /\ handed = [p \in Providers4 |-> 0]
  BY RealIs DEF SpendingInit
<1>2. PurseTypeOK
  BY <1>1, FreeIs DEF PurseTypeOK, TaskShape
<1>3. Labelled
  BY <1>1, FreeIs DEF Labelled
<1>4. WithinPromise
  <2>1. Committed = {}
    BY <1>1, FreeIs DEF Committed
  <2>2. Cardinality(Committed) = 0
    BY <2>1, FS_EmptySet
  <2> DEFINE all == Cardinality(Runner)
  <2>3. all \in Nat /\ 1 <= all
    BY PurseBounds
  <2> HIDE DEF all
  <2>4. /\ 1 * MaxPrice <= all * MaxPrice /\ all * MaxPrice \in Nat
        /\ 0 * MaxPrice = 0 /\ 1 * MaxPrice = MaxPrice
    BY <2>3, PurseBounds, Times
  <2>5. 0 + 0 * MaxPrice <= Budget - Estimate + all * MaxPrice
    BY <2>4, PurseBounds DEF Estimate
  <2> QED
    BY <1>1, <2>2, <2>5 DEF WithinPromise, all
<1>5. BooksBalance
  <2> DEFINE f == [c \in Runner |-> Owed(c)]
             g == [t \in Task |-> task[t].spend]
  <2>1. /\ DOMAIN f = Runner /\ \A c \in Runner : f[c] = 0
        /\ DOMAIN g = Task /\ \A t \in Task : g[t] = 0
    BY <1>1, FreeIs DEF Owed
  <2> HIDE DEF f, g
  <2>2. SumFunction(f) = 0 /\ SumFunction(g) = 0
    BY <2>1, PurseBounds, SumZero
  <2> QED
    BY <1>1, <2>2 DEF BooksBalance, Spent, HalfMade, f, g
<1>6. HeldToAccount
  <2>1. \A p \in Providers4 : Given(p) = {}
    BY <1>1, FreeIs DEF Given
  <2>2. Cardinality({}) = 0
    BY FS_EmptySet
  <2>3. \A p \in Providers4 : Cardinality(Given(p)) = 0 /\ measured[p].runs = 0 /\ handed[p] = 0
    BY <1>1, <2>1, <2>2
  <2> QED
    BY <2>3 DEF HeldToAccount
<1> QED
  BY <1>2, <1>3, <1>4, <1>5, <1>6 DEF PurseInv

LEMMA PurseStep ==
    ASSUME PurseInv, [SpendingNext]_allvars
    PROVE  PurseInv'
<1>1. ASSUME NEW c \in Runner, Step(c) PROVE PurseInv'
  <2>1. CASE Refuse(c)
    <3>1. /\ run[c].at \in Flights
          /\ task' \in {Failed(run[c].task, TRUE), Failed(run[c].task, FALSE)}
          /\ Measure(c, 0) /\ adrift' = adrift + Owed(c)
          /\ run' = [run EXCEPT ![c] = Free] /\ UNCHANGED <<flow, handed, cut>>
      <4>1. /\ run[c].at \in {"taken", "routed"} /\ Owed(c) = 0
            /\ adrift' = adrift
        BY <2>1 DEF Refuse, Owed
      <4>2. adrift' = adrift + Owed(c)
        BY <4>1, OnPurse
      <4> QED
        BY <2>1, <4>1, <4>2 DEF Refuse, Flights
    <3> QED
      BY <3>1, GivenUp
  <2>2. CASE Fail(c)
    <3>1. /\ run[c].at \in Flights
          /\ task' \in {Failed(run[c].task, TRUE), Failed(run[c].task, FALSE)}
          /\ Measure(c, 0) /\ adrift' = adrift + Owed(c)
          /\ run' = [run EXCEPT ![c] = Free] /\ UNCHANGED <<flow, handed, cut>>
      BY <2>2 DEF Fail, Flights
    <3> QED
      BY <3>1, GivenUp
  <2> QED
    BY <1>1, <2>1, <2>2, TakeKept, AffordKept, RouteKept, HandKept, ChargeTaskKept,
       ChargeFlowKept, CompleteKept DEF Step
<1>2. CASE UNCHANGED purse
  <2>1. task \in [Task -> TaskShape] /\ task' = task
    BY <1>2 DEF purse, PurseInv, PurseTypeOK
  <2> QED
    BY <1>2, <2>1, PurseAside, SpentSame DEF purse
<1>3. CASE UNCHANGED allvars
  BY <1>2, <1>3 DEF allvars
<1> QED
  BY <1>1, <1>2, <1>3, RecoverKept, CrashKept DEF SpendingNext

LEMMA PurseWell == PurseInv => OverspendBounded /\ BooksAreTrue
<1> SUFFICES ASSUME PurseInv PROVE OverspendBounded /\ BooksAreTrue
  OBVIOUS
<1>1. PurseTypeOK /\ WithinPromise /\ BooksBalance /\ HeldToAccount
  BY DEF PurseInv
<1>2. OverspendBounded
  <2> DEFINE n == Cardinality(Committed)
             all == Cardinality(Runner)
  <2>1. Committed \in SUBSET Runner
    BY DEF Committed
  <2>2. IsFiniteSet(Committed)
    BY <2>1, PurseBounds, FS_Subset
  <2>3. n \in Nat /\ all \in Nat /\ flow + n * MaxPrice <= Budget - Estimate + all * MaxPrice
    BY <1>1, <2>2, FS_CardinalityType, PurseBounds DEF WithinPromise
  <2> HIDE DEF n, all
  <2>4. n * MaxPrice \in Nat /\ all * MaxPrice \in Nat
    BY <2>3, PurseBounds, Times
  <2>5. flow \in Nat
    BY <1>1 DEF PurseTypeOK
  <2>6. flow <= Budget - Estimate + all * MaxPrice
    BY <2>3, <2>4, <2>5, PurseBounds DEF Estimate
  <2> QED
    BY <2>6 DEF OverspendBounded, all
<1>3. BooksAreTrue
  <2>1. ASSUME NEW p \in Providers4 PROVE measured[p].runs <= handed[p]
    <3>1. Given(p) \in SUBSET Runner
      BY DEF Given
    <3>2. IsFiniteSet(Given(p))
      BY <3>1, PurseBounds, FS_Subset
    <3>3. Cardinality(Given(p)) \in Nat /\ measured[p].runs \in Nat /\ handed[p] \in Nat
      BY <1>1, <3>2, FS_CardinalityType DEF PurseTypeOK
    <3> QED
      BY <1>1, <3>3 DEF HeldToAccount
  <2> QED
    BY <1>1, <2>1, RealIs DEF BooksAreTrue, BooksBalance, Spent
<1> QED
  BY <1>2, <1>3

\* The inductive invariant of the money: each run that was let through may
\* still cost MaxPrice, and what is spent and promised together stays within
\* the bound; a run that was given a model and is not measured yet keeps its
\* place in that model's count.
THEOREM PurseInvariant == SpendingSpec => []PurseInv
<1>1. SpendingInit => PurseInv
  BY PurseStart
<1>2. PurseInv /\ [SpendingNext]_allvars => PurseInv'
  BY PurseStep
<1> QED
  BY <1>1, <1>2, PTL DEF SpendingSpec

\* cost.affordable is asked by each step for itself, before it spends: a
\* workflow goes over its budget by no more than its concurrent runs cost,
\* however many tasks, attempts and crashes there are.
THEOREM OverspendIsBounded == SpendingSpec => []OverspendBounded
BY PurseInvariant, PurseWell, PTL

\* cost.charge writes a task's share and then the workflow's: they differ by
\* no more than what is between the two, was cut there by a crash, or is adrift
\* because the second statement failed, which sends the task to a retry.  And
\* _measure counts no run against a model that was not given it.
THEOREM BooksStayTrue == SpendingSpec => []BooksAreTrue
BY PurseInvariant, PurseWell, PTL
=============================================================================
