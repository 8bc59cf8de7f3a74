----------------------------- MODULE RouterProofs -----------------------------
(***************************************************************************)
(* What holds of the router for any number of calls, emails, models,       *)
(* slots, any cap and any changes of the files: the snapshot of the        *)
(* policy, the slots and the lock, the degraded mode, the one-shot model,  *)
(* the yes behind every sensitive email shown, the evidence behind every   *)
(* opening, and the money that was charged.                                *)
(***************************************************************************)
EXTENDS Router, TLAPS, FiniteSetTheorems, SequenceTheorems, WellFoundedInduction
-----------------------------------------------------------------------------
(* Sums over a finite set, by induction over its subsets. *)

\* A sum over a set, one chosen element at a time.
IsTotal(f, S, g) ==
    g = [s \in SUBSET S |->
            IF s = {} THEN 0 ELSE LET x == CHOOSE x \in s : TRUE IN f[x] + g[s \ {x}]]

Total(f, S) == (CHOOSE g : IsTotal(f, S, g))[S]

\* Among the subsets of a finite set that something holds of, one is minimal.
LEMMA MinimalSubset ==
    ASSUME NEW S, IsFiniteSet(S), NEW B, B \subseteq SUBSET S, B # {}
    PROVE  \E s \in B : \A t \in B : t \subseteq s => t = s
  <1>1. FiniteSubsetsOf(S) = SUBSET S
    BY FS_FiniteSubsetsOfFinite
  <1>2. IsWellFoundedOn(StrictSubsetOrdering(S), SUBSET S)
    BY <1>1, FS_StrictSubsetOrderingWellFounded
  <1>3. PICK s \in B : \A t \in B : ~(<<t, s>> \in StrictSubsetOrdering(S))
    BY <1>2, WFMin
  <1>4. ASSUME NEW t \in B, t \subseteq s PROVE t = s
    BY <1>3, <1>4 DEF StrictSubsetOrdering
  <1> QED BY <1>3, <1>4

\* Two sums agree on the sets they both have.
LEMMA TotalUnique ==
    ASSUME NEW f, NEW S, IsFiniteSet(S), NEW T \in SUBSET S, NEW g, NEW h,
           IsTotal(f, S, g), IsTotal(f, T, h)
    PROVE  \A s \in SUBSET T : g[s] = h[s]
  <1> DEFINE B == {s \in SUBSET T : g[s] # h[s]}
  <1> SUFFICES ASSUME B # {} PROVE FALSE
    OBVIOUS
  <1>0. B \subseteq SUBSET S
    OBVIOUS
  <1>1. PICK s \in B : \A t \in B : t \subseteq s => t = s
    <2> HIDE DEF B
    <2> QED BY <1>0, MinimalSubset
  <1>2. CASE s = {}
    BY <1>1, <1>2 DEF IsTotal
  <1>3. CASE s # {}
    <2>1. PICK x \in s : x = CHOOSE y \in s : TRUE
      BY <1>3
    <2>2. g[s] = f[x] + g[s \ {x}] /\ h[s] = f[x] + h[s \ {x}]
      BY <1>1, <1>3, <2>1 DEF IsTotal
    <2>3. s \ {x} \notin B /\ s \ {x} \in SUBSET T
      BY <1>1, <2>1
    <2>4. g[s \ {x}] = h[s \ {x}]
      BY <2>3
    <2> QED BY <1>1, <2>2, <2>4
  <1> QED BY <1>2, <1>3

\* There is such a sum for every finite set.
LEMMA TotalExists ==
    ASSUME NEW f, NEW S, IsFiniteSet(S)
    PROVE  \A T \in SUBSET S : \E g : IsTotal(f, T, g)
  <1> DEFINE B == {T \in SUBSET S : ~ \E g : IsTotal(f, T, g)}
  <1> SUFFICES ASSUME B # {} PROVE FALSE
    OBVIOUS
  <1>0. B \subseteq SUBSET S
    OBVIOUS
  <1>1. PICK T \in B : \A t \in B : t \subseteq T => t = T
    <2> HIDE DEF B
    <2> QED BY <1>0, MinimalSubset
  <1> DEFINE H(s) == CHOOSE g : IsTotal(f, s, g)
             G == [s \in SUBSET T |-> IF s = {} THEN 0
                                      ELSE LET x == CHOOSE x \in s : TRUE
                                           IN  f[x] + H(s \ {x})[s \ {x}]]
  <1>2. \A s \in SUBSET T : s # T => IsTotal(f, s, H(s))
    BY <1>1
  <1>3. ASSUME NEW s \in SUBSET T, s # T PROVE G[s] = H(s)[s]
    <2>1. CASE s = {}
      <3>1. PICK h : h = H(s)
        OBVIOUS
      <3>2. IsTotal(f, s, h) /\ G[s] = 0
        BY <1>2, <1>3, <2>1, <3>1
      <3> HIDE DEF H, G
      <3>3. h[s] = 0
        BY <2>1, <3>2 DEF IsTotal
      <3> QED BY <3>1, <3>2, <3>3
    <2>2. CASE s # {}
      <3>1. PICK x \in s : x = CHOOSE y \in s : TRUE
        BY <2>2
      <3>2. G[s] = f[x] + H(s \ {x})[s \ {x}]
        BY <2>2, <3>1
      <3>3. IsTotal(f, s, H(s)) /\ IsTotal(f, s \ {x}, H(s \ {x})) /\ IsFiniteSet(s)
        BY <1>1, <1>2, <1>3, <3>1, FS_Subset
      <3> HIDE DEF H, G
      <3>4. H(s)[s] = f[x] + H(s)[s \ {x}]
        BY <2>2, <3>1, <3>3 DEF IsTotal
      <3>5. H(s)[s \ {x}] = H(s \ {x})[s \ {x}]
        <4>1. PICK g, h : g = H(s) /\ h = H(s \ {x})
          OBVIOUS
        <4>2. \A t \in SUBSET (s \ {x}) : g[t] = h[t]
          BY <3>3, <4>1, TotalUnique
        <4> QED BY <4>1, <4>2
      <3> QED BY <3>2, <3>4, <3>5
    <2> QED BY <2>1, <2>2
  <1>4. IsTotal(f, T, G)
    <2>1. ASSUME NEW s \in SUBSET T, s # {}, NEW x \in s
          PROVE  H(s \ {x})[s \ {x}] = G[s \ {x}]
      <3>1. s \ {x} \in SUBSET T /\ s \ {x} # T
        BY <2>1
      <3> QED BY <1>3, <3>1
    <2>2. ASSUME NEW s \in SUBSET T
          PROVE  G[s] = IF s = {} THEN 0 ELSE LET x == CHOOSE x \in s : TRUE IN f[x] + G[s \ {x}]
      <3>1. CASE s = {}
        BY <3>1
      <3>2. CASE s # {}
        <4>1. PICK x \in s : x = CHOOSE y \in s : TRUE
          BY <3>2
        <4>2. G[s] = f[x] + H(s \ {x})[s \ {x}]
          BY <3>2, <4>1
        <4> HIDE DEF G, H
        <4> QED BY <2>1, <3>2, <4>1, <4>2
      <3> QED BY <3>1, <3>2
    <2>3. DOMAIN G = SUBSET T /\ G = [s \in SUBSET T |-> G[s]]
      OBVIOUS
    <2> HIDE DEF G
    <2> QED BY <2>2, <2>3 DEF IsTotal
  <1> QED BY <1>1, <1>4

\* The sum over a set in terms of the sum over less.
LEMMA TotalStep ==
    ASSUME NEW f, NEW S, IsFiniteSet(S)
    PROVE  Total(f, S) = IF S = {} THEN 0
                       ELSE LET x == CHOOSE x \in S : TRUE IN f[x] + Total(f, S \ {x})
  <1> DEFINE H(s) == CHOOSE g : IsTotal(f, s, g)
  <1>1. \A s \in SUBSET S : IsTotal(f, s, H(s))
    BY TotalExists
  <1>2. Total(f, S) = H(S)[S] /\ \A s : Total(f, s) = H(s)[s]
    BY DEF Total
  <1> HIDE DEF H
  <1>3. CASE S = {}
    <2>1. PICK g : g = H(S)
      OBVIOUS
    <2>2. IsTotal(f, S, g)
      BY <1>1, <2>1
    <2>3. g[S] = 0
      BY <1>3, <2>2 DEF IsTotal
    <2> QED BY <1>2, <1>3, <2>1, <2>3
  <1>4. CASE S # {}
    <2>1. PICK x \in S : x = CHOOSE y \in S : TRUE
      BY <1>4
    <2>2. PICK g, h : g = H(S) /\ h = H(S \ {x})
      OBVIOUS
    <2>3. IsTotal(f, S, g) /\ IsTotal(f, S \ {x}, h)
      BY <1>1, <2>2
    <2>4. g[S] = f[x] + g[S \ {x}]
      BY <1>4, <2>1, <2>3 DEF IsTotal
    <2>5. \A t \in SUBSET (S \ {x}) : g[t] = h[t]
      BY <2>3, TotalUnique
    <2> QED BY <1>2, <1>4, <2>1, <2>2, <2>4, <2>5
  <1> QED BY <1>3, <1>4

\* The sum the model is written with.
LEMMA TotalIs ==
    ASSUME NEW f, NEW S, IsFiniteSet(S)
    PROVE  MapThenSumSet(LAMBDA c : f[c], S) = Total(f, S)
  <1>1. \E g : IsTotal(f, S, g)
    BY TotalExists
  <1> QED BY <1>1 DEF MapThenSumSet, MapThenFoldSet, Total, IsTotal

\* Any element may be taken first.
LEMMA TotalRemove ==
    ASSUME NEW S, IsFiniteSet(S), NEW f \in [S -> Int]
    PROVE  /\ Total(f, S) \in Int
           /\ \A x \in S : Total(f, S) = f[x] + Total(f, S \ {x})
  <1> DEFINE Good(s) == Total(f, s) \in Int /\ \A x \in s : Total(f, s) = f[x] + Total(f, s \ {x})
             B == {s \in SUBSET S : ~Good(s)}
  <1>0. B \subseteq SUBSET S
    OBVIOUS
  <1> SUFFICES ASSUME B # {} PROVE FALSE
    OBVIOUS
  <1>1. PICK s \in B : \A t \in B : t \subseteq s => t = s
    <2> HIDE DEF B
    <2> QED BY <1>0, MinimalSubset
  <1>2. \A t \in SUBSET s : t # s => Good(t)
    BY <1>1
  <1>3. \A t \in SUBSET s : IsFiniteSet(t)
    BY <1>0, <1>1, FS_Subset
  <1>4. CASE s = {}
    <2>1. Total(f, s) = 0
      BY <1>3, <1>4, TotalStep
    <2>2. Good(s)
      BY <1>4, <2>1
    <2> QED BY <1>1, <2>2
  <1>5. CASE s # {}
    <2>1. PICK y \in s : y = CHOOSE x \in s : TRUE
      BY <1>5
    <2>2. Total(f, s) = f[y] + Total(f, s \ {y})
      BY <1>3, <1>5, <2>1, TotalStep
    <2>3. Good(s \ {y})
      BY <1>2, <2>1
    <2>4. \A x \in s : f[x] \in Int
      BY <1>0, <1>1
    <2>5. Total(f, s) \in Int
      BY <2>1, <2>2, <2>3, <2>4
    <2>6. ASSUME NEW x \in s PROVE Total(f, s) = f[x] + Total(f, s \ {x})
      <3>1. CASE x = y
        BY <2>2, <3>1
      <3>2. CASE x # y
        <4>1. Total(f, s \ {y}) = f[x] + Total(f, (s \ {y}) \ {x})
          BY <2>3, <3>2
        <4>2. Good(s \ {x})
          BY <1>2, <2>6
        <4>3. Total(f, s \ {x}) = f[y] + Total(f, (s \ {x}) \ {y})
          BY <2>1, <3>2, <4>2
        <4>4. (s \ {y}) \ {x} = (s \ {x}) \ {y}
          OBVIOUS
        <4>5. Good((s \ {x}) \ {y})
          BY <1>2, <2>6
        <4>6. PICK rest \in Int : rest = Total(f, (s \ {x}) \ {y})
          BY <4>5
        <4>7. PICK a \in Int, b \in Int : a = f[x] /\ b = f[y]
          BY <2>1, <2>4
        <4>8. Total(f, s \ {y}) = a + rest /\ Total(f, s \ {x}) = b + rest
          BY <4>1, <4>3, <4>4, <4>6, <4>7
        <4>9. Total(f, s) = b + (a + rest)
          BY <2>2, <4>7, <4>8
        <4> QED BY <4>7, <4>8, <4>9
      <3> QED BY <3>1, <3>2
    <2>7. Good(s)
      BY <2>5, <2>6
    <2> QED BY <1>1, <2>7
  <1> QED BY <1>4, <1>5

\* Functions that agree have the same sum.
LEMMA TotalAgree ==
    ASSUME NEW S, IsFiniteSet(S), NEW f, NEW g, \A x \in S : f[x] = g[x]
    PROVE  Total(f, S) = Total(g, S)
  <1> DEFINE B == {s \in SUBSET S : Total(f, s) # Total(g, s)}
  <1>0. B \subseteq SUBSET S
    OBVIOUS
  <1> SUFFICES ASSUME B # {} PROVE FALSE
    OBVIOUS
  <1>1. PICK s \in B : \A t \in B : t \subseteq s => t = s
    <2> HIDE DEF B
    <2> QED BY <1>0, MinimalSubset
  <1>2. IsFiniteSet(s)
    BY <1>0, <1>1, FS_Subset
  <1>3. CASE s = {}
    BY <1>1, <1>2, <1>3, TotalStep
  <1>4. CASE s # {}
    <2>1. PICK y \in s : y = CHOOSE x \in s : TRUE
      BY <1>4
    <2>2. Total(f, s) = f[y] + Total(f, s \ {y}) /\ Total(g, s) = g[y] + Total(g, s \ {y})
      BY <1>2, <1>4, <2>1, TotalStep
    <2>3. s \ {y} \notin B /\ s \ {y} \in SUBSET S
      BY <1>1, <2>1
    <2>4. Total(f, s \ {y}) = Total(g, s \ {y})
      BY <2>3
    <2> QED BY <1>0, <1>1, <2>1, <2>2, <2>4
  <1> QED BY <1>3, <1>4

\* Changing one term changes the sum by as much.
LEMMA TotalChange ==
    ASSUME NEW S, IsFiniteSet(S), NEW f \in [S -> Int], NEW g \in [S -> Int], NEW c \in S,
           \A x \in S : x # c => f[x] = g[x]
    PROVE  Total(g, S) = Total(f, S) + g[c] - f[c]
  <1>1. Total(f, S) = f[c] + Total(f, S \ {c}) /\ Total(g, S) = g[c] + Total(g, S \ {c})
    BY TotalRemove
  <1>2. IsFiniteSet(S \ {c}) /\ f \in [S -> Int] /\ g \in [S -> Int]
    BY FS_RemoveElement
  <1>3. Total(f, S \ {c}) = Total(g, S \ {c})
    BY <1>2, TotalAgree
  <1>4. Total(f, S) \in Int /\ f[c] \in Int /\ g[c] \in Int /\ Total(g, S) \in Int
    BY TotalRemove
  <1>5. PICK a \in Int : a = Total(f, S \ {c})
    <2>1. [x \in S \ {c} |-> f[x]] \in [S \ {c} -> Int]
      OBVIOUS
    <2>2. Total([x \in S \ {c} |-> f[x]], S \ {c}) \in Int
      BY <1>2, <2>1, TotalRemove
    <2>3. Total([x \in S \ {c} |-> f[x]], S \ {c}) = Total(f, S \ {c})
      BY <1>2, TotalAgree
    <2> QED BY <2>2, <2>3
  <1> QED BY <1>1, <1>3, <1>4, <1>5

\* Setting the terms of a part to zero takes the sum of the part away.
LEMMA TotalClear ==
    ASSUME NEW S, IsFiniteSet(S), NEW f \in [S -> Int], NEW g \in [S -> Int], NEW T \in SUBSET S,
           \A x \in S : IF x \in T THEN g[x] = 0 ELSE g[x] = f[x]
    PROVE  Total(f, S) = Total(g, S) + Total(f, T)
  <1> DEFINE F(t) == [x \in S |-> IF x \in t THEN 0 ELSE f[x]]
             Good(t) == Total(f, S) = Total(F(t), S) + Total(f, t)
             B == {t \in SUBSET T : ~Good(t)}
  <1>0. B \subseteq SUBSET S
    OBVIOUS
  <1>1. Good(T)
    <2> SUFFICES ASSUME B # {} PROVE FALSE
      OBVIOUS
    <2>1. PICK t \in B : \A u \in B : u \subseteq t => u = t
      <3> HIDE DEF B
      <3> QED BY <1>0, MinimalSubset
    <2>2. \A u \in SUBSET t : u # t => Good(u)
      BY <2>1
    <2>3. IsFiniteSet(t) /\ t \in SUBSET S
      BY <1>0, <2>1, FS_Subset
    <2>4. CASE t = {}
      <3>1. Total(f, t) = 0
        BY <2>3, <2>4, TotalStep
      <3>2. Total(F(t), S) = Total(f, S)
        <4>1. \A x \in S : F(t)[x] = f[x]
          BY <2>4
        <4> HIDE DEF F
        <4> QED BY <4>1, TotalAgree
      <3>3. Total(f, S) \in Int
        BY TotalRemove
      <3> HIDE DEF F
      <3>4. Good(t)
        BY <3>1, <3>2, <3>3
      <3> QED BY <2>1, <3>4
    <2>5. CASE t # {}
      <3>1. PICK y \in t : y = CHOOSE x \in t : TRUE
        BY <2>5
      <3>2. Total(f, t) = f[y] + Total(f, t \ {y})
        BY <2>3, <2>5, <3>1, TotalStep
      <3>3. Good(t \ {y})
        BY <2>2, <3>1
      <3>4. PICK u : u = t \ {y}
        OBVIOUS
      <3>5. F(t) \in [S -> Int] /\ F(u) \in [S -> Int]
        OBVIOUS
      <3>6. F(t)[y] = 0 /\ F(u)[y] = f[y] /\ y \in S /\ \A x \in S : x # y => F(t)[x] = F(u)[x]
        BY <2>3, <3>1, <3>4
      <3> HIDE DEF F
      <3>7. Total(F(t), S) = Total(F(u), S) + F(t)[y] - F(u)[y]
        <4>1. PICK a, b : a = F(t) /\ b = F(u)
          OBVIOUS
        <4>2. Total(a, S) = Total(b, S) + a[y] - b[y]
          BY <3>5, <3>6, <4>1, TotalChange
        <4> QED BY <4>1, <4>2
      <3>8. Total(F(u), S) \in Int /\ f[y] \in Int
        <4>1. PICK b \in [S -> Int] : b = F(u)
          BY <3>5
        <4>2. Total(b, S) \in Int
          BY TotalRemove
        <4> QED BY <3>6, <4>1, <4>2
      <3>9. PICK rest \in Int : rest = Total(f, u)
        <4>1. IsFiniteSet(u) /\ [x \in u |-> f[x]] \in [u -> Int]
          BY <2>3, <3>4, FS_Subset
        <4>2. Total([x \in u |-> f[x]], u) \in Int
          BY <4>1, TotalRemove
        <4>3. Total([x \in u |-> f[x]], u) = Total(f, u)
          BY <4>1, TotalAgree
        <4> QED BY <4>2, <4>3
      <3>10. Total(f, S) = Total(F(u), S) + Total(f, u)
        BY <3>3, <3>4
      <3>11. Total(F(t), S) = Total(F(u), S) - f[y] /\ Total(f, t) = f[y] + rest
        BY <3>2, <3>4, <3>6, <3>7, <3>8, <3>9
      <3>12. Good(t)
        BY <3>8, <3>9, <3>10, <3>11
      <3> QED BY <2>1, <3>12
    <2> QED BY <2>4, <2>5
  <1>2. \A x \in S : F(T)[x] = g[x]
    OBVIOUS
  <1>3. Total(F(T), S) = Total(g, S)
    <2>1. PICK a : a = F(T)
      OBVIOUS
    <2>2. \A x \in S : a[x] = g[x]
      BY <1>2, <2>1
    <2> HIDE DEF F
    <2>3. Total(a, S) = Total(g, S)
      BY <2>2, TotalAgree
    <2> QED BY <2>1, <2>3
  <1> HIDE DEF F
  <1> QED BY <1>1, <1>3

\* A sum of natural numbers is one.
LEMMA TotalNat ==
    ASSUME NEW S, IsFiniteSet(S), NEW f, \A x \in S : f[x] \in Nat
    PROVE  Total(f, S) \in Nat
  <1> DEFINE B == {s \in SUBSET S : Total(f, s) \notin Nat}
  <1>0. B \subseteq SUBSET S
    OBVIOUS
  <1> SUFFICES ASSUME B # {} PROVE FALSE
    OBVIOUS
  <1>1. PICK s \in B : \A t \in B : t \subseteq s => t = s
    <2> HIDE DEF B
    <2> QED BY <1>0, MinimalSubset
  <1>2. IsFiniteSet(s)
    BY <1>0, <1>1, FS_Subset
  <1>3. CASE s = {}
    <2>1. Total(f, s) = 0
      BY <1>2, <1>3, TotalStep
    <2> QED BY <1>1, <2>1
  <1>4. CASE s # {}
    <2>1. PICK y \in s : y = CHOOSE x \in s : TRUE
      BY <1>4
    <2>2. Total(f, s) = f[y] + Total(f, s \ {y})
      BY <1>2, <1>4, <2>1, TotalStep
    <2>3. Total(f, s \ {y}) \in Nat /\ f[y] \in Nat
      BY <1>0, <1>1, <2>1
    <2> QED BY <1>1, <2>2, <2>3
  <1> QED BY <1>3, <1>4
-----------------------------------------------------------------------------
(* The files. *)

\* A file may name any model.
AnyModel == Model \cup Wanted \cup {NULL}

Snapshot == [base : Nat, models : [Task -> AnyModel]]

FilesTyped ==
    /\ baseline \in [state : {"ok", "broken"}, version : Nat]
    /\ overrides \in [state : {"ok", "absent", "broken"}, models : [Task -> AnyModel]]
    /\ policy \in [Process -> Snapshot]
    /\ oneshot \in AnyModel

\* The snapshot a process takes when it loads the files.
LEMMA LoadIsSnapshot ==
    ASSUME FilesTyped
    PROVE  Load \in Snapshot
  BY DEF FilesTyped, Load, Snapshot, None, AnyModel

\* The files and the snapshots keep their types.
LEMMA PolicyTypedStep ==
    ASSUME FilesTyped, PolicyStep, UNCHANGED oneshot
    PROVE  FilesTyped'
  <1>1. Load \in Snapshot /\ "api" \in Process /\ None \in [Task -> AnyModel]
    BY LoadIsSnapshot DEF Process, None, AnyModel
  <1>3. ASSUME NEW t, NEW m \in AnyModel
        PROVE  [overrides.models EXCEPT ![t] = m] \in [Task -> AnyModel]
    BY <1>3 DEF FilesTyped
  <1>4. CASE EditOverrides
    <2>1. overrides' \in [state : {"ok", "absent", "broken"}, models : [Task -> AnyModel]]
      <3>1. ASSUME NEW t \in Tuned, NEW m \in Wanted \cup {NULL},
                   overrides' = [state |-> "ok", models |-> [overrides.models EXCEPT ![t] = m]]
            PROVE  overrides' \in [state : {"ok", "absent", "broken"}, models : [Task -> AnyModel]]
        <4>1. [overrides.models EXCEPT ![t] = m] \in [Task -> AnyModel]
          BY <1>3, <3>1 DEF AnyModel
        <4> DEFINE ms == [overrides.models EXCEPT ![t] = m]
        <4> HIDE DEF ms
        <4> QED BY <3>1, <4>1 DEF ms
      <3>2. ASSUME NEW state \in {"absent", "broken"}, overrides' = [state |-> state, models |-> None]
            PROVE  overrides' \in [state : {"ok", "absent", "broken"}, models : [Task -> AnyModel]]
        BY <1>1, <3>2
      <3> QED BY <1>4, <3>1, <3>2 DEF EditOverrides
    <2> QED BY <1>4, <2>1 DEF EditOverrides, FilesTyped
  <1>5. CASE EditBaseline
    <2>1. \/ baseline' = [state |-> "ok", version |-> baseline.version + 1]
          \/ baseline' = [baseline EXCEPT !.state = "broken"]
          \/ baseline' = [baseline EXCEPT !.state = "ok"]
      BY <1>5 DEF EditBaseline
    <2>2. baseline' \in [state : {"ok", "broken"}, version : Nat]
      BY <2>1 DEF FilesTyped
    <2> QED BY <1>5, <2>2 DEF EditBaseline, FilesTyped
  <1>6. CASE Reload
    <2>1. policy' = policy \/ policy' = [policy EXCEPT !["api"] = Load]
      BY <1>6 DEF Reload
    <2>2. policy' \in [Process -> Snapshot]
      BY <1>1, <2>1 DEF FilesTyped
    <2> QED BY <1>6, <2>2 DEF Reload, FilesTyped
  <1>7. ASSUME NEW s \in Setter, NEW t \in Tuned, NEW m \in Wanted, SetModelPersistent(s, t, m)
        PROVE  FilesTyped'
    <2> DEFINE ms == [overrides.models EXCEPT ![t] = m]
    <2>1. ms \in [Task -> AnyModel]
      BY <1>3, <1>7 DEF AnyModel
    <2>2. overrides' = [overrides EXCEPT !.models = ms]
      BY <1>7 DEF SetModelPersistent, FilesTyped
    <2> HIDE DEF ms
    <2>3. overrides' \in [state : {"ok", "absent", "broken"}, models : [Task -> AnyModel]]
      BY <2>1, <2>2 DEF FilesTyped
    <2> QED BY <1>7, <2>3 DEF SetModelPersistent, FilesTyped
  <1>8. ASSUME NEW s \in Setter, PollSees(s) \/ PollEnds(s) PROVE FilesTyped'
    BY <1>8 DEF PollSees, PollEnds, FilesTyped
  <1> QED BY <1>4, <1>5, <1>6, <1>7, <1>8 DEF PolicyStep

\* A restart gives a process the files as they are.
LEMMA RebootTyped ==
    ASSUME FilesTyped, NEW p \in Process, Reboot(p)
    PROVE  policy' \in [Process -> Snapshot]
  BY LoadIsSnapshot DEF Reboot, FilesTyped

\* The API routes by the files once the watcher is at rest: each change of a
\* watched file leaves a notice, and the reload that takes the notice loads
\* both files as they then are, or leaves the snapshot alone while one of them
\* is broken: its repair leaves another notice.
LEMMA PolicyFollows ==
    ASSUME FilesTyped, EditsReachRouter, PolicyStep \/ UNCHANGED policyVars \/ \E p \in Process : Reboot(p)
    PROVE  EditsReachRouter'
  <1>1. "api" \in Process /\ policy \in [Process -> Snapshot]
    BY DEF Process, FilesTyped
  <1>2. CASE EditOverrides
    BY <1>2 DEF EditOverrides, EditsReachRouter
  <1>3. CASE EditBaseline
    BY <1>3 DEF EditBaseline, EditsReachRouter
  <1>4. CASE Reload
    <2>1. Load' = Load /\ UNCHANGED <<baseline, overrides>>
      BY <1>4 DEF Reload, Load
    <2>2. CASE policy' = [policy EXCEPT !["api"] = Load]
      BY <1>1, <2>1, <2>2 DEF EditsReachRouter
    <2>3. CASE UNCHANGED suppressed /\ (~Readable \/ overrides.state = "broken" \/ suppressed)
      BY <2>1, <2>3 DEF EditsReachRouter, Readable
    <2> QED BY <1>4, <2>2, <2>3 DEF Reload
  <1>5. ASSUME NEW s \in Setter, NEW t \in Tuned, NEW m \in Wanted, SetModelPersistent(s, t, m)
        PROVE  EditsReachRouter'
    BY <1>5 DEF SetModelPersistent, EditsReachRouter
  <1>6. CASE UNCHANGED <<baseline, overrides, policy, notified, watching, suppressed>>
    BY <1>6 DEF EditsReachRouter, Load, Readable
  <1>7. ASSUME NEW p \in Process, Reboot(p) PROVE EditsReachRouter'
    <2>1. Load' = Load /\ UNCHANGED <<baseline, overrides>>
      BY <1>7 DEF Reboot, Load
    <2>2. CASE p = "api"
      BY <1>1, <1>7, <2>1, <2>2 DEF Reboot, EditsReachRouter
    <2>3. CASE p # "api"
      BY <1>1, <1>7, <2>1, <2>3 DEF Reboot, EditsReachRouter, Readable
    <2> QED BY <2>2, <2>3
  <1> QED BY <1>2, <1>3, <1>4, <1>5, <1>6, <1>7 DEF PolicyStep, PollSees, PollEnds, policyVars
-----------------------------------------------------------------------------
(* The calls. *)

CallPc == {"idle", "claim", "arm", "pause", "degraded", "class", "peek", "confirmation",
           "take", "grant", "admit", "slot", "ask", "spend", "enter", "record"}

CallShape == [pc : CallPc, task : Task \cup {NULL}, mails : SUBSET Email, todo : SUBSET Email,
             token : Nat \cup {NULL}, drafting : BOOLEAN, force : AnyModel, model : AnyModel,
             engaged : BOOLEAN, read : [Email -> Class], used : BOOLEAN, retry : BOOLEAN,
             leg : {"only", "escalated", "first"}, cost : Nat, outer : Nat, ok : BOOLEAN]

CallType == {r \in CallShape : r.pc # "idle" => r.task \in Task}

GuardType == [month : Nat, flag : BOOLEAN, seed : Nat]

CallsTyped ==
    /\ call \in [Caller -> CallType] /\ class \in [Email -> Class]
    /\ minted \in Seq(Scope)
    /\ minting \in [pc : {"idle", "confirmation", "arm"}, scope : Scope \cup {NULL}]
    /\ minting.pc # "idle" => minting.scope \in Scope

MoneyTyped ==
    /\ guard \in [Process -> GuardType]
    /\ lock \in [Process -> Caller \cup {NULL}] /\ inUse \in [Process -> Int]
    /\ ledger \in Nat /\ faults \in Nat /\ degraded \in BOOLEAN

RTyped == FilesTyped /\ CallsTyped /\ MoneyTyped

\* A step of one call changes its own locals only.
Moves(c, pcs) ==
    /\ call' \in [Caller -> CallType] /\ call'[c].pc \in pcs
    /\ \A d \in Caller : d # c => call'[d] = call[d]

SameModel(c) == call'[c].task = call[c].task /\ call'[c].model = call[c].model

\* Replacing the locals of one call.
LEMMA SetCall ==
    ASSUME RTyped, NEW c \in Caller, NEW r \in CallType, Set(c, r)
    PROVE  Moves(c, {r.pc}) /\ call'[c] = r
  BY DEF RTyped, CallsTyped, Moves, Set

\* Going on in the code.
LEMMA GotoMoves ==
    ASSUME RTyped, NEW c \in Caller, NEW pc \in CallPc, call[c].pc # "idle", Goto(c, pc)
    PROVE  Moves(c, {pc}) /\ SameModel(c)
  <1> DEFINE r == [call[c] EXCEPT !.pc = pc]
  <1>1. call[c] \in CallType
    BY DEF RTyped, CallsTyped
  <1>2. r \in CallType /\ r.pc = pc /\ r.task = call[c].task /\ r.model = call[c].model
    BY <1>1 DEF CallType, CallShape
  <1>3. Set(c, r)
    BY DEF Goto
  <1> HIDE DEF r
  <1> QED BY <1>2, <1>3, SetCall DEF SameModel

\* A call that is over, or the draft that follows its tone.
LEMMA ReturnMoves ==
    ASSUME RTyped, NEW c \in Caller, NEW ok, Return(c, ok)
    PROVE  Moves(c, {"idle", "pause"})
  <1>1. call[c] \in CallType
    BY DEF RTyped, CallsTyped
  <1>2. IdleCall \in CallType /\ IdleCall.pc = "idle"
    BY DEF IdleCall, CallType, CallShape, CallPc, AnyModel, Class
  <1>3. CASE Set(c, IdleCall)
    BY <1>2, <1>3, SetCall DEF Moves
  <1>4. CASE Set(c, [IdleCall EXCEPT !.pc = "pause", !.task = "draft_reply", !.drafting = TRUE,
                     !.mails = call[c].mails, !.todo = call[c].mails, !.token = call[c].token])
    <2> DEFINE mails == call[c].mails
               token == call[c].token
               r == [IdleCall EXCEPT !.pc = "pause", !.task = "draft_reply", !.drafting = TRUE,
                     !.mails = mails, !.todo = mails, !.token = token]
    <2>1. mails \in SUBSET Email /\ token \in Nat \cup {NULL}
      BY <1>1 DEF CallType, CallShape
    <2>2. Set(c, r)
      BY <1>4
    <2> HIDE DEF mails, token
    <2>3. r \in CallType /\ r.pc = "pause"
      BY <1>2, <2>1 DEF CallType, CallShape, CallPc, Task
    <2> HIDE DEF r
    <2> QED BY <2>2, <2>3, SetCall DEF Moves
  <1> QED BY <1>3, <1>4 DEF Return

\* What is read of the policy and the overrides is a model, or nothing.
LEMMA ModelsChosen ==
    ASSUME RTyped, NEW c \in Caller
    PROVE  /\ call[c].pc # "idle" => ChosenForText(c) \in AnyModel
           /\ call[c].pc # "idle" => ChosenForTool(c) \in AnyModel
           /\ ModelOf(policy[ProcOf(c)], "embedding") \in AnyModel
           /\ \A m : Demoted(m) \in AnyModel /\ NextTier(m) \in AnyModel
  <1>1. call[c].force \in AnyModel /\ (call[c].pc # "idle" => call[c].task \in Task)
    BY DEF RTyped, CallsTyped, CallType, CallShape
  <1>2. \A t \in Task : Shipped[t] \in AnyModel
    BY DEF Shipped, AnyModel, Model
  <1>3. ProcOf(c) \in Process /\ "api" \in Process
    BY DEF ProcOf, Home, Process
  <1>4. \A p \in Process, t \in Task :
            policy[p].models[t] \in AnyModel /\ ModelOf(policy[p], t) \in AnyModel
    BY <1>2 DEF RTyped, FilesTyped, Snapshot, ModelOf
  <1>5. "embedding" \in Task /\ "hermes_aux" \in Task
    BY DEF Task
  <1>6. oneshot \in AnyModel /\ NULL \in AnyModel
    BY DEF RTyped, FilesTyped, AnyModel
  <1>7. call[c].pc # "idle" => ChosenForText(c) \in AnyModel
    BY <1>1, <1>3, <1>4, <1>6 DEF ChosenForText, Shot
  <1>8. call[c].pc # "idle" => ChosenForTool(c) \in AnyModel
    BY <1>3, <1>4, <1>5, <1>7 DEF ChosenForTool
  <1>9. \A m : Demoted(m) \in AnyModel /\ NextTier(m) \in AnyModel
    BY DEF Demoted, NextTier, AnyModel, Model
  <1> QED BY <1>3, <1>4, <1>5, <1>7, <1>8, <1>9

\* A call begins with the mails it is about, if the draft's check lets it.
LEMMA BeginMoves ==
    ASSUME RTyped, NEW c \in Caller, NEW t \in Task, Begin(c, t)
    PROVE  Moves(c, {"idle", "claim", "pause"})
  <1>1. PICK mails \in IF IsTool(t) THEN SUBSET Email
                       ELSE IF t \in OfEmail THEN {{e} : e \in Email} ELSE {{}},
             token \in IF t \in OfDraft THEN {NULL} \cup DOMAIN minted ELSE {NULL},
             force \in IF t \in PauseAllowed THEN {NULL} \cup Wanted ELSE {NULL},
             ready \in BOOLEAN :
        LET e       == CHOOSE m \in mails : TRUE
            turned  == /\ t \in OfDraft
                       /\ \/ class[e] \in {"none", "confidential"}
                          \/ class[e] = "sensitive" /\ token = NULL
            first   == IF t \in OfDraft /\ ~ready THEN "tone_style_mirror" ELSE t
        IN  /\ t # "tone_style_mirror" /\ (ready => t = "draft_reply")
            /\ Set(c, IF turned THEN IdleCall
                      ELSE [IdleCall EXCEPT
                        !.pc = IF t \in PauseAllowed /\ saying = "yes" THEN "claim" ELSE "pause",
                        !.task = first, !.mails = mails, !.todo = mails, !.token = token,
                        !.force = force, !.drafting = t \in OfDraft])
    BY Zenon DEF Begin
  <1> DEFINE pc == IF t \in PauseAllowed /\ saying = "yes" THEN "claim" ELSE "pause"
             first == IF t \in OfDraft /\ ~ready THEN "tone_style_mirror" ELSE t
             drafting == t \in OfDraft
             r == [IdleCall EXCEPT !.pc = pc, !.task = first, !.mails = mails, !.todo = mails,
                      !.token = token, !.force = force, !.drafting = drafting]
  <1>2. Set(c, IdleCall) \/ Set(c, r)
    BY <1>1, Zenon
  <1>3. pc \in {"claim", "pause"} /\ first \in Task /\ drafting \in BOOLEAN
    BY DEF Task
  <1>4. mails \in SUBSET Email /\ token \in {NULL} \cup DOMAIN minted /\ force \in AnyModel
    BY <1>1 DEF AnyModel
  <1>5. token \in Nat \cup {NULL}
    BY <1>4, LenProperties DEF RTyped, CallsTyped
  <1>6. IdleCall \in CallType /\ IdleCall.pc = "idle"
    BY DEF IdleCall, CallType, CallShape, CallPc, AnyModel, Class
  <1> HIDE DEF pc, first, drafting
  <1>7. r \in CallType /\ r.pc = pc
    BY <1>3, <1>4, <1>5, <1>6 DEF CallType, CallShape, CallPc
  <1> HIDE DEF r
  <1> QED BY <1>2, <1>3, <1>6, <1>7, SetCall DEF Moves

\* The gates before the dispatch.
LEMMA GateMoves ==
    ASSUME RTyped, NEW c \in Caller,
           \/ ReadPause(c) \/ ReadPauseTool(c) \/ ReadPauseEmbedding(c) \/ StopStorm(c)
           \/ ReadDegraded(c)
    PROVE  Moves(c, {"idle", "pause", "degraded", "class"})
  <1>1. call[c] \in CallType /\ call[c].pc \in {"pause", "degraded"}
    BY DEF RTyped, CallsTyped, ReadPause, ReadPauseTool, ReadPauseEmbedding, StopStorm, ReadDegraded
  <1>2. ASSUME NEW m \in AnyModel, NEW e \in BOOLEAN, NEW pc \in {"degraded", "class"},
               Set(c, [call[c] EXCEPT !.model = m, !.pc = pc, !.engaged = e])
        PROVE  Moves(c, {"degraded", "class"})
    <2> DEFINE r == [call[c] EXCEPT !.model = m, !.pc = pc, !.engaged = e]
    <2>1. r \in CallType /\ r.pc = pc
      BY <1>1 DEF CallType, CallShape, CallPc
    <2>2. Set(c, r)
      BY <1>2
    <2> HIDE DEF r
    <2> QED BY <2>1, <2>2, SetCall DEF Moves
  <1>3. ASSUME NEW m \in AnyModel, Set(c, [call[c] EXCEPT !.model = m, !.pc = "class"])
        PROVE  Moves(c, {"class"})
    <2> DEFINE r == [call[c] EXCEPT !.model = m, !.pc = "class"]
    <2>1. r \in CallType /\ r.pc = "class"
      BY <1>1 DEF CallType, CallShape, CallPc
    <2>2. Set(c, r)
      BY <1>3
    <2> HIDE DEF r
    <2> QED BY <2>1, <2>2, SetCall DEF Moves
  <1>4. /\ ChosenForText(c) \in AnyModel /\ ChosenForTool(c) \in AnyModel
        /\ ModelOf(policy[ProcOf(c)], "embedding") \in AnyModel
        /\ Demoted(call[c].model) \in AnyModel
    BY <1>1, ModelsChosen
  <1>5. \A ok : Return(c, ok) => Moves(c, {"idle", "pause"})
    BY ReturnMoves
  <1>6. Goto(c, "class") => Moves(c, {"class"})
    BY <1>1, GotoMoves DEF CallPc
  <1>7. ASSUME NEW pcs \in {{"degraded", "class"}, {"class"}, {"idle", "pause"}}, Moves(c, pcs)
        PROVE  Moves(c, {"idle", "pause", "degraded", "class"})
    BY <1>7 DEF Moves
  <1>8. CASE ReadPause(c)
    <2>1. PICK e \in BOOLEAN : e = (call[c].force = NULL /\ Shot(c) # NULL)
      OBVIOUS
    <2>2. \/ Return(c, FALSE)
          \/ Set(c, [call[c] EXCEPT !.model = ChosenForText(c), !.pc = "degraded", !.engaged = e])
      BY <1>8, <2>1 DEF ReadPause
    <2> QED BY <1>2, <1>4, <1>5, <1>7, <2>2
  <1>9. CASE ReadPauseTool(c)
    <2>1. PICK e \in BOOLEAN : e = (call[c].force = NULL /\ oneshot # NULL)
      OBVIOUS
    <2>2. Set(c, [call[c] EXCEPT !.model = ChosenForTool(c), !.pc = "degraded", !.engaged = e])
      BY <1>9, <2>1 DEF ReadPauseTool
    <2> QED BY <1>2, <1>4, <1>7, <2>2
  <1>10. CASE ReadPauseEmbedding(c) \/ StopStorm(c)
    <2>1. \/ Return(c, FALSE)
          \/ Set(c, [call[c] EXCEPT !.model = ModelOf(policy[ProcOf(c)], "embedding"), !.pc = "class"])
      BY <1>10 DEF ReadPauseEmbedding, StopStorm
    <2> QED BY <1>3, <1>4, <1>5, <1>7, <2>1
  <1>11. CASE ReadDegraded(c)
    <2>1. \/ Return(c, FALSE) \/ Goto(c, "class")
          \/ Set(c, [call[c] EXCEPT !.model = Demoted(call[c].model), !.pc = "class"])
      BY <1>11 DEF ReadDegraded
    <2> QED BY <1>3, <1>4, <1>5, <1>6, <1>7, <2>1
  <1> QED BY <1>8, <1>9, <1>10, <1>11

\* The least id of some emails is one of them.
LEMMA FirstTaken ==
    ASSUME RTyped, NEW c \in Caller, call[c].todo # {}
    PROVE  First(c) \in call[c].todo /\ First(c) \in Email
  <1> DEFINE R == {ss \in Nat \X Nat : ss[1] < ss[2]}
  <1>1. IsWellFoundedOn(R, Nat)
    BY NatLessThanWellFounded DEF OpToRel
  <1>2. PICK todo \in SUBSET Email : todo = call[c].todo
    BY DEF RTyped, CallsTyped, CallType, CallShape
  <1>3. todo \subseteq Nat /\ todo # {}
    BY <1>2, EscalationAssumption
  <1> HIDE DEF R
  <1>4. PICK x \in todo : \A y \in todo : ~ (<<y, x>> \in R)
    BY <1>1, <1>3, WFMin
  <1>5. ASSUME NEW y \in todo PROVE x <= y
    <2>1. ~(<<y, x>> \in R) /\ x \in Nat /\ y \in Nat
      BY <1>3, <1>4, <1>5
    <2>2. ~(y < x)
      BY <2>1 DEF R
    <2> QED BY <2>1, <2>2
  <1>6. \E m \in todo : \A y \in todo : m <= y
    BY <1>4, <1>5
  <1> QED BY <1>2, <1>6 DEF First, Min

\* The sensitivity gate and the evidence it looks for.
LEMMA ClassMoves ==
    ASSUME RTyped, NEW c \in Caller,
           \/ ReadClass(c) \/ PeekGrant(c) \/ UseConfirmation(c) \/ TakeArm(c) \/ RecordGrant(c)
    PROVE  Moves(c, CallPc \ {"ask", "enter", "slot", "spend", "record"})
  <1>1. /\ call[c] \in CallType
        /\ call[c].pc \in {"class", "peek", "confirmation", "take", "grant"}
    BY DEF RTyped, CallsTyped, ReadClass, PeekGrant, UseConfirmation, TakeArm, RecordGrant,
           GateOpens, GateForbids, GatePasses, GateTakesToken, GateAsks, GateRefusesTool,
           GateRefuses, Gating
  <1>2. ASSUME NEW k \in Class PROVE Cleared(c, k) \in CallType /\ Cleared(c, k).pc = "class"
    <2>1. /\ call[c].todo \ {First(c)} \in SUBSET Email
          /\ [call[c].read EXCEPT ![First(c)] = k] \in [Email -> Class]
      BY <1>1 DEF CallType, CallShape
    <2>2. PICK todo \in SUBSET Email, read \in [Email -> Class] :
              todo = call[c].todo \ {First(c)} /\ read = [call[c].read EXCEPT ![First(c)] = k]
      BY <2>1
    <2>3. Cleared(c, k) = [call[c] EXCEPT !.pc = "class", !.todo = todo, !.read = read]
      BY <1>1, <2>2 DEF Cleared, CallType, CallShape
    <2> QED BY <1>1, <2>3 DEF CallType, CallShape, CallPc
  <1>3. ASSUME NEW k \in Class, Set(c, Cleared(c, k)) PROVE Moves(c, {"class"})
    BY <1>2, <1>3, SetCall
  <1>4. Unlock(c) => Moves(c, {"class"})
    <2>1. PICK r \in CallType : r = Cleared(c, "sensitive") /\ r.pc = "class"
      BY <1>2 DEF Class
    <2>2. [r EXCEPT !.used = TRUE] \in CallType /\ [r EXCEPT !.used = TRUE].pc = "class"
      BY <2>1 DEF CallType, CallShape
    <2> QED BY <2>1, <2>2, SetCall DEF Unlock
  <1>5. \A pc \in {"admit", "peek", "confirmation", "take", "grant"} :
            Goto(c, pc) => Moves(c, {pc})
    BY <1>1, GotoMoves DEF CallPc
  <1>6. Return(c, FALSE) => Moves(c, {"idle", "pause"})
    BY ReturnMoves
  <1>7. ASSUME NEW pcs \in {{"class"}, {"admit"}, {"peek"}, {"confirmation"}, {"take"}, {"grant"},
                            {"idle", "pause"}}, Moves(c, pcs)
        PROVE  Moves(c, CallPc \ {"ask", "enter", "slot", "spend", "record"})
    BY <1>7 DEF Moves, CallPc
  <1>8. CASE ReadClass(c)
    <2>1. \/ Goto(c, "admit") \/ Goto(c, "peek") \/ Return(c, FALSE)
          \/ GatePasses(c) \/ Unlock(c)
      BY <1>8 DEF ReadClass, GateOpens, GateForbids, GateTakesToken, GateAsks,
                  GateRefusesTool, GateRefuses
    <2>2. GatePasses(c) => \E k \in Class : Set(c, Cleared(c, k))
      <3>1. GatePasses(c) => call[c].todo # {} /\ Set(c, Cleared(c, class[First(c)]))
        BY DEF GatePasses, Gating
      <3>2. call[c].todo # {} => class[First(c)] \in Class
        BY FirstTaken DEF RTyped, CallsTyped
      <3> QED BY <3>1, <3>2
    <2> QED BY <1>3, <1>4, <1>5, <1>6, <1>7, <2>1, <2>2
  <1>9. CASE PeekGrant(c) \/ UseConfirmation(c) \/ TakeArm(c) \/ RecordGrant(c)
    <2>1. \/ Goto(c, "confirmation") \/ Goto(c, "grant") \/ Goto(c, "take")
          \/ Return(c, FALSE) \/ Unlock(c)
      BY <1>9 DEF PeekGrant, UseConfirmation, TakeArm, RecordGrant
    <2> QED BY <1>4, <1>5, <1>6, <1>7, <2>1
  <1> QED BY <1>8, <1>9

\* The gates of the dispatch, and the slot.
LEMMA AdmitMoves ==
    ASSUME RTyped, NEW c \in Caller,
           \/ ClaimEscalation(c) \/ ArmEscalation(c)
           \/ Admit(c) \/ AdmitTool(c) \/ AdmitEmbedding(c) \/ AdmitFails(c)
    PROVE  Moves(c, {"arm", "pause", "slot", "record"})
  <1>1. call[c] \in CallType /\ call[c].pc \in {"claim", "arm", "admit"}
    BY DEF RTyped, CallsTyped, ClaimEscalation, ArmEscalation, Admit, AdmitTool, AdmitEmbedding,
           AdmitFails
  <1>2. CASE Set(c, [call[c] EXCEPT !.pc = "record", !.ok = TRUE])
    <2> DEFINE r == [call[c] EXCEPT !.pc = "record", !.ok = TRUE]
    <2>1. r \in CallType /\ r.pc = "record"
      BY <1>1 DEF CallType, CallShape, CallPc
    <2>2. Set(c, r)
      BY <1>2
    <2> HIDE DEF r
    <2> QED BY <2>1, <2>2, SetCall DEF Moves
  <1>3. ASSUME NEW pc \in {"arm", "pause", "slot", "record"}, Goto(c, pc)
        PROVE  Moves(c, {"arm", "pause", "slot", "record"})
    <2>1. Moves(c, {pc})
      BY <1>1, <1>3, GotoMoves DEF CallPc
    <2> QED BY <2>1 DEF Moves
  <1>4. \/ Set(c, [call[c] EXCEPT !.pc = "record", !.ok = TRUE])
        \/ \E pc \in {"arm", "pause", "slot", "record"} : Goto(c, pc)
    BY DEF ClaimEscalation, ArmEscalation, Admit, AdmitTool, AdmitEmbedding, AdmitFails
  <1> QED BY <1>2, <1>3, <1>4

\* The answers; an answer that is not valid is paid for all the same.
LEMMA AnswerMoves ==
    ASSUME RTyped, NEW c \in Caller,
           \/ AnswerValid(c) \/ AnswerTool(c) \/ AnswerEmbedding(c) \/ AnswerInvalid(c) \/ NoAnswer(c)
    PROVE  Moves(c, {"spend", "record", "slot", "admit"})
  <1>1. call[c] \in CallType /\ call[c].pc = "ask"
    BY DEF RTyped, CallsTyped, AnswerValid, AnswerTool, AnswerEmbedding, AnswerInvalid, NoAnswer
  <1>2. CostNow(c) \in Nat /\ call[c].cost \in Nat
    BY <1>1 DEF CostNow, Price, CallType, CallShape
  <1>3. ASSUME NEW pc \in {"spend", "record"}, Answered(c, pc)
        PROVE  Moves(c, {"spend", "record", "slot", "admit"})
    <2> DEFINE cost == CostNow(c)
               r == [call[c] EXCEPT !.cost = cost, !.ok = TRUE, !.pc = pc]
    <2>1. Set(c, r)
      BY <1>3 DEF Answered
    <2> HIDE DEF cost
    <2>2. r \in CallType /\ r.pc = pc
      BY <1>1, <1>2 DEF CallType, CallShape, CallPc, cost
    <2> HIDE DEF r
    <2> QED BY <2>1, <2>2, SetCall DEF Moves
  <1>4. CASE Set(c, [call[c] EXCEPT !.pc = "slot", !.retry = TRUE, !.cost = CostNow(c)])
    <2> DEFINE cost == CostNow(c)
               r == [call[c] EXCEPT !.pc = "slot", !.retry = TRUE, !.cost = cost]
    <2>1. Set(c, r)
      BY <1>4
    <2> HIDE DEF cost
    <2>2. r \in CallType /\ r.pc = "slot"
      BY <1>1, <1>2 DEF CallType, CallShape, CallPc, cost
    <2> HIDE DEF r
    <2> QED BY <2>1, <2>2, SetCall DEF Moves
  <1>5. ASSUME NEW cost \in Nat, GiveUp(c, cost)
        PROVE  Moves(c, {"spend", "record", "slot", "admit"})
    <2>1. PICK up \in AnyModel : up = NextTier(call[c].model)
      BY ModelsChosen
    <2>2. CASE Set(c, [call[c] EXCEPT !.pc = "admit", !.leg = "escalated", !.model = up,
                     !.retry = FALSE, !.engaged = FALSE, !.outer = cost, !.cost = 0])
      <3> DEFINE r == [call[c] EXCEPT !.pc = "admit", !.leg = "escalated", !.model = up,
                     !.retry = FALSE, !.engaged = FALSE, !.outer = cost, !.cost = 0]
      <3>1. r \in CallType /\ r.pc = "admit"
        BY <1>1 DEF CallType, CallShape, CallPc
      <3>2. Set(c, r)
        BY <2>2
      <3> HIDE DEF r
      <3> QED BY <3>1, <3>2, SetCall DEF Moves
    <2>3. CASE Set(c, [call[c] EXCEPT !.pc = "record", !.cost = cost])
      <3> DEFINE r == [call[c] EXCEPT !.pc = "record", !.cost = cost]
      <3>1. r \in CallType /\ r.pc = "record"
        BY <1>1 DEF CallType, CallShape, CallPc
      <3>2. Set(c, r)
        BY <2>3
      <3> HIDE DEF r
      <3> QED BY <3>1, <3>2, SetCall DEF Moves
    <2> QED BY <1>5, <2>1, <2>2, <2>3 DEF GiveUp
  <1>6. Goto(c, "record") => Moves(c, {"spend", "record", "slot", "admit"})
    <2>1. Goto(c, "record") => Moves(c, {"record"})
      BY <1>1, GotoMoves DEF CallPc
    <2> QED BY <2>1 DEF Moves
  <1>7. \/ \E pc \in {"spend", "record"} : Answered(c, pc)
        \/ Set(c, [call[c] EXCEPT !.pc = "slot", !.retry = TRUE, !.cost = CostNow(c)])
        \/ GiveUp(c, CostNow(c)) \/ GiveUp(c, call[c].cost) \/ Goto(c, "record")
    BY DEF AnswerValid, AnswerTool, AnswerEmbedding, AnswerInvalid, NoAnswer
  <1> QED BY <1>2, <1>3, <1>4, <1>5, <1>6, <1>7

\* After the answer: the counter, the degraded row and the audit row.
LEMMA SpendMoves ==
    ASSUME RTyped, NEW c \in Caller
    PROVE  /\ Spend(c) => Moves(c, {"enter", "record"}) /\ SameModel(c)
           /\ EnterDegraded(c) \/ EnterFails(c) => Moves(c, {"record"})
           /\ Record(c) \/ RecordFails(c) => Moves(c, {"idle", "pause", "record"})
  <1>1. call[c] \in CallType
    BY DEF RTyped, CallsTyped
  <1>2. ASSUME Spend(c) PROVE Moves(c, {"enter", "record"}) /\ SameModel(c)
    <2>1. PICK pc \in {"enter", "record"} : Goto(c, pc)
      BY <1>2 DEF Spend
    <2>2. Moves(c, {pc}) /\ SameModel(c)
      BY <1>2, <2>1, GotoMoves DEF Spend, CallPc
    <2>3. Moves(c, {"enter", "record"})
      BY <2>2 DEF Moves
    <2> QED BY <2>2, <2>3
  <1>3. ASSUME EnterDegraded(c) PROVE Moves(c, {"record"})
    BY <1>3, GotoMoves DEF EnterDegraded, CallPc
  <1>4. ASSUME EnterFails(c) PROVE Moves(c, {"record"})
    <2> DEFINE r == [call[c] EXCEPT !.pc = "record", !.ok = FALSE]
    <2>1. r \in CallType /\ r.pc = "record"
      BY <1>1, <1>4 DEF CallType, CallShape, CallPc, EnterFails
    <2>2. Set(c, r)
      BY <1>4 DEF EnterFails
    <2> HIDE DEF r
    <2> QED BY <2>1, <2>2, SetCall
  <1>5. ASSUME Record(c) \/ RecordFails(c) PROVE Moves(c, {"idle", "pause", "record"})
    <2>1. Recorded(c) /\ call[c].pc = "record"
      BY <1>5 DEF Record, RecordFails
    <2>2. CASE Return(c, call[c].ok)
      <3>1. Moves(c, {"idle", "pause"})
        BY <2>2, ReturnMoves
      <3> QED BY <3>1 DEF Moves
    <2>3. CASE Set(c, [call[c] EXCEPT !.leg = "first", !.cost = call[c].outer, !.outer = 0])
      <3> DEFINE outer == call[c].outer
                 r == [call[c] EXCEPT !.leg = "first", !.cost = outer, !.outer = 0]
      <3>1. outer \in Nat
        BY <1>1 DEF CallType, CallShape
      <3>2. Set(c, r)
        BY <2>3
      <3> HIDE DEF outer
      <3>3. r \in CallType /\ r.pc = "record"
        BY <1>1, <2>1, <3>1 DEF CallType, CallShape
      <3> HIDE DEF r
      <3> QED BY <3>2, <3>3, SetCall DEF Moves
    <2> QED BY <2>1, <2>2, <2>3 DEF Recorded
  <1> QED BY <1>2, <1>3, <1>4, <1>5

\* A step that takes no slot and no lock, and gives none back.
Quiet(c) ==
    /\ call[c].pc \notin {"ask", "enter"} /\ Moves(c, CallPc \ {"ask", "enter"})
    /\ UNCHANGED <<inUse, lock, guard, degraded, lifted>>
    /\ ledger' \in Nat /\ faults' \in Nat /\ faults <= faults'

Answers(c) ==
    /\ call[c].pc = "ask" /\ Moves(c, CallPc \ {"ask", "enter"}) /\ Release(c)
    /\ UNCHANGED <<lock, guard, degraded, lifted, ledger, faults>>

\* What a step of a call does to the slots and the lock.
LEMMA CallMoves ==
    ASSUME RTyped, NEW c \in Caller,
           CallStep(c) \/ EnterFails(c) \/ RecordFails(c) \/ \E t \in Task : Begin(c, t)
    PROVE  \/ Quiet(c) \/ Answers(c)
           \/ Acquire(c) /\ Moves(c, {"ask"}) /\ SameModel(c)
           \/ Spend(c) /\ Moves(c, {"enter", "record"}) /\ SameModel(c)
           \/ (EnterDegraded(c) \/ EnterFails(c)) /\ Moves(c, {"record"})
  <1>1. ledger \in Nat /\ faults \in Nat /\ call[c].cost \in Nat
    BY DEF RTyped, MoneyTyped, CallsTyped, CallType, CallShape
  <1>2. ASSUME NEW pcs \in SUBSET (CallPc \ {"ask", "enter"}), Moves(c, pcs),
               call[c].pc \notin {"ask", "enter"}, UNCHANGED <<inUse, spendVars, faults>>
        PROVE  Quiet(c)
    BY <1>1, <1>2 DEF Quiet, Moves, spendVars
  <1>3. ASSUME NEW t \in Task, Begin(c, t) PROVE Quiet(c)
    <2>1. Moves(c, {"idle", "claim", "pause"})
      BY <1>3, BeginMoves
    <2>2. call[c].pc = "idle" /\ UNCHANGED <<inUse, spendVars, faults>>
      BY <1>3 DEF Begin
    <2> QED BY <1>2, <2>1, <2>2 DEF CallPc
  <1>4. CASE \/ ReadPause(c) \/ ReadPauseTool(c) \/ ReadPauseEmbedding(c) \/ StopStorm(c)
             \/ ReadDegraded(c)
    <2>1. Moves(c, {"idle", "pause", "degraded", "class"})
      BY <1>4, GateMoves
    <2>2. call[c].pc \in {"pause", "degraded"} /\ UNCHANGED <<inUse, spendVars, faults>>
      BY <1>4 DEF ReadPause, ReadPauseTool, ReadPauseEmbedding, StopStorm, ReadDegraded, GateKeeps
    <2> QED BY <1>2, <2>1, <2>2 DEF CallPc
  <1>5. CASE ReadClass(c) \/ PeekGrant(c) \/ UseConfirmation(c) \/ TakeArm(c) \/ RecordGrant(c)
    <2>1. Moves(c, CallPc \ {"ask", "enter", "slot", "spend", "record"})
      BY <1>5, ClassMoves
    <2>2. /\ call[c].pc \in {"class", "peek", "confirmation", "take", "grant"}
          /\ UNCHANGED <<inUse, spendVars, faults>>
      BY <1>5 DEF ReadClass, PeekGrant, UseConfirmation, TakeArm, RecordGrant, GateOpens,
                  GateForbids, GatePasses, GateTakesToken, GateAsks, GateRefusesTool, GateRefuses,
                  Gating, ClassKeeps, AuthKeeps, GateKeeps
    <2> QED BY <1>2, <2>1, <2>2 DEF CallPc
  <1>6. CASE \/ ClaimEscalation(c) \/ ArmEscalation(c)
             \/ Admit(c) \/ AdmitTool(c) \/ AdmitEmbedding(c) \/ AdmitFails(c)
    <2>1. Moves(c, {"arm", "pause", "slot", "record"})
      BY <1>6, AdmitMoves
    <2>2. call[c].pc \in {"claim", "arm", "admit"} /\ UNCHANGED <<inUse, spendVars, faults>>
      BY <1>6 DEF ClaimEscalation, ArmEscalation, Admit, AdmitTool, AdmitEmbedding, AdmitFails,
                  GateKeeps, AdmitKeeps
    <2> QED BY <1>2, <2>1, <2>2 DEF CallPc
  <1>7. CASE Acquire(c)
    <2>1. call[c].pc = "slot" /\ Goto(c, "ask")
      BY <1>7 DEF Acquire
    <2> QED BY <1>7, <2>1, GotoMoves DEF CallPc
  <1>8. CASE AnswerValid(c) \/ AnswerTool(c) \/ AnswerEmbedding(c) \/ AnswerInvalid(c) \/ NoAnswer(c)
    <2>1. Moves(c, {"spend", "record", "slot", "admit"})
      BY <1>8, AnswerMoves
    <2>2. /\ call[c].pc = "ask" /\ Release(c)
          /\ UNCHANGED <<lock, guard, degraded, lifted, ledger, faults>>
      BY <1>8 DEF AnswerValid, AnswerTool, AnswerEmbedding, AnswerInvalid, NoAnswer, AnswerKeeps
    <2> QED BY <2>1, <2>2 DEF Answers, Moves, CallPc
  <1>9. CASE Spend(c)
    BY <1>9, SpendMoves
  <1>10. CASE EnterDegraded(c) \/ EnterFails(c)
    BY <1>10, SpendMoves
  <1>11. CASE Record(c) \/ RecordFails(c)
    <2>1. Moves(c, {"idle", "pause", "record"})
      BY <1>11, SpendMoves
    <2>2. /\ call[c].pc = "record" /\ UNCHANGED <<inUse, lock, guard, degraded, lifted>>
          /\ ledger' \in Nat /\ faults' \in Nat /\ faults <= faults'
      BY <1>1, <1>11 DEF Record, RecordFails, Fault
    <2> QED BY <2>1, <2>2 DEF Quiet, Moves, CallPc
  <1> DEFINE Goal ==
           \/ Quiet(c) \/ Answers(c)
           \/ Acquire(c) /\ Moves(c, {"ask"}) /\ SameModel(c)
           \/ Spend(c) /\ Moves(c, {"enter", "record"}) /\ SameModel(c)
           \/ (EnterDegraded(c) \/ EnterFails(c)) /\ Moves(c, {"record"})
  <1>12. (CallStep(c) \/ EnterFails(c) \/ RecordFails(c) \/ \E t \in Task : Begin(c, t)) => Goal
    <2>1. Quiet(c) \/ Answers(c) => Goal
      OBVIOUS
    <2> HIDE DEF Goal
    <2> QED BY <1>3, <1>4, <1>5, <1>6, <1>7, <1>8, <1>9, <1>10, <1>11, <2>1 DEF CallStep, Goal
  <1> QED BY <1>12

\* The tokens of the mint verb name an email and a task.
LEMMA MintTyped ==
    ASSUME RTyped, EscalationStep
    PROVE  /\ class' \in [Email -> Class] /\ minted' \in Seq(Scope)
           /\ minting' \in [pc : {"idle", "confirmation", "arm"}, scope : Scope \cup {NULL}]
           /\ minting'.pc # "idle" => minting'.scope \in Scope
  <1>0. class' \in [Email -> Class]
    <2>1. class \in [Email -> Class]
      BY DEF RTyped, CallsTyped
    <2>2. ASSUME NEW e \in Email, NEW c \in Class, Classify(e, c) PROVE class' \in [Email -> Class]
      BY <2>1, <2>2 DEF Classify
    <2>3. ASSUME NEW e \in Email, NEW t \in ScopedTask, MintBegins(e, t) PROVE UNCHANGED class
      BY <2>3 DEF MintBegins, MintKeeps
    <2>4. ASSUME NEW text, UserWrites(text) PROVE UNCHANGED class
      BY <2>4 DEF UserWrites
    <2>5. MintOnConfirmation \/ MintOnArm => UNCHANGED class
      BY DEF MintOnConfirmation, MintOnArm, MintKeeps
    <2> QED BY <2>1, <2>2, <2>3, <2>4, <2>5 DEF EscalationStep
  <1>1. /\ minted \in Seq(Scope)
        /\ minting \in [pc : {"idle", "confirmation", "arm"}, scope : Scope \cup {NULL}]
        /\ minting.pc # "idle" => minting.scope \in Scope
    BY DEF RTyped, CallsTyped
  <1>2. CASE UNCHANGED <<minted, minting>>
    BY <1>0, <1>1, <1>2
  <1>3. ASSUME NEW e \in Email, NEW t \in ScopedTask, MintBegins(e, t)
        PROVE  /\ minted' \in Seq(Scope)
               /\ minting' \in [pc : {"idle", "confirmation", "arm"}, scope : Scope \cup {NULL}]
               /\ minting'.pc # "idle" => minting'.scope \in Scope
    BY <1>1, <1>3 DEF MintBegins, Scope
  <1>4. CASE MintToken /\ minting.pc # "idle"
    <2>1. minted' \in Seq(Scope)
      BY <1>1, <1>4, AppendProperties DEF MintToken
    <2> QED BY <1>0, <1>4, <2>1 DEF MintToken, IdleMint
  <1>5. CASE MintOnConfirmation
    <2>1. MintToken \/ (MintGoto("arm") /\ UNCHANGED minted)
      BY <1>5 DEF MintOnConfirmation
    <2>2. CASE MintGoto("arm") /\ UNCHANGED minted
      BY <1>0, <1>1, <1>5, <2>2 DEF MintGoto, MintOnConfirmation
    <2> QED BY <1>4, <1>5, <2>1, <2>2 DEF MintOnConfirmation
  <1>6. CASE MintOnArm
    <2>1. MintToken \/ (minting' = IdleMint /\ UNCHANGED minted)
      BY <1>6 DEF MintOnArm
    <2>2. CASE minting' = IdleMint /\ UNCHANGED minted
      BY <1>0, <1>1, <2>2 DEF IdleMint
    <2> QED BY <1>4, <1>6, <2>1, <2>2 DEF MintOnArm
  <1>7. ASSUME NEW e \in Email, NEW c, Classify(e, c) PROVE UNCHANGED <<minted, minting>>
    BY <1>7 DEF Classify
  <1>8. ASSUME NEW text, UserWrites(text) PROVE UNCHANGED <<minted, minting>>
    BY <1>8 DEF UserWrites
  <1> DEFINE Goal == /\ minted' \in Seq(Scope)
                     /\ minting' \in [pc : {"idle", "confirmation", "arm"}, scope : Scope \cup {NULL}]
                     /\ minting'.pc # "idle" => minting'.scope \in Scope
  <1>9. Goal
    <2>1. UNCHANGED <<minted, minting>> => Goal
      BY <1>2
    <2>2. \A e \in Email, t \in ScopedTask : MintBegins(e, t) => Goal
      BY <1>3
    <2>3. MintOnConfirmation \/ MintOnArm => Goal
      BY <1>5, <1>6
    <2> HIDE DEF Goal
    <2> QED BY <1>7, <1>8, <2>1, <2>2, <2>3 DEF EscalationStep
  <1> QED BY <1>0, <1>9

\* The steps of a call leave the files and the tokens alone, and take the
\* one-shot override at most.
LEMMA CallsKeep ==
    ASSUME NEW c \in Caller,
           CallStep(c) \/ EnterFails(c) \/ RecordFails(c) \/ \E t \in Task : Begin(c, t)
    PROVE  /\ UNCHANGED <<policyVars, class, minted, minting>>
           /\ oneshot' = oneshot \/ oneshot' = NULL
           /\ oneshot' = oneshot \/ Admit(c) \/ AdmitTool(c)
  <1>1. CASE \E t \in Task : Begin(c, t)
    BY <1>1 DEF Begin, ChatUnchanged, escalationVars
  <1>2. CASE \/ ReadPause(c) \/ ReadPauseTool(c) \/ ReadPauseEmbedding(c) \/ StopStorm(c)
             \/ ReadDegraded(c)
    BY <1>2 DEF ReadPause, ReadPauseTool, ReadPauseEmbedding, StopStorm, ReadDegraded, GateKeeps,
                ChatUnchanged, escalationVars
  <1>3. CASE ReadClass(c)
    BY <1>3 DEF ReadClass, GateOpens, GateForbids, GatePasses, GateTakesToken, GateAsks,
                GateRefusesTool, GateRefuses, ClassKeeps, GateKeeps
  <1>4. CASE PeekGrant(c) \/ UseConfirmation(c) \/ TakeArm(c) \/ RecordGrant(c)
    BY <1>4 DEF PeekGrant, UseConfirmation, TakeArm, RecordGrant, AuthKeeps, GateKeeps
  <1>5. CASE ClaimEscalation(c) \/ ArmEscalation(c)
    BY <1>5 DEF ClaimEscalation, ArmEscalation, ClaimRefusal, Arm, ChatKeeps, GateKeeps
  <1>6. CASE Admit(c) \/ AdmitTool(c) \/ AdmitEmbedding(c) \/ AdmitFails(c)
    BY <1>6 DEF Admit, AdmitTool, AdmitEmbedding, AdmitFails, AdmitKeeps, ChatUnchanged,
                escalationVars
  <1>7. CASE Acquire(c) \/ Spend(c) \/ EnterDegraded(c) \/ EnterFails(c) \/ Record(c) \/ RecordFails(c)
    BY <1>7 DEF Acquire, Spend, EnterDegraded, EnterFails, Record, RecordFails, ChatUnchanged,
                escalationVars
  <1>8. CASE AnswerValid(c) \/ AnswerTool(c) \/ AnswerEmbedding(c) \/ AnswerInvalid(c) \/ NoAnswer(c)
    BY <1>8 DEF AnswerValid, AnswerTool, AnswerEmbedding, AnswerInvalid, NoAnswer, AnswerKeeps,
                ChatUnchanged, escalationVars
  <1> QED BY <1>1, <1>2, <1>3, <1>4, <1>5, <1>6, <1>7, <1>8 DEF CallStep

\* A restart ends the calls of its process and starts its memory afresh.
LEMMA RestartSets ==
    ASSUME RTyped, NEW p \in Process, Restart(p)
    PROVE  /\ call' \in [Caller -> CallType]
           /\ \A c \in Caller : IF call[c].pc # "idle" /\ ProcOf(c) = p THEN call'[c] = IdleCall
                                ELSE call'[c] = call[c]
           /\ inUse' = [inUse EXCEPT ![p] = 0] /\ lock' = [lock EXCEPT ![p] = NULL]
           /\ guard' = [guard EXCEPT ![p] = IdleGuard(ledger, degraded)]
           /\ guard' \in [Process -> GuardType]
           /\ faults' \in Nat \ {0} /\ UNCHANGED <<degraded, ledger, lifted>>
  <1>1. call \in [Caller -> CallType] /\ IdleCall \in CallType
    BY DEF RTyped, CallsTyped, IdleCall, CallType, CallShape, CallPc, AnyModel, Class
  <1> DEFINE gone == {c \in Caller : call[c].pc # "idle" /\ ProcOf(c) = p}
  <1>2. call' = [c \in Caller |-> IF c \in gone THEN IdleCall ELSE call[c]]
    BY DEF Restart
  <1>3. /\ call' \in [Caller -> CallType]
        /\ \A c \in Caller : IF call[c].pc # "idle" /\ ProcOf(c) = p THEN call'[c] = IdleCall
                             ELSE call'[c] = call[c]
    <2>1. \A c \in Caller : call'[c] = IF c \in gone THEN IdleCall ELSE call[c]
      BY <1>2
    <2>2. call' \in [Caller -> CallType]
      BY <1>1, <1>2
    <2> QED BY <2>1, <2>2
  <1>4. IdleGuard(ledger, degraded) \in GuardType
    BY DEF RTyped, MoneyTyped, IdleGuard, GuardType
  <1>5. guard' = [guard EXCEPT ![p] = IdleGuard(ledger, degraded)]
    BY DEF Restart
  <1>6. guard' \in [Process -> GuardType]
    BY <1>4, <1>5 DEF RTyped, MoneyTyped
  <1>7. faults' \in Nat \ {0}
    <2>1. Fault
      BY DEF Restart
    <2>2. faults \in Nat /\ faults' = faults + 1
      BY <2>1 DEF Fault, RTyped, MoneyTyped
    <2> QED BY <2>2
  <1>8. /\ inUse' = [inUse EXCEPT ![p] = 0] /\ lock' = [lock EXCEPT ![p] = NULL]
        /\ UNCHANGED <<degraded, ledger, lifted>>
    BY DEF Restart
  <1> QED BY <1>3, <1>5, <1>6, <1>7, <1>8

\* Every step of the router keeps the types.
LEMMA RTypedStep ==
    ASSUME RTyped, [RouterNext]_vars
    PROVE  RTyped'
  <1>1. NULL \in AnyModel /\ Wanted \subseteq AnyModel /\ oneshot \in AnyModel
    BY DEF AnyModel, RTyped, FilesTyped
  <1>2. UNCHANGED policyVars /\ oneshot' \in AnyModel => FilesTyped'
    BY DEF policyVars, RTyped, FilesTyped
  <1>3. UNCHANGED <<class, minted, minting>> /\ call' \in [Caller -> CallType] => CallsTyped'
    BY DEF RTyped, CallsTyped
  <1>4. UNCHANGED <<guard, lock, inUse, ledger, faults, degraded>> => MoneyTyped'
    BY DEF RTyped, MoneyTyped
  <1>5. ASSUME NEW c \in Caller,
               CallStep(c) \/ EnterFails(c) \/ RecordFails(c) \/ \E t \in Task : Begin(c, t)
        PROVE  RTyped'
    <2>1. FilesTyped'
      BY <1>1, <1>2, <1>5, CallsKeep
    <2>2. \E pcs : Moves(c, pcs)
      BY <1>5, CallMoves DEF Quiet, Answers
    <2>3. CallsTyped'
      BY <1>3, <1>5, <2>2, CallsKeep DEF Moves
    <2>4. ProcOf(c) \in Process /\ Price(call[c].model) \in Int
      BY DEF ProcOf, Home, Process, Price
    <2>5. ASSUME Quiet(c) PROVE MoneyTyped'
      BY <2>5 DEF Quiet, RTyped, MoneyTyped
    <2>6. ASSUME Answers(c) PROVE MoneyTyped'
      <3>1. inUse' \in [Process -> Int]
        BY <2>4, <2>6 DEF Answers, Release, RTyped, MoneyTyped
      <3> QED BY <2>6, <3>1 DEF Answers, RTyped, MoneyTyped
    <2>7. ASSUME Acquire(c) PROVE MoneyTyped'
      <3>1. inUse' \in [Process -> Int]
        BY <2>4, <2>7 DEF Acquire, RTyped, MoneyTyped
      <3> QED BY <2>7, <3>1 DEF Acquire, RTyped, MoneyTyped, spendVars
    <2>8. ASSUME Spend(c) PROVE MoneyTyped'
      <3>1. guard[ProcOf(c)] \in GuardType /\ call[c].cost \in Nat
        BY <2>4 DEF RTyped, MoneyTyped, CallsTyped, CallType, CallShape
      <3>2. PICK now \in Nat : now = guard[ProcOf(c)].month + call[c].cost
        BY <3>1 DEF GuardType
      <3>3. guard' = [guard EXCEPT ![ProcOf(c)].month = now]
        BY <2>8, <3>2 DEF Spend
      <3>4. guard' \in [Process -> GuardType]
        BY <3>1, <3>3 DEF RTyped, MoneyTyped, GuardType
      <3>5. lock' \in [Process -> Caller \cup {NULL}]
        BY <2>8 DEF Spend, RTyped, MoneyTyped
      <3> QED BY <2>8, <3>4, <3>5 DEF Spend, RTyped, MoneyTyped
    <2>9. ASSUME EnterDegraded(c) \/ EnterFails(c) PROVE MoneyTyped'
      <3>1. guard' \in [Process -> GuardType]
        BY <2>9 DEF EnterDegraded, EnterFails, RTyped, MoneyTyped, GuardType
      <3>2. lock' = [lock EXCEPT ![ProcOf(c)] = NULL] /\ UNCHANGED <<inUse, ledger>>
        BY <2>9 DEF EnterDegraded, EnterFails
      <3>3. lock' \in [Process -> Caller \cup {NULL}]
        BY <3>2 DEF RTyped, MoneyTyped
      <3>4. degraded' \in BOOLEAN
        BY <2>9 DEF EnterDegraded, EnterFails, RTyped, MoneyTyped
      <3>5. Fault \/ UNCHANGED faults
        BY <2>9 DEF EnterDegraded, EnterFails
      <3>6. faults' \in Nat
        BY <3>5 DEF Fault, RTyped, MoneyTyped
      <3> QED BY <3>1, <3>2, <3>3, <3>4, <3>6 DEF RTyped, MoneyTyped
    <2>10. MoneyTyped'
      BY <1>5, <2>5, <2>6, <2>7, <2>8, <2>9, CallMoves DEF RTyped
    <2> QED BY <2>1, <2>3, <2>10 DEF RTyped
  <1>6. CASE OperatorStep
    <2>1. UNCHANGED <<policyVars, class, minted, minting, call, lock, inUse, ledger, faults>>
      BY <1>6 DEF OperatorStep, PauseOrResume, OneShotExpires, ResetDegraded, Rederive,
                  SetModelOneShot, OrderKeeps, ChatUnchanged, escalationVars
    <2>2. /\ oneshot' \in AnyModel /\ degraded' \in BOOLEAN
          /\ guard' = guard \/ guard' = [guard EXCEPT !["api"].flag = FALSE]
      BY <1>1, <1>6 DEF OperatorStep, PauseOrResume, OneShotExpires, ResetDegraded, Rederive,
                        SetModelOneShot, OrderKeeps, RTyped, MoneyTyped
    <2>5. guard' \in [Process -> GuardType]
      BY <2>2 DEF RTyped, MoneyTyped, GuardType
    <2>3. FilesTyped' /\ CallsTyped'
      BY <1>2, <1>3, <2>1, <2>2 DEF RTyped, CallsTyped
    <2>4. MoneyTyped'
      BY <2>1, <2>2, <2>5 DEF RTyped, MoneyTyped
    <2> QED BY <2>3, <2>4 DEF RTyped
  <1>7. ASSUME NEW p \in Process, Restart(p) PROVE RTyped'
    <2>1. policy' \in [Process -> Snapshot]
      BY <1>7, RebootTyped DEF Restart, RTyped
    <2>2. oneshot' \in AnyModel /\ UNCHANGED <<baseline, overrides>>
      BY <1>1, <1>7 DEF Restart, Reboot
    <2>3. FilesTyped'
      BY <2>1, <2>2 DEF RTyped, FilesTyped
    <2>4. UNCHANGED <<class, minted>> /\ (minting' = IdleMint \/ UNCHANGED minting)
      BY <1>7 DEF Restart
    <2>5. CallsTyped'
      BY <1>7, <2>4, RestartSets DEF RTyped, CallsTyped, IdleMint
    <2>6. MoneyTyped'
      BY <1>7, RestartSets DEF RTyped, MoneyTyped
    <2> QED BY <2>3, <2>5, <2>6 DEF RTyped
  <1>8. CASE PolicyStep /\ UNCHANGED <<escalationVars, routerVars>>
    <2>1. FilesTyped'
      BY <1>8, PolicyTypedStep DEF RTyped, routerVars
    <2> QED BY <1>3, <1>4, <1>8, <2>1 DEF RTyped, CallsTyped, escalationVars, routerVars, spendVars
  <1>9. CASE EscalationStep /\ UNCHANGED <<policyVars, routerVars>>
    <2>1. FilesTyped' /\ MoneyTyped'
      BY <1>1, <1>2, <1>4, <1>9 DEF routerVars, spendVars
    <2>2. CallsTyped'
      BY <1>9, MintTyped DEF RTyped, CallsTyped, routerVars
    <2> QED BY <2>1, <2>2 DEF RTyped
  <1>10. CASE EntryLapses
    <2>1. /\ UNCHANGED <<policyVars, oneshot, class, minted, minting, call, guard, lock, inUse, ledger,
                         degraded>>
          /\ faults' \in Nat
      BY <1>10 DEF EntryLapses, Lapses, spendVars, Fault, RTyped, MoneyTyped
    <2> QED BY <1>1, <1>2, <1>3, <2>1 DEF RTyped, CallsTyped, MoneyTyped
  <1>11. CASE UNCHANGED vars
    BY <1>1, <1>2, <1>3, <1>4, <1>11 DEF vars, escalationVars, routerVars, spendVars, RTyped, CallsTyped
  <1> QED BY <1>5, <1>6, <1>7, <1>8, <1>9, <1>10, <1>11 DEF RouterNext

\* The router starts with the types.
LEMMA RouterInitTyped == RouterInit => RTyped
  <1> SUFFICES ASSUME RouterInit PROVE RTyped
    OBVIOUS
  <1>1. PolicyStart /\ EscalationStart /\ RouterStart
    BY DEF RouterInit, RouterStart
  <1>2. None \in [Task -> AnyModel]
    BY DEF None, AnyModel
  <1>3. baseline = [state |-> "ok", version |-> 0] /\ overrides = [state |-> "ok", models |-> None]
    BY <1>1 DEF PolicyStart
  <1>4. Load \in Snapshot
    BY <1>2, <1>3 DEF Load, Snapshot
  <1>5. FilesTyped
    <2>1. policy \in [Process -> Snapshot]
      BY <1>1, <1>4 DEF PolicyStart
    <2>2. oneshot \in AnyModel
      BY <1>1 DEF RouterStart, AnyModel
    <2> QED BY <1>2, <1>3, <2>1, <2>2 DEF FilesTyped
  <1>6. CallsTyped
    <2>1. IdleCall \in CallType
      BY DEF IdleCall, CallType, CallShape, CallPc, AnyModel, Class
    <2>2. call \in [Caller -> CallType]
      BY <1>1, <2>1 DEF RouterStart
    <2>3. class \in [Email -> Class] /\ minted = <<>> /\ minting = IdleMint
      BY <1>1 DEF EscalationStart
    <2>4. minted \in Seq(Scope)
      BY <2>3, EmptySeq
    <2> QED BY <2>2, <2>3, <2>4 DEF CallsTyped, IdleMint
  <1>7. MoneyTyped
    <2>1. guard \in [Process -> GuardType]
      BY <1>1 DEF RouterStart, IdleGuard, GuardType
    <2>2. lock \in [Process -> Caller \cup {NULL}] /\ inUse \in [Process -> Int]
      BY <1>1 DEF RouterStart
    <2>3. faults = 0
      BY DEF RouterInit
    <2> QED BY <1>1, <2>1, <2>2, <2>3 DEF RouterStart, MoneyTyped
  <1> QED BY <1>5, <1>6, <1>7 DEF RTyped

\* Types hold always.
LEMMA RouterTyped == RouterSpec => []RTyped
  BY RouterInitTyped, RTypedStep, PTL DEF RouterSpec
-----------------------------------------------------------------------------
(* The properties. *)

\* What the steps outside the policy do to the snapshots: nothing, or a start.
LEMMA RouterPolicyStep ==
    ASSUME RTyped, [RouterNext]_vars
    PROVE  PolicyStep \/ UNCHANGED policyVars \/ \E p \in Process : Reboot(p)
  <1>1. ASSUME NEW c \in Caller,
               CallStep(c) \/ EnterFails(c) \/ RecordFails(c) \/ \E t \in Task : Begin(c, t)
        PROVE  UNCHANGED policyVars
    BY <1>1, CallsKeep
  <1>2. OperatorStep => UNCHANGED policyVars
    BY DEF OperatorStep, PauseOrResume, OneShotExpires, ResetDegraded, Rederive, SetModelOneShot,
           OrderKeeps, ChatUnchanged
  <1>3. ASSUME NEW p \in Process, Restart(p) PROVE Reboot(p)
    BY <1>3 DEF Restart
  <1>4. EntryLapses => UNCHANGED policyVars
    BY DEF EntryLapses
  <1>5. UNCHANGED vars => UNCHANGED policyVars
    BY DEF vars
  <1> QED BY <1>1, <1>2, <1>3, <1>4, <1>5 DEF RouterNext

\* Once the watcher has nothing left to handle, the API routes by the files on
\* disk, whatever the order of edits, breakages, repairs, deletions, verbs, polls
\* and restarts, unless a file is broken now (router/policy.py, the watcher and
\* set_model_persistent).
THEOREM EditsReachRouterHolds == RouterSpec => []EditsReachRouter
  <1>1. RouterInit => EditsReachRouter
    BY DEF RouterInit, RouterStart, PolicyStart, EditsReachRouter, Process
  <1>2. RTyped /\ EditsReachRouter /\ [RouterNext]_vars => EditsReachRouter'
    BY RouterPolicyStep, PolicyFollows DEF RTyped
  <1> QED BY <1>1, <1>2, RouterTyped, PTL DEF RouterSpec

\* The calls that hold a slot of the paid provider.
Asking(p) == {c \in Caller : call[c].pc = "ask" /\ Paid(call[c].model) /\ ProcOf(c) = p}

SlotsCounted == \A p \in Process : inUse[p] = Cardinality(Asking(p))

Owned(p) == lock[p] # NULL => call[lock[p]].pc = "enter" /\ ProcOf(lock[p]) = p

LockOwned == \A p \in Process : Owned(p)

\* The two parts of NothingLeaks.
LEMMA LeakParts == NothingLeaks <=> SlotsCounted /\ LockOwned
  BY DEF NothingLeaks, SlotsCounted, LockOwned, Owned, Asking

\* The calls at a provider are finitely many.
LEMMA AskingFinite == \A p : IsFiniteSet(Asking(p)) /\ Cardinality(Asking(p)) \in Nat
  <1> TAKE p
  <1>1. IsFiniteSet(Asking(p))
    BY RouterAssumption, FS_Subset DEF Asking
  <1> QED BY <1>1, FS_CardinalityType

\* A step that changes neither the slots taken nor who holds one.
LEMMA SameAsking ==
    ASSUME SlotsCounted, UNCHANGED inUse, \A p \in Process : Asking(p)' = Asking(p)
    PROVE  SlotsCounted'
  <1>1. ASSUME NEW p \in Process PROVE inUse'[p] = Cardinality(Asking(p)')
    BY <1>1 DEF SlotsCounted
  <1> QED BY <1>1 DEF SlotsCounted

\* A step of a call counts its slot in and out.
LEMMA CallSlots ==
    ASSUME RTyped, SlotsCounted, NEW c \in Caller,
           CallStep(c) \/ EnterFails(c) \/ RecordFails(c) \/ \E t \in Task : Begin(c, t)
    PROVE  SlotsCounted'
  <1>1. ProcOf(c) \in Process
    BY DEF ProcOf, Home, Process
  <1>2. ASSUME NEW pcs, Moves(c, pcs), call[c].pc # "ask", "ask" \notin pcs
        PROVE  \A p \in Process : Asking(p)' = Asking(p)
    <2>1. \A d \in Caller : d # c => call'[d] = call[d] /\ ProcOf(d)' = ProcOf(d)
      BY <1>2 DEF Moves, ProcOf
    <2>2. call'[c].pc # "ask"
      BY <1>2 DEF Moves
    <2> QED BY <1>2, <2>1, <2>2 DEF Asking
  <1>3. CASE Quiet(c)
    BY <1>2, <1>3, SameAsking DEF Quiet
  <1>4. CASE Spend(c) /\ Moves(c, {"enter", "record"})
    BY <1>2, <1>4, SameAsking DEF Spend
  <1>5. CASE (EnterDegraded(c) \/ EnterFails(c)) /\ Moves(c, {"record"})
    BY <1>2, <1>5, SameAsking DEF EnterDegraded, EnterFails
  <1>6. CASE Answers(c)
    <2>1. \A d \in Caller : d # c => call'[d] = call[d] /\ ProcOf(d)' = ProcOf(d)
      BY <1>6 DEF Answers, Moves, ProcOf
    <2>2. call'[c].pc # "ask" /\ call[c].pc = "ask"
      BY <1>6 DEF Answers, Moves
    <2>3. inUse' = [inUse EXCEPT ![ProcOf(c)] = @ - Price(call[c].model)] /\ inUse \in [Process -> Int]
      BY <1>6 DEF Answers, Release, RTyped, MoneyTyped
    <2>4. ASSUME NEW p \in Process PROVE inUse'[p] = Cardinality(Asking(p)')
      <3>1. CASE Paid(call[c].model) /\ ProcOf(c) = p
        <4>1. Asking(p)' = Asking(p) \ {c} /\ c \in Asking(p)
          BY <2>1, <2>2, <3>1 DEF Asking
        <4>2. Cardinality(Asking(p) \ {c}) = Cardinality(Asking(p)) - 1
          BY <4>1, AskingFinite, FS_RemoveElement
        <4>3. inUse'[p] = inUse[p] - 1
          BY <2>3, <3>1 DEF Price
        <4> QED BY <4>1, <4>2, <4>3 DEF SlotsCounted
      <3>2. CASE ~(Paid(call[c].model) /\ ProcOf(c) = p)
        <4>1. Asking(p)' = Asking(p)
          BY <2>1, <2>2, <3>2 DEF Asking
        <4>2. inUse'[p] = inUse[p]
          BY <2>3, <3>2 DEF Price
        <4> QED BY <4>1, <4>2 DEF SlotsCounted
      <3> QED BY <3>1, <3>2
    <2> QED BY <2>4 DEF SlotsCounted
  <1>7. CASE Acquire(c) /\ Moves(c, {"ask"}) /\ SameModel(c)
    <2>1. \A d \in Caller : d # c => call'[d] = call[d] /\ ProcOf(d)' = ProcOf(d)
      BY <1>7 DEF Moves, ProcOf
    <2>2. call'[c].pc = "ask" /\ call[c].pc # "ask" /\ ProcOf(c)' = ProcOf(c)
      BY <1>7 DEF Moves, Acquire, SameModel, ProcOf
    <2>3. inUse' = [inUse EXCEPT ![ProcOf(c)] = @ + Price(call[c].model)] /\ inUse \in [Process -> Int]
      BY <1>7 DEF Acquire, RTyped, MoneyTyped
    <2>4. call'[c].model = call[c].model
      BY <1>7 DEF SameModel
    <2>5. ASSUME NEW p \in Process PROVE inUse'[p] = Cardinality(Asking(p)')
      <3>1. CASE Paid(call[c].model) /\ ProcOf(c) = p
        <4>1. Asking(p)' = Asking(p) \cup {c} /\ c \notin Asking(p)
          BY <2>1, <2>2, <2>4, <3>1 DEF Asking
        <4>2. Cardinality(Asking(p) \cup {c}) = Cardinality(Asking(p)) + 1
          BY <4>1, AskingFinite, FS_AddElement
        <4>3. inUse'[p] = inUse[p] + 1
          BY <2>3, <3>1 DEF Price
        <4> QED BY <4>1, <4>2, <4>3 DEF SlotsCounted
      <3>2. CASE ~(Paid(call[c].model) /\ ProcOf(c) = p)
        <4>1. Asking(p)' = Asking(p)
          BY <2>1, <2>2, <2>4, <3>2 DEF Asking
        <4>2. inUse'[p] = inUse[p]
          BY <2>3, <3>2 DEF Price
        <4> QED BY <4>1, <4>2 DEF SlotsCounted
      <3> QED BY <3>1, <3>2
    <2> QED BY <2>5 DEF SlotsCounted
  <1> QED BY <1>3, <1>4, <1>5, <1>6, <1>7, CallMoves

\* The lock is taken by the call that goes on to write the degraded row, and
\* given back when it has, or has failed to.
LEMMA CallLock ==
    ASSUME RTyped, LockOwned, NEW c \in Caller,
           CallStep(c) \/ EnterFails(c) \/ RecordFails(c) \/ \E t \in Task : Begin(c, t)
    PROVE  LockOwned'
  <1>1. ProcOf(c) \in Process /\ lock \in [Process -> Caller \cup {NULL}]
    BY DEF ProcOf, Home, Process, RTyped, MoneyTyped
  <1>2. ASSUME NEW p \in Process, NEW pcs, Moves(c, pcs), lock'[p] = lock[p], lock[p] # c
        PROVE  Owned(p)'
    <2>1. CASE lock[p] = NULL
      BY <1>2, <2>1 DEF Owned
    <2>2. CASE lock[p] # NULL
      <3>1. PICK d \in Caller : d = lock[p]
        BY <1>1, <2>2
      <3>2. lock'[p] = d /\ call[d].pc = "enter" /\ ProcOf(d) = p
        BY <1>2, <2>2, <3>1 DEF LockOwned, Owned
      <3>3. call'[d] = call[d] /\ ProcOf(d)' = ProcOf(d)
        BY <1>2, <3>1 DEF Moves, ProcOf
      <3> QED BY <3>2, <3>3 DEF Owned, ProcOf
    <2> QED BY <2>1, <2>2
  <1>3. CASE Quiet(c) \/ Answers(c)
    <2>1. call[c].pc # "enter" /\ UNCHANGED lock /\ \E pcs : Moves(c, pcs)
      BY <1>3 DEF Quiet, Answers
    <2>2. \A p \in Process : lock[p] # c
      BY <2>1, RouterAssumption DEF LockOwned, Owned
    <2> QED BY <1>2, <2>1, <2>2 DEF LockOwned
  <1>4. CASE Acquire(c) /\ Moves(c, {"ask"})
    <2>1. call[c].pc # "enter" /\ UNCHANGED lock
      BY <1>4 DEF Acquire, spendVars
    <2>2. \A p \in Process : lock[p] # c
      BY <2>1, RouterAssumption DEF LockOwned, Owned
    <2> QED BY <1>2, <1>4, <2>1, <2>2 DEF LockOwned
  <1>5. CASE Spend(c) /\ Moves(c, {"enter", "record"}) /\ SameModel(c)
    <2>1. /\ call[c].pc = "spend" /\ lock[ProcOf(c)] = NULL /\ ProcOf(c)' = ProcOf(c)
      BY <1>5 DEF Spend, SameModel, ProcOf
    <2>2. \/ lock' = [lock EXCEPT ![ProcOf(c)] = c] /\ Goto(c, "enter")
          \/ lock' = [lock EXCEPT ![ProcOf(c)] = NULL]
      BY <1>5 DEF Spend
    <2>3. ASSUME Goto(c, "enter") PROVE call'[c].pc = "enter"
      BY <2>1, <2>3, GotoMoves DEF Moves, CallPc
    <2>4. \A p \in Process : lock[p] # c
      BY <2>1, RouterAssumption DEF LockOwned, Owned
    <2>5. ASSUME NEW p \in Process
          PROVE  Owned(p)'
      <3>1. CASE p # ProcOf(c)
        BY <1>1, <1>2, <1>5, <2>2, <2>4, <3>1
      <3>2. CASE p = ProcOf(c)
        BY <1>1, <2>1, <2>2, <2>3, <3>2 DEF Owned, ProcOf
      <3> QED BY <3>1, <3>2
    <2> QED BY <2>5 DEF LockOwned
  <1>6. CASE (EnterDegraded(c) \/ EnterFails(c)) /\ Moves(c, {"record"})
    <2>1. lock' = [lock EXCEPT ![ProcOf(c)] = NULL]
      BY <1>6 DEF EnterDegraded, EnterFails
    <2>2. ASSUME NEW p \in Process
          PROVE  Owned(p)'
      <3>1. CASE p # ProcOf(c) /\ lock[p] # NULL
        <4>1. lock'[p] = lock[p] /\ lock[p] # c
          BY <1>1, <1>6, <2>1, <3>1 DEF LockOwned, Owned, EnterDegraded, EnterFails
        <4> QED BY <1>2, <1>6, <4>1
      <3>2. CASE p = ProcOf(c) \/ lock[p] = NULL
        BY <1>1, <2>1, <3>2 DEF Owned
      <3> QED BY <3>1, <3>2
    <2> QED BY <2>2 DEF LockOwned
  <1> QED BY <1>3, <1>4, <1>5, <1>6, CallMoves

\* A restart gives back the slots and the lock of its process, and no others.
LEMMA RestartLeaks ==
    ASSUME RTyped, SlotsCounted, LockOwned, NEW p \in Process, Restart(p)
    PROVE  SlotsCounted' /\ LockOwned'
  <1>1. /\ \A c \in Caller : IF call[c].pc # "idle" /\ ProcOf(c) = p THEN call'[c] = IdleCall
                             ELSE call'[c] = call[c]
        /\ inUse' = [inUse EXCEPT ![p] = 0] /\ lock' = [lock EXCEPT ![p] = NULL]
    BY RestartSets
  <1>2. inUse \in [Process -> Int] /\ lock \in [Process -> Caller \cup {NULL}]
    BY DEF RTyped, MoneyTyped
  <1>3. IdleCall.pc = "idle"
    BY DEF IdleCall
  <1>4. \A c \in Caller : ProcOf(c) # p => call'[c] = call[c] /\ ProcOf(c)' = ProcOf(c)
    BY <1>1 DEF ProcOf
  <1>5. \A c \in Caller : ProcOf(c) = p => call'[c].pc = "idle"
    BY <1>1, <1>3
  <1>6. ASSUME NEW q \in Process PROVE inUse'[q] = Cardinality(Asking(q)')
    <2>1. CASE q = p
      <3>1. \A c \in Caller : call'[c].pc = "ask" => ProcOf(c)' # p
        BY <1>4, <1>5
      <3>2. Asking(q)' = {}
        BY <2>1, <3>1 DEF Asking
      <3> QED BY <1>1, <1>2, <2>1, <3>2, FS_EmptySet
    <2>2. CASE q # p
      <3>1. Asking(q)' = Asking(q)
        BY <1>4, <1>5, <2>2 DEF Asking
      <3> QED BY <1>1, <1>2, <2>2, <3>1 DEF SlotsCounted
    <2> QED BY <2>1, <2>2
  <1>7. ASSUME NEW q \in Process
        PROVE  Owned(q)'
    <2>1. CASE q = p
      BY <1>1, <1>2, <2>1 DEF Owned
    <2>2. CASE q # p /\ lock[q] # NULL
      <3>1. lock'[q] = lock[q] /\ lock[q] \in Caller /\ ProcOf(lock[q]) = q /\ call[lock[q]].pc = "enter"
        BY <1>1, <1>2, <2>2 DEF LockOwned, Owned
      <3>2. PICK d \in Caller : d = lock[q]
        BY <3>1
      <3>3. call'[d] = call[d] /\ ProcOf(d)' = ProcOf(d)
        BY <1>4, <2>2, <3>1, <3>2
      <3> QED BY <3>1, <3>2, <3>3 DEF Owned, ProcOf
    <2>3. CASE q # p /\ lock[q] = NULL
      BY <1>1, <1>2, <2>3 DEF Owned
    <2> QED BY <2>1, <2>2, <2>3
  <1> QED BY <1>6, <1>7 DEF SlotsCounted, LockOwned

\* The slots taken at the paid provider are the calls that wait for it, and the
\* budget lock is held by a call that is writing the degraded row, in each
\* process and whatever fails or restarts (router/router.py, the semaphore of
\* the dispatch and BudgetGuard.add_spend).
THEOREM NothingLeaksHolds == RouterSpec => []NothingLeaks
  <1>1. RouterInit => NothingLeaks
    <2> SUFFICES ASSUME RouterInit PROVE SlotsCounted /\ LockOwned
      BY LeakParts
    <2>1. \A c \in Caller : call[c].pc = "idle"
      BY DEF RouterInit, RouterStart, IdleCall
    <2>2. inUse = [p \in Process |-> 0] /\ lock = [p \in Process |-> NULL]
      BY DEF RouterInit, RouterStart
    <2>3. \A p \in Process : Asking(p) = {}
      BY <2>1 DEF Asking
    <2>4. SlotsCounted
      BY <2>2, <2>3, FS_EmptySet DEF SlotsCounted
    <2> QED BY <2>2, <2>4 DEF LockOwned, Owned
  <1>2. ASSUME RTyped, NothingLeaks, [RouterNext]_vars PROVE NothingLeaks'
    <2>1. SlotsCounted /\ LockOwned
      BY <1>2, LeakParts
    <2>2. ASSUME UNCHANGED <<call, inUse, lock>> PROVE SlotsCounted' /\ LockOwned'
      <3>1. \A p \in Process : Asking(p)' = Asking(p)
        BY <2>2 DEF Asking, ProcOf
      <3> QED BY <2>1, <2>2, <3>1, SameAsking DEF LockOwned, Owned, ProcOf
    <2>3. OperatorStep => UNCHANGED <<call, inUse, lock>>
      BY DEF OperatorStep, PauseOrResume, OneShotExpires, ResetDegraded, Rederive, SetModelOneShot,
             OrderKeeps
    <2>4. UNCHANGED routerVars \/ EntryLapses \/ UNCHANGED vars => UNCHANGED <<call, inUse, lock>>
      BY DEF routerVars, spendVars, EntryLapses, vars
    <2>5. SlotsCounted' /\ LockOwned'
      <3>1. ASSUME NEW c \in Caller,
                   CallStep(c) \/ EnterFails(c) \/ RecordFails(c) \/ \E t \in Task : Begin(c, t)
            PROVE  SlotsCounted' /\ LockOwned'
        BY <1>2, <2>1, <3>1, CallSlots, CallLock
      <3>2. ASSUME NEW p \in Process, Restart(p) PROVE SlotsCounted' /\ LockOwned'
        BY <1>2, <2>1, <3>2, RestartLeaks
      <3> QED BY <1>2, <2>2, <2>3, <2>4, <3>1, <3>2 DEF RouterNext
    <2>6. (NothingLeaks <=> SlotsCounted /\ LockOwned)'
      BY LeakParts, PTL
    <2> QED BY <2>5, <2>6
  <1>3. RTyped /\ NothingLeaks /\ [RouterNext]_vars => NothingLeaks'
    BY <1>2
  <1> QED BY <1>1, <1>3, RouterTyped, PTL DEF RouterSpec

\* Crossed, in each process: a flag in memory means the row is set, and a
\* counter that was taken over the cap has set the flag or holds the lock.
Flagged(p) == guard[p].flag /\ ~lifted => degraded

Crossed(p) ==
    guard[p].seed < Cap /\ guard[p].month >= Cap /\ faults = 0 /\ ~lifted
    => guard[p].flag \/ lock[p] # NULL

CrossInv == \A p \in Process : Flagged(p) /\ Crossed(p)

\* Spending takes the counter over the cap with the lock in hand, or finds the
\* flag set.
LEMMA SpendCrosses ==
    ASSUME RTyped, CrossInv, NEW c \in Caller, Spend(c)
    PROVE  CrossInv'
  <1>1. ProcOf(c) \in Process /\ c # NULL /\ Cap \in Nat
    BY RouterAssumption DEF ProcOf, Home, Process
  <1>2. PICK q \in Process : q = ProcOf(c)
    BY <1>1
  <1>3. guard \in [Process -> GuardType] /\ lock \in [Process -> Caller \cup {NULL}]
    BY DEF RTyped, MoneyTyped
  <1>4. call[c].cost \in Nat
    BY DEF RTyped, CallsTyped, CallType, CallShape
  <1>5. PICK now \in Nat : now = guard[q].month + call[c].cost
    BY <1>3, <1>4 DEF GuardType
  <1>6. /\ guard' = [guard EXCEPT ![q].month = now] /\ lock[q] = NULL
        /\ UNCHANGED <<degraded, lifted, faults>>
    BY <1>2, <1>5 DEF Spend
  <1>7. \/ lock' = [lock EXCEPT ![q] = c]
        \/ /\ lock' = [lock EXCEPT ![q] = NULL]
           /\ ~(guard[q].month < Cap /\ now >= Cap /\ ~guard[q].flag)
    BY <1>2, <1>5 DEF Spend
  <1>8. \A p \in Process : guard'[p].flag = guard[p].flag /\ guard'[p].seed = guard[p].seed
    BY <1>3, <1>6 DEF GuardType
  <1>9. guard'[q].month = now /\ \A p \in Process : p # q => guard'[p].month = guard[p].month
    BY <1>3, <1>6 DEF GuardType
  <1>10. ASSUME NEW p \in Process PROVE Flagged(p)' /\ Crossed(p)'
    <2>1. Flagged(p)'
      BY <1>6, <1>8 DEF CrossInv, Flagged
    <2>2. CASE p # q
      <3>1. lock'[p] = lock[p]
        BY <1>3, <1>7, <2>2
      <3> QED BY <1>6, <1>8, <1>9, <2>1, <2>2, <3>1 DEF CrossInv, Crossed
    <2>3. CASE p = q /\ lock' = [lock EXCEPT ![q] = c]
      <3>1. lock'[p] # NULL
        BY <1>1, <1>3, <2>3
      <3> QED BY <2>1, <3>1 DEF Crossed
    <2>4. CASE p = q /\ ~(guard[q].month < Cap /\ now >= Cap /\ ~guard[q].flag)
      <3>1. guard[q].month \in Nat
        BY <1>3 DEF GuardType
      <3>2. guard[q].month >= Cap \/ now < Cap \/ guard[q].flag
        BY <1>1, <2>4, <3>1
      <3>3. guard[q].seed < Cap /\ guard[q].month >= Cap /\ faults = 0 /\ ~lifted => guard[q].flag
        BY <1>6 DEF CrossInv, Crossed
      <3>4. ASSUME guard'[p].seed < Cap, guard'[p].month >= Cap, faults' = 0, ~lifted'
            PROVE  guard'[p].flag
        <4>1. ~(now < Cap)
          BY <1>1, <1>9, <2>4, <3>4
        <4>2. guard[q].seed < Cap /\ faults = 0 /\ ~lifted
          BY <1>6, <1>8, <2>4, <3>4
        <4>3. guard[q].flag
          BY <3>2, <3>3, <4>1, <4>2
        <4> QED BY <1>8, <2>4, <4>3
      <3> QED BY <2>1, <3>4 DEF Crossed
    <2> QED BY <1>7, <2>2, <2>3, <2>4
  <1> QED BY <1>10 DEF CrossInv

\* Every other step keeps the counters, or writes the row, or is a fault, or
\* the operator's.
LEMMA OthersCross ==
    ASSUME RTyped, CrossInv,
           \/ UNCHANGED <<guard, lock, degraded, lifted>> /\ faults' \in Nat /\ faults <= faults'
           \/ lifted'
           \/ \E c \in Caller : EnterDegraded(c) \/ EnterFails(c)
           \/ \E p \in Process : Restart(p)
    PROVE  CrossInv'
  <1>1. /\ guard \in [Process -> GuardType] /\ lock \in [Process -> Caller \cup {NULL}]
        /\ faults \in Nat
    BY DEF RTyped, MoneyTyped
  <1>2. CASE UNCHANGED <<guard, lock, degraded, lifted>> /\ faults' \in Nat /\ faults <= faults'
    <2>1. faults' = 0 => faults = 0
      BY <1>1, <1>2
    <2> QED BY <1>2, <2>1 DEF CrossInv, Flagged, Crossed
  <1>3. CASE lifted'
    BY <1>3 DEF CrossInv, Flagged, Crossed
  <1>4. ASSUME NEW c \in Caller, EnterDegraded(c) PROVE CrossInv'
    <2>1. PICK q \in Process : q = ProcOf(c)
      BY DEF ProcOf, Home, Process
    <2>2. /\ guard' = [guard EXCEPT ![q].flag = TRUE] /\ lock' = [lock EXCEPT ![q] = NULL]
          /\ degraded' /\ UNCHANGED <<lifted, faults>>
      BY <1>4, <2>1 DEF EnterDegraded
    <2>3. ASSUME NEW p \in Process PROVE Flagged(p)' /\ Crossed(p)'
      <3>1. CASE p = q
        BY <1>1, <2>2, <3>1 DEF Flagged, Crossed, GuardType
      <3>2. CASE p # q
        <4>1. guard'[p] = guard[p] /\ lock'[p] = lock[p]
          BY <1>1, <2>2, <3>2
        <4> QED BY <2>2, <4>1 DEF CrossInv, Flagged, Crossed
      <3> QED BY <3>1, <3>2
    <2> QED BY <2>3 DEF CrossInv
  <1>5. ASSUME NEW c \in Caller, EnterFails(c) PROVE CrossInv'
    <2>1. Fault /\ UNCHANGED <<guard, degraded, lifted>>
      BY <1>5 DEF EnterFails
    <2>2. faults' # 0
      BY <1>1, <2>1 DEF Fault
    <2> QED BY <2>1, <2>2 DEF CrossInv, Flagged, Crossed
  <1>6. ASSUME NEW q \in Process, Restart(q) PROVE CrossInv'
    <2>1. /\ guard' = [guard EXCEPT ![q] = IdleGuard(ledger, degraded)]
          /\ faults' # 0 /\ UNCHANGED <<degraded, lifted>>
      BY <1>6, RestartSets
    <2>2. IdleGuard(ledger, degraded).flag = degraded
      BY DEF IdleGuard
    <2>3. ASSUME NEW p \in Process PROVE Flagged(p)'
      <3>1. CASE p = q
        BY <1>1, <2>1, <2>2, <3>1 DEF Flagged
      <3>2. CASE p # q
        BY <1>1, <2>1, <3>2 DEF CrossInv, Flagged
      <3> QED BY <3>1, <3>2
    <2> QED BY <2>1, <2>3 DEF CrossInv, Crossed
  <1> QED BY <1>2, <1>3, <1>4, <1>5, <1>6

\* A process that itself took its month's spend over the cap has set the
\* degraded row, or is about to with the lock in hand, unless a write failed, a
\* process restarted or the operator lifted the mode (router/router.py,
\* BudgetGuard.add_spend and the startup seed).
THEOREM CrossingDegradesHolds == RouterSpec => []CrossingDegrades
  <1>1. RouterInit => CrossInv
    <2> SUFFICES ASSUME RouterInit PROVE CrossInv
      OBVIOUS
    <2>1. \A p \in Process : guard[p].month = 0 /\ ~guard[p].flag
      BY DEF RouterInit, RouterStart, IdleGuard
    <2>2. Cap \in Nat \ {0}
      BY RouterAssumption
    <2>3. ASSUME NEW p \in Process PROVE ~(guard[p].month >= Cap)
      BY <2>1, <2>2
    <2> QED BY <2>1, <2>3 DEF CrossInv, Flagged, Crossed
  <1>2. ASSUME RTyped, CrossInv, [RouterNext]_vars PROVE CrossInv'
    <2>1. faults \in Nat
      BY <1>2 DEF RTyped, MoneyTyped
    <2>2. ASSUME NEW c \in Caller,
                 CallStep(c) \/ EnterFails(c) \/ RecordFails(c) \/ \E t \in Task : Begin(c, t)
          PROVE  CrossInv'
      <3>1. CASE Quiet(c)
        BY <1>2, <3>1, OthersCross DEF Quiet
      <3>2. CASE Answers(c)
        <4>1. UNCHANGED <<guard, lock, degraded, lifted>> /\ faults' \in Nat /\ faults <= faults'
          BY <2>1, <3>2 DEF Answers
        <4> QED BY <1>2, <4>1, OthersCross
      <3>3. CASE Acquire(c)
        <4>1. UNCHANGED <<guard, lock, degraded, lifted>> /\ faults' \in Nat /\ faults <= faults'
          BY <2>1, <3>3 DEF Acquire, spendVars
        <4> QED BY <1>2, <4>1, OthersCross
      <3>4. CASE Spend(c)
        BY <1>2, <3>4, SpendCrosses
      <3>5. CASE EnterDegraded(c) \/ EnterFails(c)
        BY <1>2, <3>5, OthersCross
      <3> QED BY <1>2, <2>2, <3>1, <3>2, <3>3, <3>4, <3>5, CallMoves
    <2>3. ASSUME UNCHANGED <<guard, lock, degraded, lifted, faults>> PROVE CrossInv'
      <3>1. UNCHANGED <<guard, lock, degraded, lifted>> /\ faults' \in Nat /\ faults <= faults'
        BY <2>1, <2>3
      <3> QED BY <1>2, <3>1, OthersCross
    <2>4. OperatorStep => lifted' \/ UNCHANGED <<guard, lock, degraded, lifted, faults>>
      BY DEF OperatorStep, PauseOrResume, OneShotExpires, ResetDegraded, Rederive, SetModelOneShot,
             OrderKeeps
    <2>5. lifted' => CrossInv'
      BY <1>2, OthersCross
    <2>6. UNCHANGED routerVars \/ UNCHANGED vars => UNCHANGED <<guard, lock, degraded, lifted, faults>>
      BY DEF routerVars, spendVars, vars
    <2>7. ASSUME EntryLapses PROVE CrossInv'
      <3>1. Fault /\ UNCHANGED <<guard, lock, degraded, lifted>>
        BY <2>7 DEF EntryLapses, spendVars
      <3>2. faults' \in Nat /\ faults <= faults'
        BY <2>1, <3>1 DEF Fault
      <3> QED BY <1>2, <3>1, <3>2, OthersCross
    <2>8. (\E p \in Process : Restart(p)) => CrossInv'
      BY <1>2, OthersCross
    <2> QED BY <1>2, <2>2, <2>3, <2>4, <2>5, <2>6, <2>7, <2>8 DEF RouterNext
  <1>3. RTyped /\ CrossInv => CrossingDegrades
    BY DEF CrossInv, Flagged, Crossed, CrossingDegrades
  <1>4. RTyped /\ CrossInv /\ [RouterNext]_vars => CrossInv'
    BY <1>2
  <1> QED BY <1>1, <1>3, <1>4, RouterTyped, PTL DEF RouterSpec

\* A text call that is refused before it is dispatched leaves the one-shot
\* model of the operator armed: only a call that goes on takes it, or a restart
\* of the API, or its expiry (router/router.py, the consume after the gates).
THEOREM RefusalKeepsOneShotHolds == RouterSpec => RefusalKeepsOneShot
  <1> DEFINE Refused(c) ==
               /\ call[c].pc \in {"pause", "degraded", "class", "admit"} /\ ~IsTool(call[c].task)
               /\ call'[c].pc = "idle" \/ (call'[c].pc = "record" /\ ~call'[c].ok)
  <1>1. ASSUME RTyped, RouterNext, NEW c \in Caller, Refused(c)
        PROVE  oneshot' = oneshot \/ faults' # faults
    <2>1. call'[c] # call[c]
      BY <1>1
    <2>2. ASSUME NEW d \in Caller,
                 CallStep(d) \/ EnterFails(d) \/ RecordFails(d) \/ \E t \in Task : Begin(d, t)
          PROVE  oneshot' = oneshot
      <3>1. oneshot' = oneshot \/ Admit(d) \/ AdmitTool(d)
        BY <2>2, CallsKeep
      <3>2. ASSUME Admit(d) \/ AdmitTool(d) PROVE c = d
        <4>1. Moves(d, {"arm", "pause", "slot", "record"})
          BY <1>1, <3>2, AdmitMoves
        <4> QED BY <2>1, <4>1 DEF Moves
      <3>3. ASSUME Admit(d) PROVE FALSE
        <4>1. \/ Goto(c, "slot")
              \/ Set(c, [call[c] EXCEPT !.pc = "record", !.ok = TRUE])
          BY <3>2, <3>3 DEF Admit
        <4>2. call[c] \in CallType /\ call \in [Caller -> CallType]
          BY <1>1 DEF RTyped, CallsTyped
        <4>3. ASSUME Goto(c, "slot") PROVE call'[c].pc = "slot"
          BY <1>1, <4>3, GotoMoves DEF Moves, CallPc
        <4>4. ASSUME Set(c, [call[c] EXCEPT !.pc = "record", !.ok = TRUE]) PROVE call'[c].ok
          <5> DEFINE r == [call[c] EXCEPT !.pc = "record", !.ok = TRUE]
          <5>1. r.ok
            BY <4>2 DEF CallType, CallShape
          <5>2. call' = [call EXCEPT ![c] = r]
            BY <4>4 DEF Set
          <5> HIDE DEF r
          <5> QED BY <4>2, <5>1, <5>2
        <4>5. ASSUME Set(c, [call[c] EXCEPT !.pc = "record", !.ok = TRUE])
              PROVE  call'[c].pc = "record"
          <5> DEFINE r == [call[c] EXCEPT !.pc = "record", !.ok = TRUE]
          <5>1. r.pc = "record"
            BY <4>2 DEF CallType, CallShape
          <5>2. call' = [call EXCEPT ![c] = r]
            BY <4>5 DEF Set
          <5> HIDE DEF r
          <5> QED BY <4>2, <5>1, <5>2
        <4> QED BY <1>1, <4>1, <4>3, <4>4, <4>5
      <3>4. ~AdmitTool(d)
        BY <1>1, <3>2 DEF AdmitTool
      <3> QED BY <3>1, <3>3, <3>4
    <2>3. ASSUME NEW p \in Process, Restart(p) PROVE faults' # faults
      <3>1. Fault /\ faults \in Nat
        BY <1>1, <2>3 DEF Restart, RTyped, MoneyTyped
      <3> QED BY <3>1 DEF Fault
    <2>4. OperatorStep => UNCHANGED call
      BY DEF OperatorStep, PauseOrResume, OneShotExpires, ResetDegraded, Rederive, SetModelOneShot,
             OrderKeeps
    <2>5. UNCHANGED routerVars \/ EntryLapses => UNCHANGED call
      BY DEF routerVars, EntryLapses
    <2> QED BY <1>1, <2>1, <2>2, <2>3, <2>4, <2>5 DEF RouterNext
  <1>2. RTyped /\ [RouterNext]_vars
        => [\A c \in Caller : Refused(c) => oneshot' = oneshot \/ faults' # faults]_vars
    BY <1>1
  <1> QED BY <1>2, RouterTyped, PTL DEF RouterSpec, RefusalKeepsOneShot
-----------------------------------------------------------------------------
(* The sensitivity gate. *)

\* The parts of a call the gate goes by, and what it has cost.
SameScope(c) ==
    /\ call'[c].task = call[c].task /\ call'[c].mails = call[c].mails
    /\ call'[c].todo = call[c].todo /\ call'[c].read = call[c].read

SameGate(c) == SameScope(c) /\ call'[c].model = call[c].model /\ call'[c].retry = call[c].retry

SameCost(c) ==
    /\ call'[c].cost = call[c].cost /\ call'[c].outer = call[c].outer
    /\ call'[c].leg = call[c].leg

\* A call that has not been to the gate.
Fresh(c) ==
    /\ call'[c].pc \in {"idle", "claim", "pause"} /\ call'[c].todo = call'[c].mails
    /\ (call'[c].task = "intent_parsing_chat" => call'[c].mails = {})
    /\ call'[c].cost = 0 /\ call'[c].outer = 0 /\ call'[c].leg = "only"

Others(c) == \A d \in Caller : d # c => call'[d] = call[d]

\* The locals of one call are replaced.
LEMMA SetFields ==
    ASSUME RTyped, NEW c \in Caller, NEW r, Set(c, r)
    PROVE  call'[c] = r /\ Others(c)
  BY DEF RTyped, CallsTyped, Set, Others

\* Going on in the code changes nothing but the place.
LEMMA GotoKeeps ==
    ASSUME RTyped, NEW c \in Caller, NEW pc, Goto(c, pc)
    PROVE  call'[c].pc = pc /\ SameGate(c) /\ SameCost(c) /\ Others(c)
  <1> DEFINE r == [call[c] EXCEPT !.pc = pc]
  <1>1. call[c] \in CallShape
    BY DEF RTyped, CallsTyped, CallType
  <1>2. call'[c] = r /\ Others(c)
    BY SetFields DEF Goto
  <1>3. /\ r.pc = pc /\ r.task = call[c].task /\ r.mails = call[c].mails /\ r.todo = call[c].todo /\ r.read = call[c].read
        /\ r.model = call[c].model /\ r.retry = call[c].retry /\ r.cost = call[c].cost
        /\ r.outer = call[c].outer /\ r.leg = call[c].leg
    BY <1>1 DEF CallShape
  <1> HIDE DEF r
  <1> QED BY <1>2, <1>3 DEF SameGate, SameScope, SameCost

\* A call that is over is fresh again.
LEMMA ReturnFresh ==
    ASSUME RTyped, NEW c \in Caller, NEW ok, Return(c, ok)
    PROVE  Fresh(c) /\ Others(c)
  <1>1. CASE Set(c, IdleCall)
    <2>1. call'[c] = IdleCall /\ Others(c)
      BY <1>1, SetFields
    <2> QED BY <2>1 DEF Fresh, IdleCall
  <1>2. CASE Set(c, [IdleCall EXCEPT !.pc = "pause", !.task = "draft_reply", !.drafting = TRUE,
                     !.mails = call[c].mails, !.todo = call[c].mails, !.token = call[c].token])
    <2> DEFINE mails == call[c].mails
               token == call[c].token
               r == [IdleCall EXCEPT !.pc = "pause", !.task = "draft_reply", !.drafting = TRUE,
                     !.mails = mails, !.todo = mails, !.token = token]
    <2>1. call'[c] = r /\ Others(c)
      BY <1>2, SetFields
    <2> HIDE DEF mails, token
    <2>2. /\ r.pc = "pause" /\ r.todo = r.mails /\ r.task = "draft_reply"
          /\ r.cost = 0 /\ r.outer = 0 /\ r.leg = "only"
      BY DEF IdleCall
    <2> HIDE DEF r
    <2> QED BY <2>1, <2>2 DEF Fresh
  <1> QED BY <1>1, <1>2 DEF Return

\* A call that begins is fresh; a request of the chat is about no email.
LEMMA BeginFresh ==
    ASSUME RTyped, NEW c \in Caller, NEW t \in Task, Begin(c, t)
    PROVE  Fresh(c) /\ Others(c)
  <1>1. PICK mails \in IF IsTool(t) THEN SUBSET Email
                       ELSE IF t \in OfEmail THEN {{e} : e \in Email} ELSE {{}},
             token \in IF t \in OfDraft THEN {NULL} \cup DOMAIN minted ELSE {NULL},
             force \in IF t \in PauseAllowed THEN {NULL} \cup Wanted ELSE {NULL},
             ready \in BOOLEAN :
        LET e       == CHOOSE m \in mails : TRUE
            turned  == /\ t \in OfDraft
                       /\ \/ class[e] \in {"none", "confidential"}
                          \/ class[e] = "sensitive" /\ token = NULL
            first   == IF t \in OfDraft /\ ~ready THEN "tone_style_mirror" ELSE t
        IN  /\ t # "tone_style_mirror" /\ (ready => t = "draft_reply")
            /\ Set(c, IF turned THEN IdleCall
                      ELSE [IdleCall EXCEPT
                        !.pc = IF t \in PauseAllowed /\ saying = "yes" THEN "claim" ELSE "pause",
                        !.task = first, !.mails = mails, !.todo = mails, !.token = token,
                        !.force = force, !.drafting = t \in OfDraft])
    BY Zenon DEF Begin
  <1> DEFINE pc == IF t \in PauseAllowed /\ saying = "yes" THEN "claim" ELSE "pause"
             first == IF t \in OfDraft /\ ~ready THEN "tone_style_mirror" ELSE t
             drafting == t \in OfDraft
             r == [IdleCall EXCEPT !.pc = pc, !.task = first, !.mails = mails, !.todo = mails,
                      !.token = token, !.force = force, !.drafting = drafting]
  <1>2. Set(c, IdleCall) \/ Set(c, r)
    BY <1>1, Zenon
  <1>3. pc \in {"claim", "pause"} /\ (first = "intent_parsing_chat" => t = "intent_parsing_chat")
    OBVIOUS
  <1>4. t = "intent_parsing_chat" => mails = {}
    BY <1>1 DEF IsTool, OfEmail, OfWorker, OfDraft
  <1>5. CASE Set(c, IdleCall)
    <2>1. call'[c] = IdleCall /\ Others(c)
      BY <1>5, SetFields
    <2> QED BY <2>1 DEF Fresh, IdleCall
  <1>6. CASE Set(c, r)
    <2>1. call'[c] = r /\ Others(c)
      BY <1>6, SetFields
    <2> HIDE DEF pc, first, drafting
    <2>2. /\ r.pc = pc /\ r.todo = mails /\ r.mails = mails /\ r.task = first
          /\ r.cost = 0 /\ r.outer = 0 /\ r.leg = "only"
      BY DEF IdleCall
    <2> HIDE DEF r
    <2> QED BY <1>3, <1>4, <2>1, <2>2 DEF Fresh
  <1> QED BY <1>2, <1>5, <1>6

\* Before the gate a call has the emails it began with.
LEMMA GateFields ==
    ASSUME RTyped, NEW c \in Caller,
           \/ ReadPause(c) \/ ReadPauseTool(c) \/ ReadPauseEmbedding(c) \/ StopStorm(c)
           \/ ReadDegraded(c)
    PROVE  /\ Others(c) /\ call[c].pc \in {"pause", "degraded"}
           /\ \/ Fresh(c)
              \/ SameScope(c) /\ SameCost(c) /\ call'[c].pc \in {"degraded", "class"}
  <1>1. call[c] \in CallShape /\ call[c].pc \in {"pause", "degraded"}
    BY DEF RTyped, CallsTyped, CallType, ReadPause, ReadPauseTool, ReadPauseEmbedding, StopStorm,
           ReadDegraded
  <1>2. ASSUME NEW m, NEW e, NEW pc \in {"degraded", "class"},
               \/ Set(c, [call[c] EXCEPT !.model = m, !.pc = pc, !.engaged = e])
               \/ Set(c, [call[c] EXCEPT !.model = m, !.pc = pc])
        PROVE  Others(c) /\ SameScope(c) /\ SameCost(c) /\ call'[c].pc = pc
    <2> DEFINE r == [call[c] EXCEPT !.model = m, !.pc = pc, !.engaged = e]
               q == [call[c] EXCEPT !.model = m, !.pc = pc]
    <2>1. Others(c) /\ (call'[c] = r \/ call'[c] = q)
      BY <1>2, SetFields
    <2>2. /\ r.pc = pc /\ r.task = call[c].task /\ r.mails = call[c].mails /\ r.todo = call[c].todo /\ r.read = call[c].read
          /\ r.cost = call[c].cost /\ r.outer = call[c].outer /\ r.leg = call[c].leg
      BY <1>1 DEF CallShape
    <2>3. /\ q.pc = pc /\ q.task = call[c].task /\ q.mails = call[c].mails /\ q.todo = call[c].todo /\ q.read = call[c].read
          /\ q.cost = call[c].cost /\ q.outer = call[c].outer /\ q.leg = call[c].leg
      BY <1>1 DEF CallShape
    <2> HIDE DEF r, q
    <2> QED BY <2>1, <2>2, <2>3 DEF SameScope, SameCost
  <1>3. \A ok : Return(c, ok) => Fresh(c) /\ Others(c)
    BY ReturnFresh
  <1>4. Goto(c, "class") => Others(c) /\ SameScope(c) /\ SameCost(c) /\ call'[c].pc = "class"
    BY GotoKeeps DEF SameGate
  <1> DEFINE Changed == \E m, e : \E pc \in {"degraded", "class"} :
               \/ Set(c, [call[c] EXCEPT !.model = m, !.pc = pc, !.engaged = e])
               \/ Set(c, [call[c] EXCEPT !.model = m, !.pc = pc])
  <1>5. Return(c, FALSE) \/ Goto(c, "class") \/ Changed
    <2>1. CASE ReadPause(c)
      <3>1. \/ Return(c, FALSE)
            \/ Set(c, [call[c] EXCEPT !.model = ChosenForText(c), !.pc = "degraded",
                          !.engaged = call[c].force = NULL /\ Shot(c) # NULL])
        BY <2>1 DEF ReadPause
      <3> QED BY <3>1, Zenon
    <2>2. CASE ReadPauseTool(c)
      <3>1. Set(c, [call[c] EXCEPT !.model = ChosenForTool(c), !.pc = "degraded",
                       !.engaged = call[c].force = NULL /\ oneshot # NULL])
        BY <2>2 DEF ReadPauseTool
      <3> QED BY <3>1, Zenon
    <2>3. CASE ReadPauseEmbedding(c)
      BY <2>3 DEF ReadPauseEmbedding
    <2>4. CASE ReadDegraded(c)
      BY <2>4 DEF ReadDegraded
    <2>5. CASE StopStorm(c)
      BY <2>5 DEF StopStorm
    <2> QED BY <2>1, <2>2, <2>3, <2>4, <2>5
  <1>6. ASSUME Changed
        PROVE  Others(c) /\ SameScope(c) /\ SameCost(c) /\ call'[c].pc \in {"degraded", "class"}
    <2>1. PICK m, e : \E pc \in {"degraded", "class"} :
               \/ Set(c, [call[c] EXCEPT !.model = m, !.pc = pc, !.engaged = e])
               \/ Set(c, [call[c] EXCEPT !.model = m, !.pc = pc])
      BY <1>6
    <2>2. PICK pc \in {"degraded", "class"} :
               \/ Set(c, [call[c] EXCEPT !.model = m, !.pc = pc, !.engaged = e])
               \/ Set(c, [call[c] EXCEPT !.model = m, !.pc = pc])
      BY <2>1
    <2> QED BY <1>2, <2>2
  <1> HIDE DEF Changed
  <1> QED BY <1>1, <1>3, <1>4, <1>5, <1>6

\* The email at the gate has passed, as one of class k.
Passes(c, k) ==
    /\ call'[c].pc = "class" /\ call'[c].task = call[c].task /\ call'[c].mails = call[c].mails
    /\ call'[c].todo = call[c].todo \ {First(c)}
    /\ call'[c].read = [call[c].read EXCEPT ![First(c)] = k]
    /\ call'[c].model = call[c].model /\ call'[c].retry = call[c].retry /\ SameCost(c)

\* Passing the gate takes the first email off the list.
LEMMA PassFields ==
    ASSUME RTyped, NEW c \in Caller, NEW k,
           Set(c, Cleared(c, k)) \/ (Unlock(c) /\ k = "sensitive")
    PROVE  Passes(c, k) /\ Others(c)
  <1>1. call[c] \in CallShape
    BY DEF RTyped, CallsTyped, CallType
  <1>2. PICK todo : todo = call[c].todo \ {First(c)}
    OBVIOUS
  <1>3. PICK read : read = [call[c].read EXCEPT ![First(c)] = k]
    OBVIOUS
  <1> DEFINE r == [call[c] EXCEPT !.pc = "class", !.todo = todo, !.read = read]
             q == [r EXCEPT !.used = TRUE]
  <1>4. Cleared(c, k) = r
    BY <1>1, <1>2, <1>3 DEF Cleared, CallShape
  <1>5. /\ r.pc = "class" /\ r.task = call[c].task /\ r.mails = call[c].mails /\ r.todo = todo
        /\ r.read = read
        /\ r.model = call[c].model /\ r.retry = call[c].retry /\ r.cost = call[c].cost
        /\ r.outer = call[c].outer /\ r.leg = call[c].leg
    BY <1>1 DEF CallShape
  <1>6. /\ q.pc = r.pc /\ q.task = r.task /\ q.mails = r.mails /\ q.todo = r.todo
        /\ q.read = r.read
        /\ q.model = r.model /\ q.retry = r.retry /\ q.cost = r.cost
        /\ q.outer = r.outer /\ q.leg = r.leg
    BY <1>1 DEF CallShape
  <1>7. Others(c) /\ (call'[c] = r \/ call'[c] = q)
    <2>1. CASE Set(c, Cleared(c, k))
      BY <1>4, <2>1, SetFields
    <2>2. CASE Unlock(c) /\ k = "sensitive"
      <3>1. Set(c, q)
        BY <1>4, <2>2 DEF Unlock
      <3> HIDE DEF q
      <3> QED BY <3>1, SetFields
    <2> QED BY <2>1, <2>2
  <1> HIDE DEF r, q
  <1> QED BY <1>2, <1>3, <1>5, <1>6, <1>7 DEF Passes, SameCost

\* Before the dispatch and in it: a call goes on, or its answer is cached.
LEMMA AdmitFields ==
    ASSUME RTyped, NEW c \in Caller,
           \/ Admit(c) \/ AdmitTool(c) \/ AdmitEmbedding(c) \/ AdmitFails(c)
    PROVE  /\ SameGate(c) /\ SameCost(c) /\ Others(c) /\ call[c].pc = "admit"
           /\ call'[c].pc \in {"slot", "record"}
           /\ call[c].task = "embedding" /\ call'[c].pc = "slot" => ~Paid(call[c].model)
  <1>1. call[c] \in CallShape /\ call[c].pc = "admit"
    BY DEF RTyped, CallsTyped, CallType, Admit, AdmitTool, AdmitEmbedding, AdmitFails
  <1> DEFINE r == [call[c] EXCEPT !.pc = "record", !.ok = TRUE]
  <1>2. Goto(c, "slot") \/ Goto(c, "record") \/ Set(c, r)
    BY DEF Admit, AdmitTool, AdmitEmbedding, AdmitFails
  <1>3. \A pc : Goto(c, pc) => call'[c].pc = pc /\ SameGate(c) /\ SameCost(c) /\ Others(c)
    BY GotoKeeps
  <1>4. /\ r.pc = "record" /\ r.task = call[c].task /\ r.mails = call[c].mails
        /\ r.todo = call[c].todo /\ r.read = call[c].read /\ r.model = call[c].model /\ r.retry = call[c].retry
        /\ r.cost = call[c].cost /\ r.outer = call[c].outer /\ r.leg = call[c].leg
    BY <1>1 DEF CallShape
  <1>5. ASSUME Set(c, r)
        PROVE  call'[c].pc = "record" /\ SameGate(c) /\ SameCost(c) /\ Others(c)
    <2>1. call'[c] = r /\ Others(c)
      BY <1>5, SetFields
    <2> HIDE DEF r
    <2> QED BY <1>4, <2>1 DEF SameGate, SameScope, SameCost
  <1>6. call[c].task = "embedding" => ~Paid(call[c].model) \/ call'[c].pc = "record"
    <2>1. call[c].task = "embedding" => AdmitEmbedding(c) \/ AdmitFails(c)
      BY DEF Admit, AdmitTool, AdmitEmbedding, AdmitFails, IsTool
    <2>2. AdmitEmbedding(c) \/ AdmitFails(c) => Goto(c, "record") \/ ~Paid(call[c].model)
      BY DEF AdmitEmbedding, AdmitFails
    <2> QED BY <1>3, <2>1, <2>2
  <1> HIDE DEF r
  <1> QED BY <1>1, <1>2, <1>3, <1>5, <1>6

\* What an answer, or its absence, makes of a call.
Spent(c, paid) ==
    \/ \* on to the counter or the audit row
       /\ call'[c].pc \in {"spend", "record"} /\ SameGate(c)
       /\ call'[c].cost = call[c].cost + paid /\ call'[c].outer = call[c].outer
       /\ call'[c].leg = call[c].leg
    \/ \* once more
       /\ call'[c].pc = "slot" /\ SameScope(c) /\ call'[c].model = call[c].model /\ call'[c].retry
       /\ call'[c].cost = call[c].cost + paid /\ call'[c].outer = call[c].outer
       /\ call'[c].leg = call[c].leg
    \/ \* one tier up
       /\ call'[c].pc = "admit" /\ call[c].task = "intent_parsing_chat" /\ SameScope(c)
       /\ call[c].leg = "only" /\ call'[c].leg = "escalated"
       /\ call'[c].cost = 0 /\ call'[c].outer = call[c].cost + paid

\* An answer adds its price, and no answer adds nothing, on every way out.
LEMMA AnswerFields ==
    ASSUME RTyped, NEW c \in Caller,
           \/ AnswerValid(c) \/ AnswerTool(c) \/ AnswerEmbedding(c) \/ AnswerInvalid(c) \/ NoAnswer(c)
    PROVE  /\ Others(c) /\ call[c].pc = "ask"
           /\ \/ Spent(c, Price(call[c].model)) /\ charged' = charged + Price(call[c].model)
              \/ Spent(c, 0) /\ charged' = charged
  <1>1. call[c] \in CallShape /\ call[c].pc = "ask"
    BY DEF RTyped, CallsTyped, CallType, AnswerValid, AnswerTool, AnswerEmbedding, AnswerInvalid,
           NoAnswer
  <1>2. PICK price \in Nat : price = Price(call[c].model)
    BY DEF Price
  <1>3. CostNow(c) = call[c].cost + price /\ call[c].cost \in Nat
    BY <1>1, <1>2 DEF CostNow, CallShape
  <1>4. ASSUME NEW pc \in {"spend", "record"}, Answered(c, pc)
        PROVE  Spent(c, price) /\ Others(c)
    <2> DEFINE cost == CostNow(c)
               r == [call[c] EXCEPT !.cost = cost, !.ok = TRUE, !.pc = pc]
    <2>1. Set(c, r)
      BY <1>4 DEF Answered
    <2> HIDE DEF cost
    <2>2. /\ r.pc = pc /\ r.task = call[c].task /\ r.mails = call[c].mails
          /\ r.todo = call[c].todo /\ r.read = call[c].read /\ r.model = call[c].model /\ r.retry = call[c].retry
          /\ r.cost = cost /\ r.outer = call[c].outer /\ r.leg = call[c].leg
      BY <1>1 DEF CallShape
    <2> HIDE DEF r
    <2>3. call'[c] = r /\ Others(c)
      BY <2>1, SetFields
    <2> QED BY <1>3, <2>2, <2>3 DEF Spent, SameGate, SameScope, cost
  <1>5. ASSUME Set(c, [call[c] EXCEPT !.pc = "slot", !.retry = TRUE, !.cost = CostNow(c)])
        PROVE  Spent(c, price) /\ Others(c)
    <2> DEFINE cost == CostNow(c)
               r == [call[c] EXCEPT !.pc = "slot", !.retry = TRUE, !.cost = cost]
    <2>1. Set(c, r)
      BY <1>5
    <2> HIDE DEF cost
    <2>2. /\ r.pc = "slot" /\ r.task = call[c].task /\ r.mails = call[c].mails
          /\ r.todo = call[c].todo /\ r.read = call[c].read /\ r.model = call[c].model /\ r.retry = TRUE
          /\ r.cost = cost /\ r.outer = call[c].outer /\ r.leg = call[c].leg
      BY <1>1 DEF CallShape
    <2> HIDE DEF r
    <2>3. call'[c] = r /\ Others(c)
      BY <2>1, SetFields
    <2> QED BY <1>3, <2>2, <2>3 DEF Spent, SameScope, cost
  <1>6. ASSUME NEW paid \in Nat, GiveUp(c, call[c].cost + paid)
        PROVE  Spent(c, paid) /\ Others(c)
    <2>1. PICK cost : cost = call[c].cost + paid
      OBVIOUS
    <2>2. PICK up : up = NextTier(call[c].model)
      OBVIOUS
    <2> DEFINE r == [call[c] EXCEPT !.pc = "admit", !.leg = "escalated", !.model = up,
                     !.retry = FALSE, !.engaged = FALSE, !.outer = cost, !.cost = 0]
               q == [call[c] EXCEPT !.pc = "record", !.cost = cost]
    <2>3. \/ Escalates(call[c].task) /\ call[c].leg = "only" /\ Set(c, r)
          \/ Set(c, q)
      BY <1>6, <2>1, <2>2 DEF GiveUp
    <2>4. /\ r.pc = "admit" /\ r.task = call[c].task /\ r.mails = call[c].mails
          /\ r.todo = call[c].todo /\ r.read = call[c].read /\ r.leg = "escalated" /\ r.outer = cost /\ r.cost = 0
      BY <1>1 DEF CallShape
    <2>5. /\ q.pc = "record" /\ q.task = call[c].task /\ q.mails = call[c].mails
          /\ q.todo = call[c].todo /\ q.read = call[c].read /\ q.model = call[c].model /\ q.retry = call[c].retry
          /\ q.cost = cost /\ q.outer = call[c].outer /\ q.leg = call[c].leg
      BY <1>1 DEF CallShape
    <2> HIDE DEF r, q
    <2>6. \A x : Set(c, x) => call'[c] = x /\ Others(c)
      BY SetFields
    <2>7. CASE Escalates(call[c].task) /\ call[c].leg = "only" /\ Set(c, r)
      BY <2>1, <2>4, <2>6, <2>7 DEF Spent, SameScope, Escalates
    <2>8. CASE Set(c, q)
      BY <2>1, <2>5, <2>6, <2>8 DEF Spent, SameGate, SameScope
    <2> QED BY <2>3, <2>7, <2>8
  <1>7. ASSUME Goto(c, "record") PROVE Spent(c, 0) /\ Others(c)
    BY <1>3, <1>7, GotoKeeps DEF Spent, SameGate, SameScope, SameCost
  <1>8. CASE AnswerValid(c) \/ AnswerTool(c) \/ AnswerEmbedding(c)
    <2>1. \E pc \in {"spend", "record"} : Answered(c, pc)
      BY <1>8 DEF AnswerValid, AnswerTool, AnswerEmbedding
    <2>2. charged' = charged + price
      BY <1>2, <1>8 DEF AnswerValid, AnswerTool, AnswerEmbedding, Charge
    <2> QED BY <1>1, <1>2, <1>4, <2>1, <2>2
  <1>9. CASE AnswerInvalid(c)
    <2>1. \/ GiveUp(c, CostNow(c))
          \/ Set(c, [call[c] EXCEPT !.pc = "slot", !.retry = TRUE, !.cost = CostNow(c)])
      BY <1>9 DEF AnswerInvalid
    <2>2. charged' = charged + price
      BY <1>2, <1>9 DEF AnswerInvalid, Charge
    <2>3. GiveUp(c, CostNow(c)) => GiveUp(c, call[c].cost + price)
      BY <1>3
    <2> QED BY <1>1, <1>2, <1>5, <1>6, <2>1, <2>2, <2>3
  <1>10. CASE NoAnswer(c)
    <2>1. GiveUp(c, call[c].cost) \/ Goto(c, "record")
      BY <1>10 DEF NoAnswer
    <2>2. charged' = charged /\ call[c].cost + 0 = call[c].cost
      BY <1>3, <1>10 DEF NoAnswer
    <2>3. GiveUp(c, call[c].cost) => GiveUp(c, call[c].cost + 0)
      BY <2>2
    <2> QED BY <1>1, <1>6, <1>7, <2>1, <2>2, <2>3
  <1> QED BY <1>8, <1>9, <1>10

\* After the answer.
LEMMA SpendFields ==
    ASSUME RTyped, NEW c \in Caller
    PROVE  /\ Spend(c) => /\ SameGate(c) /\ SameCost(c) /\ Others(c) /\ call[c].pc = "spend"
                          /\ call'[c].pc \in {"enter", "record"}
           /\ EnterDegraded(c) \/ EnterFails(c) =>
                  /\ SameGate(c) /\ SameCost(c) /\ Others(c) /\ call[c].pc = "enter"
                  /\ call'[c].pc = "record"
           /\ Record(c) \/ RecordFails(c) =>
                  /\ Others(c) /\ call[c].pc = "record"
                  /\ \/ Fresh(c) /\ call[c].leg # "escalated"
                     \/ /\ SameGate(c) /\ call'[c].pc = "record" /\ call[c].leg = "escalated"
                        /\ call'[c].leg = "first" /\ call'[c].cost = call[c].outer
                        /\ call'[c].outer = 0
  <1>1. call[c] \in CallShape
    BY DEF RTyped, CallsTyped, CallType
  <1>2. ASSUME Spend(c)
        PROVE  /\ SameGate(c) /\ SameCost(c) /\ Others(c) /\ call[c].pc = "spend"
               /\ call'[c].pc \in {"enter", "record"}
    <2>1. PICK pc \in {"enter", "record"} : Goto(c, pc)
      BY <1>2 DEF Spend
    <2>2. call[c].pc = "spend"
      BY <1>2 DEF Spend
    <2> QED BY <2>1, <2>2, GotoKeeps
  <1>3. ASSUME EnterDegraded(c)
        PROVE  /\ SameGate(c) /\ SameCost(c) /\ Others(c) /\ call[c].pc = "enter"
               /\ call'[c].pc = "record"
    BY <1>3, GotoKeeps DEF EnterDegraded
  <1>4. ASSUME EnterFails(c)
        PROVE  /\ SameGate(c) /\ SameCost(c) /\ Others(c) /\ call[c].pc = "enter"
               /\ call'[c].pc = "record"
    <2> DEFINE r == [call[c] EXCEPT !.pc = "record", !.ok = FALSE]
    <2>1. Set(c, r) /\ call[c].pc = "enter"
      BY <1>4 DEF EnterFails
    <2>2. /\ r.pc = "record" /\ r.task = call[c].task /\ r.mails = call[c].mails
          /\ r.todo = call[c].todo /\ r.read = call[c].read /\ r.model = call[c].model /\ r.retry = call[c].retry
          /\ r.cost = call[c].cost /\ r.outer = call[c].outer /\ r.leg = call[c].leg
      BY <1>1 DEF CallShape
    <2> HIDE DEF r
    <2>3. call'[c] = r /\ Others(c)
      BY <2>1, SetFields
    <2> QED BY <2>1, <2>2, <2>3 DEF SameGate, SameScope, SameCost
  <1>5. ASSUME Record(c) \/ RecordFails(c)
        PROVE  /\ Others(c) /\ call[c].pc = "record"
               /\ \/ Fresh(c) /\ call[c].leg # "escalated"
                  \/ /\ SameGate(c) /\ call'[c].pc = "record" /\ call[c].leg = "escalated"
                     /\ call'[c].leg = "first" /\ call'[c].cost = call[c].outer
                     /\ call'[c].outer = 0
    <2>1. call[c].pc = "record" /\ Recorded(c)
      BY <1>5 DEF Record, RecordFails
    <2>2. CASE call[c].leg # "escalated"
      BY <2>1, <2>2, ReturnFresh DEF Recorded
    <2>3. CASE call[c].leg = "escalated"
      <3>1. PICK outer : outer = call[c].outer
        OBVIOUS
      <3> DEFINE r == [call[c] EXCEPT !.leg = "first", !.cost = outer, !.outer = 0]
      <3>2. Set(c, r)
        BY <2>1, <2>3, <3>1 DEF Recorded
      <3>3. /\ r.pc = call[c].pc /\ r.task = call[c].task /\ r.mails = call[c].mails
            /\ r.todo = call[c].todo /\ r.read = call[c].read /\ r.model = call[c].model /\ r.retry = call[c].retry
            /\ r.cost = outer /\ r.outer = 0 /\ r.leg = "first"
        BY <1>1 DEF CallShape
      <3> HIDE DEF r
      <3>4. call'[c] = r /\ Others(c)
        BY <3>2, SetFields
      <3> QED BY <2>1, <2>3, <3>1, <3>3, <3>4 DEF SameGate, SameScope
    <2> QED BY <2>2, <2>3
  <1> QED BY <1>2, <1>3, <1>4, <1>5

\* The authorisations of a scope.
Opens(e, t)  == {i \in DOMAIN opened : opened[i] = <<e, t>>}
Opened(e, t) == Opens(e, t) # {}

Asks   == {"peek", "confirmation", "take", "grant"}
Gated  == {"class"} \cup Asks \cup {"admit", "slot", "ask"}
Passed(c) == call[c].mails \ call[c].todo

\* What the gate had read of an email it let a call have.
LetThrough(e, c) ==
    /\ call[c].read[e] # "none"
    /\ Paid(call[c].model) /\ call[c].task # "embedding"
       => /\ call[c].read[e] # "confidential"
          /\ call[c].read[e] = "sensitive" => Opened(e, call[c].task)

GateShape(c) ==
    /\ call[c].pc \in {"claim", "arm", "pause", "degraded"} => call[c].todo = call[c].mails
    /\ call[c].task = "intent_parsing_chat" => call[c].mails = {}
    /\ call[c].pc \in Asks => IsTool(call[c].task) /\ call[c].todo # {}
    /\ call[c].pc \in {"admit", "slot", "ask"} => call[c].todo = {}
    /\ call[c].pc \in {"slot", "ask"} /\ call[c].task = "embedding" => ~Paid(call[c].model)
    /\ call[c].pc \in Gated => \A e \in Passed(c) : LetThrough(e, c)

GateInv == \A c \in Caller : GateShape(c)

YesTyped ==
    /\ class \in [Email -> Class] /\ opened \in Seq(Scope) /\ live \subseteq DOMAIN minted
    /\ \A s \in granted : \E i \in DOMAIN opened : opened[i] = s
    /\ \A n \in DOMAIN minted : \E i \in DOMAIN opened : opened[i] = minted[n]
    /\ confirmed \in [Scope -> Nat] /\ evidence \in Nat

handshake == <<class, opened, granted, minted, live, confirmed, evidence, armed>>

\* The steps of a call that touch the handshake.
LEMMA CallsHandshake ==
    ASSUME NEW c \in Caller,
           CallStep(c) \/ EnterFails(c) \/ RecordFails(c) \/ \E t \in Task : Begin(c, t)
    PROVE  \/ UNCHANGED handshake
           \/ ClaimEscalation(c) \/ ArmEscalation(c) \/ GateTakesToken(c)
           \/ UseConfirmation(c) \/ TakeArm(c) \/ RecordGrant(c)
  <1>1. CASE \E t \in Task : Begin(c, t)
    BY <1>1 DEF Begin, ChatUnchanged, escalationVars, handshake
  <1>2. CASE \/ ReadPause(c) \/ ReadPauseTool(c) \/ ReadPauseEmbedding(c) \/ StopStorm(c)
             \/ ReadDegraded(c)
    BY <1>2 DEF ReadPause, ReadPauseTool, ReadPauseEmbedding, StopStorm, ReadDegraded,
                ChatUnchanged, escalationVars, handshake
  <1>3. CASE ReadClass(c)
    BY <1>3 DEF ReadClass, GateOpens, GateForbids, GatePasses, GateAsks, GateRefusesTool,
                GateRefuses, ClassKeeps, handshake
  <1>4. CASE PeekGrant(c)
    BY <1>4 DEF PeekGrant, AuthKeeps, handshake
  <1>5. CASE Admit(c) \/ AdmitTool(c) \/ AdmitEmbedding(c) \/ AdmitFails(c)
    BY <1>5 DEF Admit, AdmitTool, AdmitEmbedding, AdmitFails, AdmitKeeps, ChatUnchanged,
                escalationVars, handshake
  <1>6. CASE Acquire(c) \/ Spend(c) \/ EnterDegraded(c) \/ EnterFails(c) \/ Record(c) \/ RecordFails(c)
    BY <1>6 DEF Acquire, Spend, EnterDegraded, EnterFails, Record, RecordFails, ChatUnchanged,
                escalationVars, handshake
  <1>7. CASE AnswerValid(c) \/ AnswerTool(c) \/ AnswerEmbedding(c) \/ AnswerInvalid(c) \/ NoAnswer(c)
    BY <1>7 DEF AnswerValid, AnswerTool, AnswerEmbedding, AnswerInvalid, NoAnswer, AnswerKeeps,
                ChatUnchanged, escalationVars, handshake
  <1> QED BY <1>1, <1>2, <1>3, <1>4, <1>5, <1>6, <1>7 DEF CallStep

\* The steps of the operator, the policy and the user leave it alone, but for
\* the mint verb, the classification, a lapse and a restart.
LEMMA OthersHandshake ==
    /\ OperatorStep \/ UNCHANGED vars \/ UNCHANGED escalationVars => UNCHANGED handshake
    /\ EscalationStep => \/ UNCHANGED handshake
                         \/ MintOnConfirmation \/ MintOnArm
                         \/ \E e \in Email, k \in Class : Classify(e, k)
  <1>1. OperatorStep \/ UNCHANGED vars \/ UNCHANGED escalationVars => UNCHANGED handshake
    BY DEF OperatorStep, PauseOrResume, OneShotExpires, ResetDegraded, Rederive, SetModelOneShot,
           OrderKeeps, ChatUnchanged, vars, escalationVars, handshake
  <1>2. ASSUME NEW e, NEW t, MintBegins(e, t) PROVE UNCHANGED handshake
    BY <1>2 DEF MintBegins, MintKeeps, handshake
  <1>3. ASSUME NEW text, UserWrites(text) PROVE UNCHANGED handshake
    BY <1>3 DEF UserWrites, handshake
  <1> QED BY <1>1, <1>2, <1>3 DEF EscalationStep

\* One more authorisation loses none of the earlier ones.
LEMMA AuthorizeOpens ==
    ASSUME opened \in Seq(Scope), NEW s \in Scope, Authorize(s)
    PROVE  /\ opened' \in Seq(Scope) /\ Len(opened') = Len(opened) + 1
           /\ \A e, t : IF s = <<e, t>> THEN Opens(e, t)' = Opens(e, t) \cup {Len(opened) + 1}
                        ELSE Opens(e, t)' = Opens(e, t)
           /\ \A e, t : Opened(e, t) => Opened(e, t)'
           /\ \A i \in DOMAIN opened : i \in DOMAIN opened' /\ opened'[i] = opened[i]
           /\ Len(opened) + 1 \in DOMAIN opened' /\ opened'[Len(opened) + 1] = s
  <1>1. /\ opened' = Append(opened, s) /\ opened' \in Seq(Scope) /\ Len(opened') = Len(opened) + 1
        /\ opened'[Len(opened) + 1] = s
        /\ \A i \in 1 .. Len(opened) : opened'[i] = opened[i]
    BY AppendProperties DEF Authorize
  <1>2. Len(opened) \in Nat /\ DOMAIN opened = 1 .. Len(opened)
    BY LenProperties
  <1>3. DOMAIN opened' = 1 .. Len(opened) + 1
    BY <1>1, LenProperties
  <1>4. DOMAIN opened' = DOMAIN opened \cup {Len(opened) + 1} /\ Len(opened) + 1 \notin DOMAIN opened
    BY <1>2, <1>3
  <1>5. ASSUME NEW e, NEW t
        PROVE  IF s = <<e, t>> THEN Opens(e, t)' = Opens(e, t) \cup {Len(opened) + 1}
               ELSE Opens(e, t)' = Opens(e, t)
    <2>1. Opens(e, t)' = {i \in DOMAIN opened \cup {Len(opened) + 1} : opened'[i] = <<e, t>>}
      BY <1>4 DEF Opens
    <2>2. \A i \in DOMAIN opened : opened'[i] = opened[i]
      BY <1>1, <1>2
    <2>3. CASE s = <<e, t>>
      BY <1>1, <2>1, <2>2, <2>3 DEF Opens
    <2>4. CASE s # <<e, t>>
      BY <1>1, <2>1, <2>2, <2>4 DEF Opens
    <2> QED BY <2>3, <2>4
  <1>6. \A e, t : Opened(e, t) => Opened(e, t)'
    BY <1>5 DEF Opened
  <1> QED BY <1>1, <1>2, <1>4, <1>5, <1>6

\* An authorisation stays.
Kept == \A e, t : Opened(e, t) => Opened(e, t)'

\* A token is minted for a scope that is opened with it.
LEMMA MintTokenYes ==
    ASSUME RTyped, YesTyped, minting.pc # "idle", MintToken, UNCHANGED <<class, granted>>,
           confirmed' \in [Scope -> Nat], evidence' \in Nat
    PROVE  YesTyped' /\ Kept
  <1>1. PICK s \in Scope : s = minting.scope
    BY DEF RTyped, CallsTyped
  <1>2. Authorize(s) /\ minted' = Append(minted, s) /\ live' = live \cup {Len(minted) + 1}
    BY <1>1 DEF MintToken
  <1>3. minted' \in Seq(Scope) /\ Len(minted') = Len(minted) + 1
    BY <1>2, AppendProperties DEF RTyped, CallsTyped
  <1>4. DOMAIN minted = 1 .. Len(minted) /\ DOMAIN minted' = 1 .. Len(minted) + 1 /\ Len(minted) \in Nat
    BY <1>3, LenProperties DEF RTyped, CallsTyped
  <1>5. live' \subseteq DOMAIN minted'
    BY <1>2, <1>4 DEF YesTyped
  <1>6. opened' \in Seq(Scope) /\ \A e, t : Opened(e, t) => Opened(e, t)'
    BY <1>2, AuthorizeOpens DEF YesTyped
  <1>7. \A k \in granted : \E i \in DOMAIN opened' : opened'[i] = k
    BY <1>2, AuthorizeOpens DEF YesTyped
  <1>8. ASSUME NEW n \in DOMAIN minted' PROVE \E i \in DOMAIN opened' : opened'[i] = minted'[n]
    <2>1. /\ \A i \in DOMAIN opened : i \in DOMAIN opened' /\ opened'[i] = opened[i]
          /\ Len(opened) + 1 \in DOMAIN opened' /\ opened'[Len(opened) + 1] = s
      BY <1>2, AuthorizeOpens DEF YesTyped
    <2>2. CASE n = Len(minted) + 1
      <3>1. minted'[n] = s
        BY <1>2, <2>2, AppendProperties DEF RTyped, CallsTyped
      <3> QED BY <2>1, <3>1
    <2>3. CASE n # Len(minted) + 1
      <3>1. n \in 1 .. Len(minted)
        BY <1>4, <1>8, <2>3
      <3>2. n \in DOMAIN minted /\ minted'[n] = minted[n]
        BY <1>2, <1>4, <3>1, AppendProperties DEF RTyped, CallsTyped
      <3>3. PICK i \in DOMAIN opened : opened[i] = minted[n]
        BY <3>2 DEF YesTyped
      <3> QED BY <2>1, <3>2, <3>3
    <2> QED BY <2>2, <2>3
  <1> QED BY <1>5, <1>6, <1>7, <1>8 DEF YesTyped, Kept

\* A step of a call keeps what was found and authorised.
LEMMA CallWorld ==
    ASSUME RTyped, YesTyped, GateInv, NEW c \in Caller,
           CallStep(c) \/ EnterFails(c) \/ RecordFails(c) \/ \E t \in Task : Begin(c, t)
    PROVE  YesTyped' /\ Kept
  <1>0. UNCHANGED minted /\ evidence \in Nat
    BY CallsKeep DEF YesTyped
  <1>1. CASE UNCHANGED <<class, opened, granted>> /\ confirmed' \in [Scope -> Nat] /\ evidence' \in Nat
             /\ live' \subseteq live
    BY <1>0, <1>1 DEF YesTyped, Kept, Opened, Opens
  <1>2. CASE UNCHANGED handshake
    BY <1>1, <1>2 DEF handshake, YesTyped
  <1>3. CASE ClaimEscalation(c)
    <2>1. UNCHANGED <<class, opened, granted, live>>
      BY <1>3 DEF ClaimEscalation, ClaimRefusal, ChatKeeps
    <2>2. confirmed' = confirmed \/ confirmed' = [confirmed EXCEPT ![refusal] = @ + 1]
      BY <1>3 DEF ClaimEscalation, ClaimRefusal
    <2>3. confirmed' \in [Scope -> Nat]
      BY <2>2 DEF YesTyped
    <2>4. evidence' = evidence \/ evidence' = evidence + 1
      BY <1>3 DEF ClaimEscalation, ClaimRefusal
    <2> QED BY <1>0, <1>1, <2>1, <2>3, <2>4
  <1>4. CASE ArmEscalation(c)
    <2>1. UNCHANGED <<class, opened, granted, live, confirmed>>
      BY <1>4 DEF ArmEscalation, Arm, ChatKeeps
    <2>2. evidence' = evidence \/ evidence' = evidence + 1
      BY <1>0, <1>4 DEF ArmEscalation, Arm
    <2> QED BY <1>0, <1>1, <2>1, <2>2 DEF YesTyped
  <1>5. CASE GateTakesToken(c)
    <2>1. UNCHANGED <<class, opened, granted, confirmed, evidence>> /\ live' \subseteq live
      BY <1>5 DEF GateTakesToken, ClassKeeps
    <2> QED BY <1>0, <1>1, <2>1 DEF YesTyped
  <1>6. CASE UseConfirmation(c)
    <2>1. UNCHANGED <<class, opened, granted, live, evidence>>
      BY <1>6 DEF UseConfirmation, AuthKeeps
    <2>2. \/ confirmed' = confirmed
          \/ confirmed[Asked(c)] > 0 /\ confirmed' = [confirmed EXCEPT ![Asked(c)] = @ - 1]
      BY <1>6 DEF UseConfirmation, SpendConfirmation
    <2>3. confirmed' \in [Scope -> Nat]
      <3>1. PICK s : s = Asked(c)
        OBVIOUS
      <3>2. CASE s \in Scope
        BY <2>2, <3>1, <3>2 DEF YesTyped
      <3>3. CASE s \notin Scope
        BY <2>2, <3>1, <3>3 DEF YesTyped
      <3> QED BY <3>2, <3>3
    <2> QED BY <1>0, <1>1, <2>1, <2>3
  <1>7. CASE TakeArm(c)
    <2>1. UNCHANGED <<class, opened, granted, live, confirmed, evidence>>
      BY <1>7 DEF TakeArm, AuthKeeps
    <2> QED BY <1>0, <1>1, <2>1 DEF YesTyped
  <1>8. CASE RecordGrant(c)
    <2>1. /\ call[c].pc = "grant" /\ Authorize(Asked(c)) /\ granted' = granted \cup {Asked(c)}
          /\ UNCHANGED <<class, live, confirmed, evidence>>
      BY <1>8 DEF RecordGrant, AuthKeeps
    <2>2. IsTool(call[c].task) /\ call[c].todo # {}
      BY <2>1 DEF GateInv, GateShape, Asks
    <2>3. PICK s \in Scope : s = Asked(c)
      BY <2>2, FirstTaken DEF Asked, Scope, ScopedTask, IsTool
    <2>4. /\ opened' \in Seq(Scope) /\ \A e, t : Opened(e, t) => Opened(e, t)'
          /\ \A i \in DOMAIN opened : i \in DOMAIN opened' /\ opened'[i] = opened[i]
          /\ Len(opened) + 1 \in DOMAIN opened' /\ opened'[Len(opened) + 1] = s
      BY <2>1, <2>3, AuthorizeOpens DEF YesTyped
    <2>5. \A k \in granted' : \E i \in DOMAIN opened' : opened'[i] = k
      BY <2>1, <2>3, <2>4 DEF YesTyped
    <2>6. \A n \in DOMAIN minted : \E i \in DOMAIN opened' : opened'[i] = minted[n]
      BY <2>4 DEF YesTyped
    <2> QED BY <1>0, <2>1, <2>4, <2>5, <2>6 DEF YesTyped, Kept
  <1> QED BY <1>2, <1>3, <1>4, <1>5, <1>6, <1>7, <1>8, CallsHandshake

\* Every step keeps what was found and authorised.
LEMMA WorldStep ==
    ASSUME RTyped, YesTyped, GateInv, [RouterNext]_vars
    PROVE  YesTyped' /\ Kept
  <1>1. CASE UNCHANGED handshake
    BY <1>1 DEF handshake, YesTyped, Kept, Opened, Opens
  <1>2. CASE MintOnConfirmation
    <2>1. minting.pc # "idle" /\ UNCHANGED <<class, granted, evidence>>
      BY <1>2 DEF MintOnConfirmation, MintKeeps
    <2>2. \/ confirmed[minting.scope] > 0 /\ SpendConfirmation(minting.scope) /\ MintToken
          \/ UNCHANGED <<confirmed, minted, live, opened>>
      BY <1>2 DEF MintOnConfirmation
    <2>3. CASE confirmed[minting.scope] > 0 /\ SpendConfirmation(minting.scope) /\ MintToken
      <3>1. PICK s \in Scope : s = minting.scope
        BY <2>1 DEF RTyped, CallsTyped
      <3>2. confirmed' = [confirmed EXCEPT ![s] = @ - 1] /\ confirmed[s] > 0
        BY <2>3, <3>1 DEF SpendConfirmation
      <3>3. confirmed' \in [Scope -> Nat]
        BY <3>2 DEF YesTyped
      <3> QED BY <2>1, <2>3, <3>3, MintTokenYes DEF YesTyped
    <2>4. CASE UNCHANGED <<confirmed, minted, live, opened>>
      BY <2>1, <2>4 DEF YesTyped, Kept, Opened, Opens
    <2> QED BY <2>2, <2>3, <2>4
  <1>3. CASE MintOnArm
    <2>1. minting.pc # "idle" /\ UNCHANGED <<class, granted, evidence, confirmed>>
      BY <1>3 DEF MintOnArm, MintKeeps
    <2>2. MintToken \/ UNCHANGED <<minted, live, opened>>
      BY <1>3 DEF MintOnArm
    <2>3. CASE MintToken
      BY <2>1, <2>3, MintTokenYes DEF YesTyped
    <2>4. CASE UNCHANGED <<minted, live, opened>>
      BY <2>1, <2>4 DEF YesTyped, Kept, Opened, Opens
    <2> QED BY <2>2, <2>3, <2>4
  <1>4. ASSUME NEW e \in Email, NEW k \in Class, Classify(e, k) PROVE YesTyped' /\ Kept
    <2>1. /\ class' = [class EXCEPT ![e] = k]
          /\ UNCHANGED <<opened, granted, minted, live, confirmed, evidence>>
      BY <1>4 DEF Classify
    <2> QED BY <2>1 DEF YesTyped, Kept, Opened, Opens
  <1>5. CASE EntryLapses
    <2>1. /\ UNCHANGED <<class, minted, evidence, opened>>
          /\ live' \subseteq live /\ granted' \subseteq granted
      BY <1>5 DEF EntryLapses, Lapses
    <2>2. \/ UNCHANGED confirmed
          \/ \E s \in Scope : confirmed[s] > 0 /\ SpendConfirmation(s)
      BY <1>5 DEF EntryLapses, Lapses
    <2>3. confirmed' \in [Scope -> Nat]
      BY <2>2 DEF YesTyped, SpendConfirmation
    <2> QED BY <2>1, <2>3 DEF YesTyped, Kept, Opened, Opens
  <1>6. ASSUME NEW p \in Process, Restart(p) PROVE YesTyped' /\ Kept
    <2>1. /\ UNCHANGED <<class, minted, evidence, opened, granted, confirmed>>
          /\ live' = {} \/ live' = live
      BY <1>6 DEF Restart
    <2> QED BY <2>1 DEF YesTyped, Kept, Opened, Opens
  <1>7. ASSUME NEW c \in Caller,
               CallStep(c) \/ EnterFails(c) \/ RecordFails(c) \/ \E t \in Task : Begin(c, t)
        PROVE  YesTyped' /\ Kept
    BY <1>7, CallWorld
  <1> QED BY <1>1, <1>2, <1>3, <1>4, <1>5, <1>6, <1>7, OthersHandshake DEF RouterNext

\* A draft the gate let go to a paid model, sensitive as it was then, and that has not been shown to it.
Cred(e, c) ==
    /\ call[c].pc \in {"class", "admit", "slot"} /\ ~call[c].retry
    /\ call[c].task = "draft_reply" /\ Paid(call[c].model) /\ e \in Passed(c)
    /\ call[c].read[e] = "sensitive"

NoCredit(c) == \A e \in Email : Cred(e, c)' => Cred(e, c)

\* A call that has not moved is where it was, whatever became of the classes.
LEMMA GateRests ==
    ASSUME RTyped, NEW d \in Caller, GateShape(d), Kept, call'[d] = call[d]
    PROVE  GateShape(d)'
  <1>1. call[d].mails \subseteq Email
    BY DEF RTyped, CallsTyped, CallType, CallShape
  <1>2. First(d)' = First(d) /\ Passed(d)' = Passed(d) /\ Passed(d) \subseteq Email
    BY <1>1 DEF First, Passed
  <1>3. \A e \in Passed(d) : LetThrough(e, d) => LetThrough(e, d)'
    BY <1>2 DEF Kept, LetThrough
  <1> QED BY <1>2, <1>3 DEF GateShape

\* A fresh call has passed no gate.
LEMMA GateFresh ==
    ASSUME NEW c \in Caller, Fresh(c)
    PROVE  GateShape(c)' /\ NoCredit(c)
  BY DEF Fresh, GateShape, Asks, Gated, NoCredit, Cred

\* A call that goes on about the same emails keeps what it passed.
LEMMA GateGoes ==
    ASSUME RTyped, NEW c \in Caller, GateShape(c), Kept, SameScope(c),
           call'[c].pc \in {"claim", "arm", "pause", "degraded"} => call[c].todo = call[c].mails,
           call'[c].pc \in Asks => IsTool(call[c].task) /\ call[c].todo # {},
           call'[c].pc \in {"admit", "slot", "ask"} => call[c].todo = {},
           call'[c].pc \in {"slot", "ask"} /\ call[c].task = "embedding" => ~Paid(call'[c].model),
           call'[c].pc \in Gated =>
               (call'[c].model = call[c].model /\ call[c].pc \in Gated) \/ Passed(c) = {}
    PROVE  GateShape(c)'
  <1>1. call[c].mails \subseteq Email
    BY DEF RTyped, CallsTyped, CallType, CallShape
  <1>2. First(c)' = First(c) /\ Passed(c)' = Passed(c) /\ Passed(c) \subseteq Email
    BY <1>1 DEF First, Passed, SameScope
  <1>4. ASSUME call'[c].pc \in Gated, NEW e \in Passed(c) PROVE LetThrough(e, c)'
    <2>1. /\ LetThrough(e, c) /\ call'[c].model = call[c].model /\ call'[c].task = call[c].task
          /\ call'[c].read = call[c].read
      BY <1>4 DEF GateShape, SameScope
    <2> QED BY <1>2, <2>1 DEF Kept, LetThrough
  <1>6. call'[c].task = call[c].task /\ call'[c].mails = call[c].mails /\ call'[c].todo = call[c].todo
    BY DEF SameScope
  <1>7. call'[c].task = "intent_parsing_chat" => call'[c].mails = {}
    BY <1>6 DEF GateShape
  <1>8. call'[c].pc \in Asks => IsTool(call'[c].task) /\ call'[c].todo # {}
    BY <1>2, <1>6
  <1>9. call'[c].pc \in Gated => \A e \in Passed(c)' : LetThrough(e, c)'
    BY <1>2, <1>4
  <1> QED BY <1>6, <1>7, <1>8, <1>9 DEF GateShape

\* An email that passes joins those that did.
LEMMA GateTakes ==
    ASSUME RTyped, NEW c \in Caller, NEW k, GateShape(c), Kept, Passes(c, k), call[c].pc \in Gated,
           NEW f \in Email, f = First(c), NEW t, t = call[c].task, k # "none",
           Paid(call[c].model) /\ t # "embedding" =>
               k # "confidential" /\ (k = "sensitive" => Opened(f, t)')
    PROVE  GateShape(c)'
  <1>2. call[c].mails \subseteq Email
    BY DEF RTyped, CallsTyped, CallType, CallShape
  <1>3. /\ call'[c].pc = "class" /\ call'[c].task = call[c].task /\ call'[c].mails = call[c].mails
        /\ call'[c].todo = call[c].todo \ {f} /\ call'[c].model = call[c].model
        /\ call'[c].read = [call[c].read EXCEPT ![f] = k] /\ call[c].read \in [Email -> Class]
    BY DEF Passes, RTyped, CallsTyped, CallType, CallShape
  <1>4. ASSUME NEW e \in Passed(c)' PROVE LetThrough(e, c)'
    <2>1. e \in Email /\ (e = f \/ e \in Passed(c))
      BY <1>2, <1>3, <1>4 DEF Passed
    <2>2. CASE e # f
      <3>1. LetThrough(e, c) /\ call'[c].read[e] = call[c].read[e]
        BY <1>3, <2>1, <2>2 DEF GateShape
      <3> QED BY <1>3, <2>1, <3>1 DEF LetThrough, Kept
    <2>3. CASE e = f
      <3>1. call'[c].read[f] = k
        BY <1>3
      <3> QED BY <1>3, <2>3, <3>1 DEF LetThrough
    <2> QED BY <2>2, <2>3
  <1> QED BY <1>3, <1>4 DEF GateShape, Asks

\* Reading the class of an email.
LEMMA GateReads ==
    ASSUME RTyped, YesTyped, NEW c \in Caller, GateShape(c), Kept, ReadClass(c)
    PROVE  GateShape(c)' /\ Others(c) /\ (GateTakesToken(c) \/ NoCredit(c))
  <1>1. call[c].pc = "class" /\ call[c].pc \in Gated /\ UNCHANGED <<class, opened>>
    BY DEF ReadClass, GateOpens, GateForbids, GatePasses, GateTakesToken, GateAsks,
           GateRefusesTool, GateRefuses, Gating, ClassKeeps, Gated
  <1>2. CASE GateOpens(c)
    <2>1. call[c].todo = {} /\ Goto(c, "admit")
      BY <1>2 DEF GateOpens
    <2>2. call'[c].pc = "admit" /\ SameGate(c) /\ Others(c)
      BY <2>1, GotoKeeps
    <2>3. GateShape(c)'
      BY <1>1, <2>1, <2>2, GateGoes DEF SameGate, Asks
    <2>4. NoCredit(c)
      BY <1>1, <2>2 DEF NoCredit, Cred, Passed, SameGate, SameScope
    <2> QED BY <2>2, <2>3, <2>4
  <1>3. CASE GateForbids(c) \/ GateRefusesTool(c) \/ GateRefuses(c)
    <2>1. Return(c, FALSE)
      BY <1>3 DEF GateForbids, GateRefusesTool, GateRefuses
    <2> QED BY <2>1, ReturnFresh, GateFresh
  <1>4. CASE GateAsks(c)
    <2>1. call[c].todo # {} /\ Goto(c, "peek") /\ IsTool(call[c].task)
      BY <1>4 DEF GateAsks, Gating
    <2>2. call'[c].pc = "peek" /\ SameGate(c) /\ Others(c)
      BY <2>1, GotoKeeps
    <2>3. GateShape(c)'
      BY <1>1, <2>1, <2>2, GateGoes DEF SameGate
    <2>4. NoCredit(c)
      BY <2>2 DEF NoCredit, Cred
    <2> QED BY <2>2, <2>3, <2>4
  <1>5. CASE GatePasses(c)
    <2>1. /\ call[c].todo # {} /\ ~Forbidden(c) /\ ~NeedsYes(c)
          /\ Set(c, Cleared(c, class[First(c)]))
      BY <1>5 DEF GatePasses, Gating
    <2>3. PICK f \in Email, t \in {call[c].task} : f = First(c)
      BY <2>1, FirstTaken
    <2>9. PICK k \in Class : k = class[f]
      BY DEF YesTyped
    <2>2. Passes(c, k) /\ Others(c)
      BY <2>1, <2>3, <2>9, PassFields
    <2>4. /\ k # "none"
          /\ Paid(call[c].model) /\ t # "embedding" => k # "confidential" /\ k # "sensitive"
      BY <2>1, <2>3, <2>9 DEF Forbidden, NeedsYes
    <2>5. GateShape(c)'
      BY <1>1, <2>2, <2>3, <2>4, GateTakes
    <2>6. ASSUME NEW e \in Email, Cred(e, c)' PROVE Cred(e, c)
      <3>1. /\ ~call[c].retry /\ call[c].task = "draft_reply" /\ Paid(call[c].model)
            /\ call'[c].mails = call[c].mails /\ call'[c].todo = call[c].todo \ {f}
            /\ e \in call'[c].mails \ call'[c].todo /\ call'[c].read[e] = "sensitive"
            /\ call'[c].read = [call[c].read EXCEPT ![f] = k] /\ call[c].read \in [Email -> Class]
        BY <2>2, <2>3, <2>6 DEF Cred, Passes, Passed, RTyped, CallsTyped, CallType, CallShape
      <3>2. e # f
        BY <2>3, <2>4, <2>6, <3>1
      <3> QED BY <1>1, <3>1, <3>2 DEF Cred, Passed
    <2> QED BY <2>2, <2>5, <2>6 DEF NoCredit
  <1>6. CASE GateTakesToken(c)
    <2>1. /\ call[c].todo # {} /\ NeedsYes(c) /\ TokenFits(c) /\ Unlock(c)
      BY <1>6 DEF GateTakesToken, Gating
    <2>2. Passes(c, "sensitive") /\ Others(c)
      BY <2>1, PassFields
    <2>3. PICK f \in Email, t \in {call[c].task} : f = First(c)
      BY <2>1, FirstTaken
    <2>4. class[f] = "sensitive" /\ Token(c) \in live /\ minted[Token(c)] = <<f, t>>
      BY <2>1, <2>3 DEF NeedsYes, TokenFits, ValidToken
    <2>5. \E i \in DOMAIN opened : opened[i] = <<f, t>>
      BY <2>4 DEF YesTyped
    <2>6. Opened(f, t)'
      BY <1>1, <2>5 DEF Opened, Opens
    <2>7. GateShape(c)'
      BY <1>1, <2>2, <2>3, <2>4, <2>6, GateTakes
    <2> QED BY <1>6, <2>2, <2>7
  <1> QED BY <1>2, <1>3, <1>4, <1>5, <1>6 DEF ReadClass

\* Asking for the evidence of the user's yes.
LEMMA GateAuthorizes ==
    ASSUME RTyped, YesTyped, NEW c \in Caller, GateShape(c), Kept,
           PeekGrant(c) \/ UseConfirmation(c) \/ TakeArm(c) \/ RecordGrant(c)
    PROVE  GateShape(c)' /\ Others(c) /\ NoCredit(c)
  <1>1. /\ call[c].pc \in Asks /\ call[c].pc \in Gated
        /\ IsTool(call[c].task) /\ call[c].todo # {}
    BY DEF PeekGrant, UseConfirmation, TakeArm, RecordGrant, AuthKeeps, Asks, Gated, GateShape
  <1>2. PICK f \in Email, t \in ScopedTask : f = First(c) /\ t = call[c].task /\ Asked(c) = <<f, t>>
    BY <1>1, FirstTaken DEF Asked, ScopedTask, IsTool
  <1>3. ASSUME NEW pc \in {"confirmation", "take", "grant"}, Goto(c, pc)
        PROVE  GateShape(c)' /\ Others(c) /\ NoCredit(c)
    <2>1. call'[c].pc = pc /\ SameGate(c) /\ Others(c)
      BY <1>3, GotoKeeps
    <2>2. GateShape(c)'
      BY <1>1, <2>1, GateGoes DEF SameGate
    <2>3. NoCredit(c)
      BY <2>1 DEF NoCredit, Cred
    <2> QED BY <2>1, <2>2, <2>3
  <1>4. ASSUME Unlock(c), Opened(f, t)' PROVE GateShape(c)' /\ Others(c) /\ NoCredit(c)
    <2>1. Passes(c, "sensitive") /\ Others(c)
      BY <1>4, PassFields
    <2>2. GateShape(c)'
      BY <1>1, <1>2, <1>4, <2>1, GateTakes
    <2>3. NoCredit(c)
      BY <1>1, <2>1 DEF NoCredit, Cred, Passes, IsTool
    <2> QED BY <2>1, <2>2, <2>3
  <1>5. ASSUME Return(c, FALSE) PROVE GateShape(c)' /\ Others(c) /\ NoCredit(c)
    BY <1>5, ReturnFresh, GateFresh
  <1>6. CASE PeekGrant(c)
    <2>1. (Asked(c) \in granted /\ Unlock(c)) \/ Goto(c, "confirmation")
      BY <1>6 DEF PeekGrant
    <2>2. ASSUME Asked(c) \in granted PROVE Opened(f, t)'
      <3>1. \E i \in DOMAIN opened : opened[i] = <<f, t>>
        BY <1>2, <2>2 DEF YesTyped
      <3> QED BY <3>1 DEF Kept, Opened, Opens
    <2> QED BY <1>3, <1>4, <2>1, <2>2
  <1>7. CASE UseConfirmation(c)
    <2>1. Goto(c, "grant") \/ Goto(c, "take")
      BY <1>7 DEF UseConfirmation
    <2> QED BY <1>3, <2>1
  <1>8. CASE TakeArm(c)
    <2>1. Goto(c, "grant") \/ Return(c, FALSE)
      BY <1>8 DEF TakeArm
    <2> QED BY <1>3, <1>5, <2>1
  <1>9. CASE RecordGrant(c)
    <2>1. Authorize(Asked(c)) /\ Unlock(c)
      BY <1>9 DEF RecordGrant
    <2>2. Authorize(<<f, t>>) /\ <<f, t>> \in Scope
      BY <1>2, <2>1 DEF Scope
    <2>3. Opens(f, t)' = Opens(f, t) \cup {Len(opened) + 1}
      BY <2>2, AuthorizeOpens DEF YesTyped
    <2> QED BY <1>4, <2>1, <2>3 DEF Opened
  <1> QED BY <1>6, <1>7, <1>8, <1>9

\* Every step of a call keeps what it passed; the only way a draft earns its
\* credit is the token.
LEMMA GateStep ==
    ASSUME RTyped, YesTyped, NEW c \in Caller, GateShape(c), Kept,
           CallStep(c) \/ EnterFails(c) \/ RecordFails(c) \/ \E t \in Task : Begin(c, t)
    PROVE  GateShape(c)' /\ Others(c) /\ (GateTakesToken(c) \/ NoCredit(c))
  <1>1. CASE \E t \in Task : Begin(c, t)
    BY <1>1, BeginFresh, GateFresh
  <1>2. CASE ClaimEscalation(c) \/ ArmEscalation(c)
    <2>1. PICK pc \in {"arm", "pause"} : Goto(c, pc) /\ call[c].pc \in {"claim", "arm"}
      BY <1>2 DEF ClaimEscalation, ArmEscalation
    <2>2. call'[c].pc = pc /\ SameGate(c) /\ Others(c) /\ call[c].todo = call[c].mails
      BY <2>1, GotoKeeps DEF GateShape
    <2>3. GateShape(c)'
      BY <2>2, GateGoes DEF SameGate, Asks, Gated
    <2> QED BY <2>2, <2>3 DEF NoCredit, Cred
  <1>3. CASE \/ ReadPause(c) \/ ReadPauseTool(c) \/ ReadPauseEmbedding(c) \/ StopStorm(c)
             \/ ReadDegraded(c)
    <2>1. Others(c) /\ call[c].todo = call[c].mails
      BY <1>3, GateFields DEF GateShape
    <2>2. CASE Fresh(c)
      BY <2>1, <2>2, GateFresh
    <2>3. CASE SameScope(c) /\ call'[c].pc \in {"degraded", "class"}
      <3>1. Passed(c) = {} /\ Passed(c)' = {}
        BY <2>1, <2>3 DEF Passed, SameScope
      <3>2. GateShape(c)'
        BY <2>1, <2>3, <3>1, GateGoes DEF Asks
      <3> QED BY <2>1, <3>1, <3>2 DEF NoCredit, Cred
    <2> QED BY <1>3, <2>2, <2>3, GateFields
  <1>4. CASE ReadClass(c)
    BY <1>4, GateReads
  <1>5. CASE PeekGrant(c) \/ UseConfirmation(c) \/ TakeArm(c) \/ RecordGrant(c)
    BY <1>5, GateAuthorizes
  <1>6. CASE Admit(c) \/ AdmitTool(c) \/ AdmitEmbedding(c) \/ AdmitFails(c)
    <2>1. /\ SameGate(c) /\ Others(c) /\ call[c].pc = "admit" /\ call'[c].pc \in {"slot", "record"}
          /\ call[c].task = "embedding" /\ call'[c].pc = "slot" => ~Paid(call[c].model)
      BY <1>6, AdmitFields
    <2>2. call[c].todo = {}
      BY <2>1 DEF GateShape
    <2>3. GateShape(c)'
      BY <2>1, <2>2, GateGoes DEF SameGate, Asks, Gated
    <2>4. NoCredit(c)
      BY <2>1 DEF NoCredit, Cred, Passed, SameGate, SameScope
    <2> QED BY <2>1, <2>3, <2>4
  <1>7. CASE Acquire(c)
    <2>1. Goto(c, "ask") /\ call[c].pc = "slot"
      BY <1>7 DEF Acquire
    <2>2. call'[c].pc = "ask" /\ SameGate(c) /\ Others(c)
      BY <2>1, GotoKeeps
    <2>3. call[c].todo = {} /\ (call[c].task = "embedding" => ~Paid(call[c].model))
      BY <2>1 DEF GateShape
    <2>4. GateShape(c)'
      BY <2>1, <2>2, <2>3, GateGoes DEF SameGate, Asks, Gated
    <2> QED BY <2>2, <2>4 DEF NoCredit, Cred
  <1>8. CASE AnswerValid(c) \/ AnswerTool(c) \/ AnswerEmbedding(c) \/ AnswerInvalid(c) \/ NoAnswer(c)
    <2>1. Others(c) /\ call[c].pc = "ask" /\ \E paid : Spent(c, paid)
      BY <1>8, AnswerFields
    <2>2. call[c].todo = {} /\ (call[c].task = "embedding" => ~Paid(call[c].model))
      BY <2>1 DEF GateShape
    <2>3. CASE call'[c].pc \in {"spend", "record"} /\ SameGate(c)
      <3>1. GateShape(c)'
        BY <2>3, GateGoes DEF SameGate, Asks, Gated
      <3> QED BY <2>1, <2>3, <3>1 DEF NoCredit, Cred
    <2>4. CASE /\ call'[c].pc = "slot" /\ SameScope(c) /\ call'[c].model = call[c].model
               /\ call'[c].retry
      <3>1. GateShape(c)'
        BY <2>1, <2>2, <2>4, GateGoes DEF Asks, Gated
      <3> QED BY <2>1, <2>4, <3>1 DEF NoCredit, Cred
    <2>5. CASE call'[c].pc = "admit" /\ call[c].task = "intent_parsing_chat" /\ SameScope(c)
      <3>1. Passed(c) = {}
        BY <2>5 DEF GateShape, Passed
      <3>2. GateShape(c)'
        BY <2>2, <2>5, <3>1, GateGoes DEF Asks
      <3>3. call'[c].task # "draft_reply"
        BY <2>5 DEF SameScope
      <3> QED BY <2>1, <3>2, <3>3 DEF NoCredit, Cred
    <2> QED BY <2>1, <2>3, <2>4, <2>5 DEF Spent
  <1>9. CASE Spend(c) \/ EnterDegraded(c) \/ EnterFails(c)
    <2>1. SameGate(c) /\ Others(c) /\ call'[c].pc \in {"enter", "record"}
      BY <1>9, SpendFields
    <2>2. GateShape(c)'
      BY <2>1, GateGoes DEF SameGate, Asks, Gated
    <2> QED BY <2>1, <2>2 DEF NoCredit, Cred
  <1>10. CASE Record(c) \/ RecordFails(c)
    <2>1. Others(c) /\ (Fresh(c) \/ (SameGate(c) /\ call'[c].pc = "record"))
      BY <1>10, SpendFields
    <2>2. CASE SameGate(c) /\ call'[c].pc = "record"
      <3>1. GateShape(c)'
        BY <2>2, GateGoes DEF SameGate, Asks, Gated
      <3> QED BY <2>1, <2>2, <3>1 DEF NoCredit, Cred
    <2> QED BY <2>1, <2>2, GateFresh
  <1> QED BY <1>1, <1>2, <1>3, <1>4, <1>5, <1>6, <1>7, <1>8, <1>9, <1>10 DEF CallStep

\* Every step keeps what the calls passed.
LEMMA GateInvStep ==
    ASSUME RTyped, YesTyped, GateInv, [RouterNext]_vars
    PROVE  GateInv'
  <1>0. Kept
    BY WorldStep
  <1>1. ASSUME NEW d \in Caller, call'[d] = call[d] PROVE GateShape(d)'
    BY <1>0, <1>1, GateRests DEF GateInv
  <1>2. ASSUME NEW c \in Caller,
               CallStep(c) \/ EnterFails(c) \/ RecordFails(c) \/ \E t \in Task : Begin(c, t)
        PROVE  GateInv'
    <2>1. GateShape(c)' /\ Others(c)
      BY <1>0, <1>2, GateStep DEF GateInv
    <2> QED BY <1>1, <2>1 DEF Others, GateInv
  <1>3. ASSUME NEW p \in Process, Restart(p) PROVE GateInv'
    <2>1. ASSUME NEW d \in Caller, call'[d] = IdleCall PROVE GateShape(d)'
      BY <2>1 DEF GateShape, IdleCall, Asks, Gated
    <2> QED BY <1>1, <1>3, <2>1, RestartSets DEF GateInv
  <1>4. CASE UNCHANGED call
    BY <1>1, <1>4 DEF GateInv
  <1>5. OperatorStep \/ EntryLapses \/ UNCHANGED vars \/ UNCHANGED routerVars => UNCHANGED call
    BY DEF OperatorStep, PauseOrResume, OneShotExpires, ResetDegraded, Rederive, SetModelOneShot,
           OrderKeeps, EntryLapses, vars, routerVars
  <1> QED BY <1>2, <1>3, <1>4, <1>5 DEF RouterNext

\* Only a call that takes its slot shows an email to a model.
LEMMA CallShows ==
    ASSUME NEW c \in Caller,
           CallStep(c) \/ EnterFails(c) \/ RecordFails(c) \/ \E t \in Task : Begin(c, t)
    PROVE  UNCHANGED shown \/ Acquire(c)
  <1>1. CASE \E t \in Task : Begin(c, t)
    BY <1>1 DEF Begin
  <1>2. CASE \/ ReadPause(c) \/ ReadPauseTool(c) \/ ReadPauseEmbedding(c) \/ StopStorm(c)
             \/ ReadDegraded(c) \/ ClaimEscalation(c) \/ ArmEscalation(c)
    BY <1>2 DEF ReadPause, ReadPauseTool, ReadPauseEmbedding, StopStorm, ReadDegraded,
                ClaimEscalation, ArmEscalation, GateKeeps
  <1>3. CASE ReadClass(c)
    BY <1>3 DEF ReadClass, GateOpens, GateForbids, GatePasses, GateTakesToken, GateAsks,
                GateRefusesTool, GateRefuses, ClassKeeps, GateKeeps
  <1>4. CASE PeekGrant(c) \/ UseConfirmation(c) \/ TakeArm(c) \/ RecordGrant(c)
    BY <1>4 DEF PeekGrant, UseConfirmation, TakeArm, RecordGrant, AuthKeeps, GateKeeps
  <1>5. CASE Admit(c) \/ AdmitTool(c) \/ AdmitEmbedding(c) \/ AdmitFails(c)
    BY <1>5 DEF Admit, AdmitTool, AdmitEmbedding, AdmitFails, AdmitKeeps
  <1>6. CASE Spend(c) \/ EnterDegraded(c) \/ EnterFails(c) \/ Record(c) \/ RecordFails(c)
    BY <1>6 DEF Spend, EnterDegraded, EnterFails, Record, RecordFails
  <1>7. CASE AnswerValid(c) \/ AnswerTool(c) \/ AnswerEmbedding(c) \/ AnswerInvalid(c) \/ NoAnswer(c)
    BY <1>7 DEF AnswerValid, AnswerTool, AnswerEmbedding, AnswerInvalid, NoAnswer, AnswerKeeps
  <1> QED BY <1>1, <1>2, <1>3, <1>4, <1>5, <1>6, <1>7 DEF CallStep

\* No step of anybody else does.
LEMMA ShownKeeps ==
    ASSUME [RouterNext]_vars
    PROVE  UNCHANGED shown \/ \E c \in Caller : Acquire(c)
  <1>1. ASSUME NEW c \in Caller,
               CallStep(c) \/ EnterFails(c) \/ RecordFails(c) \/ \E t \in Task : Begin(c, t)
        PROVE  UNCHANGED shown \/ Acquire(c)
    BY <1>1, CallShows
  <1>2. OperatorStep => UNCHANGED shown
    BY DEF OperatorStep, PauseOrResume, OneShotExpires, ResetDegraded, Rederive, SetModelOneShot,
           OrderKeeps
  <1>3. EntryLapses \/ UNCHANGED vars \/ UNCHANGED routerVars => UNCHANGED shown
    BY DEF EntryLapses, vars, routerVars
  <1>4. \A p \in Process : Restart(p) => UNCHANGED shown
    BY DEF Restart
  <1> QED BY <1>1, <1>2, <1>3, <1>4 DEF RouterNext

\* What a paid model has seen was let through.
ShownInv ==
    /\ shown \in [Email \X Task \X Class -> Nat]
    /\ \A e \in Email, t \in Task :
           /\ shown[<<e, t, "none">>] = 0 /\ shown[<<e, t, "confidential">>] = 0
           /\ shown[<<e, t, "sensitive">>] > 0 => Opened(e, t)

Shows(e, t, k, c) ==
    /\ Paid(call[c].model) /\ ~call[c].retry /\ e \in call[c].mails /\ t = call[c].task
    /\ k = call[c].read[e]

\* Taking the slot counts the emails of the call, each with the class the gate
\* had read.
LEMMA AcquireShows ==
    ASSUME RTyped, ShownInv, NEW c \in Caller, Acquire(c)
    PROVE  /\ shown' \in [Email \X Task \X Class -> Nat]
           /\ \A e \in Email, t \in Task, k \in Class :
                  shown'[<<e, t, k>>] = shown[<<e, t, k>>] + (IF Shows(e, t, k, c) THEN 1 ELSE 0)
  <1> DEFINE more == [s \in DOMAIN shown |->
                        shown[s] + (IF s[1] \in call[c].mails /\ s[2] = call[c].task
                                       /\ s[3] = call[c].read[s[1]] THEN 1 ELSE 0)]
  <1>1. shown \in [Email \X Task \X Class -> Nat]
    BY DEF ShownInv
  <1>2. shown' = IF ~Paid(call[c].model) \/ call[c].retry THEN shown ELSE more
    BY DEF Acquire
  <1>3. /\ more \in [Email \X Task \X Class -> Nat]
        /\ \A e \in Email, t \in Task, k \in Class : more[<<e, t, k>>] =
             shown[<<e, t, k>>] + (IF e \in call[c].mails /\ t = call[c].task
                                      /\ k = call[c].read[e] THEN 1 ELSE 0)
    BY <1>1
  <1> HIDE DEF more
  <1>4. CASE ~Paid(call[c].model) \/ call[c].retry
    BY <1>1, <1>2, <1>4 DEF Shows
  <1>5. CASE ~(~Paid(call[c].model) \/ call[c].retry)
    BY <1>2, <1>3, <1>5 DEF Shows
  <1> QED BY <1>4, <1>5

\* Every step shows a paid model only what was let through.
LEMMA ShownStep ==
    ASSUME RTyped, YesTyped, GateInv, ShownInv, [RouterNext]_vars
    PROVE  ShownInv'
  <1>1. Kept /\ YesTyped'
    BY WorldStep
  <1>2. CASE UNCHANGED shown
    BY <1>1, <1>2 DEF ShownInv, Kept
  <1>3. ASSUME NEW c \in Caller, Acquire(c) PROVE ShownInv'
    <2>1. UNCHANGED opened /\ call[c].pc = "slot"
      BY <1>3 DEF Acquire, ChatUnchanged, escalationVars
    <2>2. call[c].todo = {} /\ (call[c].task = "embedding" => ~Paid(call[c].model))
      BY <2>1 DEF GateInv, GateShape
    <2>3. \A e \in call[c].mails : LetThrough(e, c)
      BY <2>1, <2>2 DEF GateInv, GateShape, Gated, Passed
    <2>4. ASSUME NEW e \in Email, NEW t \in Task
          PROVE  /\ shown'[<<e, t, "none">>] = 0 /\ shown'[<<e, t, "confidential">>] = 0
                 /\ shown'[<<e, t, "sensitive">>] > 0 => Opened(e, t)
      <3>1. /\ ~Shows(e, t, "none", c) /\ ~Shows(e, t, "confidential", c)
            /\ Shows(e, t, "sensitive", c) => Opened(e, t)
        BY <2>2, <2>3 DEF Shows, LetThrough
      <3>2. \A k \in Class : shown[<<e, t, k>>] \in Nat
        BY DEF ShownInv
      <3>3. \A k \in Class : ~Shows(e, t, k, c) => shown'[<<e, t, k>>] = shown[<<e, t, k>>]
        BY <1>3, <3>2, AcquireShows
      <3> QED BY <3>1, <3>3 DEF ShownInv, Class
    <2>5. \A e, t : Opened(e, t)' <=> Opened(e, t)
      BY <2>1 DEF Opened, Opens
    <2> QED BY <1>3, <2>4, <2>5, AcquireShows DEF ShownInv
  <1> QED BY <1>2, <1>3, ShownKeeps

\* The tokens of a draft nobody used, and the drafts that have taken one.
Tokens(e) == {n \in live : minted[n] = <<e, "draft_reply">>}
Credit(e) == {c \in Caller : Cred(e, c)}
Drafts(e) == Opens(e, "draft_reply")

\* Every authorisation of a draft is a token, a draft on its way or a draft shown.
DraftOf(e) ==
    shown[<<e, "draft_reply", "sensitive">>] + Cardinality(Tokens(e)) + Cardinality(Credit(e))
        <= Cardinality(Drafts(e))

DraftInv == \A e \in Email : DraftOf(e)

\* These are finitely many.
LEMMA DraftsFinite ==
    ASSUME RTyped, YesTyped, NEW e
    PROVE  /\ IsFiniteSet(Tokens(e)) /\ Cardinality(Tokens(e)) \in Nat
           /\ IsFiniteSet(Credit(e)) /\ Cardinality(Credit(e)) \in Nat
           /\ IsFiniteSet(Drafts(e)) /\ Cardinality(Drafts(e)) \in Nat
  <1>1. /\ DOMAIN minted = 1 .. Len(minted) /\ Len(minted) \in Nat
        /\ DOMAIN opened = 1 .. Len(opened) /\ Len(opened) \in Nat
    BY LenProperties DEF RTyped, CallsTyped, YesTyped
  <1>2. IsFiniteSet(1 .. Len(minted)) /\ IsFiniteSet(1 .. Len(opened))
    BY <1>1, FS_Interval
  <1>3. Tokens(e) \subseteq 1 .. Len(minted) /\ Drafts(e) \subseteq 1 .. Len(opened)
    BY <1>1 DEF Tokens, Drafts, Opens, YesTyped
  <1>4. IsFiniteSet(Tokens(e))
    BY <1>2, <1>3, FS_Subset
  <1>5. IsFiniteSet(Drafts(e))
    BY <1>2, <1>3, FS_Subset
  <1>6. IsFiniteSet(Credit(e))
    BY RouterAssumption, FS_Subset DEF Credit
  <1> QED BY <1>4, <1>5, <1>6, FS_CardinalityType

\* Fewer tokens and credits and more authorisations keep the account.
LEMMA DraftShrinks ==
    ASSUME RTyped, YesTyped, RTyped', YesTyped', ShownInv, NEW e \in Email, DraftOf(e),
           shown'[<<e, "draft_reply", "sensitive">>] = shown[<<e, "draft_reply", "sensitive">>],
           Tokens(e)' \subseteq Tokens(e), Credit(e)' \subseteq Credit(e),
           Drafts(e) \subseteq Drafts(e)'
    PROVE  DraftOf(e)'
  <1>0. ASSUME NEW S, NEW T, T \subseteq S, IsFiniteSet(S)
        PROVE  Cardinality(T) \in Nat /\ Cardinality(T) <= Cardinality(S)
    <2>1. IsFiniteSet(T) /\ Cardinality(T) <= Cardinality(S)
      BY <1>0, FS_Subset
    <2> QED BY <2>1, FS_CardinalityType
  <1>1. Cardinality(Tokens(e)') \in Nat /\ Cardinality(Tokens(e)') <= Cardinality(Tokens(e))
    BY <1>0, DraftsFinite
  <1>2. Cardinality(Credit(e)') \in Nat /\ Cardinality(Credit(e)') <= Cardinality(Credit(e))
    BY <1>0, DraftsFinite
  <1>3. IsFiniteSet(Drafts(e)') /\ Cardinality(Drafts(e)') \in Nat
    <2>1. PICK m \in Nat : m = Len(opened') /\ DOMAIN opened' = 1 .. m
      BY LenProperties DEF YesTyped
    <2>2. IsFiniteSet(1 .. m)
      BY <2>1, FS_Interval
    <2>3. Drafts(e)' \subseteq 1 .. m
      BY <2>1 DEF Drafts, Opens
    <2>4. IsFiniteSet(Drafts(e)')
      BY <2>2, <2>3, FS_Subset
    <2> QED BY <2>4, FS_CardinalityType
  <1>4. Cardinality(Drafts(e)) <= Cardinality(Drafts(e)')
    BY <1>3, FS_Subset
  <1>5. /\ Cardinality(Tokens(e)) \in Nat /\ Cardinality(Credit(e)) \in Nat
        /\ Cardinality(Drafts(e)) \in Nat /\ shown[<<e, "draft_reply", "sensitive">>] \in Nat
    BY DraftsFinite DEF ShownInv, Task, Class
  <1>6. shown[<<e, "draft_reply", "sensitive">>] + Cardinality(Tokens(e)) + Cardinality(Credit(e))
           <= Cardinality(Drafts(e))
    BY DEF DraftOf
  <1>7. shown'[<<e, "draft_reply", "sensitive">>] + Cardinality(Tokens(e)') + Cardinality(Credit(e)')
           <= Cardinality(Drafts(e)')
    BY <1>1, <1>2, <1>3, <1>4, <1>5, <1>6
  <1> QED BY <1>7 DEF DraftOf

\* A draft takes its token: one token less and one credit more.
LEMMA TokenTaken ==
    ASSUME RTyped, YesTyped, RTyped', YesTyped', GateInv, ShownInv, NEW c \in Caller,
           GateTakesToken(c), NEW e \in Email, DraftOf(e)
    PROVE  DraftOf(e)'
  <1>1. /\ call[c].todo # {} /\ NeedsYes(c) /\ TokenFits(c) /\ Unlock(c)
        /\ live' = live \ {Token(c)} /\ UNCHANGED <<class, opened, minted, shown>>
    BY DEF GateTakesToken, Gating, ClassKeeps, GateKeeps
  <1>2. Passes(c, "sensitive") /\ Others(c)
    BY <1>1, PassFields
  <1>3. PICK f \in Email, n \in {Token(c)} : f = First(c)
    BY <1>1, FirstTaken
  <1>4. n \in live /\ n # NULL /\ minted[n] = <<f, "draft_reply">> /\ live' = live \ {n}
    BY <1>1, <1>3 DEF TokenFits, ValidToken, Token
  <1>5. Drafts(e)' = Drafts(e)
    BY <1>1 DEF Drafts, Opens
  <1>6. \A d \in Caller : d # c => (Cred(e, d)' <=> Cred(e, d))
    BY <1>2 DEF Others, Cred, Passed
  <1>7. CASE e # f
    <2>1. Tokens(e)' = Tokens(e)
      BY <1>1, <1>4, <1>7 DEF Tokens
    <2>2. Cred(e, c)' => Cred(e, c)
      <3>1. call[c].read \in [Email -> Class] /\ call[c].pc = "class"
        BY DEF RTyped, CallsTyped, CallType, CallShape, GateTakesToken, Gating
      <3>2. Cred(e, c)' => call[c].read[e] = "sensitive"
        BY <1>2, <1>3, <1>7, <3>1 DEF Cred, Passes
      <3> QED BY <1>2, <1>3, <1>7, <3>1, <3>2 DEF Cred, Passes, Passed
    <2>3. Credit(e)' \subseteq Credit(e)
      BY <1>6, <2>2 DEF Credit
    <2> QED BY <1>1, <1>5, <2>1, <2>3, DraftShrinks
  <1>8. CASE e = f
    <2>1. Tokens(e)' = Tokens(e) \ {n} /\ n \in Tokens(e)
      BY <1>1, <1>4, <1>8 DEF Tokens
    <2>2. Credit(e)' \subseteq Credit(e) \cup {c}
      BY <1>6 DEF Credit
    <2>3. Cardinality(Tokens(e)') = Cardinality(Tokens(e)) - 1
      BY <2>1, DraftsFinite, FS_RemoveElement
    <2>4. /\ IsFiniteSet(Credit(e) \cup {c})
          /\ Cardinality(Credit(e) \cup {c}) <= Cardinality(Credit(e)) + 1
      <3>1. IsFiniteSet(Credit(e)) /\ Cardinality(Credit(e)) \in Nat
        BY DraftsFinite
      <3>2. /\ IsFiniteSet(Credit(e) \cup {c})
            /\ Cardinality(Credit(e) \cup {c})
                   = IF c \in Credit(e) THEN Cardinality(Credit(e)) ELSE Cardinality(Credit(e)) + 1
        BY <3>1, FS_AddElement
      <3> QED BY <3>1, <3>2
    <2>5. Cardinality(Credit(e)') <= Cardinality(Credit(e)) + 1 /\ Cardinality(Credit(e)') \in Nat
      <3>1. IsFiniteSet(Credit(e)') /\ Cardinality(Credit(e)') <= Cardinality(Credit(e) \cup {c})
        BY <2>2, <2>4, FS_Subset
      <3> QED BY <2>4, <3>1, DraftsFinite, FS_CardinalityType
    <2>6. /\ Cardinality(Tokens(e)) \in Nat /\ Cardinality(Credit(e)) \in Nat
          /\ Cardinality(Drafts(e)) \in Nat /\ shown[<<e, "draft_reply", "sensitive">>] \in Nat
      BY DraftsFinite DEF ShownInv, Task, Class
    <2>7. shown[<<e, "draft_reply", "sensitive">>] + Cardinality(Tokens(e)) + Cardinality(Credit(e))
             <= Cardinality(Drafts(e))
      BY DEF DraftOf
    <2>8. shown[<<e, "draft_reply", "sensitive">>] + Cardinality(Tokens(e)') + Cardinality(Credit(e)')
             <= Cardinality(Drafts(e))
      BY <2>3, <2>5, <2>6, <2>7
    <2> QED BY <1>1, <1>5, <2>8 DEF DraftOf
  <1> QED BY <1>7, <1>8

\* A draft is shown: one credit less.
LEMMA CreditSpent ==
    ASSUME RTyped, YesTyped, RTyped', YesTyped', GateInv, ShownInv, NEW c \in Caller,
           Acquire(c), NEW e \in Email, DraftOf(e)
    PROVE  DraftOf(e)'
  <1>1. /\ call[c].pc = "slot" /\ Goto(c, "ask") /\ UNCHANGED <<class, opened, minted, live>>
    BY DEF Acquire, ChatUnchanged, escalationVars
  <1>2. Others(c) /\ call'[c].pc = "ask" /\ call[c].todo = {}
    BY <1>1, GotoKeeps DEF GateInv, GateShape
  <1>3. Drafts(e)' = Drafts(e) /\ Tokens(e)' = Tokens(e)
    BY <1>1 DEF Drafts, Opens, Tokens
  <1>4. \A d \in Caller : d # c => (Cred(e, d)' <=> Cred(e, d))
    BY <1>2 DEF Others, Cred, Passed
  <1>5. ~Cred(e, c)' /\ (Cred(e, c) <=> Shows(e, "draft_reply", "sensitive", c))
    BY <1>1, <1>2 DEF Cred, Shows, Passed
  <1>6. Credit(e)' = Credit(e) \ {c}
    BY <1>4, <1>5 DEF Credit
  <1>7. shown'[<<e, "draft_reply", "sensitive">>]
            = shown[<<e, "draft_reply", "sensitive">>] + (IF Shows(e, "draft_reply", "sensitive", c) THEN 1 ELSE 0)
    BY AcquireShows DEF Task, Class
  <1>8. CASE ~Shows(e, "draft_reply", "sensitive", c)
    <2>1. shown[<<e, "draft_reply", "sensitive">>] \in Nat
      BY DEF ShownInv, Task, Class
    <2>2. shown'[<<e, "draft_reply", "sensitive">>] = shown[<<e, "draft_reply", "sensitive">>]
      BY <1>7, <1>8, <2>1
    <2> QED BY <1>3, <1>6, <2>2, DraftShrinks
  <1>9. CASE Shows(e, "draft_reply", "sensitive", c)
    <2>1. c \in Credit(e)
      BY <1>5, <1>9 DEF Credit
    <2>2. Cardinality(Credit(e)') = Cardinality(Credit(e)) - 1
      BY <1>6, <2>1, DraftsFinite, FS_RemoveElement
    <2>3. /\ Cardinality(Tokens(e)) \in Nat /\ Cardinality(Credit(e)) \in Nat
          /\ Cardinality(Drafts(e)) \in Nat /\ shown[<<e, "draft_reply", "sensitive">>] \in Nat
      BY DraftsFinite DEF ShownInv, Task, Class
    <2>4. shown[<<e, "draft_reply", "sensitive">>] + Cardinality(Tokens(e)) + Cardinality(Credit(e))
             <= Cardinality(Drafts(e))
      BY DEF DraftOf
    <2>5. shown'[<<e, "draft_reply", "sensitive">>] + Cardinality(Tokens(e)) + Cardinality(Credit(e)')
             <= Cardinality(Drafts(e))
      BY <1>7, <1>9, <2>2, <2>3, <2>4
    <2> QED BY <1>3, <2>5 DEF DraftOf
  <1> QED BY <1>8, <1>9

\* A token is minted with its authorisation.
LEMMA TokenMinted ==
    ASSUME RTyped, YesTyped, RTyped', YesTyped', ShownInv, minting.pc # "idle", MintToken,
           UNCHANGED <<class, shown, call>>, NEW e \in Email, DraftOf(e)
    PROVE  DraftOf(e)'
  <1>1. PICK s \in Scope : s = minting.scope
    BY DEF RTyped, CallsTyped
  <1>2. PICK n : n = Len(minted) + 1
    OBVIOUS
  <1>3. Authorize(s) /\ minted' = Append(minted, s) /\ live' = live \cup {n}
    BY <1>1, <1>2 DEF MintToken
  <1>4. /\ DOMAIN minted = 1 .. Len(minted) /\ Len(minted) \in Nat /\ minted'[n] = s
        /\ \A i \in 1 .. Len(minted) : minted'[i] = minted[i]
    BY <1>2, <1>3, AppendProperties, LenProperties DEF RTyped, CallsTyped
  <1>5. n \notin live /\ \A i \in live : minted'[i] = minted[i]
    <2>1. live \subseteq 1 .. Len(minted)
      BY <1>4 DEF YesTyped
    <2> QED BY <1>2, <1>4, <2>1
  <1>6. Credit(e)' = Credit(e)
    BY DEF Credit, Cred, Passed
  <1>7. CASE s # <<e, "draft_reply">>
    <2>1. Tokens(e)' = Tokens(e)
      BY <1>3, <1>4, <1>5, <1>7 DEF Tokens
    <2>2. Drafts(e)' = Drafts(e)
      BY <1>3, <1>7, AuthorizeOpens DEF YesTyped, Drafts
    <2> QED BY <1>6, <2>1, <2>2, DraftShrinks
  <1>8. CASE s = <<e, "draft_reply">>
    <2>1. Tokens(e)' = Tokens(e) \cup {n} /\ n \notin Tokens(e)
      BY <1>3, <1>4, <1>5, <1>8 DEF Tokens
    <2>2. PICK m : m = Len(opened) + 1
      OBVIOUS
    <2>3. Drafts(e)' = Drafts(e) \cup {m}
      BY <1>3, <1>8, <2>2, AuthorizeOpens DEF YesTyped, Drafts
    <2>4. m \notin Drafts(e)
      BY <2>2, LenProperties DEF YesTyped, Drafts, Opens
    <2>5. Cardinality(Tokens(e)') = Cardinality(Tokens(e)) + 1
      BY <2>1, DraftsFinite, FS_AddElement
    <2>6. Cardinality(Drafts(e)') = Cardinality(Drafts(e)) + 1
      BY <2>3, <2>4, DraftsFinite, FS_AddElement
    <2>7. /\ Cardinality(Tokens(e)) \in Nat /\ Cardinality(Credit(e)) \in Nat
          /\ Cardinality(Drafts(e)) \in Nat /\ shown[<<e, "draft_reply", "sensitive">>] \in Nat
      BY DraftsFinite DEF ShownInv, Task, Class
    <2>8. shown[<<e, "draft_reply", "sensitive">>] + Cardinality(Tokens(e)) + Cardinality(Credit(e))
             <= Cardinality(Drafts(e))
      BY DEF DraftOf
    <2>9. shown[<<e, "draft_reply", "sensitive">>] + Cardinality(Tokens(e)') + Cardinality(Credit(e))
             <= Cardinality(Drafts(e)')
      BY <2>5, <2>6, <2>7, <2>8
    <2> QED BY <1>6, <2>9 DEF DraftOf
  <1> QED BY <1>7, <1>8

\* Every step keeps the account of every draft.
LEMMA DraftStep ==
    ASSUME RTyped, YesTyped, RTyped', YesTyped', GateInv, ShownInv, [RouterNext]_vars,
           NEW e \in Email, DraftOf(e)
    PROVE  DraftOf(e)'
  <1>0. Kept
    BY WorldStep
  <1>2. ASSUME live' \subseteq live, UNCHANGED <<minted, shown>>, Credit(e)' \subseteq Credit(e),
               Drafts(e) \subseteq Drafts(e)'
        PROVE  DraftOf(e)'
    <2>1. Tokens(e)' \subseteq Tokens(e)
      BY <1>2 DEF Tokens
    <2> QED BY <1>2, <2>1, DraftShrinks
  <1>3. UNCHANGED call => Credit(e)' \subseteq Credit(e)
    BY DEF Credit, Cred, Passed
  <1>4. UNCHANGED opened => Drafts(e) \subseteq Drafts(e)'
    BY DEF Drafts, Opens
  <1>5. ASSUME NEW c \in Caller,
               CallStep(c) \/ EnterFails(c) \/ RecordFails(c) \/ \E t \in Task : Begin(c, t)
        PROVE  DraftOf(e)'
    <2>1. CASE GateTakesToken(c)
      BY <2>1, TokenTaken
    <2>2. CASE Acquire(c)
      BY <2>2, CreditSpent
    <2>3. CASE ~GateTakesToken(c) /\ ~Acquire(c)
      <3>1. Others(c) /\ NoCredit(c)
        BY <1>0, <1>5, <2>3, GateStep DEF GateInv
      <3>2. \A d \in Caller : d # c => (Cred(e, d)' <=> Cred(e, d))
        BY <3>1 DEF Others, Cred, Passed
      <3>3. Credit(e)' \subseteq Credit(e)
        BY <3>1, <3>2 DEF Credit, NoCredit
      <3>4. UNCHANGED <<minted, shown>>
        BY <1>5, <2>3, CallsKeep, CallShows
      <3>5. UNCHANGED live
        BY <1>5, <2>3, CallsHandshake
           DEF handshake, ClaimEscalation, ClaimRefusal, ArmEscalation, Arm, ChatKeeps,
               UseConfirmation, TakeArm, RecordGrant, AuthKeeps
      <3>6. Drafts(e) \subseteq Drafts(e)'
        <4>1. CASE UNCHANGED opened
          BY <1>4, <4>1
        <4>2. CASE RecordGrant(c)
          <5>1. call[c].pc = "grant" /\ Authorize(Asked(c))
            BY <4>2 DEF RecordGrant
          <5>2. IsTool(call[c].task) /\ call[c].todo # {}
            BY <5>1 DEF GateInv, GateShape, Asks
          <5>3. PICK s \in Scope : s = Asked(c)
            BY <5>2, FirstTaken DEF Asked, Scope, ScopedTask, IsTool
          <5>4. \/ Opens(e, "draft_reply")' = Opens(e, "draft_reply") \cup {Len(opened) + 1}
                \/ Opens(e, "draft_reply")' = Opens(e, "draft_reply")
            BY <5>1, <5>3, AuthorizeOpens DEF YesTyped
          <5> QED BY <5>4 DEF Drafts
        <4> QED BY <1>5, <2>3, <4>1, <4>2, CallsHandshake
                DEF handshake, ClaimEscalation, ClaimRefusal, ArmEscalation, Arm, ChatKeeps,
                    UseConfirmation, TakeArm
      <3> QED BY <1>2, <3>3, <3>4, <3>5, <3>6
    <2> QED BY <2>1, <2>2, <2>3
  <1>6. CASE EscalationStep /\ UNCHANGED <<policyVars, routerVars>>
    <2>1. UNCHANGED <<shown, call>>
      BY <1>6 DEF routerVars
    <2>2. CASE MintOnConfirmation \/ MintOnArm
      <3>1. minting.pc # "idle" /\ (MintToken \/ UNCHANGED <<minted, live, opened>>) /\ UNCHANGED class
        BY <2>2 DEF MintOnConfirmation, MintOnArm, MintKeeps
      <3>2. CASE MintToken
        BY <2>1, <3>1, <3>2, TokenMinted
      <3>3. CASE UNCHANGED <<minted, live, opened>>
        BY <1>2, <1>3, <1>4, <2>1, <3>3
      <3> QED BY <3>1, <3>2, <3>3
    <2>3. CASE UNCHANGED handshake
      BY <1>2, <1>3, <1>4, <2>1, <2>3 DEF handshake
    <2>4. ASSUME NEW m \in Email, NEW k \in Class, Classify(m, k)
          PROVE  UNCHANGED <<minted, live, opened>>
      BY <2>4 DEF Classify
    <2>5. CASE UNCHANGED <<minted, live, opened>>
      BY <1>2, <1>3, <1>4, <2>1, <2>5
    <2> QED BY <1>6, <2>2, <2>3, <2>4, <2>5, OthersHandshake
  <1>7. CASE EntryLapses
    <2>1. live' \subseteq live /\ UNCHANGED <<minted, opened, shown, call>>
      BY <1>7 DEF EntryLapses, Lapses
    <2> QED BY <1>2, <1>3, <1>4, <2>1
  <1>8. ASSUME NEW p \in Process, Restart(p) PROVE DraftOf(e)'
    <2>1. live' \subseteq live /\ UNCHANGED <<minted, opened, shown>>
      BY <1>8 DEF Restart
    <2>2. \A c \in Caller : call'[c] = IdleCall \/ call'[c] = call[c]
      BY <1>8, RestartSets
    <2>3. \A c \in Caller : Cred(e, c)' => Cred(e, c)
      BY <2>2 DEF Cred, Passed, IdleCall
    <2>4. Credit(e)' \subseteq Credit(e)
      BY <2>3 DEF Credit
    <2> QED BY <1>2, <1>4, <2>1, <2>4
  <1>9. CASE OperatorStep \/ UNCHANGED vars \/ UNCHANGED <<escalationVars, routerVars>>
    <2>1. UNCHANGED <<minted, live, opened, shown, call>>
      BY <1>9 DEF OperatorStep, PauseOrResume, OneShotExpires, ResetDegraded, Rederive,
                  SetModelOneShot, OrderKeeps, ChatUnchanged, vars, escalationVars, routerVars
    <2> QED BY <1>2, <1>3, <1>4, <2>1
  <1> QED BY <1>5, <1>6, <1>7, <1>8, <1>9 DEF RouterNext

YesInv == YesTyped /\ GateInv /\ ShownInv /\ DraftInv

\* The router starts with nothing opened and nothing shown.
LEMMA YesInit == RouterInit => YesInv
  <1> SUFFICES ASSUME RouterInit PROVE YesInv
    OBVIOUS
  <1>1. EscalationStart /\ RouterStart
    BY DEF RouterInit, RouterStart
  <1>2. opened = <<>> /\ minted = <<>> /\ live = {} /\ granted = {}
    BY <1>1 DEF EscalationStart
  <1>3. YesTyped
    <2>1. opened \in Seq(Scope) /\ DOMAIN minted = {}
      BY <1>2, EmptySeq
    <2> QED BY <1>1, <1>2, <2>1 DEF EscalationStart, YesTyped
  <1>4. GateInv
    <2>1. \A c \in Caller : call[c] = IdleCall
      BY <1>1 DEF RouterStart
    <2> QED BY <2>1 DEF GateInv, GateShape, IdleCall, Asks, Gated
  <1>5. shown = [s \in Email \X Task \X Class |-> 0]
    BY <1>1 DEF RouterStart
  <1>6. ShownInv
    BY <1>5 DEF ShownInv, Class
  <1>7. ASSUME NEW e \in Email PROVE DraftOf(e)
    <2>1. Tokens(e) = {}
      BY <1>2 DEF Tokens
    <2>2. Credit(e) = {}
      BY <1>1 DEF RouterStart, Credit, Cred, IdleCall
    <2>3. Cardinality(Tokens(e)) = 0 /\ Cardinality(Credit(e)) = 0
      BY <2>1, <2>2, FS_EmptySet
    <2>4. shown[<<e, "draft_reply", "sensitive">>] = 0
      BY <1>5 DEF Task, Class
    <2>5. RTyped
      BY RouterInitTyped
    <2>6. Cardinality(Drafts(e)) \in Nat
      BY <1>3, <2>5, DraftsFinite
    <2> QED BY <2>3, <2>4, <2>6 DEF DraftOf
  <1> QED BY <1>3, <1>4, <1>6, <1>7 DEF YesInv, DraftInv

\* It is kept by every step.
LEMMA YesStep ==
    ASSUME RTyped, RTyped', YesInv, [RouterNext]_vars
    PROVE  YesInv'
  <1>1. YesTyped' /\ GateInv' /\ ShownInv'
    BY WorldStep, GateInvStep, ShownStep DEF YesInv
  <1>2. ASSUME NEW e \in Email PROVE DraftOf(e)'
    BY <1>1, DraftStep DEF YesInv, DraftInv
  <1> QED BY <1>1, <1>2 DEF YesInv, DraftInv

\* The content of an email whose class the gate read as sensitive reaches a paid
\* model only under a yes for that email and task, that of one it read as
\* confidential or found without a label never, and a draft as often as it was
\* authorised, whatever labels are written before and after (router.py,
\* sensitivity_gate.py, sensitivity_tokens.py).
THEOREM SensitiveUnderYesHolds == RouterSpec => []SensitiveUnderYes
  <1>1. RTyped /\ YesInv => SensitiveUnderYes
    <2> SUFFICES ASSUME RTyped, YesInv, NEW e \in Email, NEW t \in Task
                 PROVE  /\ shown[<<e, t, "none">>] = 0 /\ shown[<<e, t, "confidential">>] = 0
                        /\ shown[<<e, t, "sensitive">>] > 0 => Cardinality(Opens(e, t)) > 0
                        /\ t = "draft_reply" =>
                               shown[<<e, t, "sensitive">>] <= Cardinality(Opens(e, t))
      BY DEF SensitiveUnderYes, Opens
    <2>1. shown[<<e, t, "none">>] = 0 /\ shown[<<e, t, "confidential">>] = 0
      BY DEF YesInv, ShownInv
    <2>2. shown[<<e, t, "sensitive">>] > 0 => Opens(e, t) # {}
      BY DEF YesInv, ShownInv, Opened
    <2>3. Opens(e, t) # {} => Cardinality(Opens(e, t)) > 0
      <3>1. PICK m \in Nat : m = Len(opened) /\ DOMAIN opened = 1 .. m
        BY LenProperties DEF YesInv, YesTyped
      <3>2. IsFiniteSet(1 .. m) /\ Opens(e, t) \subseteq 1 .. m
        BY <3>1, FS_Interval DEF Opens
      <3>3. IsFiniteSet(Opens(e, t))
        BY <3>2, FS_Subset
      <3>4. Cardinality(Opens(e, t)) \in Nat /\ (Cardinality(Opens(e, t)) = 0 <=> Opens(e, t) = {})
        BY <3>3, FS_CardinalityType, FS_EmptySet
      <3> QED BY <3>4
    <2>4. ASSUME t = "draft_reply" PROVE shown[<<e, t, "sensitive">>] <= Cardinality(Opens(e, t))
      <3>1. /\ Cardinality(Tokens(e)) \in Nat /\ Cardinality(Credit(e)) \in Nat
            /\ Cardinality(Drafts(e)) \in Nat /\ shown[<<e, t, "sensitive">>] \in Nat
        BY DraftsFinite DEF YesInv, ShownInv, Class
      <3>2. shown[<<e, t, "sensitive">>] + Cardinality(Tokens(e)) + Cardinality(Credit(e))
               <= Cardinality(Drafts(e))
        BY <2>4 DEF YesInv, DraftInv, DraftOf
      <3> QED BY <2>4, <3>1, <3>2 DEF Drafts
    <2> QED BY <2>1, <2>2, <2>3, <2>4
  <1>2. RTyped /\ RTyped' /\ YesInv /\ [RouterNext]_vars => YesInv'
    BY YesStep
  <1> QED BY <1>1, <1>2, YesInit, RouterTyped, PTL DEF RouterSpec
-----------------------------------------------------------------------------
(* The evidence of the user's yes. *)

Pending  == Total(confirmed, Scope)
Arms     == IF armed THEN 1 ELSE 0
Granting == {c \in Caller : call[c].pc = "grant"}

\* EvidenceSpentOnce, part by part.
Evidenced == Len(opened) + Pending + Arms + Cardinality(Granting) <= evidence

\* The scopes are finitely many.
LEMMA ScopeFinite == IsFiniteSet(Scope)
  <1>1. IsFiniteSet(ScopedTask)
    <2>1. IsFiniteSet({"tool_call"})
      BY FS_Singleton
    <2>2. IsFiniteSet({"tool_call"} \cup {"draft_reply"})
      BY <2>1, FS_AddElement
    <2>3. ScopedTask = {"tool_call"} \cup {"draft_reply"}
      BY DEF ScopedTask
    <2> QED BY <2>2, <2>3
  <1> QED BY <1>1, EscalationAssumption, FS_Product DEF Scope

\* The parts are numbers.
LEMMA EvidenceTyped ==
    ASSUME YesTyped
    PROVE  /\ Len(opened) \in Nat /\ Pending \in Int /\ Arms \in Nat /\ evidence \in Nat
           /\ IsFiniteSet(Granting) /\ Cardinality(Granting) \in Nat
           /\ (EvidenceSpentOnce <=> Evidenced)
  <1>1. Len(opened) \in Nat /\ evidence \in Nat /\ Arms \in Nat
    BY LenProperties DEF YesTyped, Arms
  <1>2. confirmed \in [Scope -> Int]
    BY DEF YesTyped
  <1>3. Pending \in Int
    BY <1>2, ScopeFinite, TotalRemove DEF Pending
  <1>4. IsFiniteSet(Granting)
    BY RouterAssumption, FS_Subset DEF Granting
  <1>5. Cardinality(Granting) \in Nat
    BY <1>4, FS_CardinalityType
  <1>6. MapThenSumSet(LAMBDA s : confirmed[s], Scope) = Pending
    BY ScopeFinite, TotalIs DEF Pending
  <1> QED BY <1>1, <1>3, <1>4, <1>5, <1>6 DEF EvidenceSpentOnce, Evidenced, Granting, Arms

\* The confirmations of one scope change.
LEMMA PendingMoves ==
    ASSUME YesTyped, YesTyped', NEW s \in Scope, \A x \in Scope : x # s => confirmed'[x] = confirmed[x]
    PROVE  /\ confirmed[s] \in Nat /\ confirmed'[s] \in Nat /\ Pending' \in Int
           /\ Pending' = Pending + confirmed'[s] - confirmed[s]
  <1>1. PICK f \in [Scope -> Int], g \in [Scope -> Int] : f = confirmed /\ g = confirmed'
    BY DEF YesTyped
  <1>2. \A x \in Scope : x # s => f[x] = g[x]
    BY <1>1
  <1>3. Total(g, Scope) = Total(f, Scope) + g[s] - f[s]
    BY <1>2, ScopeFinite, TotalChange
  <1>4. Total(g, Scope) \in Int
    BY ScopeFinite, TotalRemove
  <1> QED BY <1>1, <1>3, <1>4 DEF Pending, YesTyped

\* One confirmation is spent.
LEMMA PendingSpent ==
    ASSUME YesTyped, YesTyped', NEW s \in Scope, SpendConfirmation(s)
    PROVE  Pending' = Pending - 1 /\ Pending' \in Int
  <1>1. confirmed'[s] = confirmed[s] - 1 /\ \A x \in Scope : x # s => confirmed'[x] = confirmed[x]
    BY DEF SpendConfirmation, YesTyped
  <1>2. /\ confirmed[s] \in Nat /\ confirmed'[s] \in Nat /\ Pending' \in Int
        /\ Pending' = Pending + confirmed'[s] - confirmed[s]
    BY <1>1, PendingMoves
  <1> QED BY <1>1, <1>2, EvidenceTyped

\* A call comes to record a grant by spending evidence only, and goes on when
\* it has recorded it.
LEMMA GrantMoves ==
    ASSUME RTyped, GateInv, NEW c \in Caller,
           CallStep(c) \/ EnterFails(c) \/ RecordFails(c) \/ \E t \in Task : Begin(c, t)
    PROVE  /\ Others(c)
           /\ ~UseConfirmation(c) /\ ~TakeArm(c) => call'[c].pc # "grant"
           /\ RecordGrant(c) => call[c].pc = "grant" /\ call'[c].pc # "grant"
           /\ UseConfirmation(c) \/ TakeArm(c) => call[c].pc # "grant"
  <1>1. CASE \E t \in Task : Begin(c, t)
    BY <1>1, BeginFresh DEF Fresh, Begin, RecordGrant, UseConfirmation, TakeArm
  <1>2. CASE ClaimEscalation(c) \/ ArmEscalation(c)
    <2>1. PICK pc \in {"arm", "pause"} : Goto(c, pc) /\ call[c].pc \in {"claim", "arm"}
      BY <1>2 DEF ClaimEscalation, ArmEscalation
    <2> QED BY <2>1, GotoKeeps DEF RecordGrant, UseConfirmation, TakeArm
  <1>3. CASE \/ ReadPause(c) \/ ReadPauseTool(c) \/ ReadPauseEmbedding(c) \/ StopStorm(c)
             \/ ReadDegraded(c)
    BY <1>3, GateFields DEF Fresh, RecordGrant, UseConfirmation, TakeArm
  <1>4. CASE ReadClass(c)
    <2>1. call[c].pc = "class"
      BY <1>4 DEF ReadClass, GateOpens, GateForbids, GatePasses, GateTakesToken, GateAsks,
                  GateRefusesTool, GateRefuses, Gating
    <2>2. \/ Goto(c, "admit") \/ Goto(c, "peek") \/ Return(c, FALSE)
          \/ (\E k : Set(c, Cleared(c, k))) \/ Unlock(c)
      BY <1>4 DEF ReadClass, GateOpens, GateForbids, GatePasses, GateTakesToken, GateAsks,
                  GateRefusesTool, GateRefuses
    <2>3. \A pc : Goto(c, pc) => Others(c) /\ call'[c].pc = pc
      BY GotoKeeps
    <2>4. Return(c, FALSE) => Others(c) /\ call'[c].pc # "grant"
      BY ReturnFresh DEF Fresh
    <2>5. (\E k : Set(c, Cleared(c, k))) \/ Unlock(c) => Others(c) /\ call'[c].pc # "grant"
      BY PassFields DEF Passes
    <2>6. Goto(c, "admit") \/ Goto(c, "peek") => Others(c) /\ call'[c].pc # "grant"
      BY <2>3
    <2>7. Others(c) /\ call'[c].pc # "grant"
      BY <2>2, <2>4, <2>5, <2>6
    <2> QED BY <2>1, <2>7 DEF RecordGrant, UseConfirmation, TakeArm
  <1>5. CASE PeekGrant(c)
    <2>1. call[c].pc = "peek" /\ (Unlock(c) \/ Goto(c, "confirmation"))
      BY <1>5 DEF PeekGrant
    <2>2. Unlock(c) => Others(c) /\ call'[c].pc # "grant"
      BY PassFields DEF Passes
    <2> QED BY <2>1, <2>2, GotoKeeps DEF RecordGrant, UseConfirmation, TakeArm
  <1>6. CASE UseConfirmation(c)
    <2>1. call[c].pc = "confirmation" /\ (Goto(c, "grant") \/ Goto(c, "take"))
      BY <1>6 DEF UseConfirmation
    <2> QED BY <1>6, <2>1, GotoKeeps DEF RecordGrant
  <1>7. CASE TakeArm(c)
    <2>1. call[c].pc = "take" /\ (Goto(c, "grant") \/ Return(c, FALSE))
      BY <1>7 DEF TakeArm
    <2> QED BY <1>7, <2>1, GotoKeeps, ReturnFresh DEF RecordGrant
  <1>8. CASE RecordGrant(c)
    <2>1. call[c].pc = "grant" /\ Unlock(c)
      BY <1>8 DEF RecordGrant
    <2> QED BY <2>1, PassFields DEF Passes, UseConfirmation, TakeArm
  <1>9. CASE Admit(c) \/ AdmitTool(c) \/ AdmitEmbedding(c) \/ AdmitFails(c)
    BY <1>9, AdmitFields DEF RecordGrant, UseConfirmation, TakeArm
  <1>10. CASE Acquire(c)
    <2>1. call[c].pc = "slot" /\ Goto(c, "ask")
      BY <1>10 DEF Acquire
    <2> QED BY <2>1, GotoKeeps DEF RecordGrant, UseConfirmation, TakeArm
  <1>11. CASE AnswerValid(c) \/ AnswerTool(c) \/ AnswerEmbedding(c) \/ AnswerInvalid(c) \/ NoAnswer(c)
    BY <1>11, AnswerFields DEF Spent, RecordGrant, UseConfirmation, TakeArm
  <1>12. CASE Spend(c) \/ EnterDegraded(c) \/ EnterFails(c) \/ Record(c) \/ RecordFails(c)
    BY <1>12, SpendFields DEF Fresh, RecordGrant, UseConfirmation, TakeArm
  <1> QED BY <1>1, <1>2, <1>3, <1>4, <1>5, <1>6, <1>7, <1>8, <1>9, <1>10, <1>11, <1>12 DEF CallStep

\* No evidence comes or goes and no call comes to record a grant.
LEMMA EvidenceRests ==
    ASSUME YesTyped, Evidenced, UNCHANGED <<opened, confirmed, evidence>>, armed' => armed,
           Granting' \subseteq Granting
    PROVE  Evidenced'
  <1>1. IsFiniteSet(Granting)
    BY EvidenceTyped
  <1>2. PICK G : G = Granting'
    OBVIOUS
  <1>3. G \subseteq Granting /\ IsFiniteSet(G) /\ Cardinality(G) <= Cardinality(Granting)
    BY <1>1, <1>2, FS_Subset
  <1>4. Cardinality(G) \in Nat
    BY <1>3, FS_CardinalityType
  <1>5. Pending' = Pending /\ Len(opened)' = Len(opened)
    BY DEF Pending
  <1>6. Arms' <= Arms /\ Arms' \in Nat
    BY DEF Arms
  <1>7. Len(opened) + Pending + Arms' + Cardinality(G) <= evidence
    BY <1>3, <1>4, <1>6, EvidenceTyped DEF Evidenced
  <1> QED BY <1>2, <1>5, <1>7 DEF Evidenced

\* One more call records a grant.
LEMMA GrantingMore ==
    ASSUME YesTyped, NEW c \in Caller, Others(c), call[c].pc # "grant", call'[c].pc = "grant"
    PROVE  Cardinality(Granting)' = Cardinality(Granting) + 1
  <1>1. Granting' = Granting \cup {c} /\ c \notin Granting
    BY DEF Granting, Others
  <1>2. Cardinality(Granting \cup {c}) = Cardinality(Granting) + 1
    BY <1>1, EvidenceTyped, FS_AddElement
  <1> QED BY <1>1, <1>2

\* A step of a call spends what it authorises.
LEMMA CallEvidence ==
    ASSUME RTyped, YesTyped, YesTyped', GateInv, Evidenced, NEW c \in Caller,
           CallStep(c) \/ EnterFails(c) \/ RecordFails(c) \/ \E t \in Task : Begin(c, t)
    PROVE  Evidenced'
  <1>0. Others(c)
    BY GrantMoves
  <1>1. call'[c].pc # "grant" => Granting' \subseteq Granting
    BY <1>0 DEF Granting, Others
  <1>2. CASE UseConfirmation(c)
    <2>1. /\ call[c].pc = "confirmation" /\ UNCHANGED <<opened, evidence, armed>>
          /\ \/ confirmed[Asked(c)] > 0 /\ SpendConfirmation(Asked(c)) /\ Goto(c, "grant")
             \/ Goto(c, "take") /\ UNCHANGED confirmed
      BY <1>2 DEF UseConfirmation, AuthKeeps
    <2>2. CASE Goto(c, "take") /\ UNCHANGED confirmed
      <3>1. call'[c].pc = "take"
        BY <2>2, GotoKeeps
      <3> QED BY <1>1, <2>1, <2>2, <3>1, EvidenceRests
    <2>3. CASE confirmed[Asked(c)] > 0 /\ SpendConfirmation(Asked(c)) /\ Goto(c, "grant")
      <3>1. IsTool(call[c].task) /\ call[c].todo # {}
        BY <2>1 DEF GateInv, GateShape, Asks
      <3>2. PICK s \in Scope : s = Asked(c)
        BY <3>1, FirstTaken DEF Asked, Scope, ScopedTask, IsTool
      <3>5. Pending' = Pending - 1
        BY <2>3, <3>2, PendingSpent
      <3>6. call'[c].pc = "grant"
        BY <2>3, GotoKeeps
      <3>7. Cardinality(Granting)' = Cardinality(Granting) + 1
        BY <1>0, <2>1, <3>6, GrantingMore
      <3>8. Arms' = Arms /\ Len(opened)' = Len(opened) /\ evidence' = evidence
        BY <2>1 DEF Arms
      <3> QED BY <3>5, <3>7, <3>8, EvidenceTyped DEF Evidenced
    <2> QED BY <2>1, <2>2, <2>3
  <1>3. CASE TakeArm(c)
    <2>1. /\ call[c].pc = "take" /\ UNCHANGED <<opened, evidence, confirmed>>
          /\ \/ armed /\ armed' = FALSE /\ Goto(c, "grant")
             \/ Return(c, FALSE) /\ UNCHANGED armed
      BY <1>3 DEF TakeArm, AuthKeeps, SpendArm
    <2>2. CASE Return(c, FALSE) /\ UNCHANGED armed
      <3>1. call'[c].pc # "grant"
        BY <2>2, ReturnFresh DEF Fresh
      <3> QED BY <1>1, <2>1, <2>2, <3>1, EvidenceRests
    <2>3. CASE armed /\ armed' = FALSE /\ Goto(c, "grant")
      <3>1. call'[c].pc = "grant"
        BY <2>3, GotoKeeps
      <3>2. Cardinality(Granting)' = Cardinality(Granting) + 1
        BY <1>0, <2>1, <3>1, GrantingMore
      <3>3. /\ Arms = 1 /\ Arms' = 0 /\ Len(opened)' = Len(opened) /\ evidence' = evidence
            /\ Pending' = Pending
        BY <2>1, <2>3 DEF Arms, Pending
      <3> QED BY <3>2, <3>3, EvidenceTyped DEF Evidenced
    <2> QED BY <2>1, <2>2, <2>3
  <1>4. CASE RecordGrant(c)
    <2>1. /\ call[c].pc = "grant" /\ Authorize(Asked(c))
          /\ UNCHANGED <<confirmed, armed, evidence>>
      BY <1>4 DEF RecordGrant, AuthKeeps
    <2>2. IsTool(call[c].task) /\ call[c].todo # {}
      BY <2>1 DEF GateInv, GateShape, Asks
    <2>3. PICK s \in Scope : s = Asked(c)
      BY <2>2, FirstTaken DEF Asked, Scope, ScopedTask, IsTool
    <2>4. Len(opened') = Len(opened) + 1
      BY <2>1, <2>3, AuthorizeOpens DEF YesTyped
    <2>5. call'[c].pc # "grant"
      BY <1>4, GrantMoves
    <2>6. Granting' = Granting \ {c} /\ c \in Granting
      BY <1>0, <2>1, <2>5 DEF Granting, Others
    <2>7. Cardinality(Granting \ {c}) = Cardinality(Granting) - 1
      BY <2>6, EvidenceTyped, FS_RemoveElement
    <2>8. Arms' = Arms /\ Pending' = Pending /\ evidence' = evidence
      BY <2>1 DEF Arms, Pending
    <2> QED BY <2>4, <2>6, <2>7, <2>8, EvidenceTyped DEF Evidenced
  <1>5. ASSUME ~UseConfirmation(c), ~TakeArm(c), UNCHANGED <<opened, confirmed, evidence, armed>>
        PROVE  Evidenced'
    BY <1>1, <1>5, GrantMoves, EvidenceRests
  <1>6. CASE UNCHANGED handshake /\ ~UseConfirmation(c) /\ ~TakeArm(c)
    BY <1>5, <1>6 DEF handshake
  <1>7. CASE GateTakesToken(c)
    <2>1. UNCHANGED <<opened, confirmed, evidence, armed>> /\ call[c].pc = "class"
      BY <1>7 DEF GateTakesToken, ClassKeeps, Gating
    <2> QED BY <1>5, <2>1 DEF UseConfirmation, TakeArm
  <1>8. CASE ClaimEscalation(c)
    <2>1. /\ call[c].pc = "claim" /\ UNCHANGED <<opened, armed>>
          /\ \/ UNCHANGED <<confirmed, evidence>>
             \/ confirmed' = [confirmed EXCEPT ![refusal] = @ + 1] /\ evidence' = evidence + 1
      BY <1>8 DEF ClaimEscalation, ClaimRefusal, ChatKeeps
    <2>2. call'[c].pc # "grant"
      BY <2>1, GrantMoves DEF UseConfirmation, TakeArm
    <2>3. CASE UNCHANGED <<confirmed, evidence>>
      BY <1>1, <2>1, <2>2, <2>3, EvidenceRests
    <2>4. CASE confirmed' = [confirmed EXCEPT ![refusal] = @ + 1] /\ evidence' = evidence + 1
      <3>1. Pending' \in Int /\ Pending' <= Pending + 1
        <4>1. CASE refusal \in Scope
          <5>1. PICK s \in Scope : s = refusal
            BY <4>1
          <5>2. confirmed'[s] = confirmed[s] + 1 /\ \A x \in Scope : x # s => confirmed'[x] = confirmed[x]
            BY <2>4, <5>1 DEF YesTyped
          <5>3. /\ confirmed[s] \in Nat /\ confirmed'[s] \in Nat /\ Pending' \in Int
                /\ Pending' = Pending + confirmed'[s] - confirmed[s]
            BY <5>2, PendingMoves
          <5> QED BY <5>2, <5>3, EvidenceTyped
        <4>2. CASE refusal \notin Scope
          <5>1. confirmed' = confirmed
            BY <2>4, <4>2 DEF YesTyped
          <5>2. Pending' = Pending
            BY <5>1 DEF Pending
          <5> QED BY <5>2, EvidenceTyped
        <4> QED BY <4>1, <4>2
      <3>2. Granting' = Granting
        BY <1>0, <2>1, <2>2 DEF Granting, Others
      <3>3. Arms' = Arms /\ Len(opened)' = Len(opened)
        BY <2>1 DEF Arms
      <3>4. PICK q \in Int, g \in Nat, l \in Nat, a \in Nat :
                q = Pending /\ g = Cardinality(Granting) /\ l = Len(opened) /\ a = Arms
        BY EvidenceTyped
      <3>5. evidence \in Nat /\ evidence' = evidence + 1 /\ l + q + a + g <= evidence
        BY <2>4, <3>4, EvidenceTyped DEF Evidenced
      <3>6. Pending' \in Int /\ Pending' <= q + 1 /\ l + Pending' + a + g <= evidence'
        <4>1. Pending' \in Int /\ Pending' <= q + 1
          BY <3>1, <3>4
        <4>2. PICK p \in Int : p = Pending'
          BY <4>1
        <4>3. p <= q + 1
          BY <4>1, <4>2
        <4>4. PICK e \in Nat : e = evidence /\ l + q + a + g <= e
          BY <3>5
        <4>5. l + p + a + g <= e + 1
          BY <4>3, <4>4
        <4> QED BY <3>5, <4>1, <4>2, <4>4, <4>5
      <3> QED BY <3>2, <3>3, <3>4, <3>6 DEF Evidenced
    <2> QED BY <2>1, <2>3, <2>4
  <1>9. CASE ArmEscalation(c)
    <2>1. /\ call[c].pc = "arm" /\ UNCHANGED <<opened, confirmed>>
          /\ armed' = TRUE /\ evidence' = evidence + (IF armed THEN 0 ELSE 1)
      BY <1>9 DEF ArmEscalation, Arm, ChatKeeps
    <2>2. call'[c].pc # "grant"
      BY <2>1, GrantMoves DEF UseConfirmation, TakeArm
    <2>3. Granting' = Granting
      BY <1>0, <2>1, <2>2 DEF Granting, Others
    <2>4. /\ Arms' = 1 /\ Len(opened)' = Len(opened) /\ Pending' = Pending
          /\ evidence' = evidence + 1 - Arms
      BY <2>1, EvidenceTyped DEF Arms, Pending
    <2>5. PICK q \in Int, g \in Nat, l \in Nat, a \in Nat, e \in Nat :
              /\ q = Pending /\ g = Cardinality(Granting) /\ l = Len(opened) /\ a = Arms
              /\ e = evidence /\ l + q + a + g <= e
      BY EvidenceTyped DEF Evidenced
    <2>6. l + q + 1 + g <= e + 1 - a
      BY <2>5
    <2>7. Len(opened') + Pending' + Arms' + Cardinality(Granting') <= evidence'
      BY <2>3, <2>4, <2>5, <2>6
    <2> QED BY <2>7 DEF Evidenced
  <1> QED BY <1>2, <1>3, <1>4, <1>6, <1>7, <1>8, <1>9, CallsHandshake

\* The mint verb spends what it authorises.
LEMMA MintEvidence ==
    ASSUME RTyped, YesTyped, YesTyped', Evidenced, UNCHANGED call, MintOnConfirmation \/ MintOnArm
    PROVE  Evidenced'
  <1>1. minting.pc # "idle" /\ UNCHANGED evidence
    BY DEF MintOnConfirmation, MintOnArm, MintKeeps
  <1>2. PICK s \in Scope : s = minting.scope
    BY <1>1 DEF RTyped, CallsTyped
  <1>3. Granting' = Granting
    BY DEF Granting
  <1>4. MintToken => Len(opened') = Len(opened) + 1
    BY <1>2, AuthorizeOpens DEF YesTyped, MintToken
  <1>5. CASE MintOnConfirmation
    <2>1. /\ UNCHANGED armed
          /\ \/ SpendConfirmation(s) /\ MintToken
             \/ UNCHANGED <<confirmed, opened>>
      BY <1>2, <1>5 DEF MintOnConfirmation
    <2>2. CASE UNCHANGED <<confirmed, opened>>
      BY <1>1, <1>3, <2>1, <2>2, EvidenceRests
    <2>3. CASE SpendConfirmation(s) /\ MintToken
      <3>3. Pending' = Pending - 1
        BY <2>3, PendingSpent
      <3>4. Arms' = Arms
        BY <2>1 DEF Arms
      <3> QED BY <1>1, <1>3, <1>4, <2>3, <3>3, <3>4, EvidenceTyped DEF Evidenced
    <2> QED BY <2>1, <2>2, <2>3
  <1>6. CASE MintOnArm
    <2>1. /\ UNCHANGED confirmed
          /\ \/ armed /\ armed' = FALSE /\ MintToken
             \/ UNCHANGED <<armed, opened>>
      BY <1>6 DEF MintOnArm, SpendArm
    <2>2. CASE UNCHANGED <<armed, opened>>
      BY <1>1, <1>3, <2>1, <2>2, EvidenceRests
    <2>3. CASE armed /\ armed' = FALSE /\ MintToken
      <3>1. Arms = 1 /\ Arms' = 0 /\ Pending' = Pending
        BY <2>1, <2>3 DEF Arms, Pending
      <3> QED BY <1>1, <1>3, <1>4, <2>3, <3>1, EvidenceTyped DEF Evidenced
    <2> QED BY <2>1, <2>2, <2>3
  <1> QED BY <1>5, <1>6

\* Every step spends what it authorises.
LEMMA EvidenceStep ==
    ASSUME RTyped, YesTyped, YesTyped', GateInv, Evidenced, [RouterNext]_vars
    PROVE  Evidenced'
  <1>1. ASSUME NEW c \in Caller,
               CallStep(c) \/ EnterFails(c) \/ RecordFails(c) \/ \E t \in Task : Begin(c, t)
        PROVE  Evidenced'
    BY <1>1, CallEvidence
  <1>2. UNCHANGED call => Granting' \subseteq Granting
    BY DEF Granting
  <1>3. ASSUME UNCHANGED <<opened, confirmed, evidence, armed, call>> PROVE Evidenced'
    BY <1>2, <1>3, EvidenceRests
  <1>4. CASE OperatorStep \/ UNCHANGED vars \/ UNCHANGED <<escalationVars, routerVars>>
    <2>1. UNCHANGED call
      BY <1>4 DEF OperatorStep, PauseOrResume, OneShotExpires, ResetDegraded, Rederive,
                  SetModelOneShot, OrderKeeps, vars, routerVars
    <2>2. UNCHANGED handshake
      BY <1>4, OthersHandshake DEF escalationVars, handshake
    <2> QED BY <1>3, <2>1, <2>2 DEF handshake
  <1>5. CASE EscalationStep /\ UNCHANGED <<policyVars, routerVars>>
    <2>1. UNCHANGED call
      BY <1>5 DEF routerVars
    <2>2. ASSUME NEW e \in Email, NEW k \in Class, Classify(e, k)
          PROVE  UNCHANGED <<opened, confirmed, evidence, armed>>
      BY <2>2 DEF Classify
    <2>3. CASE UNCHANGED handshake
      BY <1>3, <2>1, <2>3 DEF handshake
    <2>4. CASE MintOnConfirmation \/ MintOnArm
      BY <2>1, <2>4, MintEvidence
    <2> QED BY <1>3, <1>5, <2>1, <2>2, <2>3, <2>4, OthersHandshake
  <1>6. CASE EntryLapses
    <2>1. /\ UNCHANGED <<opened, evidence, call>>
          /\ \/ UNCHANGED confirmed /\ (armed' => armed)
             \/ UNCHANGED armed /\ \E s \in Scope : SpendConfirmation(s)
      BY <1>6 DEF EntryLapses, Lapses
    <2>2. CASE UNCHANGED confirmed /\ (armed' => armed)
      BY <1>2, <2>1, <2>2, EvidenceRests
    <2>3. ASSUME NEW s \in Scope, UNCHANGED armed, SpendConfirmation(s) PROVE Evidenced'
      <3>3. Pending' = Pending - 1
        BY <2>3, PendingSpent
      <3>4. Arms' = Arms /\ Granting' = Granting
        BY <2>1, <2>3 DEF Arms, Granting
      <3> QED BY <2>1, <3>3, <3>4, EvidenceTyped DEF Evidenced
    <2> QED BY <2>1, <2>2, <2>3
  <1>7. ASSUME NEW p \in Process, Restart(p) PROVE Evidenced'
    <2>1. UNCHANGED <<opened, evidence, confirmed, armed>>
      BY <1>7 DEF Restart
    <2>2. \A c \in Caller : call'[c] = IdleCall \/ call'[c] = call[c]
      BY <1>7, RestartSets
    <2>3. Granting' \subseteq Granting
      BY <2>2 DEF Granting, IdleCall
    <2> QED BY <2>1, <2>3, EvidenceRests
  <1> QED BY <1>1, <1>4, <1>5, <1>6, <1>7 DEF RouterNext

\* Every authorisation spends a confirmation or an arm the user's yes has
\* written, and none is spent twice, whatever calls and verbs race for them
\* (db/queries.py, consume_sensitivity_confirmation and consume_escalation_arm).
THEOREM EvidenceSpentOnceHolds == RouterSpec => []EvidenceSpentOnce
  <1>1. RouterInit => Evidenced
    <2> SUFFICES ASSUME RouterInit PROVE Evidenced
      OBVIOUS
    <2>1. EscalationStart /\ RouterStart /\ YesTyped
      BY YesInit DEF RouterInit, RouterStart, YesInv
    <2>2. Granting = {}
      BY <2>1 DEF RouterStart, Granting, IdleCall
    <2>3. Cardinality(Granting) = 0
      BY <2>2, FS_EmptySet
    <2>4. \A s \in Scope : confirmed[s] = 0
      BY <2>1 DEF EscalationStart
    <2>5. Pending = 0
      <3>1. PICK f \in [Scope -> Int] : f = confirmed
        BY <2>1 DEF YesTyped
      <3>2. \A s \in Scope : IF s \in Scope THEN f[s] = 0 ELSE f[s] = f[s]
        BY <2>4, <3>1
      <3>3. Total(f, Scope) = Total(f, Scope) + Total(f, Scope)
        BY <3>2, ScopeFinite, TotalClear
      <3>4. PICK n \in Int : n = Total(f, Scope)
        BY ScopeFinite, TotalRemove
      <3>5. n = n + n
        BY <3>3, <3>4
      <3>6. n = 0
        BY <3>5
      <3>7. Pending = Total(f, Scope)
        BY <3>1 DEF Pending
      <3> QED BY <3>4, <3>6, <3>7
    <2>6. Len(opened) = 0 /\ Arms = 0 /\ evidence = 0
      BY <2>1, EmptySeq DEF EscalationStart, Arms
    <2> QED BY <2>3, <2>5, <2>6 DEF Evidenced
  <1>2. RTyped /\ RTyped' /\ YesInv /\ Evidenced /\ [RouterNext]_vars => YesInv' /\ Evidenced'
    BY YesStep, EvidenceStep DEF YesInv
  <1>3. YesInv /\ Evidenced => EvidenceSpentOnce
    BY EvidenceTyped DEF YesInv
  <1> QED BY <1>1, <1>2, <1>3, YesInit, RouterTyped, PTL DEF RouterSpec
-----------------------------------------------------------------------------
(* The money. *)

\* What a call has cost, and what of it the budget counter will hear of.
Costs   == [c \in Caller |-> call[c].cost + call[c].outer]
Due(c)  == IF call[c].pc \in {"admit", "slot", "ask", "spend"} THEN call[c].cost ELSE 0
Dues(p) == [c \in Caller |-> IF ProcOf(c) = p THEN Due(c) ELSE 0]

Early == {"idle", "claim", "arm", "pause", "degraded", "class"} \cup Asks

\* A call costs nothing before it is admitted, and has an outer leg only while
\* the escalated one runs.
CostShape(c) ==
    /\ call[c].pc \in Early => call[c].cost = 0 /\ call[c].outer = 0
    /\ call[c].leg # "escalated" => call[c].outer = 0

BillInv ==
    /\ charged \in Nat /\ lost \in Nat
    /\ \A c \in Caller : CostShape(c)
    /\ charged = ledger + lost + Total(Costs, Caller)
    /\ \A p \in Process : guard[p].month + Total(Dues(p), Caller) <= charged

\* The sum of the model is this one.
LEMMA CostsTotal ==
    ASSUME NEW S \in SUBSET Caller
    PROVE  MapThenSumSet(LAMBDA c : call[c].cost + call[c].outer, S) = Total(Costs, S)
  <1>1. IsFiniteSet(S)
    BY RouterAssumption, FS_Subset
  <1>2. \E t : IsTotal(Costs, S, t)
    BY <1>1, TotalExists
  <1>3. ASSUME NEW t
        PROVE  IsTotal(Costs, S, t)
          <=> t = [s \in SUBSET S |-> IF s = {} THEN 0
                    ELSE LET x == CHOOSE x \in s : TRUE
                         IN  (call[x].cost + call[x].outer) + t[s \ {x}]]
    <2>1. \A s \in SUBSET S : s # {} => (CHOOSE x \in s : TRUE) \in Caller
      OBVIOUS
    <2>2. \A x \in Caller : Costs[x] = call[x].cost + call[x].outer
      BY DEF Costs
    <2> QED BY <2>1, <2>2 DEF IsTotal
  <1> QED BY <1>2, <1>3 DEF MapThenSumSet, MapThenFoldSet, Total

\* The terms are natural numbers.
LEMMA CostsTyped ==
    ASSUME RTyped
    PROVE  /\ \A c \in Caller : /\ call[c].cost \in Nat /\ call[c].outer \in Nat
                                /\ Costs[c] = call[c].cost + call[c].outer /\ Due(c) \in Nat
           /\ Costs \in [Caller -> Int] /\ Total(Costs, Caller) \in Nat
           /\ \A p : /\ Dues(p) \in [Caller -> Int] /\ Total(Dues(p), Caller) \in Nat
                     /\ \A c \in Caller : Dues(p)[c] = IF ProcOf(c) = p THEN Due(c) ELSE 0
  <1>1. \A c \in Caller : call[c].cost \in Nat /\ call[c].outer \in Nat
    BY DEF RTyped, CallsTyped, CallType, CallShape
  <1>2. \A c \in Caller : Costs[c] = call[c].cost + call[c].outer /\ Due(c) \in Nat
    BY <1>1 DEF Costs, Due
  <1>3. Costs \in [Caller -> Int] /\ \A c \in Caller : Costs[c] \in Nat
    BY <1>1 DEF Costs
  <1>4. Total(Costs, Caller) \in Nat
    BY <1>3, RouterAssumption, TotalNat
  <1>5. ASSUME NEW p
        PROVE  /\ Dues(p) \in [Caller -> Int] /\ Total(Dues(p), Caller) \in Nat
               /\ \A c \in Caller : Dues(p)[c] = IF ProcOf(c) = p THEN Due(c) ELSE 0
    <2>1. /\ Dues(p) \in [Caller -> Int]
          /\ \A c \in Caller : Dues(p)[c] = IF ProcOf(c) = p THEN Due(c) ELSE 0
      BY <1>2 DEF Dues
    <2>2. \A c \in Caller : Dues(p)[c] \in Nat
      BY <1>2, <2>1
    <2>3. PICK f : f = Dues(p)
      OBVIOUS
    <2>4. Total(f, Caller) \in Nat
      BY <2>2, <2>3, RouterAssumption, TotalNat
    <2> QED BY <2>1, <2>3, <2>4
  <1> QED BY <1>1, <1>2, <1>3, <1>4, <1>5

\* What a step of a call does to the money: what it pays is in its own cost, in
\* a row or lost, and the counter hears of no more.
Bills(c, paid, wrote, gone) ==
    /\ Others(c) /\ CostShape(c)'
    /\ charged' = charged + paid /\ ledger' = ledger + wrote /\ lost' = lost + gone
    /\ call'[c].cost + call'[c].outer + wrote + gone = call[c].cost + call[c].outer + paid
    /\ \A p \in Process :
           guard'[p].month + (IF ProcOf(c)' = p THEN Due(c)' ELSE 0)
             <= guard[p].month + (IF ProcOf(c) = p THEN Due(c) ELSE 0) + paid

Billed(c) == \E paid, wrote, gone \in Nat : Bills(c, paid, wrote, gone)

\* Before a call is admitted it costs nothing.
LEMMA BillEarly ==
    ASSUME RTyped, BillInv, NEW c \in Caller, Others(c), call[c].pc \in Early,
           UNCHANGED spendVars, SameCost(c) \/ Fresh(c)
    PROVE  Billed(c)
  <1>1. call[c].cost = 0 /\ call[c].outer = 0
    BY DEF BillInv, CostShape
  <1>2. call'[c].cost = 0 /\ call'[c].outer = 0
    BY <1>1 DEF SameCost, Fresh
  <1>3. Due(c) = 0 /\ Due(c)' = 0
    BY <1>1, <1>2 DEF Due
  <1>4. charged \in Nat /\ lost \in Nat /\ ledger \in Nat
    BY DEF BillInv, RTyped, MoneyTyped
  <1>5. \A p \in Process : guard'[p].month = guard[p].month /\ guard[p].month \in Nat
    BY DEF spendVars, RTyped, MoneyTyped, GuardType
  <1>6. Bills(c, 0, 0, 0)
    BY <1>1, <1>2, <1>3, <1>4, <1>5 DEF Bills, CostShape, spendVars
  <1> QED BY <1>6 DEF Billed

\* A step at the dispatch that pays nothing.
LEMMA BillGoes ==
    ASSUME RTyped, BillInv, NEW c \in Caller, SameGate(c), SameCost(c), Others(c),
           \A p \in Process : guard'[p].month = guard[p].month, UNCHANGED <<ledger, charged, lost>>,
           call'[c].pc \notin Early,
           call'[c].pc \in {"admit", "slot", "ask", "spend"}
               => call[c].pc \in {"admit", "slot", "ask", "spend"}
    PROVE  Billed(c)
  <1>1. charged \in Nat /\ lost \in Nat /\ ledger \in Nat
    BY DEF BillInv, RTyped, MoneyTyped
  <1>2. call[c].cost \in Nat /\ call[c].outer \in Nat /\ Due(c) \in Nat
    BY CostsTyped
  <1>3. Due(c)' <= Due(c) /\ Due(c)' \in Nat /\ ProcOf(c)' = ProcOf(c)
    BY <1>2 DEF Due, SameCost, SameGate, SameScope, ProcOf
  <1>4. \A p \in Process : guard[p].month \in Nat
    BY DEF RTyped, MoneyTyped, GuardType
  <1>5. CostShape(c)'
    BY DEF BillInv, CostShape, SameCost
  <1>6. call'[c].cost = call[c].cost /\ call'[c].outer = call[c].outer
    BY DEF SameCost
  <1>7. ASSUME NEW p \in Process
        PROVE  guard'[p].month + (IF ProcOf(c)' = p THEN Due(c)' ELSE 0)
                 <= guard[p].month + (IF ProcOf(c) = p THEN Due(c) ELSE 0) + 0
    <2>1. PICK m \in Nat : m = guard[p].month /\ guard'[p].month = m
      BY <1>4
    <2>2. CASE ProcOf(c) = p
      BY <1>2, <1>3, <2>1, <2>2
    <2>3. CASE ProcOf(c) # p
      BY <1>3, <2>1, <2>3
    <2> QED BY <2>2, <2>3
  <1>8. Bills(c, 0, 0, 0)
    BY <1>1, <1>2, <1>5, <1>6, <1>7 DEF Bills
  <1> QED BY <1>8 DEF Billed

\* An answer is paid for and its price is in the cost of the call.
LEMMA BillAnswer ==
    ASSUME RTyped, BillInv, NEW c \in Caller,
           \/ AnswerValid(c) \/ AnswerTool(c) \/ AnswerEmbedding(c) \/ AnswerInvalid(c) \/ NoAnswer(c)
    PROVE  Billed(c)
  <1>1. Others(c) /\ call[c].pc = "ask" /\ UNCHANGED <<guard, ledger, lost>>
    BY AnswerFields DEF AnswerValid, AnswerTool, AnswerEmbedding, AnswerInvalid, NoAnswer, AnswerKeeps
  <1>2. PICK paid \in Nat : Spent(c, paid) /\ charged' = charged + paid
    <2>1. Price(call[c].model) \in Nat /\ charged \in Nat
      BY DEF Price, BillInv
    <2> QED BY <2>1, AnswerFields
  <1>3. /\ charged \in Nat /\ lost \in Nat /\ ledger \in Nat
        /\ call[c].cost \in Nat /\ call[c].outer \in Nat
    BY CostsTyped DEF BillInv, RTyped, MoneyTyped
  <1>4. call[c].leg = "only" => call[c].outer = 0
    BY DEF BillInv, CostShape
  <1>5. /\ call'[c].pc \in {"spend", "record", "slot", "admit"} /\ ProcOf(c)' = ProcOf(c)
        /\ call'[c].cost + call'[c].outer = call[c].cost + call[c].outer + paid
        /\ call'[c].cost \in Nat /\ call'[c].cost <= call[c].cost + paid
        /\ call'[c].leg # "escalated" => call'[c].outer = 0
    <2>1. CASE /\ call'[c].pc \in {"spend", "record", "slot"} /\ SameScope(c)
               /\ call'[c].cost = call[c].cost + paid /\ call'[c].outer = call[c].outer
               /\ call'[c].leg = call[c].leg
      BY <1>3, <2>1 DEF SameScope, ProcOf, BillInv, CostShape
    <2>2. CASE /\ call'[c].pc = "admit" /\ SameScope(c)
               /\ call[c].leg = "only" /\ call'[c].leg = "escalated"
               /\ call'[c].cost = 0 /\ call'[c].outer = call[c].cost + paid
      BY <1>3, <1>4, <2>2 DEF SameScope, ProcOf
    <2> QED BY <1>2, <2>1, <2>2 DEF Spent, SameGate
  <1>6. CostShape(c)'
    BY <1>5 DEF CostShape, Early, Asks
  <1>7. Due(c)' \in Nat /\ Due(c)' <= Due(c) + paid /\ Due(c) = call[c].cost
    BY <1>1, <1>3, <1>5 DEF Due
  <1>8. ASSUME NEW p \in Process
        PROVE  guard'[p].month + (IF ProcOf(c)' = p THEN Due(c)' ELSE 0)
                 <= guard[p].month + (IF ProcOf(c) = p THEN Due(c) ELSE 0) + paid
    <2>1. PICK m \in Nat : m = guard[p].month /\ guard'[p].month = m
      BY <1>1 DEF RTyped, MoneyTyped, GuardType
    <2>2. CASE ProcOf(c) = p
      BY <1>3, <1>5, <1>7, <2>1, <2>2
    <2>3. CASE ProcOf(c) # p
      BY <1>5, <2>1, <2>3
    <2> QED BY <2>2, <2>3
  <1>9. Bills(c, paid, 0, 0)
    BY <1>1, <1>2, <1>3, <1>5, <1>6, <1>8 DEF Bills
  <1> QED BY <1>9 DEF Billed

\* The counter hears of the cost of the call.
LEMMA BillSpend ==
    ASSUME RTyped, BillInv, NEW c \in Caller, Spend(c)
    PROVE  Billed(c)
  <1>1. /\ SameGate(c) /\ SameCost(c) /\ Others(c) /\ call[c].pc = "spend"
        /\ call'[c].pc \in {"enter", "record"}
    BY SpendFields
  <1>2. UNCHANGED <<ledger, charged, lost>>
    BY DEF Spend
  <1>3. /\ charged \in Nat /\ lost \in Nat /\ ledger \in Nat
        /\ call[c].cost \in Nat /\ call[c].outer \in Nat
    BY CostsTyped DEF BillInv, RTyped, MoneyTyped
  <1>4. PICK q \in Process : q = ProcOf(c)
    BY DEF ProcOf, Home, Process
  <1>5. PICK now : now = guard[q].month + call[c].cost
    OBVIOUS
  <1>6. guard' = [guard EXCEPT ![q].month = now]
    BY <1>4, <1>5 DEF Spend
  <1>7. guard \in [Process -> GuardType]
    BY DEF RTyped, MoneyTyped
  <1>8. guard'[q].month = now /\ \A p \in Process : p # q => guard'[p] = guard[p]
    BY <1>6, <1>7 DEF GuardType
  <1>9. Due(c) = call[c].cost /\ Due(c)' = 0 /\ ProcOf(c)' = q
    BY <1>1, <1>4 DEF Due, SameGate, SameScope, ProcOf
  <1>10. CostShape(c)'
    BY <1>1 DEF CostShape, Early, Asks, SameCost, BillInv
  <1>11. ASSUME NEW p \in Process
         PROVE  guard'[p].month + (IF ProcOf(c)' = p THEN Due(c)' ELSE 0)
                 <= guard[p].month + (IF ProcOf(c) = p THEN Due(c) ELSE 0) + 0
    <2>1. PICK m \in Nat : m = guard[p].month
      BY <1>7 DEF GuardType
    <2>2. CASE q = p
      <3>1. guard'[p].month = m + call[c].cost
        BY <1>5, <1>8, <2>1, <2>2
      <3> QED BY <1>3, <1>4, <1>9, <2>1, <2>2, <3>1
    <2>3. CASE q # p
      BY <1>4, <1>8, <1>9, <2>1, <2>3
    <2> QED BY <2>2, <2>3
  <1>12. call'[c].cost = call[c].cost /\ call'[c].outer = call[c].outer
    BY <1>1 DEF SameCost
  <1>13. Bills(c, 0, 0, 0)
    BY <1>1, <1>2, <1>3, <1>10, <1>11, <1>12 DEF Bills
  <1> QED BY <1>13 DEF Billed

\* A row takes the cost of its leg, or the cost is lost with the row.
LEMMA BillRecord ==
    ASSUME RTyped, BillInv, NEW c \in Caller, Record(c) \/ RecordFails(c)
    PROVE  Billed(c)
  <1>1. /\ Others(c) /\ call[c].pc = "record"
        /\ \/ Fresh(c) /\ call[c].leg # "escalated"
           \/ /\ SameGate(c) /\ call'[c].pc = "record" /\ call[c].leg = "escalated"
              /\ call'[c].leg = "first" /\ call'[c].cost = call[c].outer
              /\ call'[c].outer = 0
    BY SpendFields
  <1>2. /\ charged \in Nat /\ lost \in Nat /\ ledger \in Nat
        /\ call[c].cost \in Nat /\ call[c].outer \in Nat
    BY CostsTyped DEF BillInv, RTyped, MoneyTyped
  <1>3. UNCHANGED <<guard, charged>>
    BY DEF Record, RecordFails
  <1>4. PICK wrote \in Nat, gone \in Nat :
            ledger' = ledger + wrote /\ lost' = lost + gone /\ wrote + gone = call[c].cost
    <2>1. CASE Record(c)
      <3>1. ledger' = ledger + call[c].cost /\ lost' = lost + 0 /\ call[c].cost + 0 = call[c].cost
        BY <1>2, <2>1 DEF Record
      <3> QED BY <1>2, <3>1
    <2>2. CASE RecordFails(c)
      <3>1. ledger' = ledger + 0 /\ lost' = lost + call[c].cost /\ 0 + call[c].cost = call[c].cost
        BY <1>2, <2>2 DEF RecordFails
      <3> QED BY <1>2, <3>1
    <2> QED BY <2>1, <2>2
  <1>5. call'[c].cost + call'[c].outer = call[c].outer /\ call'[c].cost \in Nat /\ call'[c].outer \in Nat
    <2>1. call[c].leg # "escalated" => call[c].outer = 0
      BY DEF BillInv, CostShape
    <2> QED BY <1>1, <1>2, <2>1 DEF Fresh
  <1>6. CostShape(c)'
    BY <1>1 DEF CostShape, Early, Asks, Fresh
  <1>7. Due(c) = 0 /\ Due(c)' = 0
    BY <1>1 DEF Due, Fresh
  <1>8. \A p \in Process : guard'[p].month = guard[p].month /\ guard[p].month \in Nat
    BY <1>3 DEF RTyped, MoneyTyped, GuardType
  <1>9. call'[c].cost + call'[c].outer + wrote + gone = call[c].cost + call[c].outer + 0
    BY <1>2, <1>4, <1>5
  <1>10. Bills(c, 0, wrote, gone)
    BY <1>1, <1>2, <1>3, <1>4, <1>6, <1>7, <1>8, <1>9 DEF Bills
  <1> QED BY <1>10 DEF Billed

\* Every step of a call keeps its bill.
LEMMA CallBills ==
    ASSUME RTyped, GateInv, BillInv, NEW c \in Caller,
           CallStep(c) \/ EnterFails(c) \/ RecordFails(c) \/ \E t \in Task : Begin(c, t)
    PROVE  Billed(c)
  <1>1. CASE \E t \in Task : Begin(c, t)
    <2>1. call[c].pc \in Early /\ UNCHANGED spendVars
      BY <1>1 DEF Begin, Early
    <2> QED BY <1>1, <2>1, BeginFresh, BillEarly
  <1>2. \A pc : Goto(c, pc) => SameCost(c) /\ Others(c)
    BY GotoKeeps
  <1>3. (\E k : Set(c, Cleared(c, k))) \/ Unlock(c) => SameCost(c) /\ Others(c)
    BY PassFields DEF Passes
  <1>4. Return(c, FALSE) => Fresh(c) /\ Others(c)
    BY ReturnFresh
  <1>5. CASE ClaimEscalation(c) \/ ArmEscalation(c)
    <2>1. call[c].pc \in Early /\ UNCHANGED spendVars /\ \E pc : Goto(c, pc)
      BY <1>5 DEF ClaimEscalation, ArmEscalation, GateKeeps, Early
    <2> QED BY <1>2, <2>1, BillEarly
  <1>6. CASE \/ ReadPause(c) \/ ReadPauseTool(c) \/ ReadPauseEmbedding(c) \/ StopStorm(c)
             \/ ReadDegraded(c)
    <2>1. UNCHANGED spendVars
      BY <1>6 DEF ReadPause, ReadPauseTool, ReadPauseEmbedding, StopStorm, ReadDegraded, GateKeeps
    <2>2. call[c].pc \in Early /\ Others(c) /\ (SameCost(c) \/ Fresh(c))
      BY <1>6, GateFields DEF Early
    <2> QED BY <2>1, <2>2, BillEarly
  <1>7. CASE ReadClass(c)
    <2>1. call[c].pc \in Early /\ UNCHANGED spendVars
      BY <1>7 DEF ReadClass, GateOpens, GateForbids, GatePasses, GateTakesToken, GateAsks,
                  GateRefusesTool, GateRefuses, ClassKeeps, GateKeeps, Gating, Early
    <2>2. (\E pc : Goto(c, pc)) \/ Return(c, FALSE) \/ (\E k : Set(c, Cleared(c, k))) \/ Unlock(c)
      BY <1>7 DEF ReadClass, GateOpens, GateForbids, GatePasses, GateTakesToken, GateAsks,
                  GateRefusesTool, GateRefuses
    <2> QED BY <1>2, <1>3, <1>4, <2>1, <2>2, BillEarly
  <1>8. CASE PeekGrant(c) \/ UseConfirmation(c) \/ TakeArm(c) \/ RecordGrant(c)
    <2>1. call[c].pc \in Early /\ UNCHANGED spendVars
      BY <1>8 DEF PeekGrant, UseConfirmation, TakeArm, RecordGrant, AuthKeeps, GateKeeps, Early, Asks
    <2>2. (\E pc : Goto(c, pc)) \/ Return(c, FALSE) \/ Unlock(c)
      BY <1>8 DEF PeekGrant, UseConfirmation, TakeArm, RecordGrant
    <2> QED BY <1>2, <1>3, <1>4, <2>1, <2>2, BillEarly
  <1>9. CASE Admit(c) \/ AdmitTool(c) \/ AdmitEmbedding(c) \/ AdmitFails(c)
    <2>1. UNCHANGED <<guard, ledger, charged, lost>>
      BY <1>9 DEF Admit, AdmitTool, AdmitEmbedding, AdmitFails, AdmitKeeps, spendVars
    <2>2. /\ SameGate(c) /\ SameCost(c) /\ Others(c) /\ call[c].pc = "admit"
          /\ call'[c].pc \in {"slot", "record"}
      BY <1>9, AdmitFields
    <2>3. call'[c].pc \notin Early
      BY <2>2 DEF Early, Asks
    <2> QED BY <2>1, <2>2, <2>3, BillGoes
  <1>10. CASE Acquire(c)
    <2>1. Goto(c, "ask") /\ call[c].pc = "slot" /\ UNCHANGED <<guard, ledger, charged, lost>>
      BY <1>10 DEF Acquire, spendVars
    <2>2. call'[c].pc = "ask" /\ SameGate(c) /\ SameCost(c) /\ Others(c)
      BY <2>1, GotoKeeps
    <2>3. call'[c].pc \notin Early
      BY <2>2 DEF Early, Asks
    <2> QED BY <2>1, <2>2, <2>3, BillGoes
  <1>11. CASE AnswerValid(c) \/ AnswerTool(c) \/ AnswerEmbedding(c) \/ AnswerInvalid(c) \/ NoAnswer(c)
    BY <1>11, BillAnswer
  <1>12. CASE Spend(c)
    BY <1>12, BillSpend
  <1>13. CASE EnterDegraded(c) \/ EnterFails(c)
    <2>1. UNCHANGED <<ledger, charged, lost>>
      BY <1>13 DEF EnterDegraded, EnterFails
    <2>2. \A p \in Process : guard'[p].month = guard[p].month
      <3>1. guard' = guard \/ guard' = [guard EXCEPT ![ProcOf(c)].flag = TRUE]
        BY <1>13 DEF EnterDegraded, EnterFails
      <3>2. guard \in [Process -> GuardType]
        BY DEF RTyped, MoneyTyped
      <3> QED BY <3>1, <3>2 DEF GuardType
    <2>3. /\ SameGate(c) /\ SameCost(c) /\ Others(c) /\ call[c].pc = "enter"
          /\ call'[c].pc = "record"
      BY <1>13, SpendFields
    <2>4. call'[c].pc \notin Early
      BY <2>3 DEF Early, Asks
    <2> QED BY <2>1, <2>2, <2>3, <2>4, BillGoes
  <1>14. CASE Record(c) \/ RecordFails(c)
    BY <1>14, BillRecord
  <1> QED BY <1>1, <1>5, <1>6, <1>7, <1>8, <1>9, <1>10, <1>11, <1>12, <1>13, <1>14 DEF CallStep

\* And they are after the step.
LEMMA CostsTypedNext ==
    ASSUME RTyped'
    PROVE  Costs' \in [Caller -> Int] /\ \A p : Dues(p)' \in [Caller -> Int]
  <1>1. \A c \in Caller : call'[c].cost \in Nat /\ call'[c].outer \in Nat
    BY DEF RTyped, CallsTyped, CallType, CallShape
  <1>2. \A c \in Caller : Due(c)' \in Nat
    BY <1>1 DEF Due
  <1>3. Costs' \in [Caller -> Int]
    BY <1>1 DEF Costs
  <1>4. ASSUME NEW p PROVE Dues(p)' \in [Caller -> Int]
    BY <1>2 DEF Dues
  <1> QED BY <1>3, <1>4

\* A step of a call keeps the accounts.
LEMMA CallAccounts ==
    ASSUME RTyped, RTyped', BillInv, NEW c \in Caller, Billed(c)
    PROVE  BillInv'
  <1>1. PICK paid \in Nat, wrote \in Nat, gone \in Nat : Bills(c, paid, wrote, gone)
    BY DEF Billed
  <1>2. charged \in Nat /\ lost \in Nat /\ ledger \in Nat
    BY DEF BillInv, RTyped, MoneyTyped
  <1>3. charged' \in Nat /\ lost' \in Nat /\ charged' = charged + paid
        /\ ledger' = ledger + wrote /\ lost' = lost + gone
    BY <1>1, <1>2 DEF Bills
  <1>4. \A d \in Caller : CostShape(d)'
    <2>1. ASSUME NEW d \in Caller, d # c PROVE CostShape(d)'
      <3>1. call'[d] = call[d] /\ CostShape(d)
        BY <1>1, <2>1 DEF Bills, Others, BillInv
      <3> QED BY <3>1 DEF CostShape
    <2> QED BY <1>1, <2>1 DEF Bills
  <1>5. charged' = ledger' + lost' + Total(Costs, Caller)'
    <2>1. PICK f \in [Caller -> Int], g \in [Caller -> Int] : f = Costs /\ g = Costs'
      BY CostsTyped, CostsTypedNext
    <2>2. \A d \in Caller : d # c => f[d] = g[d]
      BY <1>1, <2>1 DEF Bills, Others, Costs
    <2>3. Total(g, Caller) = Total(f, Caller) + g[c] - f[c]
      BY <2>2, RouterAssumption, TotalChange
    <2>4. f[c] = call[c].cost + call[c].outer
      BY <2>1 DEF Costs
    <2>5. g[c] = call'[c].cost + call'[c].outer
      BY <2>1 DEF Costs
    <2>6. g[c] + wrote + gone = f[c] + paid
      <3>1. call[c].cost \in Nat /\ call[c].outer \in Nat
        BY CostsTyped
      <3>2. call'[c].cost \in Nat /\ call'[c].outer \in Nat
        BY DEF RTyped, CallsTyped, CallType, CallShape
      <3> QED BY <1>1, <2>4, <2>5, <3>1, <3>2 DEF Bills
    <2>7. PICK t \in Int : t = Total(f, Caller)
      BY RouterAssumption, TotalRemove
    <2>8. charged = ledger + lost + t
      BY <2>1, <2>7 DEF BillInv
    <2>9. f[c] \in Int /\ g[c] \in Int
      OBVIOUS
    <2>10. Total(g, Caller) = t + g[c] - f[c]
      BY <2>3, <2>7
    <2>11. charged' = ledger' + lost' + Total(g, Caller)
      BY <1>2, <1>3, <2>6, <2>8, <2>9, <2>10
    <2> QED BY <2>1, <2>11
  <1>6. ASSUME NEW p \in Process PROVE guard'[p].month + Total(Dues(p), Caller)' <= charged'
    <2>1. PICK f \in [Caller -> Int], g \in [Caller -> Int] : f = Dues(p) /\ g = Dues(p)'
      <3>1. Dues(p) \in [Caller -> Int]
        BY CostsTyped
      <3>2. Dues(p)' \in [Caller -> Int]
        BY CostsTypedNext
      <3> QED BY <3>1, <3>2
    <2>2. \A d \in Caller : d # c => f[d] = g[d]
      BY <1>1, <2>1 DEF Bills, Others, Dues, Due, ProcOf
    <2>3. Total(g, Caller) = Total(f, Caller) + g[c] - f[c]
      BY <2>2, RouterAssumption, TotalChange
    <2>4. f[c] = IF ProcOf(c) = p THEN Due(c) ELSE 0
      BY <2>1 DEF Dues
    <2>5. g[c] = IF ProcOf(c)' = p THEN Due(c)' ELSE 0
      BY <2>1 DEF Dues
    <2>6. guard'[p].month + g[c] <= guard[p].month + f[c] + paid
      BY <1>1, <2>4, <2>5 DEF Bills
    <2>7. PICK m \in Nat, n \in Nat, t \in Int :
              m = guard[p].month /\ n = guard'[p].month /\ t = Total(f, Caller)
      <3>1. guard[p].month \in Nat
        BY DEF RTyped, MoneyTyped, GuardType
      <3>2. guard'[p].month \in Nat
        BY DEF RTyped, MoneyTyped, GuardType
      <3>3. Total(f, Caller) \in Int
        BY RouterAssumption, TotalRemove
      <3> QED BY <3>1, <3>2, <3>3
    <2>8. m + t <= charged
      BY <2>1, <2>7 DEF BillInv
    <2>9. f[c] \in Int /\ g[c] \in Int
      OBVIOUS
    <2>10. Total(g, Caller) = t + g[c] - f[c]
      BY <2>3, <2>7
    <2>11. n + Total(g, Caller) <= charged'
      BY <1>2, <1>3, <2>6, <2>7, <2>8, <2>9, <2>10
    <2> QED BY <2>1, <2>7, <2>11
  <1> QED BY <1>3, <1>4, <1>5, <1>6 DEF BillInv

\* A sum of zeros is zero.
LEMMA TotalZero ==
    ASSUME NEW S, IsFiniteSet(S), NEW f \in [S -> Int], \A x \in S : f[x] = 0
    PROVE  Total(f, S) = 0
  <1>1. \A x \in S : IF x \in S THEN f[x] = 0 ELSE f[x] = f[x]
    OBVIOUS
  <1>2. Total(f, S) = Total(f, S) + Total(f, S)
    BY <1>1, TotalClear
  <1>3. PICK n \in Int : n = Total(f, S)
    BY TotalRemove
  <1>4. n = n + n
    BY <1>2, <1>3
  <1>5. n = 0
    BY <1>4
  <1> QED BY <1>3, <1>5

\* A restart loses what the calls of its process have cost, and its counter
\* starts from the ledger.
LEMMA RestartAccounts ==
    ASSUME RTyped, RTyped', BillInv, NEW p \in Process, Restart(p)
    PROVE  BillInv'
  <1> DEFINE gone == {c \in Caller : call[c].pc # "idle" /\ ProcOf(c) = p}
  <1>1. \A c \in Caller : IF c \in gone THEN call'[c] = IdleCall ELSE call'[c] = call[c]
    BY RestartSets
  <1>2. UNCHANGED <<charged, ledger>> /\ charged \in Nat /\ ledger \in Nat /\ lost \in Nat
    BY DEF Restart, BillInv, RTyped, MoneyTyped
  <1>3. gone \in SUBSET Caller /\ IsFiniteSet(gone)
    BY RouterAssumption, FS_Subset
  <1>4. lost' = lost + MapThenSumSet(LAMBDA c : call[c].cost + call[c].outer, gone)
    BY DEF Restart
  <1>5. PICK S \in SUBSET Caller : S = gone /\ IsFiniteSet(S)
    BY <1>3
  <1>6. lost' = lost + Total(Costs, S)
    BY <1>4, <1>5, CostsTotal
  <1>7. \A c \in Caller : c \in S <=> call[c].pc # "idle" /\ ProcOf(c) = p
    BY <1>5
  <1>8. \A c \in Caller : IF c \in S THEN call'[c] = IdleCall ELSE call'[c] = call[c]
    BY <1>1, <1>5
  <1> HIDE DEF gone
  <1>9. PICK f \in [Caller -> Int], g \in [Caller -> Int] : f = Costs /\ g = Costs'
    BY CostsTyped, CostsTypedNext
  <1>10. \A c \in Caller : IF c \in S THEN g[c] = 0 ELSE g[c] = f[c]
    BY <1>8, <1>9 DEF Costs, IdleCall
  <1>11. Total(f, Caller) = Total(g, Caller) + Total(f, S)
    BY <1>10, RouterAssumption, TotalClear
  <1>12. Total(f, S) \in Nat /\ Total(f, Caller) \in Nat /\ Total(g, Caller) \in Nat
    <2>1. \A c \in Caller : f[c] \in Nat
      BY <1>9, CostsTyped
    <2>2. \A c \in Caller : g[c] \in Nat
      <3>1. IdleCall.cost + IdleCall.outer = 0
        BY DEF IdleCall
      <3> QED BY <1>10, <2>1
    <2> QED BY <1>5, <2>1, <2>2, RouterAssumption, TotalNat
  <1>13. charged = ledger + lost + Total(f, Caller)
    BY <1>9 DEF BillInv
  <1>14. lost' \in Nat /\ charged = ledger + lost' + Total(g, Caller) /\ ledger <= charged
    BY <1>2, <1>6, <1>9, <1>11, <1>12, <1>13
  <1>15. \A c \in Caller : CostShape(c)'
    <2>1. ASSUME NEW c \in Caller PROVE CostShape(c)'
      <3>1. CostShape(c) /\ (call'[c] = IdleCall \/ call'[c] = call[c])
        BY <1>8 DEF BillInv
      <3> QED BY <3>1 DEF CostShape, IdleCall
    <2> QED BY <2>1
  <1>16. guard' = [guard EXCEPT ![p] = IdleGuard(ledger, degraded)] /\ guard \in [Process -> GuardType]
    BY RestartSets DEF RTyped, MoneyTyped
  <1>17. ASSUME NEW q \in Process PROVE guard'[q].month + Total(Dues(q), Caller)' <= charged
    <2>1. PICK d \in [Caller -> Int], e \in [Caller -> Int] : d = Dues(q) /\ e = Dues(q)'
      <3>1. Dues(q) \in [Caller -> Int]
        BY CostsTyped
      <3>2. Dues(q)' \in [Caller -> Int]
        BY CostsTypedNext
      <3> QED BY <3>1, <3>2
    <2>2. \A c \in Caller : d[c] = IF ProcOf(c) = q THEN Due(c) ELSE 0
      BY <2>1 DEF Dues
    <2>3. \A c \in Caller : e[c] = IF ProcOf(c)' = q THEN Due(c)' ELSE 0
      BY <2>1 DEF Dues
    <2>4. \A c \in Caller : IF c \in S THEN e[c] = 0 ELSE e[c] = d[c]
      BY <1>8, <2>2, <2>3 DEF Due, ProcOf, IdleCall
    <2>5. CASE q = p
      <3>1. \A c \in Caller : e[c] = 0
        <4>1. \A c \in Caller : c \notin S => d[c] = 0
          BY <1>7, <2>2, <2>5 DEF Due
        <4> QED BY <2>4, <4>1
      <3>2. Total(e, Caller) = 0
        BY <3>1, RouterAssumption, TotalZero
      <3>3. guard'[q].month = ledger
        BY <1>16, <2>5 DEF IdleGuard
      <3> QED BY <1>2, <1>14, <2>1, <3>2, <3>3
    <2>6. CASE q # p
      <3>1. \A c \in Caller : c \in S => d[c] = 0
        BY <1>7, <2>2, <2>6
      <3>2. \A c \in Caller : e[c] = d[c]
        BY <2>4, <3>1
      <3>3. Total(e, Caller) = Total(d, Caller)
        BY <3>2, RouterAssumption, TotalAgree
      <3>4. guard'[q] = guard[q]
        BY <1>16, <2>6
      <3>5. guard[q].month + Total(d, Caller) <= charged
        BY <2>1 DEF BillInv
      <3> QED BY <2>1, <3>3, <3>4, <3>5
    <2> QED BY <2>5, <2>6
  <1>18. charged' = ledger' + lost' + Total(Costs, Caller)'
    BY <1>2, <1>9, <1>14
  <1> QED BY <1>2, <1>14, <1>15, <1>17, <1>18 DEF BillInv

\* Every step keeps the accounts.
LEMMA BillStep ==
    ASSUME RTyped, RTyped', GateInv, BillInv, [RouterNext]_vars
    PROVE  BillInv'
  <1>1. ASSUME NEW c \in Caller,
               CallStep(c) \/ EnterFails(c) \/ RecordFails(c) \/ \E t \in Task : Begin(c, t)
        PROVE  BillInv'
    BY <1>1, CallBills, CallAccounts
  <1>2. ASSUME UNCHANGED <<ledger, charged, lost, call>>,
               \A p \in Process : guard'[p].month = guard[p].month
        PROVE  BillInv'
    <2>1. Costs' = Costs /\ (\A p \in Process : Dues(p)' = Dues(p))
      BY <1>2 DEF Costs, Dues, Due, ProcOf
    <2>2. \A c \in Caller : CostShape(c)'
      BY <1>2 DEF BillInv, CostShape
    <2>3. ASSUME NEW p \in Process PROVE guard'[p].month + Total(Dues(p), Caller)' <= charged'
      BY <1>2, <2>1 DEF BillInv
    <2>4. charged' \in Nat /\ lost' \in Nat /\ charged' = ledger' + lost' + Total(Costs, Caller)'
      BY <1>2, <2>1 DEF BillInv
    <2> QED BY <2>2, <2>3, <2>4 DEF BillInv
  <1>3. CASE OperatorStep
    <2>1. UNCHANGED <<ledger, charged, lost, call>>
      BY <1>3 DEF OperatorStep, PauseOrResume, OneShotExpires, ResetDegraded, Rederive,
                  SetModelOneShot, OrderKeeps
    <2>2. guard' = guard \/ guard' = [guard EXCEPT !["api"].flag = FALSE]
      BY <1>3 DEF OperatorStep, PauseOrResume, OneShotExpires, ResetDegraded, Rederive,
                  SetModelOneShot, OrderKeeps
    <2>3. \A p \in Process : guard'[p].month = guard[p].month
      BY <2>2 DEF RTyped, MoneyTyped, GuardType
    <2> QED BY <1>2, <2>1, <2>3
  <1>4. CASE UNCHANGED vars \/ UNCHANGED routerVars \/ EntryLapses
    <2>1. UNCHANGED <<ledger, charged, lost, call, guard>>
      BY <1>4 DEF vars, routerVars, spendVars, EntryLapses
    <2> QED BY <1>2, <2>1
  <1> QED BY <1>1, <1>3, <1>4, RestartAccounts DEF RouterNext

\* Every dollar the provider charged is in an audit row, in a call under way or
\* in a row that could not be written, and no counter counts one twice, through
\* retries, an escalated leg, failed writes and restarts (router.py, the finally
\* block, and budget.py).
THEOREM SpendAccountedHolds == RouterSpec => []SpendAccounted
  <1>1. RouterInit => BillInv
    <2> SUFFICES ASSUME RouterInit PROVE BillInv
      OBVIOUS
    <2>1. RouterStart /\ RTyped
      BY RouterInitTyped DEF RouterInit
    <2>2. \A c \in Caller : call[c] = IdleCall
      BY <2>1 DEF RouterStart
    <2>3. \A c \in Caller : CostShape(c) /\ Due(c) = 0 /\ call[c].cost = 0 /\ call[c].outer = 0
      BY <2>2 DEF CostShape, Due, IdleCall
    <2>4. PICK f \in [Caller -> Int] : f = Costs
      BY <2>1, CostsTyped
    <2>5. \A c \in Caller : f[c] = 0
      BY <2>3, <2>4 DEF Costs
    <2>6. Total(f, Caller) = 0
      BY <2>5, RouterAssumption, TotalZero
    <2>7. ASSUME NEW p \in Process PROVE Total(Dues(p), Caller) = 0 /\ guard[p].month = 0
      <3>1. PICK g \in [Caller -> Int] : g = Dues(p)
        BY <2>1, CostsTyped
      <3>2. \A c \in Caller : g[c] = 0
        BY <2>3, <3>1 DEF Dues
      <3>3. Total(g, Caller) = 0
        BY <3>2, RouterAssumption, TotalZero
      <3> QED BY <2>1, <3>1, <3>3 DEF RouterStart, IdleGuard
    <2>8. charged = 0 /\ lost = 0 /\ ledger = 0
      BY <2>1 DEF RouterStart
    <2>9. \A p \in Process : guard[p].month + Total(Dues(p), Caller) <= charged
      BY <2>7, <2>8
    <2>10. charged = ledger + lost + Total(Costs, Caller)
      BY <2>4, <2>6, <2>8
    <2> QED BY <2>3, <2>8, <2>9, <2>10 DEF BillInv
  <1>2. RTyped /\ RTyped' /\ YesInv /\ BillInv /\ [RouterNext]_vars => YesInv' /\ BillInv'
    BY YesStep, BillStep DEF YesInv
  <1>3. RTyped /\ BillInv => SpendAccounted
    <2> SUFFICES ASSUME RTyped, BillInv PROVE SpendAccounted
      OBVIOUS
    <2>1. InFlight = Total(Costs, Caller)
      BY CostsTotal DEF InFlight
    <2>2. ASSUME NEW p \in Process PROVE guard[p].month <= charged
      <3>1. PICK t \in Nat : t = Total(Dues(p), Caller)
        BY CostsTyped
      <3>2. guard[p].month \in Nat /\ charged \in Nat /\ guard[p].month + t <= charged
        BY <3>1 DEF BillInv, RTyped, MoneyTyped, GuardType
      <3> QED BY <3>2
    <2> QED BY <2>1, <2>2 DEF SpendAccounted, BillInv
  <1> QED BY <1>1, <1>2, <1>3, YesInit, RouterTyped, PTL DEF RouterSpec
=============================================================================
