----------------------------- MODULE FixLoop_proofs -----------------------------
(***************************************************************************)
(* What FixLoop keeps true for any files, nets, rules, saves and failures: *)
(* its types, that people's own text is only tidied, that the report of a  *)
(* run is the tree it leaves, that nothing is left to fix in it, and how   *)
(* soon it settles.                                                        *)
(*                                                                         *)
(* The definitions by recursion are reasoned about by induction over sets  *)
(* of numbers, which asks of the provers no operator as a parameter.       *)
(***************************************************************************)
EXTENDS FixLoop, FunctionTheorems, FiniteSetTheorems, SequenceTheorems, TLAPS

-----------------------------------------------------------------------------
(* Induction.                                                              *)

(* A set of natural numbers that is not empty has a least one.             *)
LEMMA Least ==
  ASSUME NEW T, T \subseteq Nat, T # {}
  PROVE  \E n \in T : \A m \in T : n <= m
<1> DEFINE R == OpToRel(<, Nat)
<1>1. IsWellFoundedOn(R, Nat)
  BY NatLessThanWellFounded
<1>2. \A i, j \in Nat : i < j => <<i, j>> \in R
  BY DEF OpToRel
<1> HIDE DEF R
<1>3. \E x \in T : \A y \in T : ~(<<y, x>> \in R)
  BY <1>1, WFMin
<1>4. PICK x \in T : \A y \in T : ~(<<y, x>> \in R)
  BY <1>3
<1>5. \A y \in T : ~(y < x)
  BY <1>2, <1>4
<1>6. \A y \in T : x <= y
  BY <1>5
<1> QED BY <1>6

(* A set of numbers that holds 0, and with a number below a bound the next *)
(* one, holds all of them.                                                 *)
LEMMA Induction ==
  ASSUME NEW N \in Nat, NEW T,
         0 \in T, \A n \in 1..N : n - 1 \in T => n \in T
  PROVE  0..N \subseteq T
<1> SUFFICES ASSUME (0..N) \ T # {} PROVE FALSE
  OBVIOUS
<1> DEFINE Rest == (0..N) \ T
<1>0. Rest \subseteq Nat /\ Rest # {}
  OBVIOUS
<1> HIDE DEF Rest
<1>1. PICK n \in Rest : \A m \in Rest : n <= m
  BY <1>0, Least
<1> USE DEF Rest
<1>2. n \in 1..N /\ n - 1 \in T
  BY <1>1
<1> QED BY <1>1, <1>2

(* A function defined by recursion from its start and a step.              *)
Unfolds(h, N, s, F) ==
  h = [n \in 0..N |-> IF n = 0 THEN s ELSE F[n][h[n - 1]]]

(* Such a function exists.                                                 *)
LEMMA RecursionExists ==
  ASSUME NEW S, NEW s \in S, NEW N \in Nat, NEW F \in [1..N -> [S -> S]]
  PROVE  \E h \in [0..N -> S] : Unfolds(h, N, s, F)
<1> DEFINE Upto(k) == {h \in [0..k -> S] :
                         h[0] = s /\ \A n \in 1..k : h[n] = F[n][h[n - 1]]}
           T == {k \in 0..N : Upto(k) # {}}
<1>1. 0 \in T
  <2>1. [n \in 0..0 |-> s] \in Upto(0)
    OBVIOUS
  <2> QED BY <2>1
<1>2. ASSUME NEW k \in 1..N, k - 1 \in T PROVE k \in T
  <2>1. PICK h \in [0..(k - 1) -> S] :
          h[0] = s /\ \A n \in 1..(k - 1) : h[n] = F[n][h[n - 1]]
    BY <1>2
  <2> DEFINE g == [n \in 0..k |-> IF n = k THEN F[k][h[k - 1]] ELSE h[n]]
  <2>2. g \in [0..k -> S]
    BY <2>1
  <2>3. g[0] = s
    BY <2>1
  <2>4. ASSUME NEW n \in 1..k PROVE g[n] = F[n][g[n - 1]]
    BY <2>1
  <2>5. g \in Upto(k)
    BY <2>2, <2>3, <2>4
  <2> QED BY <2>5
<1> HIDE DEF T
<1>3. 0..N \subseteq T
  BY <1>1, <1>2, Induction
<1>4. N \in T
  BY <1>3
<1>5. PICK h \in [0..N -> S] : h[0] = s /\ \A n \in 1..N : h[n] = F[n][h[n - 1]]
  BY <1>4 DEF T
<1>6. Unfolds(h, N, s, F)
  BY <1>5 DEF Unfolds
<1> QED BY <1>6

(* What each step keeps in a set stays there.                              *)
LEMMA RecursionStays ==
  ASSUME NEW S, NEW N \in Nat, NEW h,
         h[0] \in S, \A n \in 1..N : h[n - 1] \in S => h[n] \in S
  PROVE  \A n \in 0..N : h[n] \in S
<1> DEFINE T == {n \in 0..N : h[n] \in S}
<1>1. 0 \in T
  OBVIOUS
<1>2. \A n \in 1..N : n - 1 \in T => n \in T
  OBVIOUS
<1> HIDE DEF T
<1>3. 0..N \subseteq T
  BY <1>1, <1>2, Induction
<1> QED BY <1>3 DEF T

-----------------------------------------------------------------------------
(* Rules.                                                                  *)

(* A rule leaves issues behind.                                            *)
LEMMA ApplyRuleType ==
  ASSUME NEW i \in Issue, NEW own \in SUBSET Issue
  PROVE  UNION {ApplyRule(i, now) : now \in {own}} \in SUBSET Issue
<1>1. UNION {ApplyRule(i, now) : now \in {own}} = ApplyRule(i, own)
  OBVIOUS
<1>2. Spawn[i] \in SUBSET Issue
  BY ConstantsAssumption
<1>3. ApplyRule(i, own) \in SUBSET Issue
  BY <1>2 DEF ApplyRule
<1> QED BY <1>1, <1>3

(* A pass over the rules makes an own text of an own text.                 *)
LEMMA RulePassType ==
  ASSUME NEW own \in SUBSET Issue
  PROVE  RulePass[own] \in SUBSET Issue
<1> DEFINE N == Len(Rules)
           Rule(n, now) == UNION {ApplyRule(Rules[n], x) : x \in {now}}
           F == [n \in 1..N |-> [now \in SUBSET Issue |-> Rule(n, now)]]
           h == CHOOSE step : step = [n \in 0..N |->
                  IF n = 0 THEN own ELSE Rule(n, step[n - 1])]
<1>1. N \in Nat /\ \A n \in 1..N : Rules[n] \in Issue
  BY ConstantsAssumption
<1>2. \A n \in 1..N : \A now \in SUBSET Issue : Rule(n, now) \in SUBSET Issue
  BY <1>1, ApplyRuleType
<1>3. RulePass[own] = h[N]
  BY DEF RulePass
<1> HIDE DEF Rule, h
<1>4. F \in [1..N -> [SUBSET Issue -> SUBSET Issue]]
  BY <1>2
<1>5. PICK g \in [0..N -> SUBSET Issue] : Unfolds(g, N, own, F)
  BY <1>1, <1>4, RecursionExists
<1>6. g = [n \in 0..N |-> IF n = 0 THEN own ELSE Rule(n, g[n - 1])]
  <2>1. \A n \in 0..N : g[n] = IF n = 0 THEN own ELSE F[n][g[n - 1]]
    BY <1>5 DEF Unfolds
  <2>2. ASSUME NEW n \in 0..N, n # 0 PROVE F[n][g[n - 1]] = Rule(n, g[n - 1])
    BY <1>1, <2>2
  <2> QED BY <1>5, <2>1, <2>2
<1>7. h = [n \in 0..N |-> IF n = 0 THEN own ELSE Rule(n, h[n - 1])]
  BY <1>6 DEF h
<1>8. h[0] \in SUBSET Issue /\ \A n \in 1..N : h[n - 1] \in SUBSET Issue => h[n] \in SUBSET Issue
  BY <1>1, <1>2, <1>7
<1> HIDE DEF N
<1>9. \A n \in 0..N : h[n] \in SUBSET Issue
  BY <1>1, <1>8, RecursionStays
<1> QED BY <1>1, <1>3, <1>9

(* So do the passes together.                                              *)
LEMMA PassedType ==
  ASSUME NEW own \in SUBSET Issue
  PROVE  Passed[own] \in SUBSET Issue
<1> DEFINE h == CHOOSE after : after = [n \in 0..RulePasses |->
                  IF n = 0 THEN own ELSE RulePass[after[n - 1]]]
           F == [n \in 1..RulePasses |-> [x \in SUBSET Issue |-> RulePass[x]]]
<1>1. RulePasses \in Nat
  BY ConstantsAssumption
<1>2. Passed[own] = h[RulePasses]
  BY DEF Passed
<1> HIDE DEF h
<1>3. F \in [1..RulePasses -> [SUBSET Issue -> SUBSET Issue]]
  BY RulePassType
<1>4. PICK g \in [0..RulePasses -> SUBSET Issue] : Unfolds(g, RulePasses, own, F)
  BY <1>1, <1>3, RecursionExists
<1>5. g = [n \in 0..RulePasses |-> IF n = 0 THEN own ELSE RulePass[g[n - 1]]]
  <2>1. \A n \in 0..RulePasses : g[n] = IF n = 0 THEN own ELSE F[n][g[n - 1]]
    BY <1>4 DEF Unfolds
  <2>2. ASSUME NEW n \in 0..RulePasses, n # 0 PROVE F[n][g[n - 1]] = RulePass[g[n - 1]]
    BY <1>1, <2>2
  <2> QED BY <1>4, <2>1, <2>2
<1>6. h = [n \in 0..RulePasses |-> IF n = 0 THEN own ELSE RulePass[h[n - 1]]]
  BY <1>5 DEF h
<1>7. \A n \in 1..RulePasses : h[n - 1] \in SUBSET Issue => h[n] \in SUBSET Issue
  BY <1>1, <1>6, RulePassType
<1>8. h[0] \in SUBSET Issue
  BY <1>1, <1>6
<1>9. \A n \in 0..RulePasses : h[n] \in SUBSET Issue
  BY <1>1, <1>7, <1>8, RecursionStays
<1> QED BY <1>1, <1>2, <1>9

(* Fixing an own text makes one, with what stood in foreign regions.       *)
LEMMA FixedOwnType ==
  ASSUME NEW own \in SUBSET Issue
  PROVE  /\ FixedOwn[own] \in SUBSET Issue
         /\ FixedOwn[own] \cap Foreign = own \cap Foreign
<1>1. Passed[own] \in SUBSET Issue
  BY PassedType
<1>2. FixedOwn[own] = (Passed[own] \ Foreign) \cup (own \cap Foreign)
  BY DEF FixedOwn, Restored
<1> QED BY <1>1, <1>2

(* What becomes of an own text that is fixed again and again.              *)
Times(own) ==
  LET times[n \in 0..MaxRuns * WorkspacePasses] ==
        IF n = 0 THEN own ELSE FixedOwn[times[n - 1]]
  IN  times

(* It starts as it is, and each fix is of what the one before made.        *)
LEMMA TimesUnfolds ==
  ASSUME NEW own \in SUBSET Issue
  PROVE  LET N == MaxRuns * WorkspacePasses
         IN /\ N \in Nat
            /\ Times(own)[0] = own
            /\ \A n \in 1..N : Times(own)[n] = FixedOwn[Times(own)[n - 1]]
<1> DEFINE N == MaxRuns * WorkspacePasses
           h == CHOOSE times : times = [n \in 0..N |->
                  IF n = 0 THEN own ELSE FixedOwn[times[n - 1]]]
           F == [n \in 1..N |-> [x \in SUBSET Issue |-> FixedOwn[x]]]
<1>1. MaxRuns \in Nat /\ WorkspacePasses \in Nat
  BY ConstantsAssumption
<1>2. N \in Nat
  BY <1>1
<1>3. Times(own) = h
  BY DEF Times
<1> HIDE DEF h, N
<1>4. F \in [1..N -> [SUBSET Issue -> SUBSET Issue]]
  BY FixedOwnType
<1>5. PICK g \in [0..N -> SUBSET Issue] : Unfolds(g, N, own, F)
  BY <1>2, <1>4, RecursionExists
<1>6. g = [n \in 0..N |-> IF n = 0 THEN own ELSE FixedOwn[g[n - 1]]]
  <2>1. \A n \in 0..N : g[n] = IF n = 0 THEN own ELSE F[n][g[n - 1]]
    BY <1>5 DEF Unfolds
  <2>2. ASSUME NEW n \in 0..N, n # 0 PROVE F[n][g[n - 1]] = FixedOwn[g[n - 1]]
    BY <1>2, <2>2
  <2> QED BY <1>5, <2>1, <2>2
<1>7. h = [n \in 0..N |-> IF n = 0 THEN own ELSE FixedOwn[h[n - 1]]]
  BY <1>6 DEF h
<1>8. h[0] = own /\ \A n \in 1..N : h[n] = FixedOwn[h[n - 1]]
  BY <1>2, <1>7
<1> QED BY <1>2, <1>3, <1>8 DEF N

(* It stays an own text, with what stood in foreign regions.               *)
LEMMA TimesType ==
  ASSUME NEW own \in SUBSET Issue, NEW n \in 0..MaxRuns * WorkspacePasses
  PROVE  /\ Times(own)[n] \in SUBSET Issue
         /\ Times(own)[n] \cap Foreign = own \cap Foreign
<1> DEFINE N == MaxRuns * WorkspacePasses
           S == {x \in SUBSET Issue : x \cap Foreign = own \cap Foreign}
           h == Times(own)
<1>1. N \in Nat /\ h[0] = own /\ \A m \in 1..N : h[m] = FixedOwn[h[m - 1]]
  BY TimesUnfolds
<1>2. \A x \in S : FixedOwn[x] \in S
  BY FixedOwnType
<1>3. own \in S
  OBVIOUS
<1> HIDE DEF N, S, h
<1>4. \A m \in 0..N : h[m] \in S
  BY <1>1, <1>2, <1>3, RecursionStays
<1> QED BY <1>4 DEF N, S, h

(* Tidied says so of any number of runs.                                   *)
LEMMA TidiedTimes ==
  ASSUME NEW own \in UNION {Own[f] : f \in File}, NEW r \in 0..MaxRuns
  PROVE  Tidied[own][r] = {Times(own)[n] : n \in 0..r * WorkspacePasses}
BY DEF Tidied, Times

-----------------------------------------------------------------------------
(* The order of the files.                                                 *)

(* No file comes twice.                                                    *)
NoRepeats(s) == \A i, j \in 1..Len(s) : s[i] = s[j] => i = j

(* The files to fix, and their number.                                     *)
LEMMA GivenFiles ==
  /\ Given \subseteq File
  /\ Paths \in Seq(Given)
  /\ Len(Paths) \in Nat \ {0}
  /\ NoRepeats(Paths)
  /\ IsFiniteSet(Given)
  /\ Cardinality(Given) = Len(Paths)
<1>1. Paths \in Seq(File) /\ Paths # <<>> /\ IsInjective(Paths)
  BY ConstantsAssumption
<1>2. Len(Paths) \in Nat \ {0} /\ DOMAIN Paths = 1..Len(Paths)
  BY <1>1
<1>3. Given = {Paths[i] : i \in 1..Len(Paths)}
  BY <1>2 DEF Given, ToSet
<1>4. Given \subseteq File
  BY <1>1, <1>3
<1>5. Paths \in [1..Len(Paths) -> Given]
  BY <1>1, <1>3
<1>6. Paths \in Seq(Given)
  BY <1>2, <1>5
<1>7. NoRepeats(Paths)
  BY <1>1, <1>2 DEF IsInjective, NoRepeats
<1>8. Paths \in Bijection(1..Len(Paths), Given)
  <2>1. IsInjective(Paths)
    BY <1>1
  <2>2. Paths \in Injection(1..Len(Paths), Given)
    BY <1>5, <2>1 DEF Injection
  <2>3. Paths \in Surjection(1..Len(Paths), Given)
    BY <1>3, <1>5 DEF Surjection
  <2> QED BY <2>2, <2>3 DEF Bijection
<1>9. ExistsBijection(1..Len(Paths), Given)
  BY <1>8 DEF ExistsBijection
<1>10. IsFiniteSet(Given)
  BY <1>2, <1>9, FS_NatBijection
<1>11. Cardinality(Given) = Len(Paths)
  BY <1>2, <1>9, FS_CountingElements
<1> QED BY <1>2, <1>4, <1>6, <1>7, <1>10, <1>11

(* Files of the set without repeats are at most as many, and all of them   *)
(* when they are as many.                                                  *)
LEMMA AllGiven ==
  ASSUME NEW s \in Seq(Given), NoRepeats(s)
  PROVE  /\ Len(s) <= Len(Paths)
         /\ Len(s) = Len(Paths) <=> ToSet(s) = Given
<1>1. Len(s) \in Nat /\ DOMAIN s = 1..Len(s) /\ s \in [1..Len(s) -> Given]
  OBVIOUS
<1>2. IsInjective(s)
  BY <1>1 DEF IsInjective, NoRepeats
<1>3. s \in Injection(1..Len(s), Given)
  BY <1>1, <1>2 DEF Injection
<1>4. Cardinality(1..Len(s)) = Len(s)
  BY <1>1, FS_Interval
<1>5. /\ Cardinality(1..Len(s)) <= Cardinality(Given)
      /\ Cardinality(1..Len(s)) = Cardinality(Given) <=> s \in Surjection(1..Len(s), Given)
  BY <1>3, GivenFiles, FS_Injection
<1>6. s \in Surjection(1..Len(s), Given) <=> ToSet(s) = Given
  BY <1>1 DEF Surjection, ToSet
<1> QED BY <1>4, <1>5, <1>6, GivenFiles

(* The files of a set, in the order they were given, each of them once.    *)
LEMMA AsGivenIs ==
  ASSUME NEW files \in SUBSET Given
  PROVE  /\ AsGiven(files) \in Seq(files)
         /\ ToSet(AsGiven(files)) = files
         /\ NoRepeats(AsGiven(files))
<1> DEFINE N == Len(Paths)
           Inside(s, n) == \A i \in 1..Len(s) : \E k \in 1..n : s[i] = Paths[k]
           Complete(s, n) == \A k \in 1..n : Paths[k] \in files => \E i \in 1..Len(s) : s[i] = Paths[k]
           Sorted(s, n) == \A i, j \in 1..Len(s) : i < j =>
                             \E k, l \in 1..n : k < l /\ Paths[k] = s[i] /\ Paths[l] = s[j]
           Good(s, n) == Len(s) <= n /\ Inside(s, n) /\ Complete(s, n) /\ Sorted(s, n)
           T == {n \in 0..N : \E s \in Seq(files) : Good(s, n)}
<1>1. N \in Nat /\ Paths \in Seq(Given) /\ NoRepeats(Paths)
  BY GivenFiles
<1>2. 0 \in T
  <2>1. <<>> \in Seq(files) /\ Len(<<>>) = 0
    OBVIOUS
  <2>2. Good(<<>>, 0)
    BY <2>1
  <2>3. 0 \in 0..N
    BY <1>1
  <2> QED BY <2>1, <2>2, <2>3
<1>3. ASSUME NEW n \in 1..N, n - 1 \in T PROVE n \in T
  <2>1. PICK s \in Seq(files) : Good(s, n - 1)
    BY <1>3
  <2>2. CASE Paths[n] \notin files
    <3>1. Len(s) <= n
      BY <1>1, <2>1
    <3>2. Inside(s, n)
      BY <1>1, <2>1
    <3>3. Complete(s, n)
      BY <1>1, <2>1, <2>2
    <3>4. Sorted(s, n)
      BY <1>1, <2>1
    <3>5. Good(s, n)
      BY <3>1, <3>2, <3>3, <3>4
    <3> HIDE DEF Good
    <3> QED BY <1>1, <3>5
  <2>3. CASE Paths[n] \in files
    <3> DEFINE t == Append(s, Paths[n])
    <3>1. /\ t \in Seq(files) /\ Len(t) = Len(s) + 1 /\ Len(s) \in Nat
          /\ \A i \in 1..Len(s) : t[i] = s[i]
          /\ t[Len(s) + 1] = Paths[n]
      BY <2>3
    <3> HIDE DEF t
    <3>2. Len(t) <= n
      BY <1>1, <2>1, <3>1
    <3>3. Inside(t, n)
      <4> SUFFICES ASSUME NEW i \in 1..Len(t) PROVE \E k \in 1..n : t[i] = Paths[k]
        OBVIOUS
      <4>1. CASE i = Len(s) + 1
        BY <3>1, <4>1
      <4>2. CASE i # Len(s) + 1
        <5>1. i \in 1..Len(s)
          BY <3>1, <4>2
        <5>2. PICK k \in 1..(n - 1) : s[i] = Paths[k]
          BY <2>1, <5>1
        <5> QED BY <3>1, <5>1, <5>2
      <4> QED BY <4>1, <4>2
    <3>4. Complete(t, n)
      <4> SUFFICES ASSUME NEW k \in 1..n, Paths[k] \in files
                   PROVE  \E i \in 1..Len(t) : t[i] = Paths[k]
        OBVIOUS
      <4>1. CASE k = n
        BY <3>1, <4>1
      <4>2. CASE k # n
        <5>1. PICK i \in 1..Len(s) : s[i] = Paths[k]
          BY <1>1, <2>1, <4>2
        <5> QED BY <3>1, <5>1
      <4> QED BY <4>1, <4>2
    <3>5. Sorted(t, n)
      <4> SUFFICES ASSUME NEW i \in 1..Len(t), NEW j \in 1..Len(t), i < j
                   PROVE  \E k, l \in 1..n : k < l /\ Paths[k] = t[i] /\ Paths[l] = t[j]
        OBVIOUS
      <4>1. i \in 1..Len(s) /\ t[i] = s[i]
        BY <3>1
      <4>2. CASE j = Len(s) + 1
        <5>1. PICK k \in 1..(n - 1) : s[i] = Paths[k]
          BY <2>1, <4>1
        <5> QED BY <1>1, <3>1, <4>1, <4>2, <5>1
      <4>3. CASE j # Len(s) + 1
        <5>1. j \in 1..Len(s) /\ t[j] = s[j]
          BY <3>1, <4>3
        <5>2. PICK k, l \in 1..(n - 1) : k < l /\ Paths[k] = s[i] /\ Paths[l] = s[j]
          BY <2>1, <4>1, <5>1
        <5> QED BY <1>1, <4>1, <5>1, <5>2
      <4> QED BY <3>1, <4>2, <4>3
    <3>6. Good(t, n)
      BY <3>2, <3>3, <3>4, <3>5
    <3> HIDE DEF Good
    <3> QED BY <1>1, <3>1, <3>6
  <2> QED BY <2>2, <2>3
<1>4. PICK s \in Seq(files) : Good(s, N)
  <2> HIDE DEF T
  <2>1. 0..N \subseteq T
    BY <1>1, <1>2, <1>3, Induction
  <2>2. N \in T
    BY <1>1, <2>1
  <2> QED BY <2>2 DEF T
<1>5. s \in BoundedSeq(files, Len(Paths))
  <2>1. Len(s) \in 0..Len(Paths) /\ s \in [1..Len(s) -> files]
    BY <1>1, <1>4
  <2> QED BY <2>1 DEF BoundedSeq, SeqOf
<1>6. ToSet(s) = files
  <2>1. DOMAIN s = 1..Len(s) /\ \A i \in 1..Len(s) : s[i] \in files
    OBVIOUS
  <2>2. ASSUME NEW f \in files PROVE \E i \in 1..Len(s) : s[i] = f
    <3>1. PICK k \in 1..N : Paths[k] = f
      BY <1>1, f \in Given DEF Given, ToSet
    <3> QED BY <1>4, <3>1
  <2> QED BY <2>1, <2>2 DEF ToSet
<1> DEFINE AsIs(u) == \A i, j \in DOMAIN u : i < j =>
             \E k, l \in DOMAIN Paths : k < l /\ Paths[k] = u[i] /\ Paths[l] = u[j]
           r == AsGiven(files)
<1>7. AsIs(s)
  <2>1. DOMAIN s = 1..Len(s) /\ DOMAIN Paths = 1..N
    BY <1>1
  <2> SUFFICES ASSUME NEW i \in DOMAIN s, NEW j \in DOMAIN s, i < j
               PROVE  \E k, l \in DOMAIN Paths : k < l /\ Paths[k] = s[i] /\ Paths[l] = s[j]
    OBVIOUS
  <2>2. \E k, l \in 1..N : k < l /\ Paths[k] = s[i] /\ Paths[l] = s[j]
    BY <1>4, <2>1
  <2> QED BY <2>1, <2>2, Zenon
<1>8. r \in BoundedSeq(files, Len(Paths)) /\ ToSet(r) = files /\ AsIs(r)
  <2> DEFINE W(u) == ToSet(u) = files /\ AsIs(u)
  <2>1. r = CHOOSE u \in BoundedSeq(files, Len(Paths)) : W(u)
    BY DEF AsGiven
  <2>2. W(s)
    BY <1>6, <1>7
  <2> HIDE DEF W, r
  <2>3. \E u \in BoundedSeq(files, Len(Paths)) : W(u)
    BY <1>5, <2>2
  <2>4. r \in BoundedSeq(files, Len(Paths)) /\ W(r)
    BY <2>1, <2>3, Zenon
  <2> QED BY <2>4 DEF W
<1> HIDE DEF r
<1>9. r \in Seq(files)
  <2>1. PICK m \in 0..N : r \in [1..m -> files]
    BY <1>8 DEF BoundedSeq, SeqOf
  <2> QED BY <1>1, <2>1
<1>10. NoRepeats(r)
  <2> SUFFICES ASSUME NEW i \in 1..Len(r), NEW j \in 1..Len(r), r[i] = r[j], i < j
               PROVE  FALSE
    <3>1. Len(r) \in Nat
      BY <1>9
    <3> QED BY <3>1 DEF NoRepeats
  <2>1. DOMAIN r = 1..Len(r) /\ DOMAIN Paths = 1..Len(Paths)
    BY <1>1, <1>9
  <2>2. PICK k, l \in 1..Len(Paths) : k < l /\ Paths[k] = r[i] /\ Paths[l] = r[j]
    BY <1>8, <2>1
  <2>3. k = l
    BY <1>1, <2>2 DEF NoRepeats
  <2> QED BY <2>2, <2>3
<1> QED BY <1>8, <1>9, <1>10 DEF r

(* The members of a sequence.                                              *)
LEMMA Members ==
  ASSUME NEW S, NEW s \in Seq(S)
  PROVE  /\ ToSet(s) = {s[i] : i \in 1..Len(s)}
         /\ ToSet(s) \subseteq S
         /\ s \in Seq(ToSet(s))
<1>1. DOMAIN s = 1..Len(s) /\ Len(s) \in Nat /\ \A i \in 1..Len(s) : s[i] \in S
  OBVIOUS
<1>2. ToSet(s) = {s[i] : i \in 1..Len(s)}
  BY <1>1 DEF ToSet
<1>3. s \in [1..Len(s) -> ToSet(s)]
  BY <1>1, <1>2
<1>4. s \in Seq(ToSet(s))
  BY <1>1, <1>3, SeqDef
<1> QED BY <1>1, <1>2, <1>4

(* One more at the end.                                                    *)
LEMMA AppendMembers ==
  ASSUME NEW S, NEW s \in Seq(S), NEW x \in S
  PROVE  /\ Append(s, x) \in Seq(S)
         /\ ToSet(Append(s, x)) = ToSet(s) \cup {x}
         /\ NoRepeats(s) /\ x \notin ToSet(s) => NoRepeats(Append(s, x))
<1> DEFINE t == Append(s, x)
<1>1. /\ t \in Seq(S) /\ Len(t) = Len(s) + 1 /\ Len(s) \in Nat
      /\ \A i \in 1..Len(s) : t[i] = s[i]
      /\ t[Len(s) + 1] = x
  OBVIOUS
<1>2. ToSet(s) = {s[i] : i \in 1..Len(s)} /\ ToSet(t) = {t[i] : i \in 1..Len(t)}
  BY <1>1, Members
<1> HIDE DEF t
<1>3. ToSet(t) \subseteq ToSet(s) \cup {x}
  BY <1>1, <1>2
<1>4. ToSet(s) \subseteq ToSet(t) /\ x \in ToSet(t)
  BY <1>1, <1>2
<1>5. ASSUME NoRepeats(s), x \notin ToSet(s) PROVE NoRepeats(t)
  <2> SUFFICES ASSUME NEW i \in 1..Len(t), NEW j \in 1..Len(t), t[i] = t[j] PROVE i = j
    BY DEF NoRepeats
  <2>1. CASE i = Len(s) + 1
    BY <1>1, <1>2, <1>5, <2>1
  <2>2. CASE j = Len(s) + 1
    BY <1>1, <1>2, <1>5, <2>2
  <2>3. CASE i \in 1..Len(s) /\ j \in 1..Len(s)
    BY <1>1, <1>5, <2>3 DEF NoRepeats
  <2> QED BY <1>1, <2>1, <2>2, <2>3
<1> QED BY <1>1, <1>3, <1>4, <1>5 DEF t

(* One sequence after another.                                             *)
LEMMA ConcatMembers ==
  ASSUME NEW S, NEW s \in Seq(S), NEW t \in Seq(S)
  PROVE  /\ s \o t \in Seq(S)
         /\ ToSet(s \o t) = ToSet(s) \cup ToSet(t)
         /\ NoRepeats(s) /\ NoRepeats(t) /\ ToSet(s) \cap ToSet(t) = {} => NoRepeats(s \o t)
<1> DEFINE u == s \o t
<1>1. /\ u \in Seq(S) /\ Len(u) = Len(s) + Len(t) /\ Len(s) \in Nat /\ Len(t) \in Nat
      /\ \A i \in 1..Len(s) + Len(t) : u[i] = IF i <= Len(s) THEN s[i] ELSE t[i - Len(s)]
  BY ConcatProperties
<1>2. /\ ToSet(s) = {s[i] : i \in 1..Len(s)} /\ ToSet(t) = {t[i] : i \in 1..Len(t)}
      /\ ToSet(u) = {u[i] : i \in 1..Len(u)}
  BY <1>1, Members
<1> HIDE DEF u
<1>3. ToSet(u) \subseteq ToSet(s) \cup ToSet(t)
  <2> SUFFICES ASSUME NEW i \in 1..Len(u) PROVE u[i] \in ToSet(s) \cup ToSet(t)
    BY <1>2
  <2>1. CASE i <= Len(s)
    BY <1>1, <1>2, <2>1
  <2>2. CASE i > Len(s)
    <3>1. i - Len(s) \in 1..Len(t) /\ u[i] = t[i - Len(s)]
      BY <1>1, <2>2
    <3> QED BY <1>2, <3>1
  <2> QED BY <1>1, <2>1, <2>2
<1>4. ToSet(s) \subseteq ToSet(u)
  <2> SUFFICES ASSUME NEW i \in 1..Len(s) PROVE s[i] \in ToSet(u)
    BY <1>2
  <2>1. i \in 1..Len(u) /\ u[i] = s[i]
    BY <1>1
  <2> QED BY <1>2, <2>1
<1>5. ToSet(t) \subseteq ToSet(u)
  <2> SUFFICES ASSUME NEW i \in 1..Len(t) PROVE t[i] \in ToSet(u)
    BY <1>2
  <2> DEFINE k == Len(s) + i
  <2>1. k \in 1..Len(s) + Len(t) /\ ~(k <= Len(s)) /\ k - Len(s) = i
    BY <1>1
  <2> HIDE DEF k
  <2>2. k \in 1..Len(u) /\ u[k] = t[i]
    BY <1>1, <2>1
  <2> QED BY <1>2, <2>2
<1>6. ASSUME NoRepeats(s), NoRepeats(t), ToSet(s) \cap ToSet(t) = {} PROVE NoRepeats(u)
  <2> SUFFICES ASSUME NEW i \in 1..Len(u), NEW j \in 1..Len(u), u[i] = u[j] PROVE i = j
    BY DEF NoRepeats
  <2>1. CASE i <= Len(s) /\ j <= Len(s)
    BY <1>1, <1>6, <2>1 DEF NoRepeats
  <2>2. CASE i > Len(s) /\ j > Len(s)
    <3>1. /\ i - Len(s) \in 1..Len(t) /\ j - Len(s) \in 1..Len(t)
          /\ t[i - Len(s)] = t[j - Len(s)]
      BY <1>1, <2>2
    <3>2. i - Len(s) = j - Len(s)
      BY <1>6, <3>1 DEF NoRepeats
    <3> QED BY <1>1, <3>2
  <2>3. CASE i <= Len(s) /\ j > Len(s)
    <3>1. i \in 1..Len(s) /\ j - Len(s) \in 1..Len(t) /\ s[i] = t[j - Len(s)]
      BY <1>1, <2>3
    <3> QED BY <1>2, <1>6, <3>1
  <2>4. CASE i > Len(s) /\ j <= Len(s)
    <3>1. j \in 1..Len(s) /\ i - Len(s) \in 1..Len(t) /\ s[j] = t[i - Len(s)]
      BY <1>1, <2>4
    <3> QED BY <1>2, <1>6, <3>1
  <2> QED BY <1>1, <2>1, <2>2, <2>3, <2>4
<1> QED BY <1>1, <1>3, <1>4, <1>5, <1>6 DEF u

(* Without the first.                                                      *)
LEMMA TailMembers ==
  ASSUME NEW S, NEW s \in Seq(S), s # <<>>, NoRepeats(s)
  PROVE  /\ Tail(s) \in Seq(S)
         /\ Head(s) \in ToSet(s)
         /\ ToSet(Tail(s)) = ToSet(s) \ {Head(s)}
         /\ NoRepeats(Tail(s))
<1> DEFINE t == Tail(s)
<1>1. /\ t \in Seq(S) /\ Len(t) = Len(s) - 1 /\ Len(s) \in Nat \ {0}
      /\ \A i \in 1..Len(t) : t[i] = s[i + 1]
      /\ Head(s) = s[1]
  BY HeadTailProperties
<1>2. ToSet(s) = {s[i] : i \in 1..Len(s)} /\ ToSet(t) = {t[i] : i \in 1..Len(t)}
  BY <1>1, Members
<1> HIDE DEF t
<1>3. Head(s) \in ToSet(s)
  BY <1>1, <1>2
<1>4. ASSUME NEW i \in 1..Len(t) PROVE t[i] \in ToSet(s) \ {Head(s)}
  <2>1. i + 1 \in 1..Len(s) /\ t[i] = s[i + 1]
    BY <1>1
  <2>2. s[i + 1] # s[1]
    BY <1>1, <2>1 DEF NoRepeats
  <2> QED BY <1>1, <1>2, <2>1, <2>2
<1>5. ASSUME NEW i \in 1..Len(s), s[i] # Head(s) PROVE s[i] \in ToSet(t)
  <2>1. i - 1 \in 1..Len(t) /\ t[i - 1] = s[i]
    BY <1>1, <1>5
  <2> QED BY <1>2, <2>1
<1>6. NoRepeats(t)
  <2> SUFFICES ASSUME NEW i \in 1..Len(t), NEW j \in 1..Len(t), t[i] = t[j] PROVE i = j
    BY DEF NoRepeats
  <2>1. i + 1 \in 1..Len(s) /\ j + 1 \in 1..Len(s) /\ s[i + 1] = s[j + 1]
    BY <1>1
  <2>2. i + 1 = j + 1
    BY <2>1 DEF NoRepeats
  <2> QED BY <1>1, <2>2
<1> QED BY <1>1, <1>2, <1>3, <1>4, <1>5, <1>6 DEF t

(* What the sort keeps true: the files that are out or in the queue are    *)
(* those whose dependencies are out, each of them once, and a file comes   *)
(* out after its dependencies.                                             *)
KahnState == [queue : Seq(Given), out : Seq(Given)]

KahnInv(n, s) ==
  /\ s \in KahnState
  /\ NoRepeats(s.out) /\ NoRepeats(s.queue)
  /\ ToSet(s.out) \cap ToSet(s.queue) = {}
  /\ \A p \in Given : Dependencies(n, p) \subseteq ToSet(s.out)
                        <=> p \in ToSet(s.out) \cup ToSet(s.queue)
  /\ \A i \in 1..Len(s.out) : Dependencies(n, s.out[i]) \subseteq {s.out[j] : j \in 1..(i - 1)}

(* It holds of the files without dependencies in the queue.                *)
LEMMA KahnStart ==
  ASSUME NEW n
  PROVE  KahnInv(n, [queue |-> AsGiven({p \in Given : Dependencies(n, p) = {}}), out |-> <<>>])
<1> DEFINE free == {p \in Given : Dependencies(n, p) = {}}
           s == [queue |-> AsGiven(free), out |-> <<>>]
<1>1. /\ AsGiven(free) \in Seq(free) /\ ToSet(AsGiven(free)) = free
      /\ NoRepeats(AsGiven(free))
  BY AsGivenIs
<1>2. AsGiven(free) \in Seq(Given)
  BY <1>1, SeqMonotonic
<1>3. <<>> \in Seq(Given) /\ Len(<<>>) = 0 /\ ToSet(<<>>) = {}
  <2>1. <<>> \in Seq(Given) /\ Len(<<>>) = 0
    OBVIOUS
  <2>2. ToSet(<<>>) = {<<>>[i] : i \in 1..0}
    BY <2>1, Members
  <2> QED BY <2>1, <2>2
<1>4. NoRepeats(<<>>)
  BY <1>3 DEF NoRepeats
<1>5. /\ s.queue = AsGiven(free) /\ s.out = <<>> /\ s \in KahnState
  BY <1>2, <1>3 DEF KahnState
<1>6. \A p \in Given : Dependencies(n, p) \subseteq {} <=> p \in free
  OBVIOUS
<1> HIDE DEF free, s
<1>7. \A i \in 1..Len(s.out) : Dependencies(n, s.out[i]) \subseteq {s.out[j] : j \in 1..(i - 1)}
  BY <1>3, <1>5
<1>8. \A p \in Given : Dependencies(n, p) \subseteq ToSet(s.out)
                         <=> p \in ToSet(s.out) \cup ToSet(s.queue)
  BY <1>1, <1>3, <1>5, <1>6
<1>9. KahnInv(n, s)
  BY <1>1, <1>3, <1>4, <1>5, <1>7, <1>8 DEF KahnInv
<1> QED BY <1>9 DEF s, free

(* Taking the head of the queue keeps it.                                  *)
LEMMA KahnStep ==
  ASSUME NEW n, NEW s, KahnInv(n, s), s.queue # <<>>
  PROVE  /\ KahnInv(n, Kahn(n, s))
         /\ Len(Kahn(n, s).out) = Len(s.out) + 1
<1> DEFINE x == Head(s.queue)
           out == Append(s.out, x)
           ready == {p \in Given : x \in Dependencies(n, p) /\ Dependencies(n, p) \subseteq ToSet(out)}
           queue == Tail(s.queue) \o AsGiven(ready)
           t == Kahn(n, s)
<1>1. /\ s.queue \in Seq(Given) /\ s.out \in Seq(Given)
      /\ NoRepeats(s.out) /\ NoRepeats(s.queue)
      /\ ToSet(s.out) \cap ToSet(s.queue) = {}
      /\ \A p \in Given : Dependencies(n, p) \subseteq ToSet(s.out)
                            <=> p \in ToSet(s.out) \cup ToSet(s.queue)
      /\ \A i \in 1..Len(s.out) : Dependencies(n, s.out[i]) \subseteq {s.out[j] : j \in 1..(i - 1)}
  BY DEF KahnInv, KahnState
<1>2. t = [queue |-> queue, out |-> out] /\ t.queue = queue /\ t.out = out
  BY DEF Kahn
<1>3. /\ x \in ToSet(s.queue) /\ x \in Given
      /\ Tail(s.queue) \in Seq(Given) /\ NoRepeats(Tail(s.queue))
      /\ ToSet(Tail(s.queue)) = ToSet(s.queue) \ {x}
  BY <1>1, TailMembers, Members
<1>4. /\ out \in Seq(Given) /\ NoRepeats(out)
      /\ ToSet(out) = ToSet(s.out) \cup {x}
  <2>1. x \notin ToSet(s.out)
    BY <1>1, <1>3
  <2> QED BY <1>1, <1>3, <2>1, AppendMembers
<1>5. /\ AsGiven(ready) \in Seq(Given) /\ NoRepeats(AsGiven(ready))
      /\ ToSet(AsGiven(ready)) = ready
  <2>1. /\ AsGiven(ready) \in Seq(ready) /\ ToSet(AsGiven(ready)) = ready
        /\ NoRepeats(AsGiven(ready))
    BY AsGivenIs
  <2> QED BY <2>1, SeqMonotonic
<1>6. ready = {p \in Given : x \in Dependencies(n, p) /\ Dependencies(n, p) \subseteq ToSet(out)}
  OBVIOUS
<1>7. Dependencies(n, x) \subseteq ToSet(s.out)
  BY <1>1, <1>3
<1>8. /\ Len(out) = Len(s.out) + 1 /\ Len(s.out) \in Nat
      /\ \A i \in 1..Len(s.out) : out[i] = s.out[i]
      /\ out[Len(s.out) + 1] = x
  BY <1>1, <1>3
<1> HIDE DEF x, out, ready
<1>9. ready \cap (ToSet(s.out) \cup ToSet(s.queue)) = {}
  BY <1>1, <1>3, <1>6
<1>10. /\ queue \in Seq(Given) /\ NoRepeats(queue)
       /\ ToSet(queue) = (ToSet(s.queue) \ {x}) \cup ready
  <2> DEFINE rest == Tail(s.queue)
             new == AsGiven(ready)
  <2>1. ToSet(rest) \cap ToSet(new) = {}
    BY <1>3, <1>5, <1>9
  <2>2. rest \in Seq(Given) /\ NoRepeats(rest) /\ new \in Seq(Given) /\ NoRepeats(new)
    BY <1>3, <1>5
  <2>3. queue = rest \o new
    OBVIOUS
  <2> HIDE DEF rest, new, queue
  <2>4. queue \in Seq(Given) /\ NoRepeats(queue) /\ ToSet(queue) = ToSet(rest) \cup ToSet(new)
    BY <2>1, <2>2, <2>3, ConcatMembers
  <2> QED BY <1>3, <1>5, <2>4 DEF rest, new
<1> HIDE DEF queue, t
<1>11. t \in KahnState
  BY <1>2, <1>4, <1>10 DEF KahnState
<1>12. ToSet(t.out) \cap ToSet(t.queue) = {}
  <2>1. ToSet(s.out) \cap ToSet(s.queue) = {}
    BY <1>1
  <2>2. (ToSet(s.out) \cup {x}) \cap ((ToSet(s.queue) \ {x}) \cup ready) = {}
    BY <1>3, <1>9, <2>1
  <2>3. ToSet(t.out) = ToSet(s.out) \cup {x} /\ ToSet(t.queue) = (ToSet(s.queue) \ {x}) \cup ready
    BY <1>2, <1>4, <1>10
  <2> QED BY <2>2, <2>3
<1>13. ASSUME NEW p \in Given
       PROVE  Dependencies(n, p) \subseteq ToSet(out) <=> p \in ToSet(out) \cup ToSet(queue)
  <2>1. CASE x \in Dependencies(n, p)
    <3>1. ~(Dependencies(n, p) \subseteq ToSet(s.out))
      BY <1>1, <1>3, <2>1
    <3>2. p \notin ToSet(s.out) \cup ToSet(s.queue)
      BY <1>1, <3>1
    <3>3. p # x
      BY <1>3, <3>2
    <3> QED BY <1>4, <1>6, <1>10, <2>1, <3>2, <3>3
  <2>2. CASE x \notin Dependencies(n, p)
    <3>1. Dependencies(n, p) \subseteq ToSet(out) <=> Dependencies(n, p) \subseteq ToSet(s.out)
      BY <1>4, <2>2
    <3>2. p \in ToSet(out) \cup ToSet(queue) <=> p \in ToSet(s.out) \cup ToSet(s.queue)
      BY <1>3, <1>4, <1>6, <1>10, <2>2
    <3> QED BY <1>1, <3>1, <3>2
  <2> QED BY <2>1, <2>2
<1>14. ASSUME NEW i \in 1..Len(out)
       PROVE  Dependencies(n, out[i]) \subseteq {out[j] : j \in 1..(i - 1)}
  <2>1. {out[j] : j \in 1..(i - 1)} = {s.out[j] : j \in 1..(i - 1)}
    <3>1. \A j \in 1..(i - 1) : j \in 1..Len(s.out) /\ out[j] = s.out[j]
      BY <1>8
    <3> QED BY <3>1
  <2>2. CASE i = Len(s.out) + 1
    <3>1. ToSet(s.out) = {s.out[j] : j \in 1..(i - 1)}
      <4>1. ToSet(s.out) = {s.out[j] : j \in 1..Len(s.out)}
        BY <1>1, Members
      <4>2. i - 1 = Len(s.out)
        BY <1>8, <2>2
      <4> QED BY <4>1, <4>2
    <3> QED BY <1>7, <1>8, <2>1, <2>2, <3>1
  <2>3. CASE i # Len(s.out) + 1
    <3>1. i \in 1..Len(s.out) /\ out[i] = s.out[i]
      BY <1>8, <2>3
    <3> QED BY <1>1, <2>1, <3>1
  <2> QED BY <2>2, <2>3
<1>15. KahnInv(n, t)
  <2>1. NoRepeats(t.out) /\ NoRepeats(t.queue)
    BY <1>2, <1>4, <1>10
  <2>2. \A p \in Given : Dependencies(n, p) \subseteq ToSet(t.out)
                           <=> p \in ToSet(t.out) \cup ToSet(t.queue)
    BY <1>2, <1>13
  <2>3. ASSUME NEW i \in 1..Len(t.out)
        PROVE  Dependencies(n, t.out[i]) \subseteq {t.out[j] : j \in 1..(i - 1)}
    <3>1. t.out = out /\ i \in 1..Len(out)
      BY <1>2
    <3>2. Dependencies(n, out[i]) \subseteq {out[j] : j \in 1..(i - 1)}
      BY <1>14, <3>1
    <3> QED BY <3>1, <3>2
  <2> QED BY <1>11, <1>12, <2>1, <2>2, <2>3 DEF KahnInv
<1> QED BY <1>2, <1>8, <1>15 DEF t

(* The sort ends with an empty queue: it is as many steps long as there    *)
(* are files.                                                              *)
LEMMA KahnEnds ==
  ASSUME NEW n \in Nets
  PROVE  \E s : /\ KahnInv(n, s) /\ s.queue = <<>>
                /\ DependencyOrder[n] = s.out \o AsGiven(Given \ ToSet(s.out))
<1> DEFINE N == Len(Paths)
           s0 == [queue |-> AsGiven({p \in Given : Dependencies(n, p) = {}}), out |-> <<>>]
           Then(s) == IF s.queue = <<>> THEN s ELSE Kahn(n, s)
           h == CHOOSE step : step = [k \in 0..N |->
                  IF k = 0 THEN s0
                  ELSE IF step[k - 1].queue = <<>> THEN step[k - 1]
                  ELSE Kahn(n, step[k - 1])]
           S == {s \in KahnState : KahnInv(n, s)}
           F == [k \in 1..N |-> [s \in S |-> Then(s)]]
<1>1. N \in Nat
  BY GivenFiles
<1>2. DependencyOrder[n] = h[N].out \o AsGiven(Given \ ToSet(h[N].out))
  BY DEF DependencyOrder
<1>3. s0 \in S
  <2>1. KahnInv(n, s0)
    BY KahnStart
  <2> QED BY <2>1 DEF KahnInv
<1>4. \A s \in S : Then(s) \in S
  <2> SUFFICES ASSUME NEW s \in S, s.queue # <<>> PROVE Kahn(n, s) \in S
    OBVIOUS
  <2>1. KahnInv(n, Kahn(n, s))
    BY KahnStep
  <2> QED BY <2>1 DEF KahnInv
<1>5. h = CHOOSE step : step = [k \in 0..N |-> IF k = 0 THEN s0 ELSE Then(step[k - 1])]
  OBVIOUS
<1> HIDE DEF h, S, s0, Then, N
<1>6. F \in [1..N -> [S -> S]]
  BY <1>4
<1>7. PICK g \in [0..N -> S] : Unfolds(g, N, s0, F)
  BY <1>1, <1>3, <1>6, RecursionExists
<1>8. g = [k \in 0..N |-> IF k = 0 THEN s0 ELSE Then(g[k - 1])]
  <2>1. \A k \in 0..N : g[k] = IF k = 0 THEN s0 ELSE F[k][g[k - 1]]
    BY <1>7 DEF Unfolds
  <2>2. ASSUME NEW k \in 0..N, k # 0 PROVE F[k][g[k - 1]] = Then(g[k - 1])
    BY <1>1, <2>2
  <2> QED BY <1>7, <2>1, <2>2
<1>9. h = [k \in 0..N |-> IF k = 0 THEN s0 ELSE Then(h[k - 1])]
  BY <1>5, <1>8, Zenon
<1>10. h[0] = s0 /\ \A k \in 1..N : h[k] = Then(h[k - 1])
  BY <1>1, <1>9
<1> DEFINE T == {k \in 0..N : h[k] \in S /\ (h[k].queue = <<>> \/ Len(h[k].out) = k)}
<1>11. 0 \in T
  <2>1. s0.out = <<>>
    BY DEF s0
  <2>2. Len(s0.out) = 0
    BY <2>1
  <2> QED BY <1>1, <1>3, <1>10, <2>2
<1>12. ASSUME NEW k \in 1..N, k - 1 \in T PROVE k \in T
  <2>1. h[k - 1] \in S /\ h[k] = Then(h[k - 1]) /\ h[k] \in S
    BY <1>4, <1>10, <1>12
  <2>2. CASE h[k - 1].queue = <<>>
    <3>1. h[k] = h[k - 1]
      BY <2>1, <2>2 DEF Then
    <3> QED BY <2>1, <2>2, <3>1
  <2>3. CASE h[k - 1].queue # <<>>
    <3>1. h[k] = Kahn(n, h[k - 1])
      BY <2>1, <2>3 DEF Then
    <3>2. Len(h[k].out) = Len(h[k - 1].out) + 1
      BY <2>1, <2>3, <3>1, KahnStep DEF S
    <3>3. Len(h[k - 1].out) = k - 1
      BY <1>12, <2>3
    <3> QED BY <1>1, <2>1, <3>2, <3>3
  <2> QED BY <2>2, <2>3
<1>13. N \in T
  <2> HIDE DEF T
  <2>1. 0..N \subseteq T
    BY <1>1, <1>11, <1>12, Induction
  <2> QED BY <1>1, <2>1
<1> DEFINE s == h[N]
<1>14. KahnInv(n, s) /\ (s.queue = <<>> \/ Len(s.out) = N)
  BY <1>13 DEF S
<1> HIDE DEF s
<1>15. s.queue = <<>>
  <2> SUFFICES ASSUME s.queue # <<>> PROVE FALSE
    OBVIOUS
  <2>1. /\ s.queue \in Seq(Given) /\ s.out \in Seq(Given) /\ NoRepeats(s.queue)
        /\ NoRepeats(s.out) /\ ToSet(s.out) \cap ToSet(s.queue) = {}
    BY <1>14 DEF KahnInv, KahnState
  <2>2. Len(s.out) = Len(Paths)
    BY <1>14 DEF N
  <2>3. ToSet(s.out) = Given
    BY <2>1, <2>2, AllGiven
  <2>4. Head(s.queue) \in ToSet(s.queue) /\ ToSet(s.queue) \subseteq Given
    BY <2>1, TailMembers, Members
  <2> QED BY <2>1, <2>3, <2>4
<1> QED BY <1>2, <1>14, <1>15 DEF s

(* Every file to fix comes once.                                           *)
IsOrder(order) ==
  /\ order \in Seq(Given) /\ ToSet(order) = Given
  /\ NoRepeats(order) /\ Len(order) = Len(Paths)

LEMMA OrdersAre ==
  ASSUME NEW n \in Nets
  PROVE  IsOrder(Paths) /\ IsOrder(DependencyOrder[n])
<1>1. IsOrder(Paths)
  BY GivenFiles, AllGiven DEF IsOrder
<1>2. PICK s : /\ KahnInv(n, s) /\ s.queue = <<>>
               /\ DependencyOrder[n] = s.out \o AsGiven(Given \ ToSet(s.out))
  BY KahnEnds
<1> DEFINE rest == AsGiven(Given \ ToSet(s.out))
           order == DependencyOrder[n]
<1>3. rest \in Seq(Given) /\ ToSet(rest) = Given \ ToSet(s.out) /\ NoRepeats(rest)
  <2>1. Given \ ToSet(s.out) \in SUBSET Given
    OBVIOUS
  <2> QED BY <2>1, AsGivenIs, SeqMonotonic
<1>4. s.out \in Seq(Given) /\ NoRepeats(s.out) /\ ToSet(s.out) \subseteq Given
  BY <1>2, Members DEF KahnInv, KahnState
<1>5. order = s.out \o rest
  BY <1>2
<1> HIDE DEF rest, order
<1>6. order \in Seq(Given) /\ ToSet(order) = Given /\ NoRepeats(order)
  <2>1. ToSet(s.out) \cap ToSet(rest) = {} /\ ToSet(s.out) \cup ToSet(rest) = Given
    BY <1>3, <1>4
  <2>2. /\ order \in Seq(Given) /\ ToSet(order) = ToSet(s.out) \cup ToSet(rest)
        /\ NoRepeats(order)
    BY <1>3, <1>4, <1>5, <2>1, ConcatMembers
  <2> QED BY <2>1, <2>2
<1>7. IsOrder(order)
  BY <1>6, AllGiven DEF IsOrder
<1> QED BY <1>1, <1>7 DEF order

(* Without a cycle a file comes after the files it depends on.             *)
LEMMA DependenciesFirst ==
  ASSUME NEW n \in Nets, NEW rank \in [File -> Nat],
         \A f \in Given : \A g \in Dependencies(n, f) : rank[g] < rank[f],
         NEW i \in 1..Len(Paths)
  PROVE  Dependencies(n, DependencyOrder[n][i]) \subseteq {DependencyOrder[n][j] : j \in 1..(i - 1)}
<1>1. PICK s : /\ KahnInv(n, s) /\ s.queue = <<>>
               /\ DependencyOrder[n] = s.out \o AsGiven(Given \ ToSet(s.out))
  BY KahnEnds
<1>2. /\ s.out \in Seq(Given)
      /\ \A p \in Given : Dependencies(n, p) \subseteq ToSet(s.out)
                            <=> p \in ToSet(s.out) \cup ToSet(<<>>)
      /\ \A k \in 1..Len(s.out) : Dependencies(n, s.out[k]) \subseteq {s.out[j] : j \in 1..(k - 1)}
  BY <1>1 DEF KahnInv, KahnState
<1>3. ToSet(<<>>) = {}
  <2>1. <<>> \in Seq(Given) /\ Len(<<>>) = 0
    OBVIOUS
  <2>2. ToSet(<<>>) = {<<>>[k] : k \in 1..0}
    BY <2>1, Members
  <2> QED BY <2>2
<1>4. Given \subseteq ToSet(s.out)
  <2> DEFINE Behind == Given \ ToSet(s.out)
             Ranks == {rank[f] : f \in Behind}
  <2> SUFFICES ASSUME Behind # {} PROVE FALSE
    OBVIOUS
  <2>1. Given \subseteq File
    BY GivenFiles
  <2>2. Ranks \subseteq Nat /\ Ranks # {}
    BY <2>1
  <2>3. PICK r \in Ranks : \A q \in Ranks : r <= q
    <3> HIDE DEF Ranks
    <3> QED BY <2>2, Least
  <2>4. PICK f \in Behind : \A g \in Behind : rank[f] <= rank[g]
    BY <2>3
  <2>5. Dependencies(n, f) \subseteq Given
    BY DEF Dependencies
  <2>6. Dependencies(n, f) \subseteq ToSet(s.out)
    <3> SUFFICES ASSUME NEW g \in Dependencies(n, f), g \in Behind PROVE FALSE
      BY <2>5
    <3>1. rank[g] < rank[f] /\ rank[f] <= rank[g] /\ rank[f] \in Nat /\ rank[g] \in Nat
      BY <2>1, <2>4
    <3> QED BY <3>1
  <2>7. f \in Given /\ f \notin ToSet(s.out)
    BY <2>4
  <2>8. f \in ToSet(s.out) \cup ToSet(<<>>)
    BY <1>2, <2>6, <2>7
  <2> QED BY <1>3, <2>7, <2>8
<1>5. DependencyOrder[n] = s.out
  <2>1. Given \ ToSet(s.out) = {}
    BY <1>4
  <2>2. AsGiven({}) \in Seq({})
    BY AsGivenIs
  <2>3. AsGiven({}) = <<>>
    BY <2>2
  <2> QED BY <1>1, <1>2, <2>1, <2>3, ConcatEmptySeq
<1>6. i \in 1..Len(s.out)
  BY <1>5, OrdersAre DEF IsOrder
<1>7. Dependencies(n, s.out[i]) \subseteq {s.out[j] : j \in 1..(i - 1)}
  BY <1>2, <1>6
<1> QED BY <1>5, <1>7

-----------------------------------------------------------------------------
(* Texts.                                                                  *)

(* A text for every file.                                                  *)
IsTree(d) == DOMAIN d = File /\ \A f \in File : IsText(net, f, d[f])

(* What regenerating an include needs.                                     *)
LEMMA ExpansionIs ==
  ASSUME NEW n \in Nets, NEW f \in File, NEW s \in Includes(n, f)
  PROVE  LET x == Expansion[n][f][s]
         IN /\ x.broken <=> \E w \in Chains(n, s) : Unusable(f, w)
            /\ x.files \subseteq File
            /\ \A h \in x.files : \E w \in Chains(n, s) : Last(w).kind = "include" /\ Last(w).target = h
            /\ x.leaves = {t \in {s} \cup UNION {n.sections[h] : h \in x.files} : t.kind = "extract"}
<1> DEFINE unusable == \E w \in Chains(n, s) : Unusable(f, w)
           files == {Last(w).target : w \in {v \in Chains(n, s) : Last(v).kind = "include"}} \cap File
           leaves == {t \in {s} \cup UNION {n.sections[h] : h \in files} : t.kind = "extract"}
<1>1. Expansion[n][f][s] = [broken |-> unusable, files |-> files, leaves |-> leaves]
  BY DEF Expansion
<1>2. unusable \in BOOLEAN
  OBVIOUS
<1>3. /\ files \subseteq File
      /\ \A h \in files : \E w \in Chains(n, s) : Last(w).kind = "include" /\ Last(w).target = h
  OBVIOUS
<1> HIDE DEF unusable, files, leaves
<1>4. /\ Expansion[n][f][s].broken <=> unusable
      /\ Expansion[n][f][s].files = files
      /\ Expansion[n][f][s].leaves = leaves
  BY <1>1, <1>2
<1> QED BY <1>3, <1>4, Zenon DEF unusable, leaves

(* What the generators make of a text, section by section.                 *)
LEMMA RegeneratedIs ==
  ASSUME NEW f \in File, NEW text, IsText(net, f, text), NEW d
  PROVE  LET now == Regenerated(f, text, d)
         IN /\ now = [own |-> text.own, made |-> now.made]
            /\ now.own = text.own
            /\ now.made = [s \in net.sections[f] |-> now.made[s]]
            /\ \A s \in net.sections[f] : now.made[s] =
                 IF Refused(f, s, text.made[s], d) THEN text.made[s] ELSE Generated(f, s, d)
<1> DEFINE Section(s) == IF Refused(f, s, text.made[s], d) THEN text.made[s]
                         ELSE Generated(f, s, d)
           made == [s \in net.sections[f] |-> Section(s)]
           now == Regenerated(f, text, d)
<1>1. text = [own |-> text.own, made |-> text.made]
  BY DEF IsText
<1>2. now = [text EXCEPT !.made = made]
  BY DEF Regenerated
<1>3. \A s \in net.sections[f] : made[s] = Section(s)
  OBVIOUS
<1>4. made = [s \in net.sections[f] |-> made[s]]
  BY <1>3
<1> HIDE DEF made, now
<1>5. now = [own |-> text.own, made |-> made]
  BY <1>1, <1>2
<1>6. now.own = text.own /\ now.made = made
  BY <1>5
<1> QED BY <1>3, <1>4, <1>5, <1>6 DEF now

(* What the rules and the generators make of a text, and that it is one.   *)
LEMMA FixedIs ==
  ASSUME NEW f \in File, NEW text, IsText(net, f, text), NEW d
  PROVE  LET new == Fixed(f, text, d)
         IN /\ IsText(net, f, new)
            /\ new.own = FixedOwn[text.own]
            /\ \A s \in net.sections[f] : new.made[s] =
                 IF Refused(f, s, text.made[s], d) THEN text.made[s] ELSE Generated(f, s, d)
<1> DEFINE now == Regenerated(f, text, d)
           new == Fixed(f, text, d)
<1>1. /\ now = [own |-> text.own, made |-> now.made]
      /\ now.made = [s \in net.sections[f] |-> now.made[s]]
      /\ \A s \in net.sections[f] : now.made[s] =
           IF Refused(f, s, text.made[s], d) THEN text.made[s] ELSE Generated(f, s, d)
  BY RegeneratedIs
<1>2. new = [now EXCEPT !.own = FixedOwn[text.own]]
  BY DEF Fixed
<1>3. FixedOwn[text.own] \subseteq Issue
  BY FixedOwnType DEF IsText
<1> HIDE DEF now, new
<1>4. new = [own |-> FixedOwn[text.own], made |-> now.made]
  BY <1>1, <1>2
<1>5. new.own = FixedOwn[text.own] /\ new.made = now.made
  BY <1>4
<1>6. IsText(net, f, new)
  BY <1>1, <1>3, <1>4, <1>5 DEF IsText
<1> QED BY <1>1, <1>5, <1>6 DEF new

(* Two texts of a file are one if their parts are.                         *)
LEMMA SameText ==
  ASSUME NEW n, NEW f, NEW t, NEW u, IsText(n, f, t), IsText(n, f, u),
         t.own = u.own, \A s \in n.sections[f] : t.made[s] = u.made[s]
  PROVE  t = u
<1>1. t.made = u.made
  BY DEF IsText
<1> QED BY <1>1 DEF IsText

(* Where the rules settle, fixing a text again changes nothing.            *)
LEMMA FixTwice ==
  ASSUME NEW f \in File, NEW text, IsText(net, f, text), NEW d,
         FixedOwn[FixedOwn[text.own]] = FixedOwn[text.own]
  PROVE  Fixed(f, Fixed(f, text, d), d) = Fixed(f, text, d)
<1> DEFINE t == Fixed(f, text, d)
           u == Fixed(f, t, d)
<1>1. /\ IsText(net, f, t)
      /\ t.own = FixedOwn[text.own]
      /\ \A s \in net.sections[f] : t.made[s] =
           IF Refused(f, s, text.made[s], d) THEN text.made[s] ELSE Generated(f, s, d)
  BY FixedIs
<1> HIDE DEF t
<1>2. /\ IsText(net, f, u)
      /\ u.own = FixedOwn[t.own]
      /\ \A s \in net.sections[f] : u.made[s] =
           IF Refused(f, s, t.made[s], d) THEN t.made[s] ELSE Generated(f, s, d)
  BY <1>1, FixedIs
<1> HIDE DEF u
<1>3. u.own = t.own /\ \A s \in net.sections[f] : u.made[s] = t.made[s]
  BY <1>1, <1>2
<1>4. u = t
  BY <1>1, <1>2, <1>3, SameText
<1> QED BY <1>4 DEF t, u

(* The diagnostics of a file are some.                                     *)
LEMMA CheckFileType ==
  ASSUME net \in Nets, NEW f \in File, NEW text, IsText(net, f, text), NEW d
  PROVE  CheckFile(f, text, d) \in SUBSET Diagnostics
<1>1. net.sections[f] \subseteq Directive
  BY DEF Directive
<1>2. text.own \subseteq Issue
  BY DEF IsText
<1> QED BY <1>1, <1>2 DEF CheckFile, Diagnostics

-----------------------------------------------------------------------------
(* Types.                                                                  *)

(* The record of a run, with any texts.                                    *)
RunOK(r) ==
  r \in [pc : {"off", "read", "fix", "write", "check"}, dry : BOOLEAN,
         order : {<<>>, Paths, DependencyOrder[net]},
         pass : 0..WorkspacePasses, at : 1..Len(Paths),
         text : {r.text}, new : {r.new}, input : {r.input},
         before : SUBSET Diagnostics, diags : SUBSET Diagnostics,
         failures : SUBSET Diagnostics, wrote : SUBSET Given,
         saved : BOOLEAN, unread : BOOLEAN, unwritten : BOOLEAN]

(* Texts of people and of a run.                                           *)
Texts ==
  /\ IsTree(disk)
  /\ run.pc \in {"fix", "write", "check"} => IsText(net, f0, run.text)
  /\ run.pc \in {"write", "check"} => IsText(net, f0, run.new)
  /\ \A f \in File : IsText(net, f, run.input[f])

Counts ==
  /\ runs \in 0..MaxRuns
  /\ saves \in 0..MaxSaves
  /\ troubles \in 0..MaxTroubles

(* A run is in one of its passes until it is off, and has an order from    *)
(* its start on.  It ends with a pass that wrote nothing, or with the last. *)
Ordered ==
  /\ run.pc # "off" => run.pass > 0
  /\ run.pass > 0 => run.order \in {Paths, DependencyOrder[net]} /\ runs > 0
  /\ run.pc = "write" => ~run.dry
  /\ run.pc = "off" /\ run.pass > 0 /\ ~run.dry /\ run.wrote # {} => run.pass = WorkspacePasses

TypeInv ==
  /\ net \in Nets
  /\ Texts
  /\ DOMAIN author = File /\ author \in [File -> SUBSET Issue]
  /\ \A f \in File : author[f] \in Own[f]
  /\ lost \subseteq File
  /\ Counts
  /\ RunOK(run)
  /\ Ordered

LEMMA TypeInvType ==
  ASSUME TypeInv
  PROVE  TypeOK
BY DEF TypeInv, TypeOK, Texts, Counts, RunOK, IsTree

(* The bounds.                                                             *)
LEMMA Bounds ==
  /\ MaxRuns \in Nat /\ MaxSaves \in Nat /\ MaxTroubles \in Nat
  /\ WorkspacePasses \in Nat \ {0}
  /\ Len(Paths) \in Nat \ {0}
BY ConstantsAssumption, GivenFiles

(* The file in hand is one to fix, and no other in the order is it.        *)
LEMMA InHandIs ==
  ASSUME TypeInv, run.pass > 0
  PROVE  /\ IsOrder(run.order)
         /\ run.at \in 1..Len(run.order)
         /\ f0 \in Given /\ f0 \in File
         /\ \A i \in 1..Len(run.order) : run.order[i] \in Given /\ (run.order[i] = f0 => i = run.at)
<1>1. IsOrder(run.order)
  BY OrdersAre DEF TypeInv, Ordered
<1>2. run.at \in 1..Len(run.order)
  BY <1>1 DEF IsOrder, TypeInv, RunOK
<1>3. \A i \in 1..Len(run.order) : run.order[i] \in Given
  BY <1>1 DEF IsOrder
<1>4. f0 \in Given /\ f0 \in File
  BY <1>2, <1>3, GivenFiles DEF f0
<1>5. \A i \in 1..Len(run.order) : run.order[i] = f0 => i = run.at
  BY <1>1, <1>2 DEF IsOrder, NoRepeats, f0
<1> QED BY <1>1, <1>2, <1>3, <1>4, <1>5

(* What the end of a file makes of a run: the next file, the end of the    *)
(* run, or its next pass.                                                  *)
LEMMA NextFileIs ==
  ASSUME NEW r, RunOK(r), r.pass > 0, r.order # <<>>, Len(r.order) = Len(Paths),
         NEW before \in SUBSET Diagnostics, NEW after \in SUBSET Diagnostics
  PROVE  LET s == NextFile(r, before, after)
         IN /\ RunOK(s)
            /\ s.text = NoText /\ s.new = NoText
            /\ s.dry = r.dry /\ s.order = r.order /\ s.input = r.input
            /\ s.saved = r.saved /\ s.unread = r.unread /\ s.unwritten = r.unwritten
            /\ s.pass > 0
            /\ \/ /\ r.at < Len(r.order)
                  /\ s.pc = "read" /\ s.at = r.at + 1
                  /\ s.pass = r.pass /\ s.wrote = r.wrote /\ s.diags = r.diags \cup after
               \/ /\ r.at = Len(r.order)
                  /\ r.dry \/ r.wrote = {} \/ r.pass = WorkspacePasses
                  /\ s.pc = "off" /\ s.at = r.at
                  /\ s.pass = r.pass /\ s.wrote = r.wrote /\ s.diags = r.diags \cup after
               \/ /\ r.at = Len(r.order)
                  /\ ~r.dry /\ r.wrote # {} /\ r.pass # WorkspacePasses
                  /\ s.pc = "read" /\ s.at = 1
                  /\ s.pass = r.pass + 1 /\ s.wrote = {} /\ s.diags = {}
<1> DEFINE told == IF r.pass = 1 THEN r.failures \cup before ELSE r.failures
           m == [r EXCEPT !.text = NoText, !.new = NoText, !.before = {},
                          !.diags = @ \cup after, !.failures = told]
           s == NextFile(r, before, after)
<1>1. /\ r.at \in 1..Len(r.order) /\ Len(r.order) \in Nat /\ r.pass \in 1..WorkspacePasses
      /\ WorkspacePasses \in Nat
  BY Bounds DEF RunOK
<1>2. RunOK(m)
  <2>1. told \in SUBSET Diagnostics
    BY DEF RunOK
  <2> HIDE DEF told
  <2> QED BY <2>1 DEF RunOK
<1>3. /\ m.pc = r.pc /\ m.dry = r.dry /\ m.order = r.order /\ m.pass = r.pass /\ m.at = r.at
      /\ m.text = NoText /\ m.new = NoText /\ m.input = r.input
      /\ m.diags = r.diags \cup after /\ m.wrote = r.wrote
      /\ m.saved = r.saved /\ m.unread = r.unread /\ m.unwritten = r.unwritten
  BY DEF RunOK
<1>4. s = IF r.at < Len(r.order) THEN [m EXCEPT !.pc = "read", !.at = @ + 1] ELSE EndPass(m)
  BY DEF NextFile
<1> HIDE DEF m, s
<1>5. CASE r.at < Len(r.order)
  <2>1. s = [m EXCEPT !.pc = "read", !.at = r.at + 1]
    BY <1>3, <1>4, <1>5
  <2>2. r.at + 1 \in 1..Len(Paths)
    BY <1>1, <1>5
  <2>3. RunOK(s)
    BY <1>2, <2>1, <2>2 DEF RunOK
  <2> QED BY <1>2, <1>3, <1>5, <2>1, <2>3 DEF RunOK, s
<1>6. CASE r.at = Len(r.order) /\ (r.dry \/ r.wrote = {} \/ r.pass = WorkspacePasses)
  <2>1. s = [m EXCEPT !.pc = "off"]
    BY <1>1, <1>3, <1>4, <1>6 DEF EndPass
  <2>2. RunOK(s)
    BY <1>2, <2>1 DEF RunOK
  <2> QED BY <1>2, <1>3, <1>6, <2>1, <2>2 DEF RunOK, s
<1>7. CASE r.at = Len(r.order) /\ ~(r.dry \/ r.wrote = {} \/ r.pass = WorkspacePasses)
  <2>1. s = [m EXCEPT !.pc = "read", !.at = 1, !.pass = r.pass + 1, !.diags = {}, !.wrote = {}]
    BY <1>1, <1>3, <1>4, <1>7 DEF EndPass
  <2>2. r.pass + 1 \in 0..WorkspacePasses /\ r.pass + 1 > 0 /\ 1 \in 1..Len(Paths)
    BY <1>1, <1>7, Bounds
  <2>3. RunOK(s)
    BY <1>2, <2>1, <2>2 DEF RunOK
  <2> QED BY <1>2, <1>3, <1>7, <2>1, <2>2, <2>3 DEF RunOK, s
<1> QED BY <1>1, <1>5, <1>6, <1>7

-----------------------------------------------------------------------------
(* Steps.                                                                  *)

(* The files that this pass is done with; all, after the run.              *)
Done == {run.order[i] : i \in 1..IF run.pc = "off" THEN Len(run.order) ELSE run.at - 1}

(* Those of them before the file in hand.                                  *)
LEMMA DoneIs ==
  ASSUME TypeInv, run.pc # "off"
  PROVE  /\ run.pass > 0
         /\ f0 \in Given /\ f0 \in File
         /\ f0 \notin Done /\ Done \subseteq Given
         /\ Done = {run.order[i] : i \in 1..(run.at - 1)}
         /\ run.at = Len(run.order) => Done \cup {f0} = Given
<1>1. run.pass > 0
  BY DEF TypeInv, Ordered
<1>2. /\ IsOrder(run.order)
      /\ run.at \in 1..Len(run.order)
      /\ f0 \in Given /\ f0 \in File
      /\ \A i \in 1..Len(run.order) : run.order[i] \in Given /\ (run.order[i] = f0 => i = run.at)
  BY <1>1, InHandIs
<1>3. Done = {run.order[i] : i \in 1..(run.at - 1)}
  BY DEF Done
<1>4. Len(run.order) \in Nat /\ \A i \in 1..(run.at - 1) : i \in 1..Len(run.order) /\ i # run.at
  BY <1>2, Bounds DEF IsOrder
<1>5. f0 \notin Done /\ Done \subseteq Given
  BY <1>2, <1>3, <1>4
<1>6. ASSUME run.at = Len(run.order) PROVE Given \subseteq Done \cup {f0}
  <2>1. Given = {run.order[i] : i \in 1..Len(run.order)}
    BY <1>2, Members DEF IsOrder
  <2>2. \A i \in 1..Len(run.order) : i = run.at \/ i \in 1..(run.at - 1)
    BY <1>4, <1>6
  <2>3. f0 = run.order[run.at]
    BY DEF f0
  <2> QED BY <1>3, <2>1, <2>2, <2>3
<1> QED BY <1>1, <1>2, <1>3, <1>5, <1>6

(* What a step never changes about a run that goes on.                     *)
KeepsRun ==
  /\ RunOK(run)'
  /\ run'.dry = run.dry /\ run'.order = run.order /\ run'.input = run.input
  /\ run'.saved = run.saved

(* The end of a file is one of the end of its pass with another pass to    *)
(* come, and any other.                                                    *)
SamePass(after) ==
  /\ run'.pass = run.pass /\ run'.wrote = run.wrote
  /\ run'.diags = run.diags \cup after
  /\ Done' = Done \cup {f0}
  /\ run'.pc = "off" => /\ Done' = Given
                        /\ run.dry \/ run.wrote = {} \/ run.pass = WorkspacePasses

NextPass ==
  /\ ~run.dry /\ run.wrote # {} /\ run.pass # WorkspacePasses
  /\ run'.pc = "read"
  /\ run'.pass = run.pass + 1 /\ run'.wrote = {} /\ run'.diags = {}
  /\ Done' = {}
  /\ Done \cup {f0} = Given

LEMMA AdvanceIs ==
  ASSUME TypeInv, run.pc # "off", net' = net,
         NEW before \in SUBSET Diagnostics, NEW after \in SUBSET Diagnostics,
         NEW unread \in BOOLEAN, NEW unwritten \in BOOLEAN,
         run' = [NextFile(run, before, after) EXCEPT !.unread = unread, !.unwritten = unwritten]
  PROVE  /\ KeepsRun
         /\ run'.unread = unread /\ run'.unwritten = unwritten
         /\ run'.pass > 0 /\ run'.pc \in {"read", "off"}
         /\ SamePass(after) \/ NextPass
<1> DEFINE s == NextFile(run, before, after)
<1>1. /\ run.pass > 0 /\ IsOrder(run.order) /\ RunOK(run)
      /\ run.order # <<>> /\ Len(run.order) = Len(Paths)
      /\ run.at \in 1..Len(run.order)
  <2>1. run.pass > 0
    BY DoneIs
  <2>2. IsOrder(run.order) /\ run.at \in 1..Len(run.order)
    BY <2>1, InHandIs
  <2>3. run.order # <<>>
    BY <2>2, Bounds DEF IsOrder
  <2> QED BY <2>1, <2>2, <2>3 DEF TypeInv, IsOrder
<1>2. /\ RunOK(s)
      /\ s.text = NoText /\ s.new = NoText
      /\ s.dry = run.dry /\ s.order = run.order /\ s.input = run.input
      /\ s.saved = run.saved /\ s.unread = run.unread /\ s.unwritten = run.unwritten
      /\ s.pass > 0
      /\ \/ /\ run.at < Len(run.order)
            /\ s.pc = "read" /\ s.at = run.at + 1
            /\ s.pass = run.pass /\ s.wrote = run.wrote /\ s.diags = run.diags \cup after
         \/ /\ run.at = Len(run.order)
            /\ run.dry \/ run.wrote = {} \/ run.pass = WorkspacePasses
            /\ s.pc = "off" /\ s.at = run.at
            /\ s.pass = run.pass /\ s.wrote = run.wrote /\ s.diags = run.diags \cup after
         \/ /\ run.at = Len(run.order)
            /\ ~run.dry /\ run.wrote # {} /\ run.pass # WorkspacePasses
            /\ s.pc = "read" /\ s.at = 1
            /\ s.pass = run.pass + 1 /\ s.wrote = {} /\ s.diags = {}
  <2>1. RunOK(run) /\ run.pass > 0 /\ run.order # <<>> /\ Len(run.order) = Len(Paths)
    BY <1>1
  <2> HIDE DEF s
  <2> QED BY <2>1, NextFileIs DEF s
<1> HIDE DEF s
<1>3. run' = [s EXCEPT !.unread = unread, !.unwritten = unwritten]
  BY DEF s
<1>4. /\ run'.pc = s.pc /\ run'.dry = s.dry /\ run'.order = s.order /\ run'.pass = s.pass
      /\ run'.at = s.at /\ run'.text = s.text /\ run'.new = s.new /\ run'.input = s.input
      /\ run'.before = s.before /\ run'.diags = s.diags /\ run'.failures = s.failures
      /\ run'.wrote = s.wrote /\ run'.saved = s.saved
      /\ run'.unread = unread /\ run'.unwritten = unwritten
  BY <1>2, <1>3 DEF RunOK
<1>5. RunOK(run)'
  <2>1. s.order \in {<<>>, Paths, DependencyOrder[net']}
    BY <1>2 DEF RunOK
  <2>2. /\ s.pc \in {"off", "read", "fix", "write", "check"} /\ s.dry \in BOOLEAN
        /\ s.pass \in 0..WorkspacePasses /\ s.at \in 1..Len(Paths)
        /\ s.before \in SUBSET Diagnostics /\ s.diags \in SUBSET Diagnostics
        /\ s.failures \in SUBSET Diagnostics /\ s.wrote \in SUBSET Given
        /\ s.saved \in BOOLEAN
    BY <1>2 DEF RunOK
  <2>3. run' = [pc |-> s.pc, dry |-> s.dry, order |-> s.order, pass |-> s.pass, at |-> s.at,
                text |-> s.text, new |-> s.new, before |-> s.before, diags |-> s.diags,
                failures |-> s.failures, wrote |-> s.wrote, input |-> s.input,
                saved |-> s.saved, unread |-> unread, unwritten |-> unwritten]
    BY <1>2, <1>3 DEF RunOK
  <2>4. unread \in BOOLEAN /\ unwritten \in BOOLEAN /\ run'.text \in {run'.text}
        /\ run'.new \in {run'.new} /\ run'.input \in {run'.input}
    OBVIOUS
  <2> HIDE DEF RunOK
  <2>5. run' = [pc |-> s.pc, dry |-> s.dry, order |-> s.order, pass |-> s.pass, at |-> s.at,
                text |-> run'.text, new |-> run'.new, before |-> s.before, diags |-> s.diags,
                failures |-> s.failures, wrote |-> s.wrote, input |-> run'.input,
                saved |-> s.saved, unread |-> unread, unwritten |-> unwritten]
    BY <1>4, <2>3
  <2> QED BY <2>1, <2>2, <2>4, <2>5 DEF RunOK
<1>6. KeepsRun
  BY <1>2, <1>4, <1>5 DEF KeepsRun
<1>7. /\ f0 \notin Done /\ Done \subseteq Given
      /\ Done = {run.order[i] : i \in 1..(run.at - 1)}
      /\ run.at = Len(run.order) => Done \cup {f0} = Given
  BY DoneIs
<1>8. Done' = {run.order[i] : i \in 1..IF run'.pc = "off" THEN Len(run.order) ELSE run'.at - 1}
  BY <1>2, <1>4 DEF Done
<1>9. {run.order[i] : i \in 1..run.at} = Done \cup {f0}
  <2>1. \A i \in 1..run.at : i = run.at \/ i \in 1..(run.at - 1)
    BY <1>1, Bounds
  <2>2. run.at \in 1..run.at /\ \A i \in 1..(run.at - 1) : i \in 1..run.at
    BY <1>1, Bounds
  <2>3. f0 = run.order[run.at]
    BY DEF f0
  <2> QED BY <1>7, <2>1, <2>2, <2>3
<1>10. CASE run.at < Len(run.order) /\ s.pc = "read" /\ s.at = run.at + 1
            /\ s.pass = run.pass /\ s.wrote = run.wrote /\ s.diags = run.diags \cup after
  <2>1. run'.at - 1 = run.at
    BY <1>1, <1>4, <1>10, Bounds
  <2>2. Done' = Done \cup {f0}
    BY <1>4, <1>8, <1>9, <1>10, <2>1
  <2> QED BY <1>2, <1>4, <1>6, <1>10, <2>2 DEF SamePass
<1>11. CASE /\ run.at = Len(run.order)
            /\ run.dry \/ run.wrote = {} \/ run.pass = WorkspacePasses
            /\ s.pc = "off"
            /\ s.pass = run.pass /\ s.wrote = run.wrote /\ s.diags = run.diags \cup after
  <2>1. Done' = Done \cup {f0}
    BY <1>4, <1>8, <1>9, <1>11
  <2> QED BY <1>2, <1>4, <1>6, <1>7, <1>11, <2>1 DEF SamePass
<1>12. CASE /\ run.at = Len(run.order)
            /\ ~run.dry /\ run.wrote # {} /\ run.pass # WorkspacePasses
            /\ s.pc = "read" /\ s.at = 1
            /\ s.pass = run.pass + 1 /\ s.wrote = {} /\ s.diags = {}
  <2>1. Done' = {}
    BY <1>4, <1>8, <1>12
  <2> QED BY <1>2, <1>4, <1>6, <1>7, <1>12, <2>1 DEF NextPass
<1> QED BY <1>2, <1>10, <1>11, <1>12

(* A step within a file.                                                   *)
InFile ==
  /\ KeepsRun
  /\ run'.pass = run.pass /\ run'.diags = run.diags
  /\ run'.unread = run.unread /\ run'.unwritten = run.unwritten
  /\ f0' = f0 /\ Done' = Done

LEMMA InFileIs ==
  ASSUME TypeInv, run.pc # "off", net' = net, RunOK(run)', run'.pc # "off",
         run'.dry = run.dry, run'.order = run.order, run'.pass = run.pass, run'.at = run.at,
         run'.input = run.input, run'.diags = run.diags, run'.saved = run.saved,
         run'.unread = run.unread, run'.unwritten = run.unwritten
  PROVE  InFile
BY DEF InFile, KeepsRun, f0, Done

LEMMA ReadIs ==
  ASSUME TypeInv, Read
  PROVE  /\ InFile
         /\ run'.pc = "fix" /\ run'.text = disk[f0] /\ run'.wrote = run.wrote
         /\ IsText(net, f0, run'.text)
<1>1. run.pc = "read" /\ run' = [run EXCEPT !.pc = "fix", !.text = disk[f0]] /\ net' = net
  BY DEF Read
<1>2. RunOK(run)
  BY DEF TypeInv
<1>3. /\ run'.pc = "fix" /\ run'.text = disk[f0] /\ run'.wrote = run.wrote
      /\ run'.dry = run.dry /\ run'.order = run.order /\ run'.pass = run.pass
      /\ run'.at = run.at /\ run'.input = run.input /\ run'.diags = run.diags
      /\ run'.saved = run.saved /\ run'.unread = run.unread
      /\ run'.unwritten = run.unwritten
  BY <1>1, <1>2 DEF RunOK
<1>4. RunOK(run)'
  BY <1>1, <1>2 DEF RunOK
<1>5. InFile
  BY <1>1, <1>3, <1>4, InFileIs
<1>6. IsText(net, f0, disk[f0])
  BY <1>1, DoneIs DEF TypeInv, Texts, IsTree
<1> QED BY <1>3, <1>5, <1>6

LEMMA FixIs ==
  ASSUME TypeInv, Fix
  PROVE  LET new == Fixed(f0, run.text, disk)
         IN /\ InFile
            /\ run'.pc = (IF new # run.text /\ ~run.dry THEN "write" ELSE "check")
            /\ run'.text = run.text /\ run'.new = new
            /\ run'.before = CheckFile(f0, run.text, disk)
            /\ run'.wrote = run.wrote
            /\ IsText(net, f0, run.text) /\ IsText(net, f0, new)
<1> DEFINE new == Fixed(f0, run.text, disk)
           pc == IF new # run.text /\ ~run.dry THEN "write" ELSE "check"
           before == CheckFile(f0, run.text, disk)
<1>1. /\ run.pc = "fix" /\ net' = net
      /\ run' = [run EXCEPT !.pc = pc, !.new = new, !.before = before]
  BY DEF Fix
<1>2. RunOK(run) /\ net \in Nets /\ IsTree(disk) /\ f0 \in File
  BY <1>1, DoneIs DEF TypeInv, Texts
<1>3. IsText(net, f0, run.text)
  BY <1>1 DEF TypeInv, Texts
<1>4. before \in SUBSET Diagnostics
  BY <1>2, <1>3, CheckFileType
<1>5. IsText(net, f0, new)
  BY <1>2, <1>3, FixedIs
<1>6. pc \in {"write", "check"}
  OBVIOUS
<1> HIDE DEF new, pc, before
<1>7. /\ run'.pc = pc /\ run'.text = run.text /\ run'.new = new /\ run'.before = before
      /\ run'.wrote = run.wrote
      /\ run'.dry = run.dry /\ run'.order = run.order /\ run'.pass = run.pass
      /\ run'.at = run.at /\ run'.input = run.input /\ run'.diags = run.diags
      /\ run'.saved = run.saved /\ run'.unread = run.unread
      /\ run'.unwritten = run.unwritten
  BY <1>1, <1>2 DEF RunOK
<1>8. RunOK(run)'
  BY <1>1, <1>2, <1>4, <1>6 DEF RunOK
<1>9. InFile
  BY <1>1, <1>6, <1>7, <1>8, InFileIs
<1> QED BY <1>3, <1>5, <1>7, <1>9 DEF new, pc, before

LEMMA WriteIs ==
  ASSUME TypeInv, Write
  PROVE  /\ InFile
         /\ run'.pc = "check" /\ run'.wrote = run.wrote \cup {f0}
         /\ run'.text = run.text /\ run'.new = run.new
         /\ DOMAIN disk' = File
         /\ disk'[f0] = run.new /\ \A f \in File : f # f0 => disk'[f] = disk[f]
<1>1. /\ run.pc = "write" /\ net' = net
      /\ run' = [run EXCEPT !.pc = "check", !.wrote = @ \cup {f0}]
      /\ disk' = [disk EXCEPT ![f0] = run.new]
  BY DEF Write
<1>2. RunOK(run) /\ f0 \in File /\ f0 \in Given /\ DOMAIN disk = File
  BY <1>1, DoneIs DEF TypeInv, Texts, IsTree
<1>3. /\ run'.pc = "check" /\ run'.wrote = run.wrote \cup {f0}
      /\ run'.text = run.text /\ run'.new = run.new
      /\ run'.dry = run.dry /\ run'.order = run.order /\ run'.pass = run.pass
      /\ run'.at = run.at /\ run'.input = run.input /\ run'.diags = run.diags
      /\ run'.saved = run.saved /\ run'.unread = run.unread
      /\ run'.unwritten = run.unwritten
  BY <1>1, <1>2 DEF RunOK
<1>4. run.wrote \cup {f0} \in SUBSET Given
  BY <1>2 DEF RunOK
<1>5. RunOK(run)'
  BY <1>1, <1>2, <1>4 DEF RunOK
<1>6. InFile
  BY <1>1, <1>3, <1>5, InFileIs
<1>7. /\ DOMAIN disk' = File
      /\ disk'[f0] = run.new /\ \A f \in File : f # f0 => disk'[f] = disk[f]
  BY <1>1, <1>2
<1> QED BY <1>3, <1>6, <1>7

(* A save touches the file, its author and the note that someone saved.    *)
LEMMA SaveIs ==
  ASSUME TypeInv, NEW f \in File, NEW own \in Own[f], Save(f, own)
  PROVE  /\ RunOK(run)' /\ run'.saved
         /\ run'.pc = run.pc /\ run'.dry = run.dry /\ run'.order = run.order
         /\ run'.pass = run.pass /\ run'.text = run.text /\ run'.new = run.new
         /\ run'.wrote = run.wrote /\ run'.input = run.input
         /\ f0' = f0 /\ Done' = Done
         /\ own \in SUBSET Issue
         /\ DOMAIN disk' = File
         /\ disk'[f] = [own |-> own, made |-> disk[f].made]
         /\ \A g \in File : g # f => disk'[g] = disk[g]
         /\ DOMAIN author' = File
         /\ author'[f] = own /\ \A g \in File : g # f => author'[g] = author[g]
<1>1. /\ net' = net
      /\ run' = [run EXCEPT !.saved = TRUE]
      /\ disk' = [disk EXCEPT ![f].own = own]
      /\ author' = [author EXCEPT ![f] = own]
  BY DEF Save
<1>2. RunOK(run) /\ DOMAIN disk = File /\ IsText(net, f, disk[f]) /\ DOMAIN author = File
  BY DEF TypeInv, Texts, IsTree
<1>3. /\ run'.saved
      /\ run'.pc = run.pc /\ run'.dry = run.dry /\ run'.order = run.order
      /\ run'.pass = run.pass /\ run'.at = run.at
      /\ run'.text = run.text /\ run'.new = run.new
      /\ run'.wrote = run.wrote /\ run'.input = run.input
  BY <1>1, <1>2 DEF RunOK
<1>4. RunOK(run)'
  BY <1>1, <1>2 DEF RunOK
<1>5. f0' = f0 /\ Done' = Done
  BY <1>3 DEF f0, Done
<1>6. own \in SUBSET Issue
  BY ConstantsAssumption
<1>7. disk[f] = [own |-> disk[f].own, made |-> disk[f].made]
  BY <1>2 DEF IsText
<1>8. disk'[f] = [disk[f] EXCEPT !.own = own]
  BY <1>1, <1>2
<1>9. disk'[f] = [own |-> own, made |-> disk[f].made]
  BY <1>7, <1>8
<1>10. /\ DOMAIN disk' = File /\ \A g \in File : g # f => disk'[g] = disk[g]
       /\ DOMAIN author' = File
       /\ author'[f] = own /\ \A g \in File : g # f => author'[g] = author[g]
  BY <1>1, <1>2
<1> QED BY <1>3, <1>4, <1>5, <1>6, <1>9, <1>10

(* A run that has not started.                                             *)
LEMMA NoRunIs ==
  ASSUME NEW d
  PROVE  /\ RunOK(NoRun(d))
         /\ NoRun(d).pc = "off" /\ NoRun(d).pass = 0 /\ ~NoRun(d).dry
         /\ NoRun(d).wrote = {} /\ NoRun(d).input = d
         /\ NoRun(d).diags = {} /\ ~NoRun(d).saved /\ ~NoRun(d).unread /\ ~NoRun(d).unwritten
<1>1. 1 \in 1..Len(Paths) /\ 0 \in 0..WorkspacePasses
  BY Bounds
<1> QED BY <1>1 DEF NoRun, RunOK

LEMMA StartIs ==
  ASSUME TypeInv, Start
  PROVE  /\ RunOK(run)'
         /\ run'.pc = "read" /\ run'.pass = 1 /\ run'.order \in {Paths, DependencyOrder[net]}
         /\ run'.wrote = {} /\ run'.diags = {} /\ run'.input = disk
         /\ ~run'.saved /\ ~run'.unread /\ ~run'.unwritten
         /\ Done' = {}
<1>1. PICK order \in {Paths, DependencyOrder[net]}, dry \in BOOLEAN :
        run' = [NoRun(disk) EXCEPT !.pc = "read", !.dry = dry, !.order = order, !.pass = 1]
  BY DEF Start
<1>2. net' = net
  BY DEF Start
<1>3. 1 \in 1..Len(Paths) /\ 1 \in 0..WorkspacePasses
  BY Bounds
<1>4. run' = [pc |-> "read", dry |-> dry, order |-> order, pass |-> 1, at |-> 1,
              text |-> NoText, new |-> NoText, before |-> {}, diags |-> {},
              failures |-> {}, wrote |-> {}, input |-> disk,
              saved |-> FALSE, unread |-> FALSE, unwritten |-> FALSE]
  BY <1>1 DEF NoRun
<1>5. RunOK(run)'
  BY <1>2, <1>3, <1>4 DEF RunOK
<1>6. Done' = {}
  BY <1>4 DEF Done
<1>7. /\ run'.pc = "read" /\ run'.pass = 1 /\ run'.order = order
      /\ run'.wrote = {} /\ run'.diags = {} /\ run'.input = disk
      /\ ~run'.saved /\ ~run'.unread /\ ~run'.unwritten
  BY <1>4
<1> QED BY <1>5, <1>6, <1>7

(* The texts as the first run begins.                                      *)
LEMMA InitTexts ==
  ASSUME Init, NEW f \in File
  PROVE  /\ disk[f].own = author[f]
         /\ author[f] \in SUBSET Issue
         /\ IsText(net, f, disk[f])
<1>1. PICK made \in [File -> UNION {[net.sections[g] -> Typed] : g \in File}] :
        /\ \A g \in File : DOMAIN made[g] = net.sections[g]
        /\ disk = [g \in File |-> [own |-> author[g], made |-> made[g]]]
  BY DEF Init
<1>2. author[f] \in SUBSET Issue
  BY ConstantsAssumption DEF Init
<1>3. disk[f] = [own |-> author[f], made |-> made[f]] 
  BY <1>1
<1>4. PICK g \in File : made[f] \in [net.sections[g] -> Typed]
  BY <1>1
<1>5. made[f] = [s \in net.sections[f] |-> made[f][s]]
  BY <1>1, <1>4
<1> QED BY <1>2, <1>3, <1>5 DEF IsText

LEMMA InitType == Init => TypeInv
<1> SUFFICES ASSUME Init PROVE TypeInv
  OBVIOUS
<1>1. /\ net \in Nets /\ lost = {} /\ runs = 0 /\ saves = 0 /\ troubles = 0
      /\ run = NoRun(disk)
      /\ author \in [File -> UNION {Own[f] : f \in File}]
      /\ \A f \in File : author[f] \in Own[f]
  BY DEF Init
<1>2. \A f \in File : author[f] \in SUBSET Issue
  BY InitTexts
<1>3. DOMAIN author = File /\ author \in [File -> SUBSET Issue]
  BY <1>1, <1>2
<1>4. IsTree(disk)
  <2>1. DOMAIN disk = File
    BY DEF Init
  <2> QED BY <2>1, InitTexts DEF IsTree
<1>5. RunOK(run) /\ run.pc = "off" /\ run.pass = 0 /\ ~run.dry /\ run.input = disk
  BY <1>1, NoRunIs
<1>6. Texts
  BY <1>4, <1>5 DEF Texts, IsTree
<1>7. Counts
  BY <1>1, Bounds DEF Counts
<1>8. Ordered
  BY <1>5 DEF Ordered
<1> QED BY <1>1, <1>3, <1>5, <1>6, <1>7, <1>8 DEF TypeInv

(* What a step that leaves the world alone keeps.                          *)
LEMMA SameWorld ==
  ASSUME TypeInv, UNCHANGED <<net, author>>, lost' \subseteq File, Counts',
         RunOK(run)', Texts', Ordered'
  PROVE  TypeInv'
BY DEF TypeInv

LEMMA StartType == ASSUME TypeInv, Start PROVE TypeInv'
<1>1. /\ UNCHANGED <<net, disk, author, lost, saves, troubles>>
      /\ runs < MaxRuns /\ runs' = runs + 1
  BY DEF Start
<1>2. /\ RunOK(run)' /\ run'.pc = "read" /\ run'.pass = 1
      /\ run'.order \in {Paths, DependencyOrder[net]} /\ run'.input = disk
  BY StartIs
<1>3. Counts' /\ runs' > 0
  BY <1>1, Bounds DEF TypeInv, Counts
<1>4. Texts'
  BY <1>1, <1>2 DEF TypeInv, Texts, IsTree
<1>5. Ordered'
  BY <1>1, <1>2, <1>3 DEF Ordered
<1>6. lost' \subseteq File
  BY <1>1 DEF TypeInv
<1> QED BY <1>1, <1>2, <1>3, <1>4, <1>5, <1>6, SameWorld

LEMMA ReadType == ASSUME TypeInv, Read PROVE TypeInv'
<1>1. UNCHANGED <<net, disk, author, lost, runs, saves, troubles>> /\ run.pc = "read"
  BY DEF Read
<1>2. /\ InFile /\ run'.pc = "fix" /\ run'.text = disk[f0] /\ IsText(net, f0, run'.text)
  BY ReadIs
<1>3. Counts' /\ lost' \subseteq File
  BY <1>1 DEF TypeInv, Counts
<1>4. Texts'
  BY <1>1, <1>2 DEF TypeInv, Texts, IsTree, InFile, KeepsRun
<1>5. Ordered'
  BY <1>1, <1>2 DEF TypeInv, Ordered, InFile, KeepsRun
<1> QED BY <1>1, <1>2, <1>3, <1>4, <1>5, SameWorld DEF InFile, KeepsRun

LEMMA FixType == ASSUME TypeInv, Fix PROVE TypeInv'
<1> DEFINE new == Fixed(f0, run.text, disk)
<1>1. UNCHANGED <<net, disk, author, lost, runs, saves, troubles>> /\ run.pc = "fix"
  BY DEF Fix
<1>2. /\ InFile
      /\ run'.pc = (IF new # run.text /\ ~run.dry THEN "write" ELSE "check")
      /\ run'.text = run.text /\ run'.new = new
      /\ IsText(net, f0, run.text) /\ IsText(net, f0, new)
  BY FixIs
<1> HIDE DEF new
<1>3. Counts' /\ lost' \subseteq File
  BY <1>1 DEF TypeInv, Counts
<1>4. Texts'
  BY <1>1, <1>2 DEF TypeInv, Texts, IsTree, InFile, KeepsRun
<1>5. Ordered'
  BY <1>1, <1>2 DEF TypeInv, Ordered, InFile, KeepsRun
<1> QED BY <1>1, <1>2, <1>3, <1>4, <1>5, SameWorld DEF InFile, KeepsRun

LEMMA WriteType == ASSUME TypeInv, Write PROVE TypeInv'
<1>1. /\ UNCHANGED <<net, author, runs, saves, troubles>> /\ run.pc = "write"
      /\ lost' \subseteq lost \cup {f0}
  BY DEF Write
<1>2. /\ InFile /\ run'.pc = "check" /\ run'.text = run.text /\ run'.new = run.new
      /\ DOMAIN disk' = File
      /\ disk'[f0] = run.new /\ \A f \in File : f # f0 => disk'[f] = disk[f]
  BY WriteIs
<1>3. f0 \in File /\ IsText(net, f0, run.new) /\ IsText(net, f0, run.text)
  BY <1>1, DoneIs DEF TypeInv, Texts
<1>4. Counts' /\ lost' \subseteq File
  BY <1>1, <1>3 DEF TypeInv, Counts
<1>5. Texts'
  <2>1. \A f \in File : IsText(net, f, disk'[f])
    BY <1>2, <1>3 DEF TypeInv, Texts, IsTree
  <2> QED BY <1>1, <1>2, <1>3, <2>1 DEF TypeInv, Texts, IsTree, InFile, KeepsRun
<1>6. Ordered'
  BY <1>1, <1>2 DEF TypeInv, Ordered, InFile, KeepsRun
<1> QED BY <1>1, <1>2, <1>4, <1>5, <1>6, SameWorld DEF InFile, KeepsRun

LEMMA AdvanceType ==
  ASSUME TypeInv, run.pc # "off", UNCHANGED <<net, disk, author, lost>>, Counts',
         NEW before \in SUBSET Diagnostics, NEW after \in SUBSET Diagnostics,
         NEW unread \in BOOLEAN, NEW unwritten \in BOOLEAN,
         run' = [NextFile(run, before, after) EXCEPT !.unread = unread, !.unwritten = unwritten],
         runs' = runs
  PROVE  TypeInv'
<1>1. /\ KeepsRun /\ run'.pass > 0 /\ run'.pc \in {"read", "off"}
      /\ SamePass(after) \/ NextPass
  BY AdvanceIs
<1>2. lost' \subseteq File
  BY DEF TypeInv
<1>3. Texts'
  BY <1>1 DEF TypeInv, Texts, IsTree, KeepsRun
<1>4. run.pass > 0
  BY DEF TypeInv, Ordered
<1>5. Ordered'
  BY <1>1, <1>4 DEF TypeInv, Ordered, KeepsRun, SamePass, NextPass
<1> QED BY <1>1, <1>2, <1>3, <1>5, SameWorld DEF KeepsRun

(* The three ways a file ends.                                             *)
LEMMA ReadFailsIs ==
  ASSUME TypeInv, ReadFails
  PROVE  /\ run.pc = "read" /\ UNCHANGED <<net, disk, author, lost, runs, saves>> /\ Counts'
         /\ run' = [NextFile(run, {}, {}) EXCEPT !.unread = TRUE, !.unwritten = run.unwritten]
         /\ run.unwritten \in BOOLEAN /\ {} \in SUBSET Diagnostics
<1>1. /\ run.pc = "read" /\ UNCHANGED <<net, disk, author, lost, runs, saves>>
      /\ troubles < MaxTroubles /\ troubles' = troubles + 1
      /\ run' = [NextFile(run, {}, {}) EXCEPT !.unread = TRUE]
  BY DEF ReadFails
<1>2. Counts'
  BY <1>1, Bounds DEF TypeInv, Counts
<1> DEFINE s == NextFile(run, {}, {})
<1>3. RunOK(s) /\ s.unwritten = run.unwritten
  <2>1. run.pass > 0 /\ IsOrder(run.order)
    BY <1>1, DoneIs, InHandIs
  <2>2. RunOK(run) /\ run.order # <<>> /\ Len(run.order) = Len(Paths)
    BY <2>1, Bounds DEF TypeInv, IsOrder
  <2>3. {} \in SUBSET Diagnostics
    OBVIOUS
  <2> HIDE DEF s
  <2> QED BY <2>1, <2>2, <2>3, NextFileIs DEF s
<1>4. s.unwritten \in BOOLEAN
  BY <1>3 DEF RunOK
<1> HIDE DEF s
<1>5. [s EXCEPT !.unread = TRUE] = [s EXCEPT !.unread = TRUE, !.unwritten = run.unwritten]
  BY <1>3 DEF RunOK
<1> QED BY <1>1, <1>2, <1>3, <1>4, <1>5 DEF s

LEMMA WriteFailsIs ==
  ASSUME TypeInv, WriteFails
  PROVE  /\ run.pc = "write" /\ UNCHANGED <<net, disk, author, lost, runs, saves>> /\ Counts'
         /\ run' = [NextFile(run, run.before, run.before) EXCEPT
                      !.unread = run.unread, !.unwritten = TRUE]
         /\ run.unread \in BOOLEAN /\ run.before \in SUBSET Diagnostics
<1>1. /\ run.pc = "write" /\ UNCHANGED <<net, disk, author, lost, runs, saves>>
      /\ troubles < MaxTroubles /\ troubles' = troubles + 1
      /\ run' = [NextFile(run, run.before, run.before) EXCEPT !.unwritten = TRUE]
  BY DEF WriteFails
<1>2. Counts'
  BY <1>1, Bounds DEF TypeInv, Counts
<1>3. run.before \in SUBSET Diagnostics
  BY DEF TypeInv, RunOK
<1> DEFINE s == NextFile(run, run.before, run.before)
<1>4. RunOK(s) /\ s.unread = run.unread
  <2>1. run.pass > 0 /\ IsOrder(run.order)
    BY <1>1, DoneIs, InHandIs
  <2>2. RunOK(run) /\ run.order # <<>> /\ Len(run.order) = Len(Paths)
    BY <2>1, Bounds DEF TypeInv, IsOrder
  <2> HIDE DEF s
  <2> QED BY <1>3, <2>1, <2>2, NextFileIs DEF s
<1>5. s.unread \in BOOLEAN
  BY <1>4 DEF RunOK
<1> HIDE DEF s
<1>6. [s EXCEPT !.unwritten = TRUE] = [s EXCEPT !.unread = run.unread, !.unwritten = TRUE]
  BY <1>4 DEF RunOK
<1> QED BY <1>1, <1>2, <1>3, <1>4, <1>5, <1>6 DEF s

LEMMA RecheckIs ==
  ASSUME TypeInv, Recheck
  PROVE  LET after == CheckFile(f0, run.new, disk)
         IN /\ run.pc = "check" /\ UNCHANGED <<net, disk, author, lost, runs, saves>> /\ Counts'
            /\ run' = [NextFile(run, run.before, after) EXCEPT
                         !.unread = run.unread, !.unwritten = run.unwritten]
            /\ run.unread \in BOOLEAN /\ run.unwritten \in BOOLEAN
            /\ run.before \in SUBSET Diagnostics /\ after \in SUBSET Diagnostics
<1> DEFINE after == CheckFile(f0, run.new, disk)
<1>1. /\ run.pc = "check" /\ UNCHANGED <<net, disk, author, lost, runs, saves, troubles>>
      /\ run' = NextFile(run, run.before, after)
  BY DEF Recheck
<1>2. Counts'
  BY <1>1 DEF TypeInv, Counts
<1>3. run.before \in SUBSET Diagnostics
  BY DEF TypeInv, RunOK
<1>4. after \in SUBSET Diagnostics
  BY <1>1, DoneIs, CheckFileType DEF TypeInv, Texts
<1> HIDE DEF after
<1> DEFINE s == NextFile(run, run.before, after)
<1>5. RunOK(s) /\ s.unread = run.unread /\ s.unwritten = run.unwritten
  <2>1. run.pass > 0 /\ IsOrder(run.order)
    BY <1>1, DoneIs, InHandIs
  <2>2. RunOK(run) /\ run.order # <<>> /\ Len(run.order) = Len(Paths)
    BY <2>1, Bounds DEF TypeInv, IsOrder
  <2> HIDE DEF s
  <2> QED BY <1>3, <1>4, <2>1, <2>2, NextFileIs DEF s
<1>6. s.unread \in BOOLEAN /\ s.unwritten \in BOOLEAN
  BY <1>5 DEF RunOK
<1> HIDE DEF s
<1>7. s = [s EXCEPT !.unread = run.unread, !.unwritten = run.unwritten]
  BY <1>5 DEF RunOK
<1> QED BY <1>1, <1>2, <1>3, <1>4, <1>5, <1>6, <1>7 DEF s, after

LEMMA SaveType ==
  ASSUME TypeInv, NEW f \in File, NEW own \in Own[f], Save(f, own)
  PROVE  TypeInv'
<1>1. /\ UNCHANGED <<net, runs, troubles>> /\ saves < MaxSaves /\ saves' = saves + 1
      /\ lost' = lost \ {f}
  BY DEF Save
<1>2. /\ RunOK(run)'
      /\ run'.pc = run.pc /\ run'.dry = run.dry /\ run'.order = run.order
      /\ run'.pass = run.pass /\ run'.text = run.text /\ run'.new = run.new
      /\ run'.wrote = run.wrote /\ run'.input = run.input
      /\ f0' = f0
      /\ own \in SUBSET Issue
      /\ DOMAIN disk' = File
      /\ disk'[f] = [own |-> own, made |-> disk[f].made]
      /\ \A g \in File : g # f => disk'[g] = disk[g]
      /\ DOMAIN author' = File
      /\ author'[f] = own /\ \A g \in File : g # f => author'[g] = author[g]
  BY SaveIs
<1>3. IsText(net, f, disk'[f])
  <2>1. IsText(net, f, disk[f])
    BY DEF TypeInv, Texts, IsTree
  <2>2. disk'[f].own = own /\ disk'[f].made = disk[f].made
    BY <1>2
  <2> QED BY <1>2, <2>1, <2>2 DEF IsText
<1>4. Texts'
  BY <1>1, <1>2, <1>3 DEF TypeInv, Texts, IsTree
<1>5. Counts' /\ lost' \subseteq File
  BY <1>1, Bounds DEF TypeInv, Counts
<1>6. Ordered'
  BY <1>1, <1>2 DEF TypeInv, Ordered
<1>7. DOMAIN author' = File /\ author' \in [File -> SUBSET Issue]
  <2>1. author' = [author EXCEPT ![f] = own]
    BY DEF Save
  <2> QED BY <1>2, <2>1 DEF TypeInv
<1>8. \A g \in File : author'[g] \in Own[g]
  BY <1>2 DEF TypeInv
<1> QED BY <1>1, <1>2, <1>4, <1>5, <1>6, <1>7, <1>8 DEF TypeInv

LEMMA CrashType == ASSUME TypeInv, Crash PROVE TypeInv'
<1>1. /\ UNCHANGED <<net, disk, author, lost, runs, saves>>
      /\ troubles < MaxTroubles /\ troubles' = troubles + 1
      /\ run' = NoRun(disk)
  BY DEF Crash
<1>2. /\ RunOK(NoRun(disk)) /\ run'.pc = "off" /\ run'.pass = 0 /\ ~run'.dry
      /\ run'.input = disk
  BY <1>1, NoRunIs
<1>3. RunOK(run)'
  BY <1>1, <1>2 DEF RunOK
<1>4. Counts' /\ lost' \subseteq File
  BY <1>1, Bounds DEF TypeInv, Counts
<1>5. Texts'
  BY <1>1, <1>2 DEF TypeInv, Texts, IsTree
<1>6. Ordered'
  BY <1>2 DEF Ordered
<1> QED BY <1>1, <1>3, <1>4, <1>5, <1>6, SameWorld

LEMMA NextType == TypeInv /\ [Next]_vars => TypeInv'
<1> SUFFICES ASSUME TypeInv, [Next]_vars PROVE TypeInv'
  OBVIOUS
<1>1. CASE Start
  BY <1>1, StartType
<1>2. CASE Read
  BY <1>2, ReadType
<1>3. CASE Fix
  BY <1>3, FixType
<1>4. CASE Write
  BY <1>4, WriteType
<1>5. CASE Recheck
  BY <1>5, RecheckIs, AdvanceType
<1>6. CASE ReadFails
  BY <1>6, ReadFailsIs, AdvanceType
<1>7. CASE WriteFails
  BY <1>7, WriteFailsIs, AdvanceType
<1>8. CASE \E f \in File : \E own \in Own[f] : Save(f, own)
  BY <1>8, SaveType
<1>9. CASE Crash
  BY <1>9, CrashType
<1>10. CASE UNCHANGED vars
  BY <1>10 DEF vars, TypeInv, Texts, IsTree, Counts, RunOK, Ordered, f0
<1> QED BY <1>1, <1>2, <1>3, <1>4, <1>5, <1>6, <1>7, <1>8, <1>9, <1>10 DEF Next, Step

(* The contents of the files, and all that a run holds, stay what they     *)
(* are said to be.                                                         *)
THEOREM TypeCorrect == Spec => []TypeOK
<1>1. TypeInv => TypeOK
  BY TypeInvType
<1> QED BY <1>1, InitType, NextType, PTL DEF Spec

-----------------------------------------------------------------------------
(* People's text.                                                          *)

(* The files whose fix in this pass is done, written or not.               *)
Seen == Done \cup (IF run.pc = "check" THEN {f0} ELSE {})

(* How often a file can have been fixed: once in each pass.                *)
Passes(f) ==
  IF run.pc = "off" THEN WorkspacePasses ELSE IF f \in Seen THEN run.pass ELSE run.pass - 1

Fixes(r, p) == IF r = 0 THEN 0 ELSE (r - 1) * WorkspacePasses + p

Limit(f) == Fixes(runs, Passes(f))

(* A text about to be written is the one read, fixed once; and a text that *)
(* no race has overwritten is the author's, fixed that often at most.      *)
Tidy ==
  /\ run.pc = "write" => run.new.own = FixedOwn[run.text.own]
  /\ \A f \in File \ lost : \E n \in 0..Limit(f) : disk[f].own = Times(author[f])[n]

(* Arithmetic.                                                             *)
LEMMA Products ==
  ASSUME NEW a \in Nat, NEW b \in Nat, NEW c \in Nat, a <= b
  PROVE  /\ a * c \in Nat /\ b * c \in Nat /\ a * c <= b * c
         /\ (a + 1) * c = a * c + c
         /\ a # 0 => (a - 1) * c \in Nat /\ (a - 1) * c + c = a * c
<1>1. a * c \in Nat /\ b * c \in Nat
  OBVIOUS
<1>2. (a + 1) * c = a * c + c
  OBVIOUS
<1>3. ASSUME a # 0 PROVE (a - 1) * c \in Nat /\ (a - 1) * c + c = a * c
  <2>1. a - 1 \in Nat
    BY <1>3
  <2> QED BY <2>1
<1>4. a * c <= b * c
  <2>1. PICK k \in Nat : b = a + k
    <3>1. b - a \in Nat /\ b = a + (b - a)
      OBVIOUS
    <3> QED BY <3>1
  <2>2. b * c = a * c + k * c /\ k * c \in Nat
    BY <2>1
  <2> QED BY <1>1, <2>2
<1> QED BY <1>1, <1>2, <1>3, <1>4

(* The bound is a number of fixes that runs can do, and grows with them.   *)
LEMMA FixesType ==
  ASSUME NEW r \in 0..MaxRuns, NEW p \in 0..WorkspacePasses
  PROVE  /\ Fixes(r, p) \in Nat
         /\ Fixes(r, p) <= r * WorkspacePasses
         /\ r * WorkspacePasses \in Nat
         /\ r * WorkspacePasses <= MaxRuns * WorkspacePasses
         /\ MaxRuns * WorkspacePasses \in Nat
         /\ Fixes(r, WorkspacePasses) = r * WorkspacePasses
         /\ \A q \in 0..WorkspacePasses : p <= q => Fixes(r, p) <= Fixes(r, q)
         /\ \A q \in 0..WorkspacePasses : Fixes(r, p) <= Fixes(r + 1, q)
         /\ r # 0 /\ p # WorkspacePasses => Fixes(r, p + 1) = Fixes(r, p) + 1
<1>1. /\ r \in Nat /\ MaxRuns \in Nat /\ r <= MaxRuns
      /\ WorkspacePasses \in Nat /\ p \in Nat /\ p <= WorkspacePasses
  BY Bounds
<1> DEFINE R == r * WorkspacePasses
           M == MaxRuns * WorkspacePasses
           Q == (r - 1) * WorkspacePasses
<1>2. R \in Nat /\ M \in Nat /\ R <= M /\ (r # 0 => Q \in Nat /\ Q + WorkspacePasses = R)
  BY <1>1, Products
<1>3. \A q : Fixes(r, q) = IF r = 0 THEN 0 ELSE Q + q
  BY DEF Fixes
<1>4. \A q : Fixes(r + 1, q) = R + q
  <2>1. r + 1 # 0 /\ r + 1 - 1 = r
    BY <1>1
  <2> QED BY <2>1 DEF Fixes
<1>5. r = 0 => R = 0
  BY <1>1
<1> HIDE DEF R, M, Q
<1>6. /\ Fixes(r, p) \in Nat /\ Fixes(r, p) <= R /\ Fixes(r, WorkspacePasses) = R
      /\ r # 0 /\ p # WorkspacePasses => Fixes(r, p + 1) = Fixes(r, p) + 1
  BY <1>1, <1>2, <1>3, <1>5
<1>7. ASSUME NEW q \in 0..WorkspacePasses
      PROVE  (p <= q => Fixes(r, p) <= Fixes(r, q)) /\ Fixes(r, p) <= Fixes(r + 1, q)
  BY <1>1, <1>2, <1>3, <1>4, <1>5, <1>6
<1> QED BY <1>2, <1>6, <1>7 DEF R, M

LEMMA LimitType ==
  ASSUME TypeInv, NEW f \in File
  PROVE  /\ runs \in 0..MaxRuns /\ Passes(f) \in 0..WorkspacePasses
         /\ run.pc = "off" => Passes(f) = WorkspacePasses
         /\ Limit(f) \in Nat
         /\ Limit(f) <= runs * WorkspacePasses
<1>1. /\ runs \in 0..MaxRuns /\ WorkspacePasses \in Nat /\ run.pass \in 0..WorkspacePasses
      /\ run.pc # "off" => run.pass > 0
  BY Bounds DEF TypeInv, Counts, RunOK, Ordered
<1>2. Passes(f) \in 0..WorkspacePasses
  BY <1>1 DEF Passes
<1>3. run.pc = "off" => Passes(f) = WorkspacePasses
  BY DEF Passes
<1> QED BY <1>1, <1>2, <1>3, FixesType DEF Limit

LEMMA LimitTypeNext ==
  ASSUME TypeInv', NEW f \in File
  PROVE  /\ runs' \in 0..MaxRuns /\ Passes(f)' \in 0..WorkspacePasses
         /\ Limit(f)' = Fixes(runs', Passes(f)')
         /\ Limit(f)' \in Nat
<1>1. /\ runs' \in 0..MaxRuns /\ WorkspacePasses \in Nat /\ run'.pass \in 0..WorkspacePasses
      /\ run'.pc # "off" => run'.pass > 0
  BY Bounds DEF TypeInv, Counts, RunOK, Ordered
<1>2. Passes(f)' \in 0..WorkspacePasses
  BY <1>1 DEF Passes
<1>3. Limit(f)' = Fixes(runs', Passes(f)')
  BY DEF Limit
<1> QED BY <1>1, <1>2, <1>3, FixesType

(* What leaves a text alone and does not lower its bound keeps it tidy.    *)
LEMMA StaysTidy ==
  ASSUME TypeInv, TypeInv', Tidy, NEW f \in File \ lost,
         author'[f] = author[f], disk'[f].own = disk[f].own,
         \/ runs' = runs /\ Passes(f) <= Passes(f)'
         \/ runs' = runs + 1
  PROVE  \E n \in 0..Limit(f)' : disk'[f].own = Times(author'[f])[n]
<1>1. PICK n \in 0..Limit(f) : disk[f].own = Times(author[f])[n]
  BY DEF Tidy
<1>2. /\ runs \in 0..MaxRuns /\ Passes(f) \in 0..WorkspacePasses /\ Limit(f) \in Nat
      /\ Limit(f) = Fixes(runs, Passes(f))
  BY LimitType DEF Limit
<1>3. /\ Passes(f)' \in 0..WorkspacePasses /\ Limit(f)' \in Nat
      /\ Limit(f)' = Fixes(runs', Passes(f)')
  BY LimitTypeNext
<1>4. Limit(f) <= Limit(f)'
  <2>1. CASE runs' = runs /\ Passes(f) <= Passes(f)'
    BY <1>2, <1>3, <2>1, FixesType
  <2>2. CASE runs' = runs + 1
    BY <1>2, <1>3, <2>2, FixesType
  <2> QED BY <2>1, <2>2
<1> QED BY <1>1, <1>2, <1>3, <1>4

LEMMA TidyInit == Init => Tidy
<1> SUFFICES ASSUME Init PROVE Tidy
  OBVIOUS
<1>1. TypeInv
  BY InitType
<1>2. run.pc = "off" /\ runs = 0 /\ lost = {}
  BY NoRunIs DEF Init
<1>3. \A f \in File : disk[f].own = author[f]
  BY InitTexts
<1>4. ASSUME NEW f \in File PROVE \E n \in 0..Limit(f) : disk[f].own = Times(author[f])[n]
  <2>1. author[f] \in SUBSET Issue
    BY <1>1 DEF TypeInv
  <2>2. Times(author[f])[0] = author[f]
    BY <2>1, TimesUnfolds
  <2>3. 0 \in 0..Limit(f)
    BY <1>1, LimitType
  <2> QED BY <1>3, <2>2, <2>3
<1> QED BY <1>2, <1>4 DEF Tidy

LEMMA StartTidy == ASSUME TypeInv, Tidy, Start PROVE Tidy'
<1>1. UNCHANGED <<disk, author, lost>> /\ runs' = runs + 1
  BY DEF Start
<1>2. TypeInv' /\ run'.pc = "read"
  BY StartType, StartIs
<1>3. \A f \in File \ lost' : \E n \in 0..Limit(f)' : disk'[f].own = Times(author'[f])[n]
  BY <1>1, <1>2, StaysTidy
<1> QED BY <1>2, <1>3 DEF Tidy

LEMMA ReadTidy == ASSUME TypeInv, Tidy, Read PROVE Tidy'
<1>1. UNCHANGED <<disk, author, lost, runs>> /\ run.pc = "read"
  BY DEF Read
<1>2. TypeInv' /\ InFile /\ run'.pc = "fix"
  BY ReadType, ReadIs
<1>3. \A f \in File : Passes(f)' = Passes(f)
  BY <1>1, <1>2 DEF Passes, Seen, InFile
<1>4. \A f \in File : Passes(f) <= Passes(f)'
  BY <1>3, LimitType
<1>5. \A f \in File \ lost' : \E n \in 0..Limit(f)' : disk'[f].own = Times(author'[f])[n]
  BY <1>1, <1>2, <1>4, StaysTidy
<1> QED BY <1>2, <1>5 DEF Tidy

LEMMA FixTidy == ASSUME TypeInv, Tidy, Fix PROVE Tidy'
<1>1. UNCHANGED <<disk, author, lost, runs>> /\ run.pc = "fix"
  BY DEF Fix
<1> DEFINE new == Fixed(f0, run.text, disk)
<1>2. /\ TypeInv' /\ InFile /\ run'.pc \in {"write", "check"}
      /\ run'.text = run.text /\ run'.new = new /\ IsText(net, f0, run.text)
  BY FixType, FixIs
<1>3. new.own = FixedOwn[run.text.own]
  BY <1>1, <1>2, DoneIs, FixedIs DEF TypeInv
<1> HIDE DEF new
<1>4. \A f \in File : Passes(f) <= Passes(f)'
  <2>1. run.pass \in Nat /\ run'.pass = run.pass
    BY <1>2, Bounds DEF TypeInv, RunOK, InFile
  <2> QED BY <1>1, <1>2, <2>1 DEF Passes, Seen, InFile
<1>5. \A f \in File \ lost' : \E n \in 0..Limit(f)' : disk'[f].own = Times(author'[f])[n]
  BY <1>1, <1>2, <1>4, StaysTidy
<1> QED BY <1>2, <1>3, <1>5 DEF Tidy

LEMMA WriteTidy == ASSUME TypeInv, Tidy, Write PROVE Tidy'
<1>1. /\ UNCHANGED <<author, runs>> /\ run.pc = "write"
      /\ lost' = IF disk[f0].own # run.text.own THEN lost \cup {f0} ELSE lost
  BY DEF Write
<1>2. /\ TypeInv' /\ InFile /\ run'.pc = "check"
      /\ disk'[f0] = run.new /\ \A f \in File : f # f0 => disk'[f] = disk[f]
  BY WriteType, WriteIs
<1>3. f0 \in File /\ f0 \notin Done /\ run.pass > 0
  BY <1>1, DoneIs
<1>4. run.pass \in 0..WorkspacePasses /\ WorkspacePasses \in Nat /\ runs # 0 /\ runs \in 0..MaxRuns
  BY <1>1, <1>3, Bounds DEF TypeInv, RunOK, Ordered, Counts
<1>5. \A f \in File : Passes(f) <= Passes(f)'
  BY <1>1, <1>2, <1>4 DEF Passes, Seen, InFile
<1>6. ASSUME NEW f \in File \ lost', f # f0
      PROVE  \E n \in 0..Limit(f)' : disk'[f].own = Times(author'[f])[n]
  BY <1>1, <1>2, <1>5, <1>6, StaysTidy
<1>7. ASSUME NEW f \in File \ lost', f = f0
      PROVE  \E n \in 0..Limit(f)' : disk'[f].own = Times(author'[f])[n]
  <2>1. f \notin lost /\ disk[f].own = run.text.own
    BY <1>1, <1>7
  <2>2. PICK n \in 0..Limit(f) : disk[f].own = Times(author[f])[n]
    BY <2>1 DEF Tidy
  <2>3. disk'[f].own = FixedOwn[Times(author[f])[n]]
    BY <1>1, <1>2, <1>7, <2>1, <2>2 DEF Tidy
  <2>4. Passes(f) = run.pass - 1 /\ Passes(f)' = run.pass
    BY <1>1, <1>2, <1>3, <1>7 DEF Passes, Seen, InFile
  <2>5. Limit(f) = Fixes(runs, run.pass - 1) /\ Limit(f)' = Fixes(runs, run.pass)
    BY <1>1, <2>4 DEF Limit
  <2>6. /\ Fixes(runs, run.pass) = Fixes(runs, run.pass - 1) + 1
        /\ Fixes(runs, run.pass - 1) \in Nat
        /\ Fixes(runs, run.pass) <= MaxRuns * WorkspacePasses
        /\ MaxRuns * WorkspacePasses \in Nat
    <3> DEFINE p == run.pass - 1
    <3>1. p \in 0..WorkspacePasses /\ p # WorkspacePasses /\ p + 1 = run.pass
      BY <1>3, <1>4
    <3> HIDE DEF p
    <3>2. Fixes(runs, p + 1) = Fixes(runs, p) + 1 /\ Fixes(runs, p) \in Nat
      BY <1>4, <3>1, FixesType
    <3>3. /\ Fixes(runs, run.pass) \in Nat /\ Fixes(runs, run.pass) <= runs * WorkspacePasses
          /\ runs * WorkspacePasses \in Nat
          /\ runs * WorkspacePasses <= MaxRuns * WorkspacePasses
          /\ MaxRuns * WorkspacePasses \in Nat
      BY <1>4, FixesType
    <3>4. Fixes(runs, run.pass) <= MaxRuns * WorkspacePasses
      <4> HIDE DEF Fixes
      <4> QED BY <3>3
    <3> QED BY <3>1, <3>2, <3>3, <3>4 DEF p
  <2>7. n \in Nat /\ n + 1 \in 1..MaxRuns * WorkspacePasses /\ n + 1 - 1 = n
    BY <2>2, <2>5, <2>6
  <2>8. author[f] \in SUBSET Issue
    BY DEF TypeInv
  <2>9. Times(author[f])[n + 1] = FixedOwn[Times(author[f])[n]]
    BY <2>7, <2>8, TimesUnfolds
  <2>10. n + 1 \in 0..Limit(f)'
    BY <2>2, <2>5, <2>6, <2>7
  <2> QED BY <1>1, <2>3, <2>9, <2>10
<1>8. ASSUME NEW f \in File \ lost'
      PROVE  \E n \in 0..Limit(f)' : disk'[f].own = Times(author'[f])[n]
  BY <1>6, <1>7
<1> QED BY <1>2, <1>8 DEF Tidy

LEMMA AdvanceTidy ==
  ASSUME TypeInv, TypeInv', Tidy, run.pc # "off",
         UNCHANGED <<net, disk, author, lost, runs>>,
         NEW before \in SUBSET Diagnostics, NEW after \in SUBSET Diagnostics,
         NEW unread \in BOOLEAN, NEW unwritten \in BOOLEAN,
         run' = [NextFile(run, before, after) EXCEPT !.unread = unread, !.unwritten = unwritten]
  PROVE  Tidy'
<1>1. /\ KeepsRun /\ run'.pc \in {"read", "off"}
      /\ SamePass(after) \/ NextPass
  BY AdvanceIs
<1>2. run.pass \in 0..WorkspacePasses /\ WorkspacePasses \in Nat
  BY Bounds DEF TypeInv, RunOK
<1>3. \A f \in File : Passes(f) <= Passes(f)'
  <2>1. CASE SamePass(after)
    <3>1. Done' = Done \cup {f0} /\ run'.pass = run.pass
      BY <2>1 DEF SamePass
    <3> QED BY <1>1, <1>2, <3>1 DEF Passes, Seen
  <2>2. CASE NextPass
    <3>1. run'.pass = run.pass + 1 /\ run'.pc = "read"
      BY <2>2 DEF NextPass
    <3> QED BY <1>2, <3>1 DEF Passes, Seen
  <2> QED BY <1>1, <2>1, <2>2
<1>4. \A f \in File \ lost' : \E n \in 0..Limit(f)' : disk'[f].own = Times(author'[f])[n]
  BY <1>3, StaysTidy
<1> QED BY <1>1, <1>4 DEF Tidy

LEMMA SaveTidy ==
  ASSUME TypeInv, Tidy, NEW f \in File, NEW own \in Own[f], Save(f, own)
  PROVE  Tidy'
<1>1. UNCHANGED runs /\ lost' = lost \ {f}
  BY DEF Save
<1>2. /\ TypeInv'
      /\ run'.pc = run.pc /\ run'.pass = run.pass /\ run'.text = run.text /\ run'.new = run.new
      /\ f0' = f0 /\ Done' = Done
      /\ own \in SUBSET Issue
      /\ disk'[f] = [own |-> own, made |-> disk[f].made]
      /\ \A g \in File : g # f => disk'[g] = disk[g]
      /\ author'[f] = own /\ \A g \in File : g # f => author'[g] = author[g]
  BY SaveIs, SaveType
<1>3. \A g \in File : Passes(g)' = Passes(g)
  BY <1>2 DEF Passes, Seen
<1>4. \A g \in File : Passes(g) <= Passes(g)'
  BY <1>3, LimitType
<1>5. ASSUME NEW g \in File \ lost', g # f
      PROVE  \E n \in 0..Limit(g)' : disk'[g].own = Times(author'[g])[n]
  BY <1>1, <1>2, <1>4, <1>5, StaysTidy
<1>6. \E n \in 0..Limit(f)' : disk'[f].own = Times(author'[f])[n]
  <2>1. Times(own)[0] = own
    BY <1>2, TimesUnfolds
  <2>2. 0 \in 0..Limit(f)'
    BY <1>2, LimitTypeNext
  <2> QED BY <1>2, <2>1, <2>2
<1>7. run'.pc = "write" => run'.new.own = FixedOwn[run'.text.own]
  BY <1>2 DEF Tidy
<1> QED BY <1>5, <1>6, <1>7 DEF Tidy

LEMMA CrashTidy == ASSUME TypeInv, Tidy, Crash PROVE Tidy'
<1>1. UNCHANGED <<disk, author, lost, runs>> /\ run' = NoRun(disk)
  BY DEF Crash
<1>2. TypeInv' /\ run'.pc = "off"
  BY <1>1, CrashType, NoRunIs
<1>3. \A f \in File : Passes(f)' = WorkspacePasses
  BY <1>2 DEF Passes
<1>4. \A f \in File : Passes(f) <= Passes(f)'
  BY <1>3, LimitType, Bounds
<1>5. \A f \in File \ lost' : \E n \in 0..Limit(f)' : disk'[f].own = Times(author'[f])[n]
  BY <1>1, <1>2, <1>4, StaysTidy
<1> QED BY <1>2, <1>5 DEF Tidy

LEMMA NextTidy == TypeInv /\ Tidy /\ [Next]_vars => Tidy'
<1> SUFFICES ASSUME TypeInv, Tidy, [Next]_vars PROVE Tidy'
  OBVIOUS
<1>1. TypeInv'
  BY NextType
<1>2. CASE Start
  BY <1>2, StartTidy
<1>3. CASE Read
  BY <1>3, ReadTidy
<1>4. CASE Fix
  BY <1>4, FixTidy
<1>5. CASE Write
  BY <1>5, WriteTidy
<1>6. CASE Recheck
  BY <1>1, <1>6, RecheckIs, AdvanceTidy
<1>7. CASE ReadFails
  BY <1>1, <1>7, ReadFailsIs, AdvanceTidy
<1>8. CASE WriteFails
  BY <1>1, <1>8, WriteFailsIs, AdvanceTidy
<1>9. CASE \E f \in File : \E own \in Own[f] : Save(f, own)
  BY <1>9, SaveTidy
<1>10. CASE Crash
  BY <1>10, CrashTidy
<1>11. CASE UNCHANGED vars
  BY <1>11 DEF vars, Tidy, Limit, Passes, Seen, Done, f0
<1> QED BY <1>2, <1>3, <1>4, <1>5, <1>6, <1>7, <1>8, <1>9, <1>10, <1>11 DEF Next, Step

LEMMA TidyIsKept == TypeInv /\ Tidy => OnlyRacedSavesAreLost
<1> SUFFICES ASSUME TypeInv, Tidy, NEW f \in File \ lost
             PROVE  /\ disk[f].own \in Tidied[author[f]][runs]
                    /\ disk[f].own \cap Foreign = author[f] \cap Foreign
  BY DEF OnlyRacedSavesAreLost
<1>1. PICK n \in 0..Limit(f) : disk[f].own = Times(author[f])[n]
  BY DEF Tidy
<1>2. /\ runs \in 0..MaxRuns /\ Limit(f) \in Nat /\ Limit(f) <= runs * WorkspacePasses
      /\ Passes(f) \in 0..WorkspacePasses
  BY LimitType
<1>3. /\ runs * WorkspacePasses \in Nat
      /\ runs * WorkspacePasses <= MaxRuns * WorkspacePasses
      /\ MaxRuns * WorkspacePasses \in Nat
  BY <1>2, FixesType
<1>4. author[f] \in SUBSET Issue /\ author[f] \in UNION {Own[g] : g \in File}
  BY DEF TypeInv
<1> DEFINE R == runs * WorkspacePasses
           M == MaxRuns * WorkspacePasses
<1>5. n \in 0..R /\ n \in 0..M
  <2> HIDE DEF R, M
  <2>1. R \in Nat /\ M \in Nat /\ R <= M /\ Limit(f) <= R
    BY <1>2, <1>3 DEF R, M
  <2> QED BY <1>1, <1>2, <2>1
<1>6. disk[f].own \in Tidied[author[f]][runs]
  <2>1. Tidied[author[f]][runs] = {Times(author[f])[m] : m \in 0..R}
    BY <1>2, <1>4, TidiedTimes
  <2> QED BY <1>1, <1>5, <2>1
<1>7. disk[f].own \cap Foreign = author[f] \cap Foreign
  BY <1>1, <1>4, <1>5, TimesType
<1> QED BY <1>6, <1>7

(* A person's own text of a file is only ever tidied, once by each pass of *)
(* each run at most and never in a foreign region, but for a save that     *)
(* falls between the read of a file and its write.                         *)
THEOREM OwnTextIsKept == Spec => []OnlyRacedSavesAreLost
<1>1. Init => TypeInv /\ Tidy
  BY InitType, TidyInit
<1>2. TypeInv /\ Tidy /\ [Next]_vars => TypeInv' /\ Tidy'
  BY NextType, NextTidy
<1> QED BY <1>1, <1>2, TidyIsKept, PTL DEF Spec

-----------------------------------------------------------------------------
(* The report.                                                             *)

(* A run that writes, and that nobody disturbs with a save.                *)
Quiet == run.pass > 0 /\ ~run.dry /\ ~run.saved

(* Fixing the file again changes nothing.                                  *)
Settled(f) == Fixed(f, disk[f], disk) = disk[f]

(* The file in hand is as it is on disk, with what the rules make of it.   *)
InHand ==
  Quiet =>
    /\ run.pc \in {"fix", "write"} => run.text = disk[f0]
    /\ run.pc = "write" => /\ run.new = Fixed(f0, run.text, disk)
                           /\ run.before = CheckFile(f0, run.text, disk)
    /\ run.pc = "check" => /\ run.new = disk[f0]
                           /\ f0 \notin run.wrote => Settled(f0)

(* As long as a pass writes nothing, what it tells is the tree so far; and *)
(* nothing is left to fix in it, unless a file could not be written.       *)
Told ==
  Quiet /\ ~run.unread /\ run.wrote = {} =>
    /\ run.diags = UNION {CheckFile(f, disk[f], disk) : f \in Done}
    /\ ~run.unwritten => \A f \in Done : Settled(f)

(* A step that leaves the disk alone leaves settled what is, and finds the *)
(* same.                                                                   *)
LEMMA SameTree ==
  ASSUME UNCHANGED <<net, disk>>
  PROVE  /\ \A f : Settled(f)' <=> Settled(f)
         /\ \A f : CheckFile(f, disk[f], disk)' = CheckFile(f, disk[f], disk)
<1>1. ASSUME NEW f PROVE Settled(f)' <=> Settled(f)
  BY DEF Settled, Fixed, Regenerated, Refused, Generated, Copy, Listed
<1>2. ASSUME NEW f PROVE CheckFile(f, disk[f], disk)' = CheckFile(f, disk[f], disk)
  BY DEF CheckFile, Regenerated, Refused, Generated, Copy, Listed
<1> QED BY <1>1, <1>2

(* The same of the end of a file, where the file in hand joins those done. *)
LEMMA AdvanceTold ==
  ASSUME TypeInv, InHand, Told, run.pc # "off",
         UNCHANGED <<net, disk>>,
         NEW before \in SUBSET Diagnostics, NEW after \in SUBSET Diagnostics,
         NEW unread \in BOOLEAN, NEW unwritten \in BOOLEAN,
         run' = [NextFile(run, before, after) EXCEPT !.unread = unread, !.unwritten = unwritten],
         Quiet /\ ~unread => after = CheckFile(f0, disk[f0], disk),
         Quiet /\ ~unread /\ ~unwritten /\ run.wrote = {} => Settled(f0),
         unread \/ ~run.unread, unwritten \/ ~run.unwritten
  PROVE  InHand' /\ Told'
<1>1. /\ KeepsRun /\ run'.unread = unread /\ run'.unwritten = unwritten
      /\ run'.pc \in {"read", "off"}
      /\ SamePass(after) \/ NextPass
  BY AdvanceIs
<1>2. InHand'
  BY <1>1 DEF InHand
<1>3. run.pass > 0
  BY DoneIs
<1>4. ASSUME Quiet', ~unread, run'.wrote = {}, SamePass(after)
      PROVE  /\ run'.diags = UNION {CheckFile(f, disk[f], disk) : f \in Done'}
             /\ ~unwritten => \A f \in Done' : Settled(f)
  <2>1. Quiet /\ run.wrote = {} /\ ~run.unread
    BY <1>1, <1>3, <1>4 DEF Quiet, KeepsRun, SamePass
  <2>2. Done' = Done \cup {f0} /\ run'.diags = run.diags \cup CheckFile(f0, disk[f0], disk)
    BY <1>4, <2>1 DEF SamePass
  <2>3. run.diags = UNION {CheckFile(f, disk[f], disk) : f \in Done}
    BY <2>1 DEF Told
  <2>4. ~unwritten => \A f \in Done' : Settled(f)
    BY <1>4, <2>1, <2>2 DEF Told
  <2> QED BY <2>2, <2>3, <2>4
<1>5. ASSUME NextPass
      PROVE  /\ run'.diags = UNION {CheckFile(f, disk[f], disk) : f \in Done'}
             /\ ~unwritten => \A f \in Done' : Settled(f)
  BY <1>5 DEF NextPass
<1>6. \A f : (Settled(f)' <=> Settled(f)) /\ CheckFile(f, disk[f], disk)' = CheckFile(f, disk[f], disk)
  BY SameTree
<1>7. ASSUME Quiet', ~run'.unread, run'.wrote = {}
      PROVE  /\ run'.diags = UNION {CheckFile(f, disk[f], disk)' : f \in Done'}
             /\ ~run'.unwritten => \A f \in Done' : Settled(f)'
  <2>1. /\ run'.diags = UNION {CheckFile(f, disk[f], disk) : f \in Done'}
        /\ ~unwritten => \A f \in Done' : Settled(f)
    BY <1>1, <1>4, <1>5, <1>7
  <2> QED BY <1>1, <1>6, <2>1
<1>8. Told'
  BY <1>7 DEF Told
<1> QED BY <1>2, <1>8

LEMMA ToldInit == Init => InHand /\ Told
BY NoRunIs DEF Init, InHand, Told, Quiet

LEMMA ToldStart == ASSUME TypeInv, Start PROVE InHand' /\ Told'
<1>1. run'.pc = "read" /\ run'.diags = {} /\ Done' = {}
  BY StartIs
<1> QED BY <1>1 DEF InHand, Told

LEMMA ToldRead == ASSUME TypeInv, InHand, Told, Read PROVE InHand' /\ Told'
<1>1. UNCHANGED <<net, disk>> /\ run.pc = "read"
  BY DEF Read
<1>2. InFile /\ run'.pc = "fix" /\ run'.text = disk[f0] /\ run'.wrote = run.wrote
  BY ReadIs
<1>3. InHand'
  BY <1>1, <1>2 DEF InHand, InFile
<1>4. \A f : (Settled(f)' <=> Settled(f)) /\ CheckFile(f, disk[f], disk)' = CheckFile(f, disk[f], disk)
  BY <1>1, SameTree
<1>5. Quiet' <=> Quiet
  BY <1>2 DEF Quiet, InFile, KeepsRun
<1>6. Told'
  BY <1>2, <1>4, <1>5 DEF Told, InFile
<1> QED BY <1>3, <1>6

LEMMA ToldFix == ASSUME TypeInv, InHand, Told, Fix PROVE InHand' /\ Told'
<1> DEFINE new == Fixed(f0, run.text, disk)
           before == CheckFile(f0, run.text, disk)
<1>1. UNCHANGED <<net, disk>> /\ run.pc = "fix"
  BY DEF Fix
<1>2. /\ InFile
      /\ run'.pc = (IF new # run.text /\ ~run.dry THEN "write" ELSE "check")
      /\ run'.text = run.text /\ run'.new = new /\ run'.before = before
      /\ run'.wrote = run.wrote
  BY FixIs
<1>3. Quiet' <=> Quiet
  BY <1>2 DEF Quiet, InFile, KeepsRun
<1>4. \A f : (Settled(f)' <=> Settled(f)) /\ CheckFile(f, disk[f], disk)' = CheckFile(f, disk[f], disk)
  BY <1>1, SameTree
<1>5. \A f, x : x = run.text /\ f = f0 =>
        /\ Fixed(f, x, disk)' = new
        /\ CheckFile(f, x, disk)' = before
  BY <1>1 DEF Fixed, CheckFile, Regenerated, Refused, Generated, Copy, Listed
<1>6. ASSUME Quiet, run'.pc = "check" PROVE new = disk[f0] /\ Settled(f0)
  <2>1. new = run.text /\ run.text = disk[f0]
    BY <1>1, <1>2, <1>6 DEF InHand, Quiet
  <2> QED BY <2>1 DEF Settled
<1> HIDE DEF new, before
<1>7. Quiet => run.text = disk[f0]
  BY <1>1 DEF InHand
<1>8. \A f : f = f0 => (Settled(f)' <=> Settled(f0))
  BY <1>4
<1>9. ASSUME NEW f, f = f0, Quiet
      PROVE  /\ run'.text = disk'[f]
             /\ run'.pc = "write" => /\ run'.new = Fixed(f, run.text, disk)'
                                     /\ run'.before = CheckFile(f, run.text, disk)'
             /\ run'.pc = "check" => run'.new = disk'[f] /\ Settled(f)'
  <2>1. ASSUME NEW x, x = run.text
        PROVE Fixed(f, x, disk)' = new /\ CheckFile(f, x, disk)' = before
    BY <1>5, <1>9, <2>1
  <2>2. run'.text = disk'[f]
    BY <1>1, <1>2, <1>7, <1>9
  <2>3. /\ Fixed(f, run.text, disk)' = new
        /\ CheckFile(f, run.text, disk)' = before
    <3>1. /\ Fixed(f, run.text, disk)' = Fixed(f, run.text, disk)
          /\ CheckFile(f, run.text, disk)' = CheckFile(f, run.text, disk)
      BY <1>1, <1>2 DEF Fixed, CheckFile, Regenerated, Refused, Generated, Copy, Listed
    <3> QED BY <1>9, <3>1 DEF new, before
  <2>4. run'.pc = "check" => run'.new = disk'[f] /\ Settled(f)'
    BY <1>1, <1>2, <1>6, <1>8, <1>9
  <2> QED BY <1>2, <2>2, <2>3, <2>4
<1>10. InHand'
  BY <1>2, <1>3, <1>9 DEF InHand, InFile
<1>11. Told'
  BY <1>2, <1>3, <1>4 DEF Told, InFile
<1> QED BY <1>10, <1>11

LEMMA ToldWrite == ASSUME TypeInv, InHand, Told, Write PROVE InHand' /\ Told'
<1>1. run.pc = "write"
  BY DEF Write
<1>2. /\ InFile /\ run'.pc = "check" /\ run'.wrote = run.wrote \cup {f0}
      /\ run'.new = run.new /\ disk'[f0] = run.new
  BY WriteIs
<1>3. f0' = f0
  BY <1>2 DEF InFile
<1>4. run'.wrote # {} /\ f0' \in run'.wrote
  BY <1>2, <1>3
<1>5. run'.new = disk'[f0']
  BY <1>2, <1>3
<1> QED BY <1>2, <1>4, <1>5 DEF InHand, Told

LEMMA ToldRecheck == ASSUME TypeInv, InHand, Told, Recheck PROVE InHand' /\ Told'
<1> DEFINE after == CheckFile(f0, run.new, disk)
<1>1. /\ run.pc = "check" /\ UNCHANGED <<net, disk>>
      /\ run' = [NextFile(run, run.before, after) EXCEPT
                   !.unread = run.unread, !.unwritten = run.unwritten]
      /\ run.unread \in BOOLEAN /\ run.unwritten \in BOOLEAN
      /\ run.before \in SUBSET Diagnostics /\ after \in SUBSET Diagnostics
  BY RecheckIs
<1>2. Quiet => after = CheckFile(f0, disk[f0], disk)
  BY <1>1 DEF InHand
<1>3. Quiet /\ run.wrote = {} => Settled(f0)
  BY <1>1 DEF InHand
<1> HIDE DEF after
<1> QED BY <1>1, <1>2, <1>3, AdvanceTold

LEMMA ToldReadFails == ASSUME TypeInv, InHand, Told, ReadFails PROVE InHand' /\ Told'
<1>1. /\ run.pc = "read" /\ UNCHANGED <<net, disk>>
      /\ run' = [NextFile(run, {}, {}) EXCEPT !.unread = TRUE, !.unwritten = run.unwritten]
      /\ run.unwritten \in BOOLEAN /\ {} \in SUBSET Diagnostics
  BY ReadFailsIs
<1> QED BY <1>1, AdvanceTold

LEMMA ToldWriteFails == ASSUME TypeInv, InHand, Told, WriteFails PROVE InHand' /\ Told'
<1>1. /\ run.pc = "write" /\ UNCHANGED <<net, disk>>
      /\ run' = [NextFile(run, run.before, run.before) EXCEPT
                   !.unread = run.unread, !.unwritten = TRUE]
      /\ run.unread \in BOOLEAN /\ run.before \in SUBSET Diagnostics
  BY WriteFailsIs
<1>2. Quiet => run.before = CheckFile(f0, disk[f0], disk)
  BY <1>1 DEF InHand
<1> QED BY <1>1, <1>2, AdvanceTold

LEMMA ToldSave ==
  ASSUME TypeInv, NEW f \in File, NEW own \in Own[f], Save(f, own)
  PROVE  InHand' /\ Told'
<1>1. run'.saved
  BY SaveIs
<1> QED BY <1>1 DEF InHand, Told, Quiet

LEMMA ToldCrash == ASSUME Crash PROVE InHand' /\ Told'
<1>1. run'.pass = 0
  BY NoRunIs DEF Crash
<1> QED BY <1>1 DEF InHand, Told, Quiet

LEMMA NextTold == TypeInv /\ InHand /\ Told /\ [Next]_vars => InHand' /\ Told'
<1> SUFFICES ASSUME TypeInv, InHand, Told, [Next]_vars PROVE InHand' /\ Told'
  OBVIOUS
<1>1. CASE Start
  BY <1>1, ToldStart
<1>2. CASE Read
  BY <1>2, ToldRead
<1>3. CASE Fix
  BY <1>3, ToldFix
<1>4. CASE Write
  BY <1>4, ToldWrite
<1>5. CASE Recheck
  BY <1>5, ToldRecheck
<1>6. CASE ReadFails
  BY <1>6, ToldReadFails
<1>7. CASE WriteFails
  BY <1>7, ToldWriteFails
<1>8. CASE \E f \in File : \E own \in Own[f] : Save(f, own)
  BY <1>8, ToldSave
<1>9. CASE Crash
  BY <1>9, ToldCrash
<1>10. CASE UNCHANGED vars
  <2>1. UNCHANGED <<net, disk, run>>
    BY <1>10 DEF vars
  <2>2. /\ \A f : Settled(f)' <=> Settled(f)
        /\ \A f : CheckFile(f, disk[f], disk)' = CheckFile(f, disk[f], disk)
    BY <2>1, SameTree
  <2>3. Told'
    BY <2>1, <2>2 DEF Told, Quiet, Done
  <2>4. f0' = f0 /\ (Quiet' <=> Quiet)
    BY <2>1 DEF f0, Quiet
  <2>5. ASSUME NEW f, f = f0
        PROVE  /\ Fixed(f, run.text, disk)' = Fixed(f, run.text, disk)
               /\ CheckFile(f, run.text, disk)' = CheckFile(f, run.text, disk)
    BY <2>1 DEF Fixed, CheckFile, Regenerated, Refused, Generated, Copy, Listed
  <2>6. InHand'
    BY <2>1, <2>2, <2>4, <2>5 DEF InHand
  <2> QED BY <2>3, <2>6
<1> QED BY <1>1, <1>2, <1>3, <1>4, <1>5, <1>6, <1>7, <1>8, <1>9, <1>10 DEF Next, Step

(* After a run all files are done.                                         *)
LEMMA AllDone ==
  ASSUME TypeInv, run.pc = "off", run.pass > 0
  PROVE  Done = Given
<1>1. IsOrder(run.order)
  BY InHandIs
<1>2. Done = {run.order[i] : i \in 1..Len(run.order)}
  BY DEF Done
<1> QED BY <1>1, <1>2, Members DEF IsOrder

(* What a run that wrote nothing in its last pass tells is what a check of *)
(* the tree it leaves would, even when writes failed.                      *)
THEOREM ReportIsTrue == Spec => []ReportIsTheTree
<1>1. Init => TypeInv /\ InHand /\ Told
  BY InitType, ToldInit
<1>2. TypeInv /\ InHand /\ Told /\ [Next]_vars => TypeInv' /\ InHand' /\ Told'
  BY NextType, NextTold
<1>3. TypeInv /\ Told => ReportIsTheTree
  <2> SUFFICES ASSUME TypeInv, Told, Ended, run.wrote = {}
               PROVE  run.diags = CheckTree(disk)
    BY DEF ReportIsTheTree
  <2>1. Quiet /\ ~run.unread /\ run.pc = "off" /\ run.pass > 0
    BY DEF Ended, Quiet
  <2>2. run.diags = UNION {CheckFile(f, disk[f], disk) : f \in Given}
    BY <2>1, AllDone DEF Told
  <2> QED BY <2>2 DEF CheckTree
<1> QED BY <1>1, <1>2, <1>3, PTL DEF Spec

-----------------------------------------------------------------------------
(* The passes.                                                             *)

(* A run that nothing disturbs, of rules that settle.                      *)
Smooth == Quiet /\ ~run.unread /\ ~run.unwritten /\ RulesSettle

(* Each own text changes once, in the first pass.                          *)
OwnSettles ==
  Smooth => \A f \in File :
    disk[f].own = IF (f \in Given /\ run.pass > 1) \/ f \in Seen
                  THEN FixedOwn[run.input[f].own] ELSE run.input[f].own

(* The rules settle as before, as long as the run is the same.             *)
LEMMA SameRules ==
  ASSUME run'.input = run.input
  PROVE  RulesSettle' <=> RulesSettle
BY DEF RulesSettle

LEMMA SmoothInFile ==
  ASSUME InFile
  PROVE  Smooth' <=> Smooth
<1>1. RulesSettle' <=> RulesSettle
  BY SameRules DEF InFile, KeepsRun
<1> QED BY <1>1 DEF Smooth, Quiet, InFile, KeepsRun

LEMMA SmoothAdvance ==
  ASSUME KeepsRun, run.pass > 0, run'.unread = run.unread, run'.unwritten = run.unwritten
  PROVE  Smooth' => Smooth
<1>1. RulesSettle' <=> RulesSettle
  BY SameRules DEF KeepsRun
<1> QED BY <1>1 DEF Smooth, Quiet, KeepsRun

(* The files seen are some to fix.                                         *)
LEMMA SeenIs ==
  ASSUME TypeInv, run.pc # "off"
  PROVE  /\ Seen \subseteq Given
         /\ run.pc # "check" => f0 \notin Seen /\ Seen = Done
         /\ run.pc = "check" => Seen = Done \cup {f0}
BY DoneIs DEF Seen

(* A text that the rules have been through once, they leave alone.         *)
LEMMA OwnIsFixed ==
  ASSUME TypeInv, OwnSettles, Smooth, NEW f \in Given, run.pass > 1 \/ f \in Seen
  PROVE  FixedOwn[disk[f].own] = disk[f].own
<1>1. f \in File
  BY GivenFiles
<1>2. disk[f].own = FixedOwn[run.input[f].own]
  BY <1>1 DEF OwnSettles
<1>3. FixedOwn[FixedOwn[run.input[f].own]] = FixedOwn[run.input[f].own]
  BY DEF Smooth, RulesSettle
<1> QED BY <1>2, <1>3

(* In any pass, fixing the own text of the file in hand twice is as good   *)
(* as once.                                                                *)
LEMMA FixedOwnTwice ==
  ASSUME TypeInv, OwnSettles, Smooth, run.pc # "off"
  PROVE  FixedOwn[FixedOwn[disk[f0].own]] = FixedOwn[disk[f0].own]
<1>1. f0 \in Given /\ f0 \in File
  BY DoneIs
<1>2. \/ disk[f0].own = FixedOwn[run.input[f0].own]
      \/ disk[f0].own = run.input[f0].own
  BY <1>1 DEF OwnSettles
<1>3. FixedOwn[FixedOwn[run.input[f0].own]] = FixedOwn[run.input[f0].own]
  BY <1>1 DEF Smooth, RulesSettle
<1> QED BY <1>2, <1>3

LEMMA InitNotSmooth == Init => ~Smooth
<1>1. Init => run = NoRun(disk)
  BY DEF Init
<1> QED BY <1>1, NoRunIs DEF Smooth, Quiet

LEMMA OwnInit == Init => OwnSettles
BY InitNotSmooth DEF OwnSettles

LEMMA OwnStart == ASSUME TypeInv, Start PROVE OwnSettles'
<1>1. disk' = disk
  BY DEF Start
<1>2. /\ run'.pc = "read" /\ run'.pass = 1 /\ run'.input = disk /\ Done' = {}
  BY StartIs
<1>3. Seen' = {}
  BY <1>2 DEF Seen
<1> QED BY <1>1, <1>2, <1>3 DEF OwnSettles

LEMMA OwnRead == ASSUME TypeInv, OwnSettles, Read PROVE OwnSettles'
<1>1. disk' = disk /\ run.pc = "read"
  BY DEF Read
<1>2. InFile /\ run'.pc = "fix"
  BY ReadIs
<1>3. Seen' = Seen
  BY <1>1, <1>2 DEF Seen, InFile
<1>4. Smooth' <=> Smooth
  BY <1>2, SmoothInFile
<1>5. run'.input = run.input /\ run'.pass = run.pass
  BY <1>2 DEF InFile, KeepsRun
<1> QED BY <1>1, <1>3, <1>4, <1>5 DEF OwnSettles

(* What the rules leave alone is what is on disk.                          *)
LEMMA NothingToFix ==
  ASSUME TypeInv, InHand, Quiet, Fix, run'.pc = "check"
  PROVE  Settled(f0) /\ FixedOwn[disk[f0].own] = disk[f0].own
<1> DEFINE new == Fixed(f0, run.text, disk)
<1>1. run.pc = "fix"
  BY DEF Fix
<1>2. /\ run'.pc = (IF new # run.text /\ ~run.dry THEN "write" ELSE "check")
      /\ IsText(net, f0, run.text)
  BY FixIs
<1>3. ~run.dry /\ run.text = disk[f0]
  BY <1>1 DEF Quiet, InHand
<1>4. new = disk[f0]
  BY <1>2, <1>3
<1>5. new.own = FixedOwn[run.text.own]
  BY <1>1, <1>2, DoneIs, FixedIs DEF TypeInv
<1> QED BY <1>3, <1>4, <1>5 DEF Settled

LEMMA OwnFix == ASSUME TypeInv, InHand, OwnSettles, Fix PROVE OwnSettles'
<1>1. disk' = disk /\ run.pc = "fix"
  BY DEF Fix
<1>2. InFile /\ run'.pc \in {"write", "check"}
  BY FixIs
<1>3. Smooth' <=> Smooth
  BY <1>2, SmoothInFile
<1>4. run'.input = run.input /\ run'.pass = run.pass /\ Done' = Done /\ f0' = f0
  BY <1>2 DEF InFile, KeepsRun
<1>5. Seen = Done /\ (run'.pc = "write" => Seen' = Seen) /\ (run'.pc = "check" => Seen' = Seen \cup {f0})
  BY <1>1, <1>4 DEF Seen
<1>6. ASSUME Smooth, run'.pc = "check"
      PROVE  disk[f0].own = FixedOwn[run.input[f0].own]
  <2>1. FixedOwn[disk[f0].own] = disk[f0].own
    BY <1>6, NothingToFix DEF Smooth
  <2>2. f0 \in File
    BY <1>1, DoneIs
  <2>3. \/ disk[f0].own = FixedOwn[run.input[f0].own]
        \/ disk[f0].own = run.input[f0].own
    BY <1>6, <2>2 DEF OwnSettles
  <2> QED BY <2>1, <2>3
<1> QED BY <1>1, <1>2, <1>3, <1>4, <1>5, <1>6 DEF OwnSettles

(* A write makes of the own text what the rules make of it.                *)
LEMMA WrittenIs ==
  ASSUME TypeInv, InHand, Quiet, Write
  PROVE  /\ f0 \in Given /\ f0 \in File /\ f0 \notin Done
         /\ disk'[f0] = Fixed(f0, disk[f0], disk)
         /\ disk'[f0].own = FixedOwn[disk[f0].own]
         /\ \A f \in File : f # f0 => disk'[f] = disk[f]
         /\ Seen' = Seen \cup {f0}
<1>1. run.pc = "write"
  BY DEF Write
<1>2. /\ InFile /\ run'.pc = "check"
      /\ disk'[f0] = run.new /\ \A f \in File : f # f0 => disk'[f] = disk[f]
  BY WriteIs
<1>3. run.text = disk[f0] /\ run.new = Fixed(f0, run.text, disk)
  BY <1>1 DEF InHand
<1>4. f0 \in Given /\ f0 \in File /\ f0 \notin Done
  BY <1>1, DoneIs
<1>5. IsText(net, f0, disk[f0]) /\ net \in Nets
  BY <1>4 DEF TypeInv, Texts, IsTree
<1>6. Fixed(f0, disk[f0], disk).own = FixedOwn[disk[f0].own]
  BY <1>4, <1>5, FixedIs
<1>7. Seen' = Seen \cup {f0}
  BY <1>1, <1>2 DEF Seen, InFile
<1> QED BY <1>2, <1>3, <1>4, <1>6, <1>7

LEMMA OwnWrite == ASSUME TypeInv, InHand, OwnSettles, Write PROVE OwnSettles'
<1>1. InFile
  BY WriteIs
<1>2. Smooth' <=> Smooth
  BY <1>1, SmoothInFile
<1>3. run'.input = run.input /\ run'.pass = run.pass
  BY <1>1 DEF InFile, KeepsRun
<1> SUFFICES ASSUME Smooth
             PROVE  \A f \in File :
                      disk'[f].own = IF (f \in Given /\ run.pass > 1) \/ f \in Seen'
                                     THEN FixedOwn[run.input[f].own] ELSE run.input[f].own
  BY <1>2, <1>3 DEF OwnSettles
<1>4. /\ f0 \in Given /\ f0 \in File
      /\ disk'[f0].own = FixedOwn[disk[f0].own]
      /\ \A f \in File : f # f0 => disk'[f] = disk[f]
      /\ Seen' = Seen \cup {f0}
  BY WrittenIs DEF Smooth
<1>5. FixedOwn[disk[f0].own] = FixedOwn[run.input[f0].own]
  <2>1. \/ disk[f0].own = FixedOwn[run.input[f0].own]
        \/ disk[f0].own = run.input[f0].own
    BY <1>4 DEF OwnSettles
  <2>2. FixedOwn[FixedOwn[run.input[f0].own]] = FixedOwn[run.input[f0].own]
    BY <1>4 DEF Smooth, RulesSettle
  <2> QED BY <2>1, <2>2
<1>6. \A f \in File : f # f0 =>
        disk[f].own = IF (f \in Given /\ run.pass > 1) \/ f \in Seen
                      THEN FixedOwn[run.input[f].own] ELSE run.input[f].own
  BY DEF OwnSettles
<1> QED BY <1>4, <1>5, <1>6

LEMMA OwnAdvance ==
  ASSUME TypeInv, OwnSettles, run.pc # "off", UNCHANGED <<net, disk>>,
         NEW before \in SUBSET Diagnostics, NEW after \in SUBSET Diagnostics,
         NEW unread \in BOOLEAN, NEW unwritten \in BOOLEAN,
         run' = [NextFile(run, before, after) EXCEPT !.unread = unread, !.unwritten = unwritten],
         \/ run.pc = "check" /\ unread = run.unread /\ unwritten = run.unwritten
         \/ unread \/ unwritten
  PROVE  OwnSettles'
<1>1. /\ KeepsRun /\ run'.unread = unread /\ run'.unwritten = unwritten
      /\ run'.pc \in {"read", "off"}
      /\ SamePass(after) \/ NextPass
  BY AdvanceIs
<1> SUFFICES ASSUME Smooth' PROVE OwnSettles'
  BY DEF OwnSettles
<1>2. run.pc = "check" /\ unread = run.unread /\ unwritten = run.unwritten
  BY <1>1 DEF Smooth
<1>3. run.pass > 0 /\ run.pass \in Nat /\ f0 \in Given /\ f0 \notin Done /\ Done \subseteq Given
  BY DoneIs, Bounds DEF TypeInv, RunOK
<1>4. Smooth
  BY <1>1, <1>2, <1>3, SmoothAdvance
<1>5. Seen' = Done' /\ Seen = Done \cup {f0} /\ run'.input = run.input
  BY <1>1, <1>2 DEF Seen, KeepsRun
<1>6. \A f \in File :
        disk[f].own = IF (f \in Given /\ run.pass > 1) \/ f \in Seen
                      THEN FixedOwn[run.input[f].own] ELSE run.input[f].own
  BY <1>4 DEF OwnSettles
<1>7. CASE SamePass(after)
  <2>1. Done' = Done \cup {f0} /\ run'.pass = run.pass
    BY <1>7 DEF SamePass
  <2> QED BY <1>5, <1>6, <2>1 DEF OwnSettles
<1>8. CASE NextPass
  <2>1. Done' = {} /\ Done \cup {f0} = Given /\ run'.pass = run.pass + 1
    BY <1>8 DEF NextPass
  <2>2. run'.pass > 1
    BY <1>3, <2>1
  <2> QED BY <1>5, <1>6, <2>1, <2>2 DEF OwnSettles
<1> QED BY <1>1, <1>7, <1>8

LEMMA NotSmooth ==
  ASSUME run'.saved \/ run'.pass = 0 \/ run'.unread \/ run'.unwritten
  PROVE  ~Smooth'
BY DEF Smooth, Quiet

LEMMA NextOwn == TypeInv /\ InHand /\ OwnSettles /\ [Next]_vars => OwnSettles'
<1> SUFFICES ASSUME TypeInv, InHand, OwnSettles, [Next]_vars PROVE OwnSettles'
  OBVIOUS
<1>1. CASE Start
  BY <1>1, OwnStart
<1>2. CASE Read
  BY <1>2, OwnRead
<1>3. CASE Fix
  BY <1>3, OwnFix
<1>4. CASE Write
  BY <1>4, OwnWrite
<1>5. CASE Recheck
  BY <1>5, RecheckIs, OwnAdvance
<1>6. CASE ReadFails
  BY <1>6, ReadFailsIs, OwnAdvance
<1>7. CASE WriteFails
  BY <1>7, WriteFailsIs, OwnAdvance
<1>8. CASE \E f \in File : \E own \in Own[f] : Save(f, own)
  BY <1>8, SaveIs, NotSmooth DEF OwnSettles
<1>9. CASE Crash
  BY <1>9, NoRunIs, NotSmooth DEF OwnSettles, Crash
<1>10. CASE UNCHANGED vars
  BY <1>10 DEF vars, OwnSettles, Smooth, Quiet, RulesSettle, Seen, Done, f0
<1> QED BY <1>1, <1>2, <1>3, <1>4, <1>5, <1>6, <1>7, <1>8, <1>9, <1>10 DEF Next, Step

-----------------------------------------------------------------------------
(* Sources of sections.                                                    *)

(* The targets of directives, and which they are.                          *)
LEMMA NetType ==
  ASSUME NEW n \in Nets, NEW f \in File, NEW s \in n.sections[f]
  PROVE  /\ s \in Directive
         /\ s.kind \in {"include", "extract", "catalog"}
         /\ s.kind # "catalog" => s \in Includes(n, f) /\ s.target \in File \cup {Nowhere}
         /\ s.kind = "catalog" => s \in Catalogs(n, f) /\ s.target \subseteq File
<1>1. \/ s.kind \in {"include", "extract"} /\ s.target \in File \cup {Nowhere}
      \/ s.kind = "catalog" /\ s.target \subseteq File
  BY ConstantsAssumption DEF Netlike
<1>2. s \in Directive
  BY DEF Directive
<1> QED BY <1>1, <1>2 DEF Includes, Catalogs

(* A chain of includes, by its places.                                     *)
IsChain(n, s, w) ==
  /\ w \in Seq(Directive)
  /\ Len(w) >= 1 /\ Len(w) <= MaxIncludeDepth + 1
  /\ w[1] = s
  /\ \A i \in 1..(Len(w) - 1) :
       w[i].kind = "include" /\ w[i].target \in File /\ w[i + 1] \in Includes(n, w[i].target)

LEMMA ChainIs ==
  ASSUME NEW n, NEW s, NEW w
  PROVE  w \in Chains(n, s) <=> IsChain(n, s, w)
<1> DEFINE N == MaxIncludeDepth + 1
<1>1. N \in Nat
  BY ConstantsAssumption
<1>2. w \in BoundedSeq(Directive, N) <=> w \in Seq(Directive) /\ Len(w) <= N
  <2>1. ASSUME w \in BoundedSeq(Directive, N) PROVE w \in Seq(Directive) /\ Len(w) <= N
    <3>1. PICK m \in 0..N : w \in [1..m -> Directive]
      BY <2>1 DEF BoundedSeq, SeqOf
    <3>2. m \in Nat /\ m <= N
      BY <1>1
    <3> HIDE DEF N
    <3>3. w \in Seq(Directive)
      BY <3>1, <3>2, SeqDef
    <3> QED BY <3>1, <3>2, <3>3
  <2>2. ASSUME w \in Seq(Directive), Len(w) <= N PROVE w \in BoundedSeq(Directive, N)
    <3>1. Len(w) \in 0..N /\ w \in [1..Len(w) -> Directive]
      BY <1>1, <2>2
    <3> QED BY <3>1 DEF BoundedSeq, SeqOf
  <2> QED BY <2>1, <2>2
<1>3. w \in Seq(Directive) => (w # <<>> <=> Len(w) >= 1)
  OBVIOUS
<1>4. w \in Chains(n, s) <=>
        /\ w \in BoundedSeq(Directive, N)
        /\ w # <<>> /\ w[1] = s
        /\ \A i \in 1..(Len(w) - 1) :
             w[i].kind = "include" /\ w[i].target \in File /\ w[i + 1] \in Includes(n, w[i].target)
  BY DEF Chains
<1> QED BY <1>2, <1>3, <1>4 DEF IsChain

(* A chain that is not too long goes on with any include of its last file. *)
LEMMA ChainGoesOn ==
  ASSUME NEW n \in Nets, NEW s, NEW w, IsChain(n, s, w), Len(w) <= MaxIncludeDepth,
         Last(w).kind = "include", Last(w).target \in File,
         NEW t \in Includes(n, Last(w).target)
  PROVE  IsChain(n, s, Append(w, t)) /\ Last(Append(w, t)) = t
<1> DEFINE v == Append(w, t)
<1>1. t \in Directive
  BY NetType DEF Includes
<1>2. /\ w \in Seq(Directive) /\ Len(w) \in Nat /\ Len(w) >= 1 /\ MaxIncludeDepth \in Nat
      /\ Last(w) = w[Len(w)]
  BY ConstantsAssumption DEF IsChain, Last
<1>3. /\ v \in Seq(Directive) /\ Len(v) = Len(w) + 1
      /\ \A i \in 1..Len(w) : v[i] = w[i]
      /\ v[Len(w) + 1] = t
  BY <1>1, <1>2
<1> HIDE DEF v
<1>4. ASSUME NEW i \in 1..(Len(v) - 1)
      PROVE  v[i].kind = "include" /\ v[i].target \in File /\ v[i + 1] \in Includes(n, v[i].target)
  <2>1. CASE i = Len(w)
    BY <1>2, <1>3, <2>1
  <2>2. CASE i # Len(w)
    <3>1. i \in 1..(Len(w) - 1) /\ i \in 1..Len(w) /\ i + 1 \in 1..Len(w)
      BY <1>2, <1>3, <2>2
    <3> QED BY <1>3, <3>1 DEF IsChain
  <2> QED BY <2>1, <2>2
<1>5. v[1] = s
  BY <1>2, <1>3 DEF IsChain
<1>6. IsChain(n, s, v) /\ Last(v) = t
  BY <1>2, <1>3, <1>4, <1>5 DEF IsChain, Last
<1> QED BY <1>6 DEF v

(* An include is a chain by itself.                                        *)
LEMMA ChainStarts ==
  ASSUME NEW n \in Nets, NEW f \in File, NEW s \in Includes(n, f)
  PROVE  IsChain(n, s, <<s>>) /\ Last(<<s>>) = s
<1>1. s \in Directive
  BY NetType DEF Includes
<1>2. <<s>> \in Seq(Directive) /\ Len(<<s>>) = 1 /\ <<s>>[1] = s
  BY <1>1
<1>3. MaxIncludeDepth \in Nat
  BY ConstantsAssumption
<1>4. \A i \in 1..(Len(<<s>>) - 1) : FALSE
  BY <1>2
<1> QED BY <1>2, <1>3, <1>4 DEF IsChain, Last

(* An include that is not broken has another file as its target.           *)
LEMMA TargetIs ==
  ASSUME NEW n \in Nets, NEW f \in File, NEW s \in Includes(n, f), ~Expansion[n][f][s].broken
  PROVE  s.target \in File /\ s.target # f
<1>1. <<s>> \in Chains(n, s) /\ Last(<<s>>) = s
  BY ChainStarts, ChainIs
<1>2. ~Unusable(f, <<s>>)
  BY <1>1, ExpansionIs
<1>3. s.target \in File \cup {Nowhere}
  BY NetType DEF Includes
<1> QED BY <1>1, <1>2, <1>3 DEF Unusable

(* What its sections extract from are files.                               *)
LEMMA LeavesAreFiles ==
  ASSUME NEW n \in Nets, NEW f \in File, NEW s \in Includes(n, f), ~Expansion[n][f][s].broken,
         NEW t \in Expansion[n][f][s].leaves
  PROVE  /\ t.target \in File
         /\ t = s \/ \E x \in Expansion[n][f][s].files : t \in Includes(n, x)
<1> DEFINE files == Expansion[n][f][s].files
<1>1. t.kind = "extract" /\ (t = s \/ \E x \in files : t \in n.sections[x])
  BY ExpansionIs
<1>2. CASE t = s
  BY <1>2, TargetIs
<1>3. ASSUME NEW x \in files, t \in n.sections[x]
      PROVE  t.target \in File /\ t \in Includes(n, x)
  <2>1. x \in File
    BY ExpansionIs
  <2>2. t \in Includes(n, x) /\ t.target \in File \cup {Nowhere}
    BY <1>1, <1>3, <2>1, NetType
  <2>3. PICK w \in Chains(n, s) : Last(w).kind = "include" /\ Last(w).target = x
    BY ExpansionIs
  <2>4. ~Unusable(f, w) /\ IsChain(n, s, w)
    BY <2>3, ExpansionIs, ChainIs
  <2>5. Len(w) <= MaxIncludeDepth
    BY <2>4, ConstantsAssumption DEF Unusable, IsChain
  <2>6. IsChain(n, s, Append(w, t)) /\ Last(Append(w, t)) = t
    BY <2>1, <2>2, <2>3, <2>4, <2>5, ChainGoesOn
  <2>7. ~Unusable(f, Append(w, t))
    BY <2>6, ChainIs, ExpansionIs
  <2>8. t.target # Nowhere
    BY <2>6, <2>7 DEF Unusable
  <2> QED BY <2>2, <2>8
<1> QED BY <1>1, <1>2, <1>3

(* The includes of a file that go through, the files that they expand, and *)
(* those that leaves are extracted from.                                   *)
Used(f) == {s \in Includes(net, f) : ~Expansion[net][f][s].broken}
Reached(f) == UNION {Expansion[net][f][s].files : s \in Used(f)}
Drawn(f) == {t.target : t \in UNION {Expansion[net][f][s].leaves : s \in Used(f)}}

LEMMA ReachedIs ==
  ASSUME net \in Nets, NEW f \in File
  PROVE  Reached(f) \subseteq File /\ Drawn(f) \subseteq File
<1>1. ASSUME NEW s \in Used(f) PROVE Expansion[net][f][s].files \subseteq File
  BY ExpansionIs DEF Used
<1>2. ASSUME NEW s \in Used(f), NEW t \in Expansion[net][f][s].leaves PROVE t.target \in File
  BY LeavesAreFiles DEF Used
<1> QED BY <1>1, <1>2 DEF Reached, Drawn

LEMMA LateIs ==
  ASSUME NEW f
  PROVE  Late(net, f) = {x \in Given : \/ x \in Reached(f) /\ Catalogs(net, x) # {}
                                       \/ net.sections[x] # {} /\ x \in Drawn(f)}
<1> DEFINE used == {s \in Includes(net, f) : ~Expansion[net][f][s].broken}
           files == UNION {Expansion[net][f][s].files : s \in used}
           leaves == UNION {Expansion[net][f][s].leaves : s \in used}
<1>1. used = Used(f)
  BY DEF Used
<1>2. files = Reached(f)
  BY <1>1 DEF Reached
<1>3. \A x : x \in Drawn(f) <=> \E t \in leaves : t.target = x
  BY <1>1 DEF Drawn
<1>4. Late(net, f) = {x \in Given : \/ x \in files /\ Catalogs(net, x) # {}
                                    \/ net.sections[x] # {} /\ \E t \in leaves : t.target = x}
  BY DEF Late
<1> HIDE DEF files, leaves
<1> QED BY <1>2, <1>3, <1>4

(* Two trees that are the same in all that the sections of a file copy.    *)
Alike(f, d, e) ==
  /\ \A s \in Catalogs(net, f) : \A g \in s.target : d[g].own \cap Matter = e[g].own \cap Matter
  /\ \A x \in Reached(f) : /\ d[x].own = e[x].own
                           /\ \A t \in Catalogs(net, x) : d[x].made[t] = e[x].made[t]
  /\ \A x \in Drawn(f) : d[x] = e[x]

LEMMA GeneratedIs ==
  ASSUME NEW f, NEW s, NEW d
  PROVE  /\ s.kind = "include" =>
              Generated(f, s, d) = [x \in Expansion[net][f][s].files |-> Copy(x, d)]
         /\ s.kind = "extract" => Generated(f, s, d) = Leaf(s, d[s.target])
         /\ s.kind = "catalog" =>
              Generated(f, s, d) = IF Listed(s, d) = {} THEN Blank
                                   ELSE [g \in Listed(s, d) |-> d[g].own \cap Matter]
<1>1. "include" # "extract" /\ "include" # "catalog" /\ "extract" # "catalog"
  OBVIOUS
<1> QED BY <1>1, Zenon DEF Generated

LEMMA ListedIs ==
  ASSUME NEW s, NEW d, NEW e, \A g \in s.target : d[g].own \cap Matter = e[g].own \cap Matter
  PROVE  Listed(s, d) = Listed(s, e) /\ Listed(s, d) \subseteq s.target
<1>1. Hidden \subseteq Matter
  BY ConstantsAssumption
<1>2. \A g \in s.target : d[g].own \cap Hidden = {} <=> e[g].own \cap Hidden = {}
  BY <1>1
<1> QED BY <1>2 DEF Listed

(* They refuse the same sections of the file, and make the others alike.   *)
LEMMA AlikeSections ==
  ASSUME net \in Nets, NEW f \in File, NEW s \in net.sections[f], NEW old, NEW d, NEW e,
         Alike(f, d, e)
  PROVE  /\ Refused(f, s, old, d) <=> Refused(f, s, old, e)
         /\ ~Refused(f, s, old, d) => Generated(f, s, d) = Generated(f, s, e)
<1> DEFINE x == Expansion[net][f][s]
<1>1. CASE s.kind = "catalog"
  <2>1. s \in Catalogs(net, f)
    BY <1>1, NetType
  <2>2. \A g \in s.target : d[g].own \cap Matter = e[g].own \cap Matter
    BY <2>1 DEF Alike
  <2>3. Listed(s, d) = Listed(s, e) /\ Listed(s, d) \subseteq s.target
    BY <2>2, ListedIs
  <2>4. Refused(f, s, old, d) <=> Refused(f, s, old, e)
    BY <1>1, <2>3 DEF Refused
  <2>5. [g \in Listed(s, d) |-> d[g].own \cap Matter] = [g \in Listed(s, e) |-> e[g].own \cap Matter]
    BY <2>2, <2>3
  <2>6. /\ Generated(f, s, d) = IF Listed(s, d) = {} THEN Blank
                                ELSE [g \in Listed(s, d) |-> d[g].own \cap Matter]
        /\ Generated(f, s, e) = IF Listed(s, e) = {} THEN Blank
                                ELSE [g \in Listed(s, e) |-> e[g].own \cap Matter]
    BY <1>1, GeneratedIs
  <2>7. Generated(f, s, d) = Generated(f, s, e)
    <3>1. CASE Listed(s, d) = {}
      BY <2>3, <2>6, <3>1, Zenon
    <3>2. CASE Listed(s, d) # {}
      <4>1. Listed(s, e) # {}
        BY <2>3, <3>2
      <4> QED BY <2>5, <2>6, <3>2, <4>1, Zenon
    <3> QED BY <3>1, <3>2
  <2> QED BY <2>4, <2>7
<1>2. ASSUME s.kind # "catalog", x.broken
      PROVE  Refused(f, s, old, d) /\ Refused(f, s, old, e)
  BY <1>2 DEF Refused
<1>3. ASSUME s.kind # "catalog", ~x.broken
      PROVE  /\ s \in Used(f)
             /\ \A t \in x.leaves : d[t.target] = e[t.target]
             /\ Refused(f, s, old, d) <=> Refused(f, s, old, e)
  <2>1. s \in Used(f)
    BY <1>3, NetType DEF Used
  <2>2. \A t \in x.leaves : t.target \in Drawn(f)
    BY <2>1 DEF Drawn
  <2>3. \A t \in x.leaves : d[t.target] = e[t.target]
    BY <2>2 DEF Alike
  <2> HIDE DEF x
  <2>4. (\E t \in x.leaves : ~Projects(t, d[t.target])) <=> \E t \in x.leaves : ~Projects(t, e[t.target])
    BY <2>3
  <2> QED BY <1>3, <2>1, <2>3, <2>4 DEF Refused, x
<1>4. ASSUME s.kind = "extract", ~x.broken
      PROVE  Generated(f, s, d) = Generated(f, s, e)
  <2>1. s \in Includes(net, f) /\ s.kind # "catalog"
    BY <1>4, NetType
  <2>2. s \in x.leaves
    BY <1>4, <2>1, ExpansionIs
  <2>3. d[s.target] = e[s.target]
    BY <1>3, <1>4, <2>1, <2>2
  <2> QED BY <1>4, <2>3, GeneratedIs
<1>5. ASSUME s.kind = "include", ~x.broken
      PROVE  Generated(f, s, d) = Generated(f, s, e)
  <2>1. s \in Includes(net, f) /\ s \in Used(f) /\ \A t \in x.leaves : d[t.target] = e[t.target]
    BY <1>3, <1>5, NetType
  <2>2. ASSUME NEW h \in x.files PROVE Copy(h, d) = Copy(h, e)
    <3>1. h \in Reached(f)
      BY <2>1 DEF Reached
    <3>2. d[h].own = e[h].own /\ \A t \in Catalogs(net, h) : d[h].made[t] = e[h].made[t]
      BY <3>1 DEF Alike
    <3>3. \A t \in Includes(net, h) : t.kind = "extract" => t \in x.leaves
      BY <2>1, ExpansionIs DEF Includes
    <3>4. [t \in Catalogs(net, h) |-> d[h].made[t]] = [t \in Catalogs(net, h) |-> e[h].made[t]]
      BY <3>2
    <3> DEFINE extracts == {t \in Includes(net, h) : t.kind = "extract"}
    <3>5. \A t \in extracts : d[t.target] = e[t.target]
      BY <2>1, <3>3
    <3> HIDE DEF extracts
    <3>6. [t \in extracts |-> Leaf(t, d[t.target])] = [t \in extracts |-> Leaf(t, e[t.target])]
      BY <3>5
    <3> QED BY <3>2, <3>4, <3>6 DEF Copy, extracts
  <2> HIDE DEF x
  <2>3. [h \in x.files |-> Copy(h, d)] = [h \in x.files |-> Copy(h, e)]
    BY <2>2
  <2> QED BY <1>5, <2>3, GeneratedIs DEF x
<1>6. s.kind \in {"include", "extract", "catalog"}
  BY NetType
<1> HIDE DEF x
<1> QED BY <1>1, <1>2, <1>3, <1>4, <1>5, <1>6

LEMMA AlikeFixed ==
  ASSUME net \in Nets, NEW f \in File, NEW text, IsText(net, f, text), NEW d, NEW e, Alike(f, d, e)
  PROVE  Fixed(f, text, d) = Fixed(f, text, e)
<1> DEFINE t == Fixed(f, text, d)
           u == Fixed(f, text, e)
<1>1. /\ IsText(net, f, t) /\ t.own = FixedOwn[text.own]
      /\ \A s \in net.sections[f] : t.made[s] =
           IF Refused(f, s, text.made[s], d) THEN text.made[s] ELSE Generated(f, s, d)
  BY FixedIs
<1>2. /\ IsText(net, f, u) /\ u.own = FixedOwn[text.own]
      /\ \A s \in net.sections[f] : u.made[s] =
           IF Refused(f, s, text.made[s], e) THEN text.made[s] ELSE Generated(f, s, e)
  BY FixedIs
<1> HIDE DEF t, u
<1>3. \A s \in net.sections[f] : t.made[s] = u.made[s]
  BY <1>1, <1>2, AlikeSections
<1>4. t = u
  BY <1>1, <1>2, <1>3, SameText
<1> QED BY <1>4 DEF t, u

(* Trees that differ in one file are alike for those that copy nothing of  *)
(* what differs.                                                           *)
LEMMA AlikeBut ==
  ASSUME net \in Nets, NEW f \in File, NEW g, NEW d, NEW e,
         \A x \in File : x # g => d[x] = e[x],
         d[g].own \cap Matter = e[g].own \cap Matter,
         g \in Reached(f) => /\ d[g].own = e[g].own
                             /\ \A t \in Catalogs(net, g) : d[g].made[t] = e[g].made[t],
         g \in Drawn(f) => d[g] = e[g]
  PROVE  Alike(f, d, e)
<1>1. Reached(f) \subseteq File /\ Drawn(f) \subseteq File
  BY ReachedIs
<1>2. \A s \in Catalogs(net, f) : s.target \subseteq File
  BY NetType DEF Catalogs
<1> QED BY <1>1, <1>2 DEF Alike

-----------------------------------------------------------------------------
(* Idle passes.                                                            *)

LEMMA SettledNext ==
  ASSUME net' = net, NEW f
  PROVE  Settled(f)' <=> Fixed(f, disk'[f], disk') = disk'[f]
BY DEF Settled, Fixed, Regenerated, Refused, Generated, Copy, Listed

(* A file stays settled while neither it nor what it copies changes.       *)
LEMMA StaysSettled ==
  ASSUME TypeInv, net' = net, NEW f \in File, Settled(f), disk'[f] = disk[f],
         Alike(f, disk, disk')
  PROVE  Settled(f)'
<1>1. IsText(net, f, disk[f]) /\ net \in Nets
  BY DEF TypeInv, Texts, IsTree
<1>2. Fixed(f, disk[f], disk) = Fixed(f, disk[f], disk')
  BY <1>1, AlikeFixed
<1> QED BY <1>2, SettledNext DEF Settled

(* A file is settled once written, unless it copies what the write changed. *)
LEMMA WriteSettles ==
  ASSUME TypeInv, InHand, OwnSettles, Smooth, Write, Alike(f0, disk, disk'), NEW f, f = f0
  PROVE  Settled(f)'
<1> DEFINE new == Fixed(f, disk[f], disk)
<1>1. run.pc = "write" /\ net' = net
  BY DEF Write
<1>2. f \in File /\ disk'[f] = new
  BY WrittenIs DEF Smooth
<1>3. net \in Nets /\ IsTree(disk) /\ IsText(net, f, disk[f])
  BY <1>2 DEF TypeInv, Texts, IsTree
<1>4. FixedOwn[FixedOwn[disk[f].own]] = FixedOwn[disk[f].own]
  BY <1>1, FixedOwnTwice
<1>5. Fixed(f, new, disk) = new
  BY <1>2, <1>3, <1>4, FixTwice
<1>6. IsText(net, f, new)
  BY <1>2, <1>3, FixedIs
<1> HIDE DEF new
<1>7. Fixed(f, new, disk) = Fixed(f, new, disk')
  BY <1>2, <1>3, <1>6, AlikeFixed
<1> QED BY <1>1, <1>2, <1>5, <1>7, SettledNext

(* Pass due[f] leaves the file f settled, and later ones do not write it:  *)
(* so there is at most one pass after those in which files are due.        *)
Idle(due) ==
  /\ \A f \in Given : /\ run.pass > due[f] \/ (run.pass = due[f] /\ f \in Seen) => Settled(f)
                      /\ run.pass > due[f] => f \notin run.wrote /\ ~(run.pc = "write" /\ f0 = f)
  /\ \A k \in Nat : (\A f \in Given : due[f] <= k) => run.pass <= k + 1

Dues == [Given -> Nat \ {0}]

LEMMA IdleRead ==
  ASSUME TypeInv, NEW due \in Dues, Smooth => Idle(due), Read
  PROVE  Smooth' => Idle(due)'
<1>1. UNCHANGED <<net, disk>> /\ run.pc = "read"
  BY DEF Read
<1>2. InFile /\ run'.pc = "fix" /\ run'.wrote = run.wrote
  BY ReadIs
<1>3. Seen' = Seen /\ run'.pass = run.pass
  BY <1>1, <1>2 DEF Seen, InFile
<1>4. \A f : Settled(f)' <=> Settled(f)
  BY <1>1, SameTree
<1>5. Smooth' <=> Smooth
  BY <1>2, SmoothInFile
<1> QED BY <1>2, <1>3, <1>4, <1>5 DEF Idle

LEMMA IdleFix ==
  ASSUME TypeInv, InHand, NEW due \in Dues, Smooth => Idle(due), Fix
  PROVE  Smooth' => Idle(due)'
<1> DEFINE new == Fixed(f0, run.text, disk)
<1>1. UNCHANGED <<net, disk>> /\ run.pc = "fix"
  BY DEF Fix
<1>2. /\ InFile /\ run'.wrote = run.wrote
      /\ run'.pc = (IF new # run.text /\ ~run.dry THEN "write" ELSE "check")
  BY FixIs
<1>3. run'.pass = run.pass /\ Done' = Done /\ f0' = f0
  BY <1>2 DEF InFile
<1>4. Seen = Done /\ (run'.pc = "write" => Seen' = Seen) /\ (run'.pc = "check" => Seen' = Seen \cup {f0})
  BY <1>1, <1>3 DEF Seen
<1>5. Smooth' <=> Smooth
  BY <1>2, SmoothInFile
<1> SUFFICES ASSUME Smooth PROVE Idle(due)'
  BY <1>5
<1>6. \A f : Settled(f)' <=> Settled(f)
  BY <1>1, SameTree
<1>7. run'.pc = "check" => Settled(f0)
  BY NothingToFix DEF Smooth
<1>8. Settled(f0) => run'.pc = "check"
  BY <1>1, <1>2 DEF Smooth, InHand, Settled
<1>9. run'.pc \in {"write", "check"}
  BY <1>2
<1> HIDE DEF new
<1>10. ASSUME NEW f \in Given, run.pass > due[f] \/ (run.pass = due[f] /\ f \in Seen')
       PROVE  Settled(f)'
  BY <1>4, <1>6, <1>7, <1>9, <1>10 DEF Idle
<1>11. ASSUME NEW f \in Given, run.pass > due[f]
       PROVE  f \notin run'.wrote /\ ~(run'.pc = "write" /\ f0' = f)
  BY <1>2, <1>3, <1>8, <1>11 DEF Idle
<1>12. \A k \in Nat : (\A f \in Given : due[f] <= k) => run.pass <= k + 1
  BY DEF Idle
<1> QED BY <1>3, <1>10, <1>11, <1>12 DEF Idle

(* A write does not matter to the files whose pass it is or was, if they   *)
(* copy nothing of what it changes.                                        *)
LEMMA IdleWrite ==
  ASSUME TypeInv, InHand, OwnSettles, NEW due \in Dues, Smooth => Idle(due), Write,
         Smooth => \A f \in Given :
                     run.pass > due[f] \/ (run.pass = due[f] /\ f \in Seen \cup {f0})
                       => Alike(f, disk, disk')
  PROVE  Smooth' => Idle(due)'
<1>1. run.pc = "write" /\ net' = net
  BY DEF Write
<1>2. InFile /\ run'.pc = "check" /\ run'.wrote = run.wrote \cup {f0}
  BY WriteIs
<1>3. run'.pass = run.pass
  BY <1>2 DEF InFile
<1>4. Smooth' <=> Smooth
  BY <1>2, SmoothInFile
<1> SUFFICES ASSUME Smooth PROVE Idle(due)'
  BY <1>4
<1>5. /\ f0 \in Given /\ f0 \in File /\ f0 \notin Done
      /\ \A f \in File : f # f0 => disk'[f] = disk[f]
      /\ Seen' = Seen \cup {f0}
  BY WrittenIs DEF Smooth
<1>6. ~(run.pass > due[f0])
  BY <1>1, <1>5 DEF Idle
<1>7. ASSUME NEW f \in Given, run.pass > due[f] \/ (run.pass = due[f] /\ f \in Seen')
      PROVE  Settled(f)'
  <2>1. Alike(f, disk, disk')
    BY <1>5, <1>7
  <2>2. CASE f = f0
    <3>1. Alike(f0, disk, disk')
      BY <2>1, <2>2
    <3> QED BY <2>2, <3>1, WriteSettles
  <2>3. CASE f # f0
    <3>1. f \in File /\ disk'[f] = disk[f]
      BY <1>5, <2>3, GivenFiles
    <3>2. run.pass > due[f] \/ (run.pass = due[f] /\ f \in Seen)
      BY <1>5, <1>7, <2>3
    <3>3. Settled(f)
      BY <3>2 DEF Idle
    <3> QED BY <1>1, <2>1, <3>1, <3>3, StaysSettled
  <2> QED BY <2>2, <2>3
<1>8. ASSUME NEW f \in Given, run.pass > due[f]
      PROVE  f \notin run'.wrote /\ ~(run'.pc = "write" /\ f0' = f)
  BY <1>2, <1>6, <1>8 DEF Idle
<1>9. \A k \in Nat : (\A f \in Given : due[f] <= k) => run.pass <= k + 1
  BY DEF Idle
<1> QED BY <1>3, <1>7, <1>8, <1>9 DEF Idle

LEMMA IdleAdvance ==
  ASSUME TypeInv, NEW due \in Dues, Smooth => Idle(due), run.pc # "off",
         UNCHANGED <<net, disk>>,
         NEW before \in SUBSET Diagnostics, NEW after \in SUBSET Diagnostics,
         NEW unread \in BOOLEAN, NEW unwritten \in BOOLEAN,
         run' = [NextFile(run, before, after) EXCEPT !.unread = unread, !.unwritten = unwritten],
         \/ run.pc = "check" /\ unread = run.unread /\ unwritten = run.unwritten
         \/ unread \/ unwritten
  PROVE  Smooth' => Idle(due)'
<1>1. /\ KeepsRun /\ run'.unread = unread /\ run'.unwritten = unwritten
      /\ run'.pc \in {"read", "off"}
      /\ SamePass(after) \/ NextPass
  BY AdvanceIs
<1> SUFFICES ASSUME Smooth' PROVE Idle(due)'
  OBVIOUS
<1>2. run.pc = "check" /\ unread = run.unread /\ unwritten = run.unwritten
  BY <1>1 DEF Smooth
<1>3. run.pass > 0 /\ run.pass \in Nat /\ run.wrote \subseteq Given
  BY DoneIs, Bounds DEF TypeInv, RunOK
<1>4. Smooth
  BY <1>1, <1>2, <1>3, SmoothAdvance
<1>5. Seen' = Done' /\ Seen = Done \cup {f0}
  BY <1>1, <1>2 DEF Seen
<1>6. \A f : Settled(f)' <=> Settled(f)
  BY SameTree
<1>7. CASE SamePass(after)
  <2>1. Done' = Done \cup {f0} /\ run'.pass = run.pass /\ run'.wrote = run.wrote
    BY <1>7 DEF SamePass
  <2> QED BY <1>1, <1>4, <1>5, <1>6, <2>1 DEF Idle
<1>8. CASE NextPass
  <2>1. /\ Done' = {} /\ Done \cup {f0} = Given /\ run'.pass = run.pass + 1
        /\ run'.wrote = {} /\ run.wrote # {} /\ run'.pc = "read"
    BY <1>8 DEF NextPass
  <2>2. ASSUME NEW f \in Given, run'.pass > due[f] PROVE Settled(f)'
    <3>1. run.pass > due[f] \/ run.pass = due[f]
      BY <1>3, <2>1, <2>2 DEF Dues
    <3>2. f \in Seen
      BY <1>5, <2>1
    <3> QED BY <1>4, <1>6, <3>1, <3>2 DEF Idle
  <2>3. ASSUME NEW k \in Nat, \A f \in Given : due[f] <= k PROVE run'.pass <= k + 1
    <3>1. PICK f \in Given : f \in run.wrote
      BY <1>3, <2>1
    <3>2. ~(run.pass > due[f])
      BY <1>4, <3>1 DEF Idle
    <3>3. due[f] \in Nat /\ due[f] <= k
      BY <2>3 DEF Dues
    <3> QED BY <1>3, <2>1, <3>2, <3>3
  <2> QED BY <1>5, <2>1, <2>2, <2>3 DEF Idle
<1> QED BY <1>1, <1>7, <1>8

LEMMA IdleStart ==
  ASSUME TypeInv, NEW due \in Dues, Start
  PROVE  Idle(due)'
<1>1. run'.pc = "read" /\ run'.pass = 1 /\ Done' = {}
  BY StartIs
<1>2. Seen' = {} /\ \A f \in Given : ~(run'.pass > due[f])
  BY <1>1 DEF Seen, Dues
<1>3. \A k \in Nat : run'.pass <= k + 1
  BY <1>1
<1> QED BY <1>2, <1>3 DEF Idle

LEMMA IdleStutter ==
  ASSUME UNCHANGED vars, NEW due, Smooth => Idle(due)
  PROVE  Smooth' => Idle(due)'
<1>1. UNCHANGED <<net, disk, run>>
  BY DEF vars
<1>2. \A f : Settled(f)' <=> Settled(f)
  BY <1>1, SameTree
<1>3. Seen' = Seen /\ f0' = f0
  BY <1>1 DEF Seen, Done, f0
<1>4. Smooth' <=> Smooth
  BY <1>1 DEF Smooth, Quiet, RulesSettle
<1> QED BY <1>1, <1>2, <1>3, <1>4 DEF Idle

(* Files are settled when they are due, if what a write changes is not     *)
(* copied by those whose pass it is or was.                                *)
LEMMA NextIdle ==
  ASSUME TypeInv, InHand, OwnSettles, NEW due \in Dues, Smooth => Idle(due), [Next]_vars,
         Smooth /\ Write =>
           \A f \in Given : run.pass > due[f] \/ (run.pass = due[f] /\ f \in Seen \cup {f0})
                              => Alike(f, disk, disk')
  PROVE  Smooth' => Idle(due)'
<1>1. CASE Start
  BY <1>1, IdleStart
<1>2. CASE Read
  BY <1>2, IdleRead
<1>3. CASE Fix
  BY <1>3, IdleFix
<1>4. CASE Write
  BY <1>4, IdleWrite
<1>5. CASE Recheck
  BY <1>5, RecheckIs, IdleAdvance
<1>6. CASE ReadFails
  BY <1>6, ReadFailsIs, IdleAdvance
<1>7. CASE WriteFails
  BY <1>7, WriteFailsIs, IdleAdvance
<1>8. CASE \E f \in File : \E own \in Own[f] : Save(f, own)
  BY <1>8, SaveIs, NotSmooth
<1>9. CASE Crash
  BY <1>9, NoRunIs, NotSmooth DEF Crash
<1>10. CASE UNCHANGED vars
  BY <1>10, IdleStutter
<1> QED BY <1>1, <1>2, <1>3, <1>4, <1>5, <1>6, <1>7, <1>8, <1>9, <1>10 DEF Next, Step

-----------------------------------------------------------------------------
(* Nothing is left.                                                        *)

(* Ranks for the files, by which each file stands above those to fix whose *)
(* sections it copies as they are.                                         *)
Ranked(rank) ==
  /\ rank \in [File -> Nat]
  /\ \A f \in Given : \A x \in Late(net, f) : rank[x] < rank[f]

(* After the first pass no own text changes, so a file without sections to *)
(* copy late is settled by the second, and others one pass after those.    *)
RankedIdle ==
  \A rank : Ranked(rank) /\ Smooth => Idle([f \in Given |-> rank[f] + 2])

(* After the first pass a write of a file changes only its sections.       *)
LEMMA OwnStands ==
  ASSUME TypeInv, InHand, OwnSettles, Smooth, Write, run.pass > 1
  PROVE  /\ disk'[f0].own = disk[f0].own
         /\ net.sections[f0] = {} => disk'[f0] = disk[f0]
<1>1. /\ f0 \in Given /\ f0 \in File
      /\ disk'[f0] = Fixed(f0, disk[f0], disk)
      /\ disk'[f0].own = FixedOwn[disk[f0].own]
  BY WrittenIs DEF Smooth
<1>2. FixedOwn[disk[f0].own] = disk[f0].own
  BY <1>1, OwnIsFixed
<1>3. IsText(net, f0, disk[f0])
  BY <1>1 DEF TypeInv, Texts, IsTree
<1>4. IsText(net, f0, disk'[f0])
  BY <1>1, <1>3, FixedIs
<1>5. ASSUME net.sections[f0] = {} PROVE disk'[f0] = disk[f0]
  <2>1. disk'[f0].own = disk[f0].own /\ \A s \in net.sections[f0] : disk'[f0].made[s] = disk[f0].made[s]
    BY <1>1, <1>2, <1>5
  <2> HIDE DEF f0
  <2> QED BY <1>3, <1>4, <2>1, SameText
<1> QED BY <1>1, <1>2, <1>5

LEMMA RankedAlike ==
  ASSUME TypeInv, InHand, OwnSettles, Smooth, Write,
         NEW rank, Ranked(rank), Idle([f \in Given |-> rank[f] + 2]),
         NEW f \in Given, run.pass >= rank[f] + 2
  PROVE  Alike(f, disk, disk')
<1> DEFINE due == [g \in Given |-> rank[g] + 2]
<1>1. rank \in [File -> Nat] /\ f \in File /\ run.pass \in Nat /\ net \in Nets
  BY Bounds, GivenFiles DEF Ranked, TypeInv, RunOK
<1>2. rank[f] \in Nat /\ run.pass > 1
  BY <1>1
<1>3. /\ f0 \in Given /\ f0 \in File /\ run.pc = "write"
      /\ \A g \in File : g # f0 => disk'[g] = disk[g]
  BY WrittenIs DEF Smooth, Write
<1>4. disk'[f0].own = disk[f0].own /\ (net.sections[f0] = {} => disk'[f0] = disk[f0])
  BY <1>2, OwnStands
<1>5. f0 \notin Late(net, f)
  <2> SUFFICES ASSUME f0 \in Late(net, f) PROVE FALSE
    OBVIOUS
  <2>1. rank[f0] < rank[f] /\ rank[f0] \in Nat
    BY <1>1, <1>3 DEF Ranked
  <2>2. run.pass > rank[f0] + 2
    BY <1>1, <1>2, <2>1
  <2>3. run.pass > due[f0]
    BY <1>3, <2>2
  <2> QED BY <1>3, <2>3 DEF Idle
<1>6. /\ f0 \in Reached(f) => Catalogs(net, f0) = {}
      /\ f0 \in Drawn(f) => net.sections[f0] = {}
  BY <1>3, <1>5, LateIs
<1>7. /\ \A x \in File : x # f0 => disk[x] = disk'[x]
      /\ disk[f0].own \cap Matter = disk'[f0].own \cap Matter
      /\ f0 \in Reached(f) => /\ disk[f0].own = disk'[f0].own
                              /\ \A t \in Catalogs(net, f0) : disk[f0].made[t] = disk'[f0].made[t]
      /\ f0 \in Drawn(f) => disk[f0] = disk'[f0]
  BY <1>3, <1>4, <1>6
<1> QED BY <1>1, <1>7, AlikeBut

LEMMA NextRanked ==
  TypeInv /\ InHand /\ OwnSettles /\ RankedIdle /\ [Next]_vars => RankedIdle'
<1> SUFFICES ASSUME TypeInv, InHand, OwnSettles, RankedIdle, [Next]_vars,
                    NEW rank, Ranked(rank)', Smooth'
             PROVE  Idle([f \in Given |-> rank[f] + 2])'
  BY DEF RankedIdle
<1> DEFINE due == [f \in Given |-> rank[f] + 2]
<1>1. net' = net
  BY DEF Next, Step, Start, Read, Fix, Write, Recheck, ReadFails, WriteFails, Save, Crash, vars
<1>2. Ranked(rank)
  BY <1>1 DEF Ranked
<1>3. due \in Dues /\ \A f \in Given : due[f] = rank[f] + 2 /\ rank[f] \in Nat
  BY <1>2, GivenFiles DEF Ranked, Dues
<1> HIDE DEF due
<1>4. Smooth => Idle(due)
  BY <1>2 DEF RankedIdle, due
<1>5. ASSUME Smooth, Write, NEW f \in Given,
             run.pass > due[f] \/ (run.pass = due[f] /\ f \in Seen \cup {f0})
      PROVE  Alike(f, disk, disk')
  <2>1. run.pass \in Nat
    BY Bounds DEF TypeInv, RunOK
  <2>2. run.pass >= rank[f] + 2
    BY <1>3, <1>5, <2>1
  <2>3. Idle([g \in Given |-> rank[g] + 2])
    BY <1>4, <1>5 DEF due
  <2> QED BY <1>2, <1>5, <2>2, <2>3, RankedAlike
<1>6. Smooth' => Idle(due)'
  BY <1>3, <1>4, <1>5, NextIdle
<1> QED BY <1>6 DEF due

LEMMA InitRanked == Init => RankedIdle
BY InitNotSmooth DEF RankedIdle

(* What the depths say of the ranks.                                       *)
LEMMA DepthIs ==
  ASSUME TypeInv, NEW k \in Depths[net]
  PROVE  k \in Nat /\ \E rank : Ranked(rank) /\ \A f \in Given : rank[f] <= k
<1>1. /\ k \in 0..WorkspacePasses
      /\ \E rank \in [File -> 0..k] : \A f \in Given : \A x \in Late(net, f) : rank[x] < rank[f]
  BY DEF Depths, TypeInv
<1>2. k \in Nat
  BY <1>1, Bounds
<1>3. PICK rank \in [File -> 0..k] : \A f \in Given : \A x \in Late(net, f) : rank[x] < rank[f]
  BY <1>1
<1>4. rank \in [File -> Nat] /\ \A f \in File : rank[f] <= k
  BY <1>2, <1>3
<1> QED BY <1>2, <1>3, <1>4, GivenFiles DEF Ranked

(* So the passes are at most three more than sections copied late stand    *)
(* behind one another.                                                     *)
LEMMA DepthBounds ==
  ASSUME TypeInv, RankedIdle, Smooth, NEW k \in Depths[net]
  PROVE  /\ run.pass <= k + 3
         /\ run.pass > k + 2 => run.wrote = {}
<1>1. PICK rank : Ranked(rank) /\ \A f \in Given : rank[f] <= k
  BY DepthIs
<1>2. k \in Nat /\ k + 2 \in Nat /\ run.pass \in Nat /\ run.wrote \subseteq Given
  BY DepthIs, Bounds DEF TypeInv, RunOK
<1> DEFINE due == [f \in Given |-> rank[f] + 2]
<1>3. \A f \in Given : due[f] <= k + 2 /\ due[f] \in Nat
  BY <1>1, <1>2, GivenFiles DEF Ranked
<1>4. Idle(due)
  BY <1>1 DEF RankedIdle
<1> HIDE DEF due
<1>5. run.pass <= k + 3
  BY <1>2, <1>3, <1>4 DEF Idle
<1>6. ASSUME run.pass > k + 2 PROVE run.wrote = {}
  <2>1. \A f \in Given : run.pass > due[f]
    BY <1>2, <1>3, <1>6
  <2> QED BY <1>2, <1>4, <2>1 DEF Idle
<1> QED BY <1>5, <1>6

(* After a run that nobody disturbed, fixing any of the files again        *)
(* changes nothing, if its last pass wrote nothing; or if the rules settle *)
(* and the passes are three more than sections copied as they were stand   *)
(* behind one another.                                                     *)
THEOREM NothingLeft == Spec => []NothingLeftToFix
<1> DEFINE Inv == TypeInv /\ InHand /\ Told /\ OwnSettles /\ RankedIdle
<1>1. Init => Inv
  BY InitType, ToldInit, OwnInit, InitRanked
<1>2. Inv /\ [Next]_vars => Inv'
  BY NextType, NextTold, NextOwn, NextRanked
<1>3. Inv => NothingLeftToFix
  <2> SUFFICES ASSUME Inv, Ended, ~run.unwritten,
                      \/ run.wrote = {}
                      \/ RulesSettle /\ \E k \in Depths[net] : k + 3 <= WorkspacePasses,
                      NEW f \in Given
               PROVE  Fixed(f, disk[f], disk) = disk[f]
    BY DEF NothingLeftToFix
  <2>1. Quiet /\ ~run.unread /\ ~run.unwritten /\ run.pc = "off" /\ run.pass > 0
    BY DEF Ended, Quiet
  <2>2. ASSUME run.wrote # {} PROVE FALSE
    <3>1. PICK k \in Depths[net] : k + 3 <= WorkspacePasses
      BY <2>2
    <3>2. Smooth
      BY <2>1, <2>2 DEF Smooth
    <3>3. run.pass = WorkspacePasses
      BY <2>1, <2>2 DEF TypeInv, Ordered, Quiet
    <3>4. run.pass > k + 2
      BY <3>1, <3>3, DepthIs, Bounds
    <3> QED BY <2>2, <3>2, <3>4, DepthBounds
  <2>3. Done = Given
    BY <2>1, AllDone
  <2>4. Settled(f)
    BY <2>1, <2>2, <2>3 DEF Told
  <2> QED BY <2>4 DEF Settled
<1> QED BY <1>1, <1>2, <1>3, PTL DEF Spec

-----------------------------------------------------------------------------
(* Passes in order.                                                        *)

(* The first i files of the order, and those that are not fixed.           *)
Upto(i) == {run.order[j] : j \in 1..i} \cup (File \ Given)

(* The order puts a file after its dependencies.                           *)
LEMMA DependenciesDone ==
  ASSUME TypeInv, InOrder, NEW i \in 1..Len(run.order)
  PROVE  Dependencies(net, run.order[i]) \subseteq Upto(i - 1)
<1>1. PICK rank \in [File -> 1..Cardinality(File)] :
        \A f \in Given : \A g \in Dependencies(net, f) : rank[g] < rank[f]
  BY DEF InOrder, Acyclic
<1>2. rank \in [File -> Nat]
  BY <1>1
<1>3. net \in Nets /\ run.order = DependencyOrder[net]
  BY DEF TypeInv, InOrder
<1>4. i \in 1..Len(Paths)
  BY <1>3, OrdersAre DEF IsOrder
<1>5. Dependencies(net, DependencyOrder[net][i])
        \subseteq {DependencyOrder[net][j] : j \in 1..(i - 1)}
  BY <1>1, <1>2, <1>3, <1>4, DependenciesFirst
<1> QED BY <1>3, <1>5 DEF Upto

(* So it puts a file after what those before it include.                   *)
LEMMA IncludedBefore ==
  ASSUME TypeInv, InOrder, NEW i \in 1..Len(run.order),
         NEW x, NEW t \in Includes(net, x), t.target \in File,
         x \in Upto(i - 1) \/ (x = run.order[i] /\ t.target # x)
  PROVE  t.target \in Upto(i - 1)
<1> DEFINE y == t.target
<1>1. IsOrder(run.order) /\ Len(run.order) \in Nat /\ i \in Nat
  BY OrdersAre, Bounds DEF TypeInv, InOrder, IsOrder
<1>2. CASE y \notin Given
  BY <1>2 DEF Upto
<1>3. CASE y = x /\ x \in Upto(i - 1)
  BY <1>3
<1>4. CASE y \in Given /\ y # x
  <2>1. y \in Dependencies(net, x)
    BY <1>4 DEF Dependencies
  <2>2. CASE x = run.order[i]
    BY <2>1, <2>2, DependenciesDone
  <2>3. CASE x \in Upto(i - 1)
    <3>1. x \notin File \ Given
      BY DEF InOrder
    <3>2. PICK j \in 1..(i - 1) : x = run.order[j]
      BY <2>3, <3>1 DEF Upto
    <3>3. j \in 1..Len(run.order) /\ \A k \in 1..(j - 1) : k \in 1..(i - 1)
      BY <1>1
    <3>4. y \in Upto(j - 1)
      BY <2>1, <3>2, <3>3, DependenciesDone
    <3> QED BY <3>3, <3>4 DEF Upto
  <2> QED BY <2>2, <2>3
<1> QED BY <1>2, <1>3, <1>4

(* And after what its chains of includes lead to.                          *)
LEMMA ChainBefore ==
  ASSUME TypeInv, InOrder, NEW i \in 1..Len(run.order), NEW s \in Used(run.order[i]),
         NEW w \in Chains(net, s), Last(w).target \in File
  PROVE  Last(w).target \in Upto(i - 1)
<1> DEFINE f == run.order[i]
           N == Len(w) - 1
           T == {k \in 0..N : w[k + 1].target \in Upto(i - 1)}
<1>1. net \in Nets /\ IsOrder(run.order)
  BY OrdersAre DEF TypeInv, InOrder
<1>2. f \in Given /\ f \in File
  BY <1>1, GivenFiles DEF IsOrder
<1>3. IsChain(net, s, w)
  BY ChainIs
<1>4. N \in Nat /\ Len(w) = N + 1 /\ w[1] = s /\ Last(w) = w[N + 1]
  BY <1>3 DEF IsChain, Last
<1>5. s \in Includes(net, f) /\ s.target \in File /\ s.target # f
  BY <1>1, <1>2, TargetIs DEF Used
<1>6. s.target \in Upto(i - 1)
  BY <1>5, IncludedBefore
<1> HIDE DEF N
<1>7. 0 \in T
  BY <1>4, <1>6
<1>8. ASSUME NEW k \in 1..N, k - 1 \in T PROVE k \in T
  <2>1. /\ k \in 1..(Len(w) - 1) /\ k - 1 + 1 = k /\ k \in 0..N
        /\ k = N \/ k + 1 \in 1..(Len(w) - 1)
    BY <1>4
  <2>2. w[k].target \in Upto(i - 1) /\ w[k + 1] \in Includes(net, w[k].target)
    BY <1>3, <1>8, <2>1 DEF IsChain
  <2>3. w[k + 1].target \in File
    BY <1>3, <1>4, <2>1 DEF IsChain
  <2>4. w[k + 1].target \in Upto(i - 1)
    BY <2>2, <2>3, IncludedBefore
  <2> QED BY <2>1, <2>4
<1> HIDE DEF T
<1>9. 0..N \subseteq T
  BY <1>4, <1>7, <1>8, Induction
<1> QED BY <1>4, <1>9 DEF T

(* So what its sections expand and extract from comes before it.           *)
LEMMA CopiedBefore ==
  ASSUME TypeInv, InOrder, NEW i \in 1..Len(run.order)
  PROVE  Reached(run.order[i]) \subseteq Upto(i - 1) /\ Drawn(run.order[i]) \subseteq Upto(i - 1)
<1> DEFINE f == run.order[i]
<1>1. net \in Nets /\ IsOrder(run.order)
  BY OrdersAre DEF TypeInv, InOrder
<1>2. f \in Given /\ f \in File
  BY <1>1, GivenFiles DEF IsOrder
<1>3. ASSUME NEW s \in Used(f), NEW x \in Expansion[net][f][s].files PROVE x \in Upto(i - 1)
  <2>1. s \in Includes(net, f)
    BY DEF Used
  <2>2. x \in File /\ \E w \in Chains(net, s) : Last(w).target = x
    BY <1>1, <1>2, <2>1, ExpansionIs
  <2> QED BY <2>2, ChainBefore
<1>4. ASSUME NEW s \in Used(f), NEW t \in Expansion[net][f][s].leaves
      PROVE  t.target \in Upto(i - 1)
  <2>1. s \in Includes(net, f) /\ ~Expansion[net][f][s].broken
    BY DEF Used
  <2>2. /\ t.target \in File
        /\ t = s \/ \E x \in Expansion[net][f][s].files : t \in Includes(net, x)
    BY <1>1, <1>2, <2>1, LeavesAreFiles
  <2>3. CASE t = s
    <3>1. s.target # f
      BY <1>1, <1>2, <2>1, TargetIs
    <3> QED BY <2>1, <2>2, <2>3, <3>1, IncludedBefore
  <2>4. ASSUME NEW x \in Expansion[net][f][s].files, t \in Includes(net, x)
        PROVE  t.target \in Upto(i - 1)
    BY <1>3, <2>2, <2>4, IncludedBefore
  <2> QED BY <2>2, <2>3, <2>4
<1> QED BY <1>3, <1>4 DEF Reached, Drawn

(* A write in the first pass does not matter to the files seen, nor to the *)
(* one in hand.                                                            *)
LEMMA OrderAlike ==
  ASSUME TypeInv, InHand, OwnSettles, Smooth, InOrder, Write, run.pass = 1,
         NEW f \in Seen \cup {f0}
  PROVE  Alike(f, disk, disk')
<1>1. run.pc = "write"
  BY DEF Write
<1>2. /\ run.pass > 0 /\ Seen = Done /\ f0 \notin Seen
      /\ Done = {run.order[i] : i \in 1..(run.at - 1)}
      /\ net \in Nets
  BY <1>1, DoneIs, SeenIs DEF TypeInv
<1>3. /\ IsOrder(run.order) /\ run.at \in 1..Len(run.order) /\ Len(run.order) \in Nat
      /\ f0 \in Given /\ f0 \in File
      /\ \A i \in 1..Len(run.order) : run.order[i] \in Given /\ (run.order[i] = f0 => i = run.at)
  BY <1>2, InHandIs, Bounds DEF IsOrder
<1>4. PICK i \in 1..run.at : f = run.order[i]
  <2>1. CASE f = f0
    <3>1. run.at \in 1..run.at
      BY <1>3
    <3> QED BY <2>1, <3>1 DEF f0
  <2>2. CASE f \in Done
    <3>1. PICK i \in 1..(run.at - 1) : f = run.order[i]
      BY <1>2, <2>2
    <3>2. i \in 1..run.at
      BY <1>3
    <3> QED BY <3>1, <3>2
  <2> QED BY <1>2, <2>1, <2>2
<1>5. i \in 1..Len(run.order) /\ f \in File
  BY <1>3, <1>4, GivenFiles
<1>6. f0 \notin Upto(i - 1)
  <2>1. \A j \in 1..(i - 1) : j \in 1..Len(run.order) /\ j # run.at
    BY <1>3
  <2> QED BY <1>3, <2>1 DEF Upto
<1>7. f0 \notin Reached(f) /\ f0 \notin Drawn(f)
  BY <1>4, <1>5, <1>6, CopiedBefore
<1>8. /\ disk'[f0].own = FixedOwn[disk[f0].own]
      /\ \A x \in File : x # f0 => disk'[x] = disk[x]
  BY WrittenIs DEF Smooth
<1>9. disk[f0].own = run.input[f0].own
  BY <1>2, <1>3 DEF OwnSettles
<1>10. disk[f0].own \cap Matter = disk'[f0].own \cap Matter
  BY <1>3, <1>8, <1>9 DEF InOrder
<1>11. \A x \in File : x # f0 => disk[x] = disk'[x]
  BY <1>8
<1> QED BY <1>2, <1>5, <1>7, <1>10, <1>11, AlikeBut

(* So the second pass is idle.                                             *)
SecondIsIdle == Smooth /\ InOrder => Idle([f \in Given |-> 1])

(* The order of a run stays until the next.                                *)
LEMMA OrderStays ==
  ASSUME TypeInv, [Next]_vars, ~Start, ~Crash
  PROVE  net' = net /\ run'.order = run.order /\ run'.input = run.input
<1>1. CASE Read
  BY <1>1, ReadIs DEF Read, InFile, KeepsRun
<1>2. CASE Fix
  BY <1>2, FixIs DEF Fix, InFile, KeepsRun
<1>3. CASE Write
  BY <1>3, WriteIs DEF Write, InFile, KeepsRun
<1>4. CASE Recheck
  BY <1>4, RecheckIs, AdvanceIs DEF KeepsRun
<1>5. CASE ReadFails
  BY <1>5, ReadFailsIs, AdvanceIs DEF KeepsRun
<1>6. CASE WriteFails
  BY <1>6, WriteFailsIs, AdvanceIs DEF KeepsRun
<1>7. CASE \E f \in File : \E own \in Own[f] : Save(f, own)
  BY <1>7, SaveIs DEF Save
<1>8. CASE UNCHANGED vars
  BY <1>8 DEF vars
<1> QED BY <1>1, <1>2, <1>3, <1>4, <1>5, <1>6, <1>7, <1>8 DEF Next, Step

LEMMA NextSecond ==
  TypeInv /\ InHand /\ OwnSettles /\ SecondIsIdle /\ [Next]_vars => SecondIsIdle'
<1> SUFFICES ASSUME TypeInv, InHand, OwnSettles, SecondIsIdle, [Next]_vars, Smooth', InOrder'
             PROVE  Idle([f \in Given |-> 1])'
  BY DEF SecondIsIdle
<1> DEFINE due == [f \in Given |-> 1]
<1>1. due \in Dues /\ \A f \in Given : due[f] = 1
  BY DEF Dues
<1> HIDE DEF due
<1>2. CASE Start
  <2>1. Idle(due)'
    BY <1>1, <1>2, IdleStart
  <2> QED BY <2>1 DEF due
<1>3. CASE Crash
  BY <1>3, NoRunIs, NotSmooth DEF Crash
<1>4. CASE ~Start /\ ~Crash
  <2>1. net' = net /\ run'.order = run.order /\ run'.input = run.input
    BY <1>4, OrderStays
  <2>2. InOrder
    BY <2>1 DEF InOrder, Acyclic, Dependencies, Includes
  <2>3. Smooth => Idle(due)
    BY <2>2 DEF SecondIsIdle, due
  <2>4. ASSUME Smooth, Write, NEW f \in Given,
               run.pass > due[f] \/ (run.pass = due[f] /\ f \in Seen \cup {f0})
        PROVE  Alike(f, disk, disk')
    <3>1. run.pc = "write" /\ f0 \in Given
      BY <2>4, WrittenIs DEF Smooth, Write
    <3>2. ~(run.pass > 1)
      BY <1>1, <2>3, <2>4, <3>1 DEF Idle
    <3>3. run.pass = 1 /\ f \in Seen \cup {f0}
      BY <1>1, <2>4, <3>2
    <3> QED BY <2>2, <2>4, <3>3, OrderAlike
  <2>5. Smooth' => Idle(due)'
    BY <1>1, <2>3, <2>4, NextIdle
  <2> QED BY <2>5 DEF due
<1> QED BY <1>2, <1>3, <1>4

LEMMA InitSecond == Init => SecondIsIdle
BY InitNotSmooth DEF SecondIsIdle

(* A run that nobody disturbs and whose rules settle takes three passes,   *)
(* and one more for each time that sections copied as they were stand      *)
(* behind one another; and two if its order sees all that files copy.      *)
THEOREM Settles == Spec => []SettlesSoon
<1> DEFINE Inv == TypeInv /\ InHand /\ Told /\ OwnSettles /\ RankedIdle /\ SecondIsIdle
<1>1. Init => Inv
  BY InitType, ToldInit, OwnInit, InitRanked, InitSecond
<1>2. Inv /\ [Next]_vars => Inv'
  BY NextType, NextTold, NextOwn, NextRanked, NextSecond
<1>3. Inv => SettlesSoon
  <2> SUFFICES ASSUME Inv, Ended, ~run.unwritten, RulesSettle
               PROVE  /\ \A k \in Depths[net] : run.pass <= k + 3
                      /\ InOrder => run.pass <= 2
    BY DEF SettlesSoon
  <2>1. Smooth
    BY DEF Ended, Smooth, Quiet
  <2>2. \A k \in Depths[net] : run.pass <= k + 3
    BY <2>1, DepthBounds
  <2>3. ASSUME InOrder PROVE run.pass <= 2
    <3> DEFINE due == [f \in Given |-> 1]
    <3>1. Idle(due)
      BY <2>1, <2>3 DEF SecondIsIdle
    <3>2. \A f \in Given : due[f] <= 1
      OBVIOUS
    <3> HIDE DEF due
    <3> QED BY <3>1, <3>2 DEF Idle
  <2> QED BY <2>2, <2>3
<1> QED BY <1>1, <1>2, <1>3, PTL DEF Spec

=============================================================================
