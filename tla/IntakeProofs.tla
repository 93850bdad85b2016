----------------------------- MODULE IntakeProofs -----------------------------
(***************************************************************************)
(* What holds of intake and analysis for every set of files, texts and     *)
(* topics and for every limit: what the loops of ClassifyDocument and      *)
(* SummarizeDocument compute, and what rests on it.  The folds that stand  *)
(* for these loops are unfolded to the table a fold is defined by, and     *)
(* reasoned about by the least counterexample, because the induction       *)
(* theorems of the library take an operator as a parameter.                *)
(***************************************************************************)
EXTENDS DocumentIntake, FiniteSetTheorems, WellFoundedInduction, TLAPS

-----------------------------------------------------------------------------
(* Folds over the positions 1..n, as loops. *)

\* Induction, without an operator as a parameter: what is not in T would have
\* a least element.
LEMMA NatSet ==
    ASSUME NEW T, 0 \in T, \A n \in Nat : n \in T => n + 1 \in T
    PROVE  Nat \subseteq T
<1>1. SUFFICES ASSUME Nat \ T # {} PROVE FALSE
  OBVIOUS
<1>2. PICK m \in Nat \ T : \A k \in Nat \ T : <<k, m>> \notin OpToRel(<, Nat)
  BY <1>1, NatLessThanWellFounded, WFMin
<1>3. \A k \in Nat \ T : ~(k < m)
  BY <1>2 DEF OpToRel
<1> QED BY <1>3

\* The last position of a set of positions.
LEMMA MaxOf ==
    ASSUME NEW n \in Nat, NEW S \in SUBSET (1..n), S # {}
    PROVE  Max(S) \in S /\ \A y \in S : Max(S) >= y
<1> DEFINE T == {k \in Nat : \E y \in S : n - y = k}
<1>1. T \in SUBSET Nat /\ T # {}
  <2>1. PICK y \in S : TRUE
    OBVIOUS
  <2>2. n - y \in T
    BY <2>1
  <2> QED BY <2>2
<1>2. PICK m \in T : \A k \in T : <<k, m>> \notin OpToRel(<, Nat)
  <2> HIDE DEF T
  <2> QED BY <1>1, NatLessThanWellFounded, WFMin
<1>3. \A k \in T : ~(k < m)
  BY <1>1, <1>2 DEF OpToRel
<1>4. PICK x \in S : n - x = m
  OBVIOUS
<1>5. \A y \in S : x >= y
  <2> SUFFICES ASSUME NEW y \in S PROVE x >= y
    OBVIOUS
  <2>1. n - y \in T
    OBVIOUS
  <2> HIDE DEF T
  <2>2. ~(n - y < n - x)
    BY <2>1, <1>3, <1>4
  <2> QED BY <2>2
<1> QED BY <1>5 DEF Max

\* The last of all positions, and those before it.
LEMMA MaxOfRange ==
    ASSUME NEW n \in Nat \ {0}
    PROVE  Max(1..n) = n /\ (1..n) \ {n} = 1..(n - 1)
<1>1. n \in Nat /\ 1..n \in SUBSET (1..n) /\ 1..n # {} /\ n \in 1..n
  OBVIOUS
<1>2. Max(1..n) \in 1..n /\ \A y \in 1..n : Max(1..n) >= y
  BY <1>1, MaxOf
<1> QED BY <1>1, <1>2

\* The table g of a fold of F from base: for each set of positions its value.
Table(g, base, F, n) ==
    \A s \in SUBSET (1..n) :
        g[s] = IF s = {} THEN base ELSE F[<<g[s \ {Max(s)}], Max(s)>>]

\* Every step from a type into itself has such a table.
LEMMA FoldTable ==
    ASSUME NEW S, NEW base \in S, NEW n \in Nat, NEW F \in [S \X (1..n) -> S]
    PROVE  \E g \in [SUBSET (1..n) -> S] : Table(g, base, F, n)
<1> DEFINE E(k) == \E g \in [SUBSET (1..k) -> S] : Table(g, base, F, k)
           T == {k \in Nat : k <= n => E(k)}
<1>1. 0 \in T
  <2> DEFINE g == [s \in SUBSET (1..0) |-> base]
  <2>1. g \in [SUBSET (1..0) -> S] /\ Table(g, base, F, 0)
    BY DEF Table
  <2>2. E(0)
    BY <2>1
  <2> HIDE DEF E
  <2> QED BY <2>2
<1>2. ASSUME NEW k \in Nat, k \in T PROVE k + 1 \in T
  <2> HIDE DEF E
  <2>1. SUFFICES ASSUME k + 1 <= n PROVE E(k + 1)
    OBVIOUS
  <2>0. E(k)
    BY <1>2, <2>1
  <2> HIDE DEF T
  <2>2. PICK g \in [SUBSET (1..k) -> S] : Table(g, base, F, k)
    BY <2>0 DEF E
  <2> DEFINE h == [s \in SUBSET (1..(k + 1)) |->
                     IF k + 1 \in s THEN F[<<g[s \ {k + 1}], k + 1>>] ELSE g[s]]
  <2>3. ASSUME NEW s \in SUBSET (1..(k + 1)), k + 1 \in s
        PROVE  /\ s \ {k + 1} \in SUBSET (1..k)
               /\ Max(s) = k + 1
    <3>1. k + 1 \in Nat /\ s # {}
      BY <2>3
    <3>2. Max(s) \in s /\ \A y \in s : Max(s) >= y
      BY <3>1, MaxOf
    <3>3. Max(s) \in 1..(k + 1) /\ Max(s) >= k + 1
      BY <3>2, <2>3
    <3> QED BY <3>3, <2>3
  <2>4. ASSUME NEW s \in SUBSET (1..(k + 1)), k + 1 \notin s
        PROVE  s \in SUBSET (1..k)
    BY <2>4
  <2>5. ASSUME NEW s \in SUBSET (1..(k + 1))
        PROVE  h[s] \in S /\ h[s] = IF s = {} THEN base ELSE F[<<h[s \ {Max(s)}], Max(s)>>]
    <3>1. CASE k + 1 \in s
      <4>1. h[s] = F[<<g[s \ {k + 1}], k + 1>>]
        BY <3>1
      <4>2. g[s \ {k + 1}] \in S /\ h[s \ {k + 1}] = g[s \ {k + 1}]
        BY <3>1, <2>3
      <4>3. <<g[s \ {k + 1}], k + 1>> \in S \X (1..n)
        BY <4>2, <2>1
      <4> HIDE DEF h
      <4>4. h[s] \in S
        BY <4>3, <4>1
      <4> QED BY <4>1, <4>2, <4>4, <3>1, <2>3
    <3>2. CASE k + 1 \notin s
      <4>1. s \in SUBSET (1..k) /\ h[s] = g[s]
        BY <3>2, <2>4
      <4>2. s # {} => Max(s) \in s
        BY <4>1, MaxOf
      <4>3. s # {} => h[s \ {Max(s)}] = g[s \ {Max(s)}]
        BY <4>1, <4>2, <2>4, <3>2
      <4> HIDE DEF h
      <4> QED BY <4>1, <4>3, <2>2 DEF Table
    <3> QED BY <3>1, <3>2
  <2>6. h \in [SUBSET (1..(k + 1)) -> S]
    <3> HIDE DEF h
    <3>1. \A s \in SUBSET (1..(k + 1)) : h[s] \in S
      BY <2>5
    <3> QED BY <3>1 DEF h
  <2>7. Table(h, base, F, k + 1)
    <3> HIDE DEF h
    <3> QED BY <2>5 DEF Table
  <2> HIDE DEF h
  <2> QED BY <2>6, <2>7 DEF E
<1>3. Nat \subseteq T
  <2> HIDE DEF T
  <2> QED BY <1>1, <1>2, NatSet
<1>4. E(n)
  <2> HIDE DEF E
  <2> QED BY <1>3
<1> QED BY <1>4

\* A function that takes the step F while its values are of the type.
Steps(h, S, base, F, n) ==
    /\ h[{}] = base
    /\ \A s \in SUBSET (1..n) :
          s # {} /\ h[s \ {Max(s)}] \in S => h[s] = F[<<h[s \ {Max(s)}], Max(s)>>]

\* The values of the variable of a loop of n rounds.
Loop(run, base, F, n, result) ==
    /\ run[0] = base
    /\ \A i \in 1..n : run[i] = F[<<run[i - 1], i>>]
    /\ run[n] = result

\* The value of a fold over n elements, as the run of a loop.
LEMMA FoldRun ==
    ASSUME NEW S, NEW base \in S, NEW n \in Nat, NEW F \in [S \X (1..n) -> S], NEW h,
           Steps(h, S, base, F, n)
    PROVE  \E run \in [0..n -> S] : Loop(run, base, F, n, h[1..n])
<1> USE DEF Steps
<1>1. ASSUME NEW i \in 1..n, h[1..(i - 1)] \in S
      PROVE  h[1..i] = F[<<h[1..(i - 1)], i>>] /\ h[1..i] \in S
  <2>1. Max(1..i) = i /\ (1..i) \ {i} = 1..(i - 1)
    BY MaxOfRange
  <2>2. 1..i \in SUBSET (1..n) /\ 1..i # {}
    OBVIOUS
  <2>3. h[1..i] = F[<<h[1..(i - 1)], i>>]
    BY <1>1, <2>1, <2>2
  <2>4. <<h[1..(i - 1)], i>> \in S \X (1..n)
    BY <1>1
  <2> QED BY <2>3, <2>4
<1> DEFINE T == {k \in Nat : k <= n => h[1..k] \in S}
<1>2. 0 \in T
  <2>1. 1..0 = {}
    OBVIOUS
  <2> QED BY <2>1
<1>3. ASSUME NEW k \in Nat, k \in T PROVE k + 1 \in T
  <2> SUFFICES ASSUME k + 1 <= n PROVE h[1..(k + 1)] \in S
    OBVIOUS
  <2>1. k + 1 \in 1..n /\ (k + 1) - 1 = k
    OBVIOUS
  <2>2. h[1..((k + 1) - 1)] \in S
    BY <1>3, <2>1
  <2> QED BY <2>1, <2>2, <1>1
<1>4. \A k \in 0..n : h[1..k] \in S
  <2> HIDE DEF T
  <2>1. Nat \subseteq T
    BY <1>2, <1>3, NatSet
  <2>2. 0..n \subseteq Nat
    OBVIOUS
  <2> QED BY <2>1, <2>2 DEF T
<1> DEFINE run == [k \in 0..n |-> h[1..k]]
<1>5. run \in [0..n -> S]
  BY <1>4
<1>6. run[0] = base
  <2>1. 1..0 = {} /\ 0 \in 0..n
    OBVIOUS
  <2> QED BY <2>1
<1>7. ASSUME NEW i \in 1..n PROVE run[i] = F[<<run[i - 1], i>>]
  <2>1. i \in 0..n /\ i - 1 \in 0..n
    OBVIOUS
  <2> QED BY <2>1, <1>1, <1>4
<1>8. run[n] = h[1..n]
  OBVIOUS
<1> HIDE DEF run
<1>9. Loop(run, base, F, n, h[1..n])
  <2> HIDE DEF run
  <2> QED BY <1>6, <1>7, <1>8 DEF Loop
<1> HIDE DEF run
<1> QED BY <1>5, <1>9

-----------------------------------------------------------------------------
(* ClassifyDocument. *)

\* The variable of the loop of ClassifyDocument.
Best == [class : Topics \cup {"general"}, score : Nat]

\* ClassifyDocument as a loop over the topics in some order.
LEMMA ClassifyFold ==
    ASSUME NEW t, NEW order \in Seq(Topics), \A topic \in Topics : Score(t, topic) \in Nat
    PROVE  \E run \in [0..Len(order) -> Best] :
              /\ run[0] = [class |-> "general", score |-> 0]
              /\ \A i \in 1..Len(order) :
                    run[i] = IF Score(t, order[i]) > run[i - 1].score
                             THEN [class |-> order[i], score |-> Score(t, order[i])]
                             ELSE run[i - 1]
              /\ ResumeScore(t) < 5 =>
                    ClassifyDocument(t, order) =
                       [class |-> run[Len(order)].class,
                        confidence |-> IF run[Len(order)].score = 0 THEN 50
                                       ELSE ConfidenceFromScore(run[Len(order)].score)]
<1> DEFINE n == Len(order)
           base == [class |-> "general", score |-> 0]
           Better(best, topic) ==
              IF Score(t, topic) > best.score
              THEN [class |-> topic, score |-> Score(t, topic)] ELSE best
           F == [x \in Best \X (1..n) |-> Better(x[1], order[x[2]])]
           P(h) == h = [s \in SUBSET DOMAIN order |->
                          IF s = {} THEN base ELSE Better(h[s \ {Max(s)}], order[Max(s)])]
           table == CHOOSE h : P(h)
<1>1. n \in Nat /\ DOMAIN order = 1..n /\ \A i \in 1..n : order[i] \in Topics
  OBVIOUS
<1>2. base \in Best
  BY DEF Best
<1>3. ASSUME NEW best \in Best, NEW i \in 1..n
      PROVE  Better(best, order[i]) \in Best /\ F[<<best, i>>] = Better(best, order[i])
  <2>1. order[i] \in Topics /\ Score(t, order[i]) \in Nat
    BY <1>1
  <2>2. Better(best, order[i]) \in Best
    BY <2>1 DEF Best
  <2>3. <<best, i>> \in Best \X (1..n) /\ <<best, i>>[1] = best /\ <<best, i>>[2] = i
    OBVIOUS
  <2> HIDE DEF Best
  <2> QED BY <2>2, <2>3
<1>4. F \in [Best \X (1..n) -> Best]
  <2> HIDE DEF Better, Best, n
  <2>1. ASSUME NEW x \in Best \X (1..n) PROVE F[x] \in Best
    <3>1. PICK best \in Best, i \in 1..n : x = <<best, i>>
      OBVIOUS
    <3> QED BY <3>1, <1>3
  <2> QED BY <2>1
<1>5. PICK g \in [SUBSET (1..n) -> Best] : Table(g, base, F, n)
  <2> HIDE DEF F, base, Best, n
  <2> QED BY <1>1, <1>2, <1>4, FoldTable
<1>6. P(g)
  <2> HIDE DEF F, base, Best, n, Better
  <2>1. ASSUME NEW s \in SUBSET (1..n)
        PROVE  g[s] = IF s = {} THEN base ELSE Better(g[s \ {Max(s)}], order[Max(s)])
    <3>1. CASE s = {}
      BY <3>1, <1>5 DEF Table
    <3>2. CASE s # {}
      <4>1. Max(s) \in 1..n
        BY <3>2, <1>1, MaxOf
      <4>2. s \ {Max(s)} \in SUBSET (1..n) /\ g[s \ {Max(s)}] \in Best
        OBVIOUS
      <4>3. g[s] = F[<<g[s \ {Max(s)}], Max(s)>>]
        BY <3>2, <1>5 DEF Table
      <4> QED BY <3>2, <4>1, <4>2, <4>3, <1>3
    <3> QED BY <3>1, <3>2
  <2> QED BY <2>1, <1>1
<1>7. P(table)
  <2> HIDE DEF P
  <2> QED BY <1>6
<1>8. FoldLeft(Better, base, order) = table[1..n]
  BY <1>1, Zenon DEF FoldLeft, MapThenFoldSet
<1>9. Steps(table, Best, base, F, n)
  <2> HIDE DEF F, base, Best, n, Better, table
  <2>1. table[{}] = base
    BY <1>7
  <2>2. ASSUME NEW s \in SUBSET (1..n), s # {}, table[s \ {Max(s)}] \in Best
        PROVE  table[s] = F[<<table[s \ {Max(s)}], Max(s)>>]
    <3>1. Max(s) \in 1..n
      BY <2>2, <1>1, MaxOf
    <3> QED BY <3>1, <2>2, <1>1, <1>3, <1>7
  <2> HIDE DEF P
  <2> QED BY <2>1, <2>2 DEF Steps
<1>10. PICK run \in [0..n -> Best] : Loop(run, base, F, n, table[1..n])
  <2> HIDE DEF F, base, Best, n, Better, table, P
  <2> QED BY <1>1, <1>2, <1>4, <1>9, FoldRun
<1>11. ASSUME NEW i \in 1..n PROVE run[i] = Better(run[i - 1], order[i])
  <2> HIDE DEF F, base, Best, n, Better, table
  <2>1. run[i - 1] \in Best
    BY <1>1
  <2> QED BY <2>1, <1>3, <1>10 DEF Loop
<1>12. ResumeScore(t) < 5 =>
           ClassifyDocument(t, order) =
              [class |-> run[n].class,
               confidence |-> IF run[n].score = 0 THEN 50 ELSE ConfidenceFromScore(run[n].score)]
  <2> SUFFICES ASSUME ResumeScore(t) < 5
               PROVE  ClassifyDocument(t, order) =
                         [class |-> run[n].class,
                          confidence |-> IF run[n].score = 0 THEN 50
                                         ELSE ConfidenceFromScore(run[n].score)]
    OBVIOUS
  <2>1. ResumeScore(t) \in Nat
    BY AnalysisAssumption DEF Score
  <2>2. ~(ResumeScore(t) >= 5)
    BY <2>1
  <2> DEFINE best == FoldLeft(Better, base, order)
  <2>3. ClassifyDocument(t, order) =
            [class |-> best.class,
             confidence |-> IF best.score = 0 THEN 50 ELSE ConfidenceFromScore(best.score)]
    BY <2>2, Zenon DEF ClassifyDocument
  <2>4. best = run[n]
    BY <1>8, <1>10 DEF Loop
  <2> HIDE DEF best, n
  <2> QED BY <2>3, <2>4
<1> HIDE DEF F, table, P
<1>13. run[0] = base
  BY <1>10 DEF Loop
<1> QED BY <1>11, <1>12, <1>13

\* In whatever order the loop takes the topics, it ends with the greatest
\* score, and with a topic that has it unless it is 0.
LEMMA ClassifyBest ==
    ASSUME NEW t, NEW order \in SetToSeqs(Topics), \A topic \in Topics : Score(t, topic) \in Nat
    PROVE  \E best \in Best :
              /\ \A topic \in Topics : Score(t, topic) <= best.score
              /\ best.class = "general" <=> best.score = 0
              /\ best.class # "general" => best.score = Score(t, best.class)
              /\ ResumeScore(t) < 5 =>
                    ClassifyDocument(t, order) =
                       [class |-> best.class,
                        confidence |-> IF best.score = 0 THEN 50
                                       ELSE ConfidenceFromScore(best.score)]
<1> DEFINE n == Cardinality(Topics)
<1>1. n \in Nat
  BY AnalysisAssumption, FS_CardinalityType
<1>2. /\ order \in [1..n -> Topics]
      /\ \A i, j \in 1..n : i # j => order[i] # order[j]
  BY DEF SetToSeqs
<1>3. order \in Seq(Topics) /\ Len(order) = n
  BY <1>1, <1>2
<1>4. \A topic \in Topics : \E i \in 1..n : order[i] = topic
  <2>1. order \in Injection(1..n, Topics)
    BY <1>2 DEF Injection, IsInjective
  <2>2. IsFiniteSet(1..n) /\ Cardinality(1..n) = n
    BY <1>1, FS_Interval
  <2>3. order \in Surjection(1..n, Topics)
    BY <2>1, <2>2, AnalysisAssumption, FS_Injection
  <2> QED BY <2>3 DEF Surjection
<1>5. PICK run \in [0..n -> Best] :
              /\ run[0] = [class |-> "general", score |-> 0]
              /\ \A i \in 1..n :
                    run[i] = IF Score(t, order[i]) > run[i - 1].score
                             THEN [class |-> order[i], score |-> Score(t, order[i])]
                             ELSE run[i - 1]
              /\ ResumeScore(t) < 5 =>
                    ClassifyDocument(t, order) =
                       [class |-> run[n].class,
                        confidence |-> IF run[n].score = 0 THEN 50
                                       ELSE ConfidenceFromScore(run[n].score)]
  <2> HIDE DEF n, Best
  <2>1. PICK run \in [0..Len(order) -> Best] :
              /\ run[0] = [class |-> "general", score |-> 0]
              /\ \A i \in 1..Len(order) :
                    run[i] = IF Score(t, order[i]) > run[i - 1].score
                             THEN [class |-> order[i], score |-> Score(t, order[i])]
                             ELSE run[i - 1]
              /\ ResumeScore(t) < 5 =>
                    ClassifyDocument(t, order) =
                       [class |-> run[Len(order)].class,
                        confidence |-> IF run[Len(order)].score = 0 THEN 50
                                       ELSE ConfidenceFromScore(run[Len(order)].score)]
    BY <1>3, ClassifyFold, Zenon
  <2> QED BY <2>1, <1>3
<1> DEFINE Right(k) == /\ \A j \in 1..k : Score(t, order[j]) <= run[k].score
                       /\ run[k].class = "general" <=> run[k].score = 0
                       /\ run[k].class # "general" => run[k].score = Score(t, run[k].class)
           T == {k \in Nat : k <= n => Right(k)}
<1>6. Right(0)
  BY <1>5
<1>7. ASSUME NEW k \in Nat, k + 1 <= n, Right(k) PROVE Right(k + 1)
  <2>1. k \in 0..n /\ k + 1 \in 1..n /\ (k + 1) - 1 = k /\ k + 1 \in 0..n
    BY <1>1, <1>7
  <2>2. run[k] \in Best /\ run[k].score \in Nat
    BY <2>1 DEF Best
  <2>3. order[k + 1] \in Topics /\ Score(t, order[k + 1]) \in Nat
    BY <1>2, <2>1
  <2>4. run[k + 1] = IF Score(t, order[k + 1]) > run[k].score
                     THEN [class |-> order[k + 1], score |-> Score(t, order[k + 1])]
                     ELSE run[k]
    BY <1>5, <2>1
  <2>5. \A j \in 1..k : Score(t, order[j]) \in Nat
    <3> HIDE DEF n, Right
    <3>1. \A j \in 1..k : j \in 1..n
      BY <1>1, <1>7
    <3> QED BY <1>2, <3>1
  <2>6. \A j \in 1..(k + 1) : j \in 1..k \/ j = k + 1
    OBVIOUS
  <2>7. CASE Score(t, order[k + 1]) > run[k].score
    <3>1. /\ run[k + 1].class = order[k + 1]
          /\ run[k + 1].score = Score(t, order[k + 1])
      BY <2>4, <2>7
    <3>2. order[k + 1] # "general"
      BY <2>3, AnalysisAssumption
    <3>3. \A j \in 1..(k + 1) : Score(t, order[j]) <= run[k + 1].score
      <4>1. \A j \in 1..k : Score(t, order[j]) <= run[k].score
        BY <1>7
      <4> QED BY <4>1, <2>2, <2>3, <2>5, <2>6, <2>7, <3>1
    <3>4. run[k + 1].score # 0
      BY <3>1, <2>2, <2>3, <2>7
    <3> QED BY <3>1, <3>2, <3>3, <3>4
  <2>8. CASE ~(Score(t, order[k + 1]) > run[k].score)
    <3>1. run[k + 1] = run[k]
      BY <2>4, <2>8
    <3>2. \A j \in 1..(k + 1) : Score(t, order[j]) <= run[k].score
      <4>1. \A j \in 1..k : Score(t, order[j]) <= run[k].score
        BY <1>7
      <4> QED BY <4>1, <2>2, <2>3, <2>6, <2>8
    <3> QED BY <1>7, <3>1, <3>2
  <2> QED BY <2>7, <2>8
<1>8. Right(n)
  <2> HIDE DEF Right, n
  <2>1. 0 \in T
    BY <1>6
  <2>2. \A k \in Nat : k \in T => k + 1 \in T
    BY <1>1, <1>7
  <2> HIDE DEF T
  <2>3. n \in T
    BY <1>1, <2>1, <2>2, NatSet
  <2> QED BY <1>1, <2>3 DEF T
<1>9. \A topic \in Topics : Score(t, topic) <= run[n].score
  BY <1>4, <1>8
<1>10. run[n] \in Best
  BY <1>1
<1> HIDE DEF n
<1> QED BY <1>5, <1>8, <1>9, <1>10

-----------------------------------------------------------------------------
(* Normalize. *)

\* The condition of Normalize.
Kept(b, i) ==
    b[i] # "space" \/ /\ i < Len(b)
                      /\ b[i + 1] # "space"
                      /\ \E j \in 1..(i - 1) : b[j] # "space"

\* The rounds of Normalize.
KeptSoFar(run, b) ==
    /\ run \in [0..Len(b) -> Seq(Bytes)]
    /\ run[0] = <<>>
    /\ \A i \in 1..Len(b) : run[i] = IF Kept(b, i) THEN Append(run[i - 1], b[i]) ELSE run[i - 1]
    /\ run[Len(b)] = Normalize(b)

\* Normalize as a loop over the bytes of the text.
LEMMA NormalizeFold ==
    ASSUME NEW b \in Seq(Bytes)
    PROVE  \E run : KeptSoFar(run, b)
<1> DEFINE n == Len(b)
           S == Seq(Bytes)
           base == <<>>
           order == [i \in DOMAIN b |-> i]
           Step(kept, i) == IF Kept(b, i) THEN Append(kept, b[i]) ELSE kept
           F == [x \in S \X (1..n) |-> Step(x[1], x[2])]
           P(h) == h = [s \in SUBSET DOMAIN order |->
                          IF s = {} THEN base ELSE Step(h[s \ {Max(s)}], order[Max(s)])]
           table == CHOOSE h : P(h)
<1>1. n \in Nat /\ DOMAIN order = 1..n /\ \A i \in 1..n : order[i] = i /\ b[i] \in Bytes
  OBVIOUS
<1>2. base \in S
  OBVIOUS
<1>3. ASSUME NEW kept \in S, NEW i \in 1..n
      PROVE  Step(kept, i) \in S /\ F[<<kept, i>>] = Step(kept, i)
  <2>1. b[i] \in Bytes
    BY <1>1
  <2>2. Step(kept, i) \in S
    BY <2>1
  <2>3. <<kept, i>> \in S \X (1..n) /\ <<kept, i>>[1] = kept /\ <<kept, i>>[2] = i
    OBVIOUS
  <2> HIDE DEF S
  <2> QED BY <2>2, <2>3
<1>4. F \in [S \X (1..n) -> S]
  <2> HIDE DEF Step, S, n
  <2>1. ASSUME NEW x \in S \X (1..n) PROVE F[x] \in S
    <3>1. PICK kept \in S, i \in 1..n : x = <<kept, i>>
      OBVIOUS
    <3> QED BY <3>1, <1>3
  <2> QED BY <2>1
<1>5. PICK g \in [SUBSET (1..n) -> S] : Table(g, base, F, n)
  <2> HIDE DEF F, base, S, n
  <2> QED BY <1>1, <1>2, <1>4, FoldTable
<1>6. P(g)
  <2> HIDE DEF F, base, S, n, Step, order
  <2>1. ASSUME NEW s \in SUBSET (1..n)
        PROVE  g[s] = IF s = {} THEN base ELSE Step(g[s \ {Max(s)}], order[Max(s)])
    <3>1. CASE s = {}
      BY <3>1, <1>5 DEF Table
    <3>2. CASE s # {}
      <4>1. Max(s) \in 1..n /\ order[Max(s)] = Max(s)
        BY <3>2, <1>1, MaxOf
      <4>2. s \ {Max(s)} \in SUBSET (1..n) /\ g[s \ {Max(s)}] \in S
        OBVIOUS
      <4>3. g[s] = F[<<g[s \ {Max(s)}], Max(s)>>]
        BY <3>2, <1>5 DEF Table
      <4> QED BY <3>2, <4>1, <4>2, <4>3, <1>3
    <3> QED BY <3>1, <3>2
  <2> QED BY <2>1, <1>1
<1>7. P(table)
  <2> HIDE DEF P
  <2> QED BY <1>6
<1>8. Normalize(b) = table[1..n]
  <2>1. Normalize(b) = table[DOMAIN order]
    BY Zenon DEF Normalize, FoldLeft, MapThenFoldSet, Kept
  <2> HIDE DEF table, order
  <2> QED BY <2>1, <1>1
<1>9. Steps(table, S, base, F, n)
  <2> HIDE DEF F, base, S, n, Step, table, order
  <2>1. table[{}] = base
    BY <1>7
  <2>2. ASSUME NEW s \in SUBSET (1..n), s # {}, table[s \ {Max(s)}] \in S
        PROVE  table[s] = F[<<table[s \ {Max(s)}], Max(s)>>]
    <3>1. Max(s) \in 1..n /\ order[Max(s)] = Max(s)
      BY <2>2, <1>1, MaxOf
    <3>2. table[s] = Step(table[s \ {Max(s)}], Max(s))
      BY <3>1, <2>2, <1>1, <1>7
    <3> QED BY <3>1, <3>2, <2>2, <1>3
  <2> HIDE DEF P
  <2> QED BY <2>1, <2>2 DEF Steps
<1>10. PICK run \in [0..n -> S] : Loop(run, base, F, n, table[1..n])
  <2> HIDE DEF F, base, S, n, Step, table, P, order
  <2> QED BY <1>1, <1>2, <1>4, <1>9, FoldRun
<1>11. ASSUME NEW i \in 1..n PROVE run[i] = Step(run[i - 1], i)
  <2> HIDE DEF F, base, S, n, Step, table, order
  <2>1. run[i - 1] \in S
    BY <1>1
  <2> QED BY <2>1, <1>3, <1>10 DEF Loop
<1>12. run[0] = base /\ run[n] = Normalize(b)
  BY <1>8, <1>10 DEF Loop
<1> HIDE DEF F, table, P, order
<1> QED BY <1>11, <1>12 DEF KeptSoFar

\* Normalize returns a text.
LEMMA NormalizeType ==
    ASSUME NEW b \in Seq(Bytes)
    PROVE  Normalize(b) \in Seq(Bytes)
  BY NormalizeFold DEF KeptSoFar

\* Valid but for a character whose second byte may follow.
ValidSoFar(r) ==
    /\ r \in Seq(Bytes)
    /\ \A j \in 1..Len(r) : /\ r[j] # "bad"
                            /\ r[j] = "first" => j = Len(r) \/ r[j + 1] = "second"
                            /\ r[j] = "second" => j > 1 /\ r[j - 1] = "first"

\* A character has begun.
Open(r) == Len(r) > 0 /\ r[Len(r)] = "first"

\* One more byte, the second of a character if one has begun.
LEMMA ValidAppend ==
    ASSUME NEW r, NEW x \in Bytes, ValidSoFar(r), x # "bad", Open(r) <=> x = "second"
    PROVE  ValidSoFar(Append(r, x)) /\ (Open(Append(r, x)) <=> x = "first")
<1> DEFINE s == Append(r, x)
           m == Len(r)
<1>1. r \in Seq(Bytes) /\ m \in Nat
  BY DEF ValidSoFar
<1>2. /\ s \in Seq(Bytes)
      /\ Len(s) = m + 1
      /\ s[m + 1] = x
      /\ \A j \in 1..m : s[j] = r[j]
  BY <1>1
<1> HIDE DEF s
<1>3. ASSUME NEW j \in 1..(m + 1)
      PROVE  /\ s[j] # "bad"
             /\ s[j] = "first" => j = m + 1 \/ s[j + 1] = "second"
             /\ s[j] = "second" => j > 1 /\ s[j - 1] = "first"
  <2>1. CASE j = m + 1
    <3>1. x = "second" => m > 0 /\ r[m] = "first"
      BY DEF Open
    <3>2. x = "second" => s[m] = "first" /\ m > 0
      BY <3>1, <1>1, <1>2
    <3> QED BY <2>1, <3>2, <1>1, <1>2
  <2>2. CASE j \in 1..m
    <3>1. s[j] = r[j] /\ r[j] # "bad"
      BY <2>2, <1>2 DEF ValidSoFar
    <3>2. r[j] = "second" => j > 1 /\ s[j - 1] = "first"
      BY <2>2, <1>1, <1>2 DEF ValidSoFar
    <3>3. r[j] = "first" => s[j + 1] = "second"
      <4>1. CASE j = m
        BY <4>1, <2>2, <1>1, <1>2 DEF Open
      <4>2. CASE j # m
        <5>1. j + 1 \in 1..m
          BY <4>2, <2>2, <1>1
        <5> QED BY <5>1, <4>2, <2>2, <1>1, <1>2 DEF ValidSoFar
      <4> QED BY <4>1, <4>2
    <3> QED BY <3>1, <3>2, <3>3
  <2> QED BY <1>1, <2>1, <2>2
<1>4. ValidSoFar(s)
  BY <1>1, <1>2, <1>3 DEF ValidSoFar
<1>5. Open(s) <=> x = "first"
  BY <1>1, <1>2 DEF Open
<1> QED BY <1>4, <1>5 DEF s

\* A text is valid when no character is left open.
LEMMA ValidComplete ==
    ASSUME NEW r \in Seq(Bytes)
    PROVE  ValidUTF8(r) <=> ValidSoFar(r) /\ ~Open(r)
<1>1. Len(r) \in Nat /\ DOMAIN r = 1..Len(r)
  OBVIOUS
<1>2. ASSUME ValidUTF8(r) PROVE ValidSoFar(r) /\ ~Open(r)
  <2>1. ValidSoFar(r)
    BY <1>1, <1>2 DEF ValidSoFar, ValidUTF8
  <2>2. ASSUME Open(r) PROVE FALSE
    <3>1. Len(r) \in DOMAIN r /\ r[Len(r)] = "first"
      BY <2>2, <1>1 DEF Open
    <3>2. Len(r) < Len(r)
      BY <3>1, <1>2 DEF ValidUTF8
    <3> QED BY <3>2, <1>1
  <2> QED BY <2>1, <2>2
<1>3. ASSUME ValidSoFar(r), ~Open(r) PROVE ValidUTF8(r)
  <2> SUFFICES ASSUME NEW i \in DOMAIN r
               PROVE  /\ r[i] # "bad"
                      /\ r[i] = "first" => i < Len(r) /\ r[i + 1] = "second"
                      /\ r[i] = "second" => i > 1 /\ r[i - 1] = "first"
    BY DEF ValidUTF8
  <2>1. i \in 1..Len(r)
    BY <1>1
  <2>2. /\ r[i] # "bad"
        /\ r[i] = "first" => i = Len(r) \/ r[i + 1] = "second"
        /\ r[i] = "second" => i > 1 /\ r[i - 1] = "first"
    BY <2>1, <1>3 DEF ValidSoFar
  <2>3. r[i] = "first" => i # Len(r)
    BY <2>1, <1>1, <1>3 DEF Open
  <2> QED BY <2>1, <2>2, <2>3, <1>1
<1> QED BY <1>2, <1>3

\* Spaces are no parts of characters: without some of them a valid text is
\* valid.
LEMMA NormalizeValid ==
    ASSUME NEW b \in Seq(Bytes), ValidUTF8(b)
    PROVE  ValidUTF8(Normalize(b))
<1> DEFINE n == Len(b)
<1>1. PICK run : KeptSoFar(run, b)
  BY NormalizeFold
<1> DEFINE Right(k) == ValidSoFar(run[k]) /\ (Open(run[k]) <=> k > 0 /\ b[k] = "first")
           T == {k \in Nat : k <= n => Right(k)}
<1>2. n \in Nat /\ DOMAIN b = 1..n
  OBVIOUS
<1>3. 0 \in T
  <2>1. ValidSoFar(<<>>) /\ ~Open(<<>>)
    BY DEF ValidSoFar, Open
  <2>2. Right(0)
    BY <1>1, <2>1 DEF KeptSoFar
  <2> HIDE DEF Right
  <2> QED BY <2>2
<1>4. ASSUME NEW k \in Nat, k \in T PROVE k + 1 \in T
  <2>1. SUFFICES ASSUME k + 1 <= n PROVE Right(k + 1)
    <3> HIDE DEF Right
    <3> QED BY <2>1
  <2>2. Right(k)
    <3> HIDE DEF Right, n
    <3> QED BY <1>2, <1>4, <2>1
  <2> HIDE DEF T, n
  <2>3. k \in 0..n /\ k + 1 \in 1..n /\ (k + 1) - 1 = k
    BY <1>2, <2>1
  <2>4. run[k + 1] = IF Kept(b, k + 1) THEN Append(run[k], b[k + 1]) ELSE run[k]
    BY <1>1, <2>3 DEF KeptSoFar, n
  <2>5. /\ b[k + 1] \in Bytes /\ b[k + 1] # "bad"
        /\ b[k + 1] = "second" => k > 0 /\ b[k] = "first"
    <3>1. k + 1 \in DOMAIN b
      BY <1>2, <2>3
    <3>2. /\ b[k + 1] # "bad"
          /\ b[k + 1] = "second" => k + 1 > 1 /\ b[(k + 1) - 1] = "first"
      BY <3>1 DEF ValidUTF8
    <3> QED BY <3>1, <3>2, <2>3
  <2>6. Open(run[k]) <=> b[k + 1] = "second"
    <3>1. k > 0 /\ b[k] = "first" => b[k + 1] = "second"
      <4>1. k > 0 => k \in DOMAIN b
        BY <1>2, <2>3
      <4> QED BY <4>1 DEF ValidUTF8
    <3> QED BY <2>2, <2>5, <3>1
  <2>7. CASE Kept(b, k + 1)
    <3>1. ValidSoFar(Append(run[k], b[k + 1]))
          /\ (Open(Append(run[k], b[k + 1])) <=> b[k + 1] = "first")
      BY <2>2, <2>5, <2>6, ValidAppend
    <3> QED BY <2>4, <2>7, <3>1
  <2>8. CASE ~Kept(b, k + 1)
    <3>1. b[k + 1] = "space"
      BY <2>8 DEF Kept
    <3> QED BY <2>2, <2>4, <2>6, <2>8, <3>1
  <2> QED BY <2>7, <2>8
<1>5. Right(n)
  <2> HIDE DEF T, Right, n
  <2>1. n \in T
    BY <1>2, <1>3, <1>4, NatSet
  <2> QED BY <1>2, <2>1 DEF T
<1>6. ~Open(run[n])
  <2>1. ASSUME n > 0, b[n] = "first" PROVE FALSE
    <3>1. n < n
      BY <1>2, <2>1 DEF ValidUTF8
    <3> QED BY <1>2, <3>1
  <2> QED BY <1>5, <2>1
<1> QED BY <1>1, <1>5, <1>6, NormalizeType, ValidComplete DEF KeptSoFar

\* No space at either end, and no two of them together.
Tidy(r) == \A j \in 1..Len(r) :
              r[j] = "space" => 1 < j /\ j < Len(r) /\ r[j + 1] # "space"

\* Between two words one space is left, around them none.
LEMMA NormalizeTidy ==
    ASSUME NEW b \in Seq(Bytes)
    PROVE  Tidy(Normalize(b))
<1> DEFINE n == Len(b)
<1>1. PICK run : KeptSoFar(run, b)
  BY NormalizeFold
<1> DEFINE Right(k) ==
              /\ \A j \in 1..Len(run[k]) :
                    run[k][j] = "space" =>
                       /\ 1 < j
                       /\ j < Len(run[k]) => run[k][j + 1] # "space"
                       /\ j = Len(run[k]) => k > 0 /\ k < n /\ b[k + 1] # "space"
              /\ (\E j \in 1..k : b[j] # "space") => Len(run[k]) > 0
           T == {k \in Nat : k <= n => Right(k)}
<1>2. n \in Nat /\ DOMAIN b = 1..n
  OBVIOUS
<1>3. 0 \in T
  <2>1. Right(0)
    BY <1>1 DEF KeptSoFar
  <2> HIDE DEF Right
  <2> QED BY <2>1
<1>4. ASSUME NEW k \in Nat, k \in T PROVE k + 1 \in T
  <2>1. SUFFICES ASSUME k + 1 <= n PROVE Right(k + 1)
    <3> HIDE DEF Right
    <3> QED BY <2>1
  <2>2. Right(k)
    <3> HIDE DEF Right, n
    <3> QED BY <1>2, <1>4, <2>1
  <2> HIDE DEF T, n
  <2>3. k \in 0..n /\ k + 1 \in 1..n /\ (k + 1) - 1 = k
    BY <1>2, <2>1
  <2> DEFINE r == run[k]
             s == run[k + 1]
             x == b[k + 1]
  <2>4. s = IF Kept(b, k + 1) THEN Append(r, x) ELSE r
    BY <1>1, <2>3 DEF KeptSoFar, n
  <2>5. r \in Seq(Bytes) /\ x \in Bytes /\ Len(r) \in Nat
    <3>1. r \in Seq(Bytes)
      BY <1>1, <2>3 DEF KeptSoFar, n
    <3> QED BY <1>2, <2>3, <3>1
  <2>6. /\ \A j \in 1..Len(r) :
              r[j] = "space" => /\ 1 < j
                                /\ j < Len(r) => r[j + 1] # "space"
                                /\ j = Len(r) => k > 0 /\ k < n /\ x # "space"
        /\ (\E j \in 1..k : b[j] # "space") => Len(r) > 0
    BY <2>2
  <2> HIDE DEF r, x
  <2> SUFFICES /\ \A j \in 1..Len(s) :
                     s[j] = "space" => /\ 1 < j
                                       /\ j < Len(s) => s[j + 1] # "space"
                                       /\ j = Len(s) => k + 1 < n /\ b[(k + 1) + 1] # "space"
               /\ (\E j \in 1..(k + 1) : b[j] # "space") => Len(s) > 0
    OBVIOUS
  <2> HIDE DEF s, Right
  <2>7. CASE Kept(b, k + 1)
    <3>1. /\ Len(s) = Len(r) + 1
          /\ s[Len(r) + 1] = x
          /\ \A j \in 1..Len(r) : s[j] = r[j]
      BY <2>4, <2>5, <2>7
    <3>2. x = "space" => /\ k + 1 < n
                         /\ b[(k + 1) + 1] # "space"
                         /\ Len(r) > 0
      BY <2>3, <2>6, <2>7 DEF Kept, n, x
    <3>3. ASSUME NEW j \in 1..Len(s), s[j] = "space"
          PROVE  /\ 1 < j
                 /\ j < Len(s) => s[j + 1] # "space"
                 /\ j = Len(s) => k + 1 < n /\ b[(k + 1) + 1] # "space"
      <4>1. CASE j = Len(r) + 1
        BY <4>1, <3>1, <3>2, <3>3, <2>5
      <4>2. CASE j \in 1..Len(r)
        <5>1. r[j] = "space"
          BY <4>2, <3>1, <3>3
        <5>2. 1 < j /\ j < Len(s)
          BY <4>2, <5>1, <2>5, <2>6, <3>1
        <5>3. s[j + 1] # "space"
          <6>1. CASE j = Len(r)
            BY <6>1, <5>1, <4>2, <2>5, <2>6, <3>1
          <6>2. CASE j < Len(r)
            <7>1. j + 1 \in 1..Len(r)
              BY <6>2, <4>2, <2>5
            <7> QED BY <6>2, <7>1, <5>1, <4>2, <2>6, <3>1
          <6> QED BY <6>1, <6>2, <4>2, <2>5
        <5> QED BY <5>2, <5>3, <2>5
      <4> QED BY <4>1, <4>2, <2>5, <3>1
    <3>4. Len(s) > 0
      BY <3>1, <2>5
    <3> QED BY <3>3, <3>4
  <2>8. CASE ~Kept(b, k + 1)
    <3>1. s = r
      BY <2>4, <2>8
    <3>2. /\ x = "space"
          /\ k + 1 < n /\ b[(k + 1) + 1] # "space" => ~\E j \in 1..k : b[j] # "space"
      BY <2>3, <2>8 DEF Kept, n, x
    <3>3. ASSUME NEW j \in 1..(k + 1), b[j] # "space" PROVE Len(s) > 0
      <4>1. j \in 1..k
        BY <3>2, <3>3, <2>3 DEF x
      <4> QED BY <4>1, <3>3, <3>1, <2>6
    <3> QED BY <3>1, <3>2, <3>3, <2>6
  <2> QED BY <2>7, <2>8
<1>5. Right(n)
  <2> HIDE DEF T, Right, n
  <2>1. n \in T
    BY <1>2, <1>3, <1>4, NatSet
  <2> QED BY <1>2, <2>1 DEF T
<1>6. run[n] = Normalize(b) /\ Len(run[n]) \in Nat
  BY <1>1, NormalizeType DEF KeptSoFar
<1> SUFFICES ASSUME NEW j \in 1..Len(run[n]), run[n][j] = "space"
             PROVE  1 < j /\ j < Len(run[n]) /\ run[n][j + 1] # "space"
  BY <1>6 DEF Tidy
<1>7. j # Len(run[n])
  BY <1>2, <1>5
<1> QED BY <1>5, <1>6, <1>7

\* f takes the positions of r to those of the first k bytes of b they come
\* from: in order, all bytes of words among them, and no two words made one.
ComesFrom(f, r, b, k) ==
    /\ f \in [1..Len(r) -> 1..k]
    /\ \A i, j \in 1..Len(r) : i < j => f[i] < f[j]
    /\ \A j \in 1..Len(r) : r[j] = b[f[j]]
    /\ \A i \in 1..k : b[i] # "space" => \E j \in 1..Len(r) : f[j] = i
    /\ \A j \in 1..Len(r) :
          j < Len(r) /\ r[j] # "space" /\ r[j + 1] # "space" => f[j + 1] = f[j] + 1

\* A byte that is kept comes from its own position.
LEMMA ComesFromAppend ==
    ASSUME NEW b \in Seq(Bytes), NEW k \in Nat, k + 1 <= Len(b), Kept(b, k + 1),
           NEW r \in Seq(Bytes), NEW f, ComesFrom(f, r, b, k),
           k > 0 /\ Kept(b, k) => Len(r) > 0 /\ f[Len(r)] = k
    PROVE  \E g : /\ ComesFrom(g, Append(r, b[k + 1]), b, k + 1)
                  /\ g[Len(Append(r, b[k + 1]))] = k + 1
<1> DEFINE m == Len(r)
           x == b[k + 1]
           s == Append(r, x)
           g == [j \in 1..(m + 1) |-> IF j = m + 1 THEN k + 1 ELSE f[j]]
<1>1. /\ m \in Nat /\ x \in Bytes
      /\ Len(s) = m + 1 /\ s[m + 1] = x
      /\ \A j \in 1..m : s[j] = r[j]
  OBVIOUS
<1>2. /\ f \in [1..m -> 1..k]
      /\ \A i, j \in 1..m : i < j => f[i] < f[j]
      /\ \A j \in 1..m : r[j] = b[f[j]]
      /\ \A i \in 1..k : b[i] # "space" => \E j \in 1..m : f[j] = i
      /\ \A j \in 1..m : j < m /\ r[j] # "space" /\ r[j + 1] # "space" => f[j + 1] = f[j] + 1
  BY DEF ComesFrom
<1>3. /\ g[m + 1] = k + 1
      /\ \A j \in 1..m : g[j] = f[j] /\ f[j] \in 1..k
      /\ \A j \in 1..(m + 1) : j \in 1..m \/ j = m + 1
  <2>1. m + 1 \in 1..(m + 1) /\ \A j \in 1..m : j \in 1..(m + 1) /\ j # m + 1
    BY <1>1
  <2>2. \A j \in 1..(m + 1) : j \in 1..m \/ j = m + 1
    BY <1>1
  <2> HIDE DEF m
  <2> QED BY <1>2, <2>1, <2>2
<1>4. g \in [1..(m + 1) -> 1..(k + 1)]
  BY <1>1, <1>2
<1> HIDE DEF g, s, m
<1>5. ASSUME NEW i \in 1..(m + 1), NEW j \in 1..(m + 1), i < j PROVE g[i] < g[j]
  <2>1. i \in 1..m
    BY <1>1, <1>5
  <2>2. CASE j \in 1..m
    BY <1>2, <1>3, <1>5, <2>1, <2>2
  <2>3. CASE j = m + 1
    BY <1>3, <2>1, <2>3
  <2> QED BY <1>3, <2>2, <2>3
<1>6. ASSUME NEW j \in 1..(m + 1) PROVE s[j] = b[g[j]]
  BY <1>1, <1>2, <1>3
<1>7. ASSUME NEW i \in 1..(k + 1), b[i] # "space" PROVE \E j \in 1..(m + 1) : g[j] = i
  <2>1. CASE i = k + 1
    BY <1>1, <1>3, <2>1
  <2>2. CASE i # k + 1
    <3>1. i \in 1..k
      BY <2>2
    <3>2. PICK j \in 1..m : f[j] = i
      BY <1>2, <1>7, <3>1
    <3>3. j \in 1..(m + 1) /\ g[j] = i
      BY <1>1, <1>3, <3>2
    <3> QED BY <3>3
  <2> QED BY <2>1, <2>2
<1>8. ASSUME NEW j \in 1..(m + 1), j < m + 1, s[j] # "space", s[j + 1] # "space"
      PROVE  g[j + 1] = g[j] + 1
  <2>1. j \in 1..m /\ s[j] = r[j]
    BY <1>1, <1>3, <1>8
  <2>2. CASE j < m
    <3>1. j + 1 \in 1..m
      BY <1>1, <2>1, <2>2
    <3> QED BY <1>1, <1>2, <1>3, <1>8, <2>1, <2>2, <3>1
  <2>3. CASE j = m
    <3>1. x # "space" /\ r[m] # "space" /\ m > 0 /\ f[m] \in 1..k /\ r[m] = b[f[m]] /\ k > 0
      BY <1>1, <1>2, <1>3, <1>8, <2>1, <2>3
    <3>2. Kept(b, k)
      <4> SUFFICES ASSUME ~Kept(b, k) PROVE FALSE
        OBVIOUS
      <4>1. b[k] = "space" /\ k < Len(b)
        BY DEF Kept
      <4>2. f[m] # k
        BY <3>1, <4>1
      <4>3. f[m] \in 1..(k - 1) /\ b[f[m]] # "space"
        BY <3>1, <4>2
      <4> QED BY <3>1, <4>1, <4>3 DEF Kept
    <3>3. f[m] = k
      BY <3>1, <3>2 DEF m
    <3> QED BY <1>1, <1>3, <2>1, <2>3, <3>3
  <2> QED BY <1>1, <2>1, <2>2, <2>3
<1>9. ComesFrom(g, s, b, k + 1)
  BY <1>1, <1>4, <1>5, <1>6, <1>7, <1>8 DEF ComesFrom
<1> QED BY <1>1, <1>3, <1>9 DEF s

\* Normalize is strings.Join(strings.Fields(text), " "): it keeps every word in
\* its place, merges no two of them, and leaves one space between two.
THEOREM NormalizeJoinsFields ==
    ASSUME NEW b \in Seq(Bytes)
    PROVE  /\ Tidy(Normalize(b))
           /\ \E f : ComesFrom(f, Normalize(b), b, Len(b))
<1> DEFINE n == Len(b)
<1>1. PICK run : KeptSoFar(run, b)
  BY NormalizeFold
<1> DEFINE Right(k) == \E f : /\ ComesFrom(f, run[k], b, k)
                              /\ k > 0 /\ Kept(b, k) => Len(run[k]) > 0 /\ f[Len(run[k])] = k
           T == {k \in Nat : k <= n => Right(k)}
<1>2. n \in Nat
  OBVIOUS
<1>3. 0 \in T
  <2>1. run[0] = <<>> /\ Len(<<>>) = 0 /\ 1..0 = {}
    BY <1>1 DEF KeptSoFar
  <2>2. ComesFrom(<<>>, <<>>, b, 0)
    BY <2>1 DEF ComesFrom
  <2>3. Right(0)
    BY <2>1, <2>2
  <2> HIDE DEF Right
  <2> QED BY <2>3
<1>4. ASSUME NEW k \in Nat, k \in T PROVE k + 1 \in T
  <2>1. SUFFICES ASSUME k + 1 <= n PROVE Right(k + 1)
    <3> HIDE DEF Right
    <3> QED BY <2>1
  <2>2. Right(k)
    <3> HIDE DEF Right, n
    <3> QED BY <1>2, <1>4, <2>1
  <2>3. PICK f : /\ ComesFrom(f, run[k], b, k)
                 /\ k > 0 /\ Kept(b, k) => Len(run[k]) > 0 /\ f[Len(run[k])] = k
    BY <2>2
  <2> HIDE DEF T
  <2>4. k \in 0..n /\ k + 1 \in 1..n /\ (k + 1) - 1 = k
    BY <1>2, <2>1
  <2>5. run[k + 1] = IF Kept(b, k + 1) THEN Append(run[k], b[k + 1]) ELSE run[k]
    BY <1>1, <2>4 DEF KeptSoFar
  <2>6. run[k] \in Seq(Bytes) /\ Len(run[k]) \in Nat
    BY <1>1, <2>4 DEF KeptSoFar
  <2>7. CASE Kept(b, k + 1)
    <3>1. PICK g : /\ ComesFrom(g, Append(run[k], b[k + 1]), b, k + 1)
                   /\ g[Len(Append(run[k], b[k + 1]))] = k + 1
      BY <2>1, <2>3, <2>6, <2>7, ComesFromAppend
    <3>2. run[k + 1] = Append(run[k], b[k + 1]) /\ Len(run[k + 1]) > 0
      <4>1. b[k + 1] \in Bytes
        BY <2>4
      <4> QED BY <2>5, <2>6, <2>7, <4>1
    <3> QED BY <3>1, <3>2
  <2>8. CASE ~Kept(b, k + 1)
    <3>1. run[k + 1] = run[k] /\ b[k + 1] = "space"
      BY <2>5, <2>8 DEF Kept
    <3>2. f \in [1..Len(run[k]) -> 1..(k + 1)]
      BY <2>3 DEF ComesFrom
    <3>3. \A i \in 1..(k + 1) : b[i] # "space" => \E j \in 1..Len(run[k]) : f[j] = i
      <4>1. \A i \in 1..(k + 1) : b[i] # "space" => i \in 1..k
        BY <3>1
      <4> QED BY <2>3, <4>1 DEF ComesFrom
    <3>4. ComesFrom(f, run[k], b, k + 1)
      BY <2>3, <3>2, <3>3 DEF ComesFrom
    <3> QED BY <2>8, <3>1, <3>4
  <2> QED BY <2>7, <2>8
<1>5. Right(n)
  <2> HIDE DEF T, Right, n
  <2>1. n \in T
    BY <1>2, <1>3, <1>4, NatSet
  <2> QED BY <1>2, <2>1 DEF T
<1> QED BY <1>1, <1>5, NormalizeTidy DEF KeptSoFar

\* Positions that only grow are never behind their number.
LEMMA NeverBehind ==
    ASSUME NEW n \in Nat, NEW k \in Nat, NEW f \in [1..n -> 1..k],
           \A i, j \in 1..n : i < j => f[i] < f[j],
           NEW j \in 1..n
    PROVE  j <= f[j]
<1> DEFINE T == {i \in Nat : i + 1 <= n => i + 1 <= f[i + 1]}
<1>1. \A i \in 1..n : f[i] \in 1..k
  OBVIOUS
<1>2. 0 \in T
  <2>1. 1 <= n => f[1] \in 1..k
    BY <1>1
  <2> QED BY <2>1
<1>3. ASSUME NEW i \in Nat, i \in T PROVE i + 1 \in T
  <2> SUFFICES ASSUME (i + 1) + 1 <= n PROVE (i + 1) + 1 <= f[(i + 1) + 1]
    OBVIOUS
  <2>1. i + 1 \in 1..n /\ (i + 1) + 1 \in 1..n /\ i + 1 < (i + 1) + 1
    OBVIOUS
  <2>2. f[i + 1] < f[(i + 1) + 1] /\ f[i + 1] \in 1..k /\ f[(i + 1) + 1] \in 1..k
    BY <1>1, <2>1
  <2>3. i + 1 <= f[i + 1]
    BY <1>3, <2>1
  <2> QED BY <2>2, <2>3
<1> HIDE DEF T
<1>4. Nat \subseteq T
  BY <1>2, <1>3, NatSet
<1>5. j - 1 \in Nat /\ (j - 1) + 1 = j /\ j <= n
  OBVIOUS
<1> QED BY <1>4, <1>5 DEF T

\* A byte of a word is not moved back by normalising.
LEMMA NormalizeKeepsEarly ==
    ASSUME NEW b \in Seq(Bytes), NEW i \in 1..Len(b), b[i] # "space"
    PROVE  \E j \in 1..Len(Normalize(b)) : j <= i /\ Normalize(b)[j] = b[i]
<1> DEFINE w == Normalize(b)
<1>1. w \in Seq(Bytes) /\ Len(w) \in Nat /\ Len(b) \in Nat
  BY NormalizeType
<1>2. PICK f : ComesFrom(f, w, b, Len(b))
  BY NormalizeJoinsFields
<1> HIDE DEF w
<1>3. PICK j \in 1..Len(w) : f[j] = i
  BY <1>2 DEF ComesFrom
<1>4. /\ f \in [1..Len(w) -> 1..Len(b)]
      /\ \A x, y \in 1..Len(w) : x < y => f[x] < f[y]
      /\ w[j] = b[f[j]]
  BY <1>2 DEF ComesFrom
<1>5. j <= f[j]
  BY <1>1, <1>4, NeverBehind
<1> QED BY <1>3, <1>4, <1>5 DEF w

\* A tidy text is its own normal form.
LEMMA NormalizeOfTidy ==
    ASSUME NEW b \in Seq(Bytes), Tidy(b)
    PROVE  Normalize(b) = b
<1> DEFINE n == Len(b)
<1>1. PICK run : KeptSoFar(run, b)
  BY NormalizeFold
<1> DEFINE Right(k) == run[k] = SubSeq(b, 1, k)
           T == {k \in Nat : k <= n => Right(k)}
<1>2. n \in Nat /\ b \in Seq(Bytes)
  OBVIOUS
<1>3. 0 \in T
  <2>1. Right(0)
    BY <1>1 DEF KeptSoFar
  <2> HIDE DEF Right
  <2> QED BY <2>1
<1>4. ASSUME NEW k \in Nat, k \in T PROVE k + 1 \in T
  <2>1. SUFFICES ASSUME k + 1 <= n PROVE Right(k + 1)
    <3> HIDE DEF Right
    <3> QED BY <2>1
  <2>2. Right(k)
    <3> HIDE DEF Right, n
    <3> QED BY <1>2, <1>4, <2>1
  <2> HIDE DEF T
  <2>4. k \in 0..n /\ k + 1 \in 1..n /\ (k + 1) - 1 = k
    BY <1>2, <2>1
  <2>5. run[k + 1] = IF Kept(b, k + 1) THEN Append(run[k], b[k + 1]) ELSE run[k]
    BY <1>1, <2>4 DEF KeptSoFar
  <2>6. Kept(b, k + 1)
    <3> SUFFICES ASSUME b[k + 1] = "space"
                 PROVE  /\ k + 1 < Len(b)
                        /\ b[(k + 1) + 1] # "space"
                        /\ \E j \in 1..((k + 1) - 1) : b[j] # "space"
      BY DEF Kept
    <3>1. 1 < k + 1 /\ k + 1 < Len(b) /\ b[(k + 1) + 1] # "space"
      BY <2>4 DEF Tidy
    <3>2. 1 \in 1..Len(b) /\ b[1] # "space"
      BY <1>2, <2>1 DEF Tidy
    <3> QED BY <3>1, <3>2
  <2>7. SubSeq(b, 1, k + 1) = Append(SubSeq(b, 1, k), b[k + 1])
    BY <2>4
  <2> QED BY <2>2, <2>5, <2>6, <2>7
<1>5. Right(n)
  <2> HIDE DEF T, Right, n
  <2>1. n \in T
    BY <1>2, <1>3, <1>4, NatSet
  <2> QED BY <1>2, <2>1 DEF T
<1>6. SubSeq(b, 1, n) = b
  OBVIOUS
<1> QED BY <1>1, <1>5, <1>6 DEF KeptSoFar

-----------------------------------------------------------------------------
(* SummarizeDocument. *)

\* Where SummarizeDocument cuts a text without superfluous spaces.
CutAt(w, m, dots) ==
    \/ Len(w) <= SummaryLimit /\ m = Len(w) /\ dots = FALSE
    \/ /\ Len(w) > SummaryLimit /\ dots = FALSE
       /\ m \in (SummaryFloor + 1)..SummaryLimit
       /\ w[m] = "stop"
       /\ \A k \in (m + 1)..SummaryLimit : w[k] # "stop"
    \/ /\ Len(w) > SummaryLimit /\ dots = TRUE
       /\ m = IF w[SummaryLimit] = "space" THEN SummaryLimit - 1 ELSE SummaryLimit
       /\ \A k \in (SummaryFloor + 1)..SummaryLimit : w[k] # "stop"

\* The first m bytes of a text.
LEMMA Beginning ==
    ASSUME NEW w \in Seq(Bytes), NEW m \in 0..Len(w)
    PROVE  /\ SubSeq(w, 1, m) \in Seq(Bytes)
           /\ Len(SubSeq(w, 1, m)) = m
           /\ \A j \in 1..m : SubSeq(w, 1, m)[j] = w[j]
           /\ IsPrefix(SubSeq(w, 1, m), w)
<1>1. m \in Nat /\ Len(w) \in Nat /\ m <= Len(w)
  OBVIOUS
<1>2. /\ SubSeq(w, 1, m) \in Seq(Bytes)
      /\ Len(SubSeq(w, 1, m)) = m
      /\ \A j \in 1..m : SubSeq(w, 1, m)[j] = w[j]
  BY <1>1
<1>3. SubSeq(SubSeq(w, 1, m), 1, m) = SubSeq(w, 1, m)
  BY <1>1, <1>2
<1> QED BY <1>1, <1>2, <1>3 DEF IsPrefix

\* Every summary is the text up to such a place.
LEMMA SummaryIsCut ==
    ASSUME NEW b \in Seq(Bytes)
    PROVE  \E m \in 0..Len(Normalize(b)) :
              /\ CutAt(Normalize(b), m, SummarizeDocument(b).dots)
              /\ SummarizeDocument(b).body = SubSeq(Normalize(b), 1, m)
<1> DEFINE w == Normalize(b)
           s == SummarizeDocument(b)
           cut == SubSeq(w, 1, SummaryLimit)
           stops == {i \in DOMAIN cut : cut[i] = "stop"}
           Is(m) == CutAt(w, m, s.dots) /\ s.body = SubSeq(w, 1, m)
<1>1. w \in Seq(Bytes) /\ Len(w) \in Nat
  BY NormalizeType
<1>2. SummaryLimit \in Nat \ {0} /\ SummaryFloor \in Nat /\ SummaryFloor <= SummaryLimit
  BY AnalysisAssumption
<1>3. CASE Len(w) <= SummaryLimit
  <2>0. ~(Len(w) > SummaryLimit)
    BY <1>1, <1>2, <1>3
  <2>1. s = [body |-> w, dots |-> FALSE]
    BY <1>3, <2>0, Zenon DEF SummarizeDocument
  <2>2. SubSeq(w, 1, Len(w)) = w
    BY <1>1
  <2> HIDE DEF w, s
  <2>3. Len(w) \in 0..Len(w) /\ Is(Len(w))
    BY <1>1, <1>3, <2>1, <2>2 DEF CutAt
  <2> QED BY <2>3 DEF w, s
<1>4. ASSUME Len(w) > SummaryLimit
      PROVE  /\ DOMAIN cut = 1..SummaryLimit
             /\ \A j \in 1..SummaryLimit : cut[j] = w[j]
             /\ cut \in Seq(Bytes) /\ Len(cut) = SummaryLimit
  <2> HIDE DEF w
  <2>1. SummaryLimit \in 0..Len(w)
    BY <1>1, <1>2, <1>4
  <2> QED BY <1>1, <1>2, <2>1, Beginning
<1>5. CASE Len(w) > SummaryLimit /\ \E i \in stops : i > SummaryFloor
  <2> DEFINE m == Max(stops)
  <2>1. s = [body |-> SubSeq(cut, 1, m), dots |-> FALSE]
    <3>1. ~(Len(w) <= SummaryLimit)
      BY <1>1, <1>2, <1>5
    <3> QED BY <1>5, <3>1, Zenon DEF SummarizeDocument
  <2> HIDE DEF w, s, cut
  <2>2. stops \in SUBSET (1..SummaryLimit) /\ stops # {}
    BY <1>4, <1>5
  <2>3. m \in stops /\ \A y \in stops : m >= y
    <3> HIDE DEF stops
    <3> QED BY <2>2, <1>2, MaxOf
  <2> HIDE DEF m
  <2>4. m \in (SummaryFloor + 1)..SummaryLimit /\ w[m] = "stop"
    BY <1>2, <1>4, <1>5, <2>2, <2>3
  <2>5. \A k \in (m + 1)..SummaryLimit : w[k] # "stop"
    BY <1>2, <1>4, <1>5, <2>3, <2>4
  <2>6. SubSeq(cut, 1, m) = SubSeq(w, 1, m)
    <3>1. m \in 0..Len(cut) /\ m \in 0..Len(w) /\ m <= SummaryLimit /\ m \in Nat
      BY <1>1, <1>2, <1>4, <1>5, <2>4
    <3>2. /\ SubSeq(cut, 1, m) \in Seq(Bytes) /\ Len(SubSeq(cut, 1, m)) = m
          /\ \A j \in 1..m : SubSeq(cut, 1, m)[j] = cut[j]
      BY <1>4, <1>5, <3>1, Beginning
    <3>3. /\ SubSeq(w, 1, m) \in Seq(Bytes) /\ Len(SubSeq(w, 1, m)) = m
          /\ \A j \in 1..m : SubSeq(w, 1, m)[j] = w[j]
      BY <1>1, <3>1, Beginning
    <3>4. \A j \in 1..m : cut[j] = w[j]
      BY <1>2, <1>4, <1>5, <3>1
    <3> QED BY <3>2, <3>3, <3>4
  <2>7. m \in 0..Len(w)
    BY <1>1, <1>2, <1>5, <2>4
  <2>8. Is(m)
    BY <1>5, <2>1, <2>4, <2>5, <2>6 DEF CutAt
  <2> QED BY <2>7, <2>8 DEF w, s
<1>6. CASE Len(w) > SummaryLimit /\ ~\E i \in stops : i > SummaryFloor
  <2>1. s = [body |-> TrimRight(cut), dots |-> TRUE]
    <3>1. ~(Len(w) <= SummaryLimit)
      BY <1>1, <1>2, <1>6
    <3> QED BY <1>6, <3>1, Zenon DEF SummarizeDocument
  <2> DEFINE m == IF w[SummaryLimit] = "space" THEN SummaryLimit - 1 ELSE SummaryLimit
  <2> HIDE DEF w, s, cut
  <2>2. \A k \in (SummaryFloor + 1)..SummaryLimit : w[k] # "stop"
    BY <1>2, <1>4, <1>6
  <2>3. cut # <<>> /\ cut[Len(cut)] = w[SummaryLimit]
    BY <1>2, <1>4, <1>6
  <2>4. TrimRight(cut) = SubSeq(w, 1, m)
    <3>1. CASE w[SummaryLimit] = "space"
      <4>1. TrimRight(cut) = SubSeq(cut, 1, SummaryLimit - 1)
        BY <2>3, <3>1, <1>4, <1>6 DEF TrimRight, Last, Front
      <4>2. /\ SummaryLimit - 1 \in 0..Len(cut)
            /\ SummaryLimit - 1 \in 0..Len(w)
            /\ SummaryLimit - 1 \in Nat
        BY <1>1, <1>2, <1>4, <1>6
      <4>3. /\ SubSeq(cut, 1, SummaryLimit - 1) \in Seq(Bytes)
            /\ Len(SubSeq(cut, 1, SummaryLimit - 1)) = SummaryLimit - 1
            /\ \A j \in 1..(SummaryLimit - 1) : SubSeq(cut, 1, SummaryLimit - 1)[j] = cut[j]
        BY <1>4, <1>6, <4>2, Beginning
      <4>4. /\ SubSeq(w, 1, SummaryLimit - 1) \in Seq(Bytes)
            /\ Len(SubSeq(w, 1, SummaryLimit - 1)) = SummaryLimit - 1
            /\ \A j \in 1..(SummaryLimit - 1) : SubSeq(w, 1, SummaryLimit - 1)[j] = w[j]
        BY <1>1, <4>2, Beginning
      <4>5. \A j \in 1..(SummaryLimit - 1) : cut[j] = w[j]
        BY <1>2, <1>4, <1>6
      <4>6. SubSeq(cut, 1, SummaryLimit - 1) = SubSeq(w, 1, SummaryLimit - 1)
        BY <4>2, <4>3, <4>4, <4>5
      <4> QED BY <3>1, <4>1, <4>6
    <3>2. CASE w[SummaryLimit] # "space"
      BY <2>3, <3>2 DEF TrimRight, Last, cut
    <3> QED BY <3>1, <3>2
  <2>5. m \in 0..Len(w)
    BY <1>1, <1>2, <1>6
  <2>6. Is(m)
    BY <1>6, <2>1, <2>2, <2>4 DEF CutAt
  <2> HIDE DEF m
  <2> QED BY <2>5, <2>6 DEF w, s
<1>7. Len(w) <= SummaryLimit \/ Len(w) > SummaryLimit
  BY <1>1, <1>2
<1> QED BY <1>3, <1>5, <1>6, <1>7

\* A valid text breaks into valid pieces after a character that is not the
\* first byte of two.
LEMMA ValidPrefix ==
    ASSUME NEW w \in Seq(Bytes), ValidUTF8(w), NEW m \in 1..Len(w), w[m] # "first"
    PROVE  ValidUTF8(SubSeq(w, 1, m))
<1> DEFINE p == SubSeq(w, 1, m)
<1>1. m \in Nat /\ Len(w) \in Nat /\ m <= Len(w) /\ DOMAIN w = 1..Len(w)
  OBVIOUS
<1>2. p \in Seq(Bytes) /\ Len(p) = m /\ DOMAIN p = 1..m /\ \A j \in 1..m : p[j] = w[j]
  BY <1>1
<1> HIDE DEF p
<1> SUFFICES ASSUME NEW i \in 1..m
             PROVE  /\ p[i] # "bad"
                    /\ p[i] = "first" => i < Len(p) /\ p[i + 1] = "second"
                    /\ p[i] = "second" => i > 1 /\ p[i - 1] = "first"
  BY <1>2 DEF ValidUTF8, p
<1>3. /\ w[i] # "bad"
      /\ w[i] = "first" => i < Len(w) /\ w[i + 1] = "second"
      /\ w[i] = "second" => i > 1 /\ w[i - 1] = "first"
  <2>1. i \in DOMAIN w
    BY <1>1
  <2> QED BY <2>1 DEF ValidUTF8
<1>4. w[i] = "first" => i < m /\ p[i + 1] = "second"
  <2>1. w[i] = "first" => i # m
    OBVIOUS
  <2>2. i < m => i + 1 \in 1..m
    BY <1>1
  <2> QED BY <1>1, <1>2, <1>3, <2>1, <2>2
<1>5. w[i] = "second" => i > 1 /\ p[i - 1] = "first"
  <2>1. i > 1 => i - 1 \in 1..m
    BY <1>1
  <2> QED BY <1>2, <1>3, <2>1
<1> QED BY <1>2, <1>3, <1>4, <1>5

\* A valid text has a valid summary unless it breaks off with an ellipsis.
LEMMA SummaryValid ==
    ASSUME NEW b \in Seq(Bytes), ValidUTF8(b), ~SummarizeDocument(b).dots
    PROVE  ValidUTF8(SummarizeDocument(b).body)
<1> DEFINE w == Normalize(b)
           s == SummarizeDocument(b)
<1>1. w \in Seq(Bytes) /\ ValidUTF8(w) /\ Len(w) \in Nat
  BY NormalizeType, NormalizeValid
<1>2. PICK m \in 0..Len(w) : CutAt(w, m, s.dots) /\ s.body = SubSeq(w, 1, m)
  BY SummaryIsCut
<1> HIDE DEF w, s
<1>3. CASE m = Len(w)
  <2>1. s.body = w
    BY <1>1, <1>2, <1>3
  <2> QED BY <1>1, <2>1 DEF s
<1>4. CASE m # Len(w)
  <2>1. m \in (SummaryFloor + 1)..SummaryLimit /\ w[m] = "stop"
    BY <1>2, <1>4 DEF CutAt, s
  <2>2. m \in 1..Len(w)
    BY <1>1, <1>2, <2>1, AnalysisAssumption
  <2> QED BY <1>1, <1>2, <2>1, <2>2, ValidPrefix DEF s
<1> QED BY <1>3, <1>4

\* Every summary is long enough to keep the early byte that is in no text.
LEMMA SummaryOfBad ==
    ASSUME NEW b \in Seq(Bytes), Binary(b)
    PROVE  ~ValidUTF8(SummarizeDocument(b).body)
<1> DEFINE w == Normalize(b)
           s == SummarizeDocument(b)
<1>1. PICK i \in 1..Len(b) : i <= SummaryFloor + 1 /\ b[i] = "bad"
  BY DEF Binary
<1>2. w \in Seq(Bytes) /\ Len(w) \in Nat
  BY NormalizeType
<1>3. PICK j \in 1..Len(w) : j <= i /\ w[j] = "bad"
  BY <1>1, NormalizeKeepsEarly
<1>4. PICK m \in 0..Len(w) : CutAt(w, m, s.dots) /\ s.body = SubSeq(w, 1, m)
  BY SummaryIsCut
<1> HIDE DEF w, s
<1>5. j <= SummaryFloor + 1 /\ j <= SummaryLimit
  BY <1>1, <1>2, <1>3, AnalysisAssumption
<1>6. j <= m
  <2>1. w[SummaryLimit] = "space" => j # SummaryLimit
    BY <1>3
  <2> QED BY <1>2, <1>3, <1>4, <1>5, <2>1, AnalysisAssumption DEF CutAt
<1>7. j \in DOMAIN s.body /\ s.body[j] = "bad"
  <2>1. s.body \in Seq(Bytes) /\ Len(s.body) = m /\ \A x \in 1..m : s.body[x] = w[x]
    BY <1>2, <1>4, Beginning
  <2> QED BY <1>2, <1>3, <1>4, <1>6, <2>1
<1> QED BY <1>7 DEF ValidUTF8, s

\* TrimRight takes one byte away, which is enough.
LEMMA SummaryTidy ==
    ASSUME NEW b \in Seq(Bytes)
    PROVE  Tidy(SummarizeDocument(b).body)
<1> DEFINE w == Normalize(b)
           s == SummarizeDocument(b)
<1>1. w \in Seq(Bytes) /\ Tidy(w) /\ Len(w) \in Nat
  BY NormalizeType, NormalizeTidy
<1>2. PICK m \in 0..Len(w) : CutAt(w, m, s.dots) /\ s.body = SubSeq(w, 1, m)
  BY SummaryIsCut
<1> HIDE DEF w, s
<1>3. m \in Nat /\ s.body \in Seq(Bytes) /\ Len(s.body) = m /\ \A j \in 1..m : s.body[j] = w[j]
  BY <1>1, <1>2, Beginning
<1>4. m > 0 => w[m] # "space"
  <2> SUFFICES ASSUME m > 0, w[m] = "space" PROVE FALSE
    OBVIOUS
  <2>1. m \in 1..Len(w)
    BY <1>1, <1>2
  <2>2. m < Len(w) /\ w[m + 1] # "space"
    BY <1>1, <2>1 DEF Tidy
  <2>3. m = SummaryLimit - 1 /\ w[SummaryLimit] = "space"
    BY <1>2, <2>2 DEF CutAt
  <2> QED BY <2>2, <2>3, AnalysisAssumption
<1> SUFFICES ASSUME NEW j \in 1..m, s.body[j] = "space"
             PROVE  1 < j /\ j < m /\ s.body[j + 1] # "space"
  BY <1>3 DEF Tidy, s
<1>5. j \in 1..Len(w) /\ w[j] = "space" /\ j # m
  BY <1>1, <1>2, <1>3, <1>4
<1>6. 1 < j /\ w[j + 1] # "space"
  BY <1>1, <1>5 DEF Tidy
<1>7. j < m /\ j + 1 \in 1..m
  BY <1>3, <1>5
<1> QED BY <1>3, <1>6, <1>7

\* The summary of a summary is that summary: nothing is left to normalise, to
\* trim or to cut, whatever became of the text.
THEOREM SummaryOfSummary ==
    ASSUME NEW b \in Seq(Bytes)
    PROVE  SummarizeDocument(SummarizeDocument(b).body)
               = [body |-> SummarizeDocument(b).body, dots |-> FALSE]
<1> DEFINE w == Normalize(b)
           s == SummarizeDocument(b)
<1>1. w \in Seq(Bytes) /\ Len(w) \in Nat
  BY NormalizeType
<1>2. PICK m \in 0..Len(w) : CutAt(w, m, s.dots) /\ s.body = SubSeq(w, 1, m)
  BY SummaryIsCut
<1>3. Tidy(s.body)
  BY SummaryTidy
<1> HIDE DEF w, s
<1>4. s.body \in Seq(Bytes) /\ Len(s.body) = m
  BY <1>1, <1>2, Beginning
<1>5. m <= SummaryLimit
  BY <1>1, <1>2, AnalysisAssumption DEF CutAt
<1>6. Normalize(s.body) = s.body
  BY <1>3, <1>4, NormalizeOfTidy
<1>7. ~(Len(Normalize(s.body)) > SummaryLimit) /\ Len(Normalize(s.body)) <= SummaryLimit
  BY <1>1, <1>2, <1>4, <1>5, <1>6, AnalysisAssumption
<1>8. SummarizeDocument(s.body) = [body |-> Normalize(s.body), dots |-> FALSE]
  BY <1>7, Zenon DEF SummarizeDocument
<1> QED BY <1>6, <1>8 DEF s

-----------------------------------------------------------------------------
(* What an attempt finds. *)

\* What the assumption on Texts gives.
LEMMA ScoreType ==
    ASSUME NEW t \in Texts
    PROVE  /\ t.bytes \in Seq(Bytes)
           /\ ResumeScore(t) \in Nat
           /\ \A topic \in Topics : Score(t, topic) \in Nat
           /\ Score(t, "resume") = ResumeScore(t)
<1>1. /\ t.bytes \in Seq(Bytes) /\ t.email \in BOOLEAN /\ t.phone \in BOOLEAN
      /\ t.matches \in [Topics -> Nat] /\ "resume" \in Topics
  BY IntakeAssumption, AnalysisAssumption
<1>2. ResumeScore(t) \in Nat
  <2>1. t.matches["resume"] \in Nat
    BY <1>1
  <2> QED BY <2>1 DEF ResumeScore
<1> QED BY <1>1, <1>2 DEF Score

\* A confidence is one of the column's values.
LEMMA ConfidenceType ==
    ASSUME NEW score \in Nat
    PROVE  ConfidenceFromScore(score) \in 50..95
  BY DEF ConfidenceFromScore

\* What ClassifyDocument says of a text in one order, said without a loop.
Classified(t, result) ==
    IF ResumeScore(t) >= 5
    THEN result = [class |-> "resume", confidence |-> ConfidenceFromScore(ResumeScore(t))]
    ELSE \E best \in Best :
            /\ \A topic \in Topics : Score(t, topic) <= best.score
            /\ best.class = "general" <=> best.score = 0
            /\ best.class # "general" => best.score = Score(t, best.class)
            /\ result = [class |-> best.class,
                         confidence |-> IF best.score = 0 THEN 50
                                        ELSE ConfidenceFromScore(best.score)]

\* ClassifyDocument in any order.
LEMMA ClassifyResult ==
    ASSUME NEW t \in Texts, NEW order \in SetToSeqs(Topics)
    PROVE  Classified(t, ClassifyDocument(t, order))
<1>1. CASE ResumeScore(t) >= 5
  BY <1>1, Zenon DEF ClassifyDocument, Classified
<1>2. CASE ~(ResumeScore(t) >= 5)
  <2>1. ResumeScore(t) < 5
    BY <1>2, ScoreType
  <2>2. \E best \in Best :
              /\ \A topic \in Topics : Score(t, topic) <= best.score
              /\ best.class = "general" <=> best.score = 0
              /\ best.class # "general" => best.score = Score(t, best.class)
              /\ ResumeScore(t) < 5 =>
                    ClassifyDocument(t, order) =
                       [class |-> best.class,
                        confidence |-> IF best.score = 0 THEN 50
                                       ELSE ConfidenceFromScore(best.score)]
    BY ScoreType, ClassifyBest
  <2> QED BY <1>2, <2>1, <2>2 DEF Classified
<1> QED BY <1>1, <1>2

\* The types of its results.
LEMMA ClassifiedType ==
    ASSUME NEW t \in Texts, NEW r, Classified(t, r)
    PROVE  r.class \in Topics \cup {"general"} /\ r.confidence \in 50..95
<1>1. CASE ResumeScore(t) >= 5
  <2>1. ConfidenceFromScore(ResumeScore(t)) \in 50..95
    BY ScoreType, ConfidenceType
  <2> QED BY <1>1, <2>1, AnalysisAssumption DEF Classified
<1>2. CASE ~(ResumeScore(t) >= 5)
  <2>1. PICK best \in Best : r = [class |-> best.class,
                                  confidence |-> IF best.score = 0 THEN 50
                                                 ELSE ConfidenceFromScore(best.score)]
    BY <1>2 DEF Classified
  <2>2. best.class \in Topics \cup {"general"} /\ best.score \in Nat
    BY DEF Best
  <2>3. ConfidenceFromScore(best.score) \in 50..95
    BY <2>2, ConfidenceType
  <2> QED BY <2>1, <2>2, <2>3
<1> QED BY <1>1, <1>2

\* No class of a higher score is passed over.
LEMMA ClassifiedEarned ==
    ASSUME NEW t \in Texts, NEW r, Classified(t, r)
    PROVE  IF r.class = "general" THEN \A topic \in Topics : Score(t, topic) = 0
           ELSE /\ Score(t, r.class) > 0
                /\ \/ r.class = "resume" /\ ResumeScore(t) >= 5
                   \/ \A topic \in Topics : Score(t, topic) <= Score(t, r.class)
<1>1. CASE ResumeScore(t) >= 5
  <2>1. r.class = "resume" /\ "resume" # "general"
    BY <1>1, AnalysisAssumption DEF Classified
  <2>2. Score(t, "resume") > 0
    BY <1>1, ScoreType
  <2> QED BY <1>1, <2>1, <2>2
<1>2. CASE ~(ResumeScore(t) >= 5)
  <2>1. PICK best \in Best :
            /\ \A topic \in Topics : Score(t, topic) <= best.score
            /\ best.class = "general" <=> best.score = 0
            /\ best.class # "general" => best.score = Score(t, best.class)
            /\ r.class = best.class
    BY <1>2 DEF Classified
  <2>2. best.score \in Nat
    BY DEF Best
  <2>3. CASE best.class = "general"
    BY <2>1, <2>3, ScoreType
  <2>4. CASE best.class # "general"
    BY <2>1, <2>2, <2>4
  <2> QED BY <2>3, <2>4
<1> QED BY <1>1, <1>2

\* Two orders may differ in the class of a tie only.
LEMMA ClassifiedAgree ==
    ASSUME NEW t \in Texts, NEW r, NEW q, Classified(t, r), Classified(t, q)
    PROVE  /\ r.confidence = q.confidence
           /\ r.class # q.class => Score(t, r.class) = Score(t, q.class)
<1>1. CASE ResumeScore(t) >= 5
  BY <1>1 DEF Classified
<1>2. CASE ~(ResumeScore(t) >= 5)
  <2>1. PICK best \in Best :
            /\ \A topic \in Topics : Score(t, topic) <= best.score
            /\ best.class = "general" <=> best.score = 0
            /\ best.class # "general" => best.score = Score(t, best.class)
            /\ r = [class |-> best.class, confidence |-> IF best.score = 0 THEN 50
                                                 ELSE ConfidenceFromScore(best.score)]
    BY <1>2 DEF Classified
  <2>2. PICK other \in Best :
            /\ \A topic \in Topics : Score(t, topic) <= other.score
            /\ other.class = "general" <=> other.score = 0
            /\ other.class # "general" => other.score = Score(t, other.class)
            /\ q = [class |-> other.class, confidence |-> IF other.score = 0 THEN 50
                                                 ELSE ConfidenceFromScore(other.score)]
    BY <1>2 DEF Classified
  <2>3. /\ best.score \in Nat /\ best.class \in Topics \cup {"general"}
        /\ other.score \in Nat /\ other.class \in Topics \cup {"general"}
    BY DEF Best
  <2>4. best.score <= other.score
    BY <2>1, <2>2, <2>3
  <2>5. other.score <= best.score
    BY <2>1, <2>2, <2>3
  <2>6. best.score = other.score
    BY <2>3, <2>4, <2>5
  <2> QED BY <2>1, <2>2, <2>6
<1> QED BY <1>1, <1>2

\* What an attempt may find.
Attempt == {[text |-> t,
             class |-> ClassifyDocument(t, order).class,
             confidence |-> ClassifyDocument(t, order).confidence,
             summary |-> SummarizeDocument(t.bytes)] : t \in Texts, order \in SetToSeqs(Topics)}

\* The parts of an attempt.
LEMMA AttemptFacts ==
    ASSUME NEW a \in Attempt
    PROVE  /\ a.text \in Texts
           /\ \E r : Classified(a.text, r) /\ a.class = r.class /\ a.confidence = r.confidence
           /\ a.summary = SummarizeDocument(a.text.bytes)
<1>1. PICK t \in Texts, order \in SetToSeqs(Topics) :
         a = [text |-> t,
              class |-> ClassifyDocument(t, order).class,
              confidence |-> ClassifyDocument(t, order).confidence,
              summary |-> SummarizeDocument(t.bytes)]
  BY DEF Attempt
<1>2. /\ a.text = t
      /\ a.class = ClassifyDocument(t, order).class
      /\ a.confidence = ClassifyDocument(t, order).confidence
      /\ a.summary = SummarizeDocument(t.bytes)
  BY <1>1
<1>3. Classified(t, ClassifyDocument(t, order))
  BY ClassifyResult
<1> QED BY <1>2, <1>3

-----------------------------------------------------------------------------
(* The inductive invariant. *)

\* The types, with what an attempt may find in place of its components.
IntakeTypeInv ==
    /\ stage \in {"new", "refused", "stored", "queued", "reading", "extracted", "analysed",
                  "ready", "failed"}
    /\ file \in Files \cup {Nothing}
    /\ parser \in {"none", "pdf", "text", "any"}
    /\ reading \in Texts \cup {Nothing}
    /\ text \in Texts \cup {Nothing}
    /\ fellBack \in BOOLEAN
    /\ attempts \in Seq(Attempt)

\* A raw upload is read as a PDF or as text, and reading as text is no error,
\* so that only what is read as a PDF gets to the fallback.
ParserInv ==
    /\ stage \notin {"new", "refused", "stored"} =>
           /\ parser \in {"pdf", "text"}
           /\ parser = "text" => reading \in Texts
    /\ stage = "reading" => parser = "pdf"

\* A file is only taken up again while an attempt is left, and what is
\* recorded is of the text of the last one.
AttemptsInv ==
    /\ Len(attempts) <= MaxAttempts
    /\ stage \in {"new", "refused", "stored"} => attempts = <<>>
    /\ stage \in {"queued", "reading", "extracted"} => Len(attempts) < MaxAttempts
    /\ stage \in {"extracted", "analysed"} => text \in Texts
    /\ stage = "analysed" => attempts # <<>> /\ Last(attempts).text = text

\* The text parser hands on the bytes of a file that is no text, with an early
\* one that is in none; no attempt replaces them by another text.
BytesInv ==
    /\ parser = "text" /\ stage \in {"extracted", "analysed"} => text = reading
    /\ parser = "text" /\ file.type \notin {"text", "pdf"}
            /\ stage \notin {"new", "refused", "stored"} =>
           Binary(reading.bytes) /\ stage # "ready"

IntakeInv == IntakeTypeInv /\ ParserInv /\ AttemptsInv /\ BytesInv

\* The invariant holds at the beginning.
LEMMA IntakeInit == Init => IntakeInv
<1> SUFFICES ASSUME Init PROVE IntakeInv
  OBVIOUS
<1>1. attempts \in Seq(Attempt) /\ Len(attempts) <= MaxAttempts
  BY IntakeAssumption DEF Init
<1> QED BY <1>1 DEF Init, IntakeInv, IntakeTypeInv, ParserInv, AttemptsInv, BytesInv

\* An attempt appended to the ones before it.
LEMMA OneMoreAttempt ==
    ASSUME attempts \in Seq(Attempt), text \in Texts, Len(attempts) < MaxAttempts, Analyse
    PROVE  /\ attempts' \in Seq(Attempt)
           /\ Len(attempts') <= MaxAttempts
           /\ attempts' # <<>> /\ Last(attempts').text = text
<1>1. PICK order \in SetToSeqs(Topics) :
         attempts' = Append(attempts,
                            [text |-> text,
                             class |-> ClassifyDocument(text, order).class,
                             confidence |-> ClassifyDocument(text, order).confidence,
                             summary |-> SummarizeDocument(text.bytes)])
  BY Zenon DEF Analyse
<1> DEFINE a == [text |-> text,
                 class |-> ClassifyDocument(text, order).class,
                 confidence |-> ClassifyDocument(text, order).confidence,
                 summary |-> SummarizeDocument(text.bytes)]
<1>2. a \in Attempt
  BY DEF Attempt
<1>3. a.text = text
  OBVIOUS
<1> HIDE DEF a
<1>4. attempts' = Append(attempts, a)
  BY <1>1 DEF a
<1>5. /\ attempts' \in Seq(Attempt) /\ Len(attempts') = Len(attempts) + 1
      /\ attempts'[Len(attempts')] = a /\ Len(attempts) \in Nat
  BY <1>2, <1>4
<1> QED BY <1>3, <1>5, IntakeAssumption DEF Last

\* Every step keeps it.
LEMMA IntakeStep == IntakeInv /\ [Next]_vars => IntakeInv'
<1> SUFFICES ASSUME IntakeInv, [Next]_vars PROVE IntakeInv'
  OBVIOUS
<1> USE IntakeAssumption DEF IntakeInv, IntakeTypeInv, ParserInv, AttemptsInv, BytesInv
<1>1. ASSUME NEW f \in Files, UploadDocument(f) PROVE IntakeInv'
  BY <1>1 DEF UploadDocument
<1>2. ASSUME NEW format \in Extensions, NEW filename \in Extensions, QueueTask(format, filename)
      PROVE  IntakeInv'
  <2>1. parser' \in {"pdf", "text"}
    BY <1>2 DEF QueueTask, ParserForPayload
  <2>2. /\ reading' \in Texts \cup {Nothing}
        /\ parser' = "text" => reading' \in Texts
        /\ parser' = "text" /\ file.type \notin {"text", "pdf"} => Binary(reading'.bytes)
    BY <1>2 DEF QueueTask, Readings
  <2>3. Len(attempts) < MaxAttempts
    BY <1>2 DEF QueueTask
  <2> QED BY <1>2, <2>1, <2>2, <2>3 DEF QueueTask
<1>3. CASE ParseLocally
  BY <1>3 DEF ParseLocally
<1>4. CASE ExtractTextWithOpenAI
  BY <1>4 DEF ExtractTextWithOpenAI
<1>5. CASE Analyse
  <2>1. /\ attempts' \in Seq(Attempt)
        /\ Len(attempts') <= MaxAttempts
        /\ attempts' # <<>> /\ Last(attempts').text = text
    BY <1>5, OneMoreAttempt DEF Analyse
  <2>2. /\ stage = "extracted" /\ stage' \in {"failed", "analysed"}
        /\ UNCHANGED <<file, parser, reading, text, fellBack>>
    BY <1>5 DEF Analyse
  <2> QED BY <2>1, <2>2 DEF Last
<1>6. CASE EmbedFails
  BY <1>6 DEF EmbedFails, Retry
<1>7. CASE RecordResult
  <2>1. stage' = "ready" /\ parser = "text" => file.type \in {"text", "pdf"}
    <3> SUFFICES ASSUME stage' = "ready", parser = "text", file.type \notin {"text", "pdf"}
                 PROVE  FALSE
      OBVIOUS
    <3>1. Binary(text.bytes) /\ text \in Texts
      BY <1>7 DEF RecordResult
    <3>2. Last(attempts) \in Attempt /\ Last(attempts).text = text
      BY <1>7 DEF RecordResult, Last
    <3>3. Last(attempts).summary = SummarizeDocument(text.bytes)
      BY <3>2, AttemptFacts
    <3>4. ~ValidUTF8(Last(attempts).summary.body)
      BY <3>1, <3>3, ScoreType, SummaryOfBad
    <3> QED BY <1>7, <3>4 DEF RecordResult, Retry
  <2>2. /\ stage = "analysed" /\ stage' \in {"ready", "queued", "failed"}
        /\ stage' = "queued" => Len(attempts) < MaxAttempts
        /\ text' \in Texts \cup {Nothing}
        /\ UNCHANGED <<file, parser, reading, fellBack, attempts>>
    BY <1>7 DEF RecordResult, Retry
  <2> QED BY <2>1, <2>2
<1>8. CASE UNCHANGED vars
  BY <1>8 DEF vars
<1> QED BY <1>1, <1>2, <1>3, <1>4, <1>5, <1>6, <1>7, <1>8 DEF Next

\* It always holds.
LEMMA IntakeInvariant == Spec => []IntakeInv
  BY IntakeInit, IntakeStep, PTL DEF Spec

\* What it says of an attempt.
LEMMA EachAttempt ==
    ASSUME IntakeInv, NEW i \in DOMAIN attempts
    PROVE  /\ attempts[i].text \in Texts
           /\ attempts[i].text.bytes \in Seq(Bytes)
           /\ \E r : /\ Classified(attempts[i].text, r)
                     /\ attempts[i].class = r.class
                     /\ attempts[i].confidence = r.confidence
           /\ attempts[i].summary = SummarizeDocument(attempts[i].text.bytes)
<1>1. attempts[i] \in Attempt
  BY DEF IntakeInv, IntakeTypeInv
<1> QED BY <1>1, AttemptFacts, ScoreType

-----------------------------------------------------------------------------
(* The theorems. *)

\* The variables have their types; an attempt has a class among the topics and
\* a confidence between 50 and 95, and there are at most MaxAttempts of them.
THEOREM IntakeTypes == Spec => []TypeOK
<1>1. ASSUME IntakeInv PROVE TypeOK
  <2>1. ASSUME NEW i \in DOMAIN attempts
        PROVE  /\ attempts[i].text \in Texts
               /\ attempts[i].class \in Topics \cup {"general"}
               /\ attempts[i].confidence \in 50..95
               /\ attempts[i].summary.dots \in BOOLEAN
    <3>1. /\ attempts[i].text \in Texts
          /\ attempts[i].class \in Topics \cup {"general"}
          /\ attempts[i].confidence \in 50..95
      BY <1>1, EachAttempt, ClassifiedType
    <3>2. SummarizeDocument(attempts[i].text.bytes).dots \in BOOLEAN
      BY <1>1, EachAttempt, SummaryIsCut DEF CutAt
    <3> QED BY <1>1, <3>1, <3>2, EachAttempt
  <2> QED BY <1>1, <2>1 DEF TypeOK, IntakeInv, IntakeTypeInv, AttemptsInv
<1> QED BY <1>1, IntakeInvariant, PTL

\* No image or archive that TextParser has read as text becomes ready: its
\* early bytes get into every summary, and PostgreSQL refuses it every time.
THEOREM IntakeReadable == Spec => []ReadyIsReadable
<1>1. IntakeInv => ReadyIsReadable
  BY DEF IntakeInv, BytesInv, ReadyIsReadable
<1> QED BY <1>1, IntakeInvariant, PTL

\* A summary is the text, or its beginning up to the last sentence end between
\* floor and limit, or up to the limit, or the space there, with an ellipsis.
THEOREM IntakeSummary == Spec => []SummaryFollowsText
<1>1. ASSUME IntakeInv, NEW i \in DOMAIN attempts
      PROVE  LET whole == Normalize(attempts[i].text.bytes)
                 body == attempts[i].summary.body
                 Ends(k) == k \in DOMAIN whole /\ whole[k] = "stop" /\ k > SummaryFloor
             IN /\ IsPrefix(body, whole)
                /\ Len(body) <= SummaryLimit
                /\ attempts[i].summary.dots =>
                       /\ Len(whole) > SummaryLimit
                       /\ \A k \in 1..SummaryLimit : ~Ends(k)
                       /\ \/ Len(body) = SummaryLimit
                          \/ Len(body) = SummaryLimit - 1 /\ whole[SummaryLimit] = "space"
                /\ ~attempts[i].summary.dots /\ body # whole =>
                       /\ Ends(Len(body))
                       /\ \A k \in (Len(body) + 1)..SummaryLimit : ~Ends(k)
  <2> DEFINE b == attempts[i].text.bytes
             w == Normalize(b)
             s == SummarizeDocument(b)
  <2>1. attempts[i].summary = s /\ b \in Seq(Bytes)
    BY <1>1, EachAttempt
  <2>2. w \in Seq(Bytes) /\ Len(w) \in Nat /\ DOMAIN w = 1..Len(w)
    BY <2>1, NormalizeType
  <2>3. PICK m \in 0..Len(w) : CutAt(w, m, s.dots) /\ s.body = SubSeq(w, 1, m)
    BY <2>1, SummaryIsCut
  <2> HIDE DEF b, w, s
  <2>4. IsPrefix(s.body, w) /\ Len(s.body) = m /\ m \in Nat
    BY <2>2, <2>3, Beginning
  <2>5. m = Len(w) => s.body = w
    BY <2>2, <2>3
  <2>6. m <= SummaryLimit
    BY <2>3, <2>4, AnalysisAssumption DEF CutAt
  <2>7. s.dots => /\ Len(w) > SummaryLimit
                  /\ \A k \in 1..SummaryLimit :
                        ~(k \in DOMAIN w /\ w[k] = "stop" /\ k > SummaryFloor)
                  /\ \/ m = SummaryLimit
                     \/ m = SummaryLimit - 1 /\ w[SummaryLimit] = "space"
    BY <2>3, AnalysisAssumption DEF CutAt
  <2>8. ~s.dots /\ s.body # w =>
            /\ m \in DOMAIN w /\ w[m] = "stop" /\ m > SummaryFloor
            /\ \A k \in (m + 1)..SummaryLimit :
                  ~(k \in DOMAIN w /\ w[k] = "stop" /\ k > SummaryFloor)
    <3> SUFFICES ASSUME ~s.dots, s.body # w
                 PROVE  /\ m \in DOMAIN w /\ w[m] = "stop" /\ m > SummaryFloor
                        /\ \A k \in (m + 1)..SummaryLimit :
                              ~(k \in DOMAIN w /\ w[k] = "stop" /\ k > SummaryFloor)
      OBVIOUS
    <3>1. /\ m \in (SummaryFloor + 1)..SummaryLimit /\ w[m] = "stop"
          /\ \A k \in (m + 1)..SummaryLimit : w[k] # "stop"
      BY <2>3, <2>5 DEF CutAt
    <3> QED BY <2>2, <2>4, <3>1, AnalysisAssumption
  <2> QED BY <2>1, <2>4, <2>6, <2>7, <2>8 DEF w, b
<1>2. IntakeInv => SummaryFollowsText
  BY <1>1, Zenon DEF SummaryFollowsText
<1> QED BY <1>2, IntakeInvariant, PTL

\* A summary that does not break off with an ellipsis is as valid as its text:
\* only the cut at SummaryLimit can go through a character.
THEOREM IntakeSplits == Spec => []OnlyEllipsisSplits
<1>1. IntakeInv => OnlyEllipsisSplits
  BY EachAttempt, SummaryValid DEF OnlyEllipsisSplits
<1> QED BY <1>1, IntakeInvariant, PTL

\* Attempts on the same text agree although Go ranges over the scores in an
\* order of its own each time.
THEOREM IntakeAgree == Spec => []AttemptsAgree
<1>1. ASSUME IntakeInv, NEW i \in DOMAIN attempts, NEW j \in DOMAIN attempts,
             attempts[i].text = attempts[j].text
      PROVE  /\ attempts[i].confidence = attempts[j].confidence
             /\ attempts[i].summary = attempts[j].summary
             /\ attempts[i].class # attempts[j].class =>
                    Score(attempts[i].text, attempts[i].class)
                        = Score(attempts[i].text, attempts[j].class)
  <2>1. PICK r : /\ Classified(attempts[i].text, r)
                 /\ attempts[i].class = r.class
                 /\ attempts[i].confidence = r.confidence
    BY <1>1, EachAttempt
  <2>2. PICK q : /\ Classified(attempts[j].text, q)
                 /\ attempts[j].class = q.class
                 /\ attempts[j].confidence = q.confidence
    BY <1>1, EachAttempt
  <2>3. attempts[i].text \in Texts /\ attempts[i].summary = attempts[j].summary
    BY <1>1, EachAttempt
  <2>4. /\ r.confidence = q.confidence
        /\ r.class # q.class => Score(attempts[i].text, r.class) = Score(attempts[i].text, q.class)
    BY <1>1, <2>1, <2>2, <2>3, ClassifiedAgree
  <2> QED BY <2>1, <2>2, <2>3, <2>4
<1>2. IntakeInv => AttemptsAgree
  BY <1>1 DEF AttemptsAgree
<1> QED BY <1>2, IntakeInvariant, PTL

\* Each attempt's class is the best there is, and general only if no topic has
\* a keyword in the text.
THEOREM IntakeEarned == Spec => []ClassIsEarned
<1>1. ASSUME IntakeInv, NEW i \in DOMAIN attempts
      PROVE  LET t == attempts[i].text
                 class == attempts[i].class
             IN IF class = "general" THEN \A topic \in Topics : Score(t, topic) = 0
                ELSE /\ Score(t, class) > 0
                     /\ \/ class = "resume" /\ ResumeScore(t) >= 5
                        \/ \A topic \in Topics : Score(t, topic) <= Score(t, class)
  <2>1. PICK r : Classified(attempts[i].text, r) /\ attempts[i].class = r.class
    BY <1>1, EachAttempt
  <2>2. attempts[i].text \in Texts
    BY <1>1, EachAttempt
  <2> QED BY <2>1, <2>2, ClassifiedEarned
<1>2. IntakeInv => ClassIsEarned
  BY <1>1, Zenon DEF ClassIsEarned
<1> QED BY <1>2, IntakeInvariant, PTL

\* A summary begins and ends with a word and has one space between two.
SummaryIsTidy == \A i \in DOMAIN attempts : Tidy(attempts[i].summary.body)

\* Every summary is tidy, also the one that is cut behind a word.
THEOREM IntakeTidy == Spec => []SummaryIsTidy
<1>1. IntakeInv => SummaryIsTidy
  BY EachAttempt, SummaryTidy DEF SummaryIsTidy
<1> QED BY <1>1, IntakeInvariant, PTL
=============================================================================
