--------------------------- MODULE CommandProofs ---------------------------
(***************************************************************************)
(* What Command promises of backend selection, of the gate and of the      *)
(* sizes of a request, for every set of machines and arguments; and what   *)
(* Sizing promises of the arenas that hosts and kernels lay out, for every *)
(* size of a graph, of its parts and of its buckets.                       *)
(***************************************************************************)
EXTENDS Command, NaturalsInduction, WellFoundedInduction, TLAPS

-----------------------------------------------------------------------------
(* Powers of two *)

\* Induction up to n, from the least number the set leaves out.
LEMMA Reaches ==
    ASSUME NEW n \in Nat, NEW T \in SUBSET (0..n), 0 \in T,
           \A k \in 0..(n - 1) : k \in T => k + 1 \in T
    PROVE  T = 0..n
<1> DEFINE R == OpToRel(<, Nat)
           out == (0..n) \ T
<1>1. IsWellFoundedOn(R, Nat)
  BY NatLessThanWellFounded
<1>2. R = {ss \in Nat \X Nat : ss[1] < ss[2]}
  BY DEF OpToRel
<1> HIDE DEF R
<1> SUFFICES ASSUME out # {} PROVE FALSE
  OBVIOUS
<1>3. out \subseteq Nat
  OBVIOUS
<1>4. PICK m \in out : \A k \in out : <<k, m>> \notin R
  BY <1>1, <1>3, WFMin
<1>5. m \in 1..n /\ m - 1 \in 0..(n - 1) /\ m - 1 < m
  OBVIOUS
<1>6. <<m - 1, m>> \in R
  BY <1>2, <1>5
<1>7. m - 1 \in T
  BY <1>4, <1>5, <1>6
<1> QED
  BY <1>5, <1>7

\* The table that Power's recursion describes, as far as n.
Doubles(p, n) ==
    /\ p = [k \in 0..n |-> p[k]]
    /\ p[0] = 1
    /\ \A k \in 0..(n - 1) : p[k + 1] = 2 * p[k]

\* That is what the recursion says,
LEMMA DoublesIsTheRecursion ==
    ASSUME NEW p, NEW n \in Nat
    PROVE  Doubles(p, n) <=> p = [k \in 0..n |-> IF k = 0 THEN 1 ELSE 2 * p[k - 1]]
<1> DEFINE next == [k \in 0..n |-> IF k = 0 THEN 1 ELSE 2 * p[k - 1]]
<1>1. /\ next[0] = 1
      /\ \A k \in 0..(n - 1) : next[k + 1] = 2 * p[k]
      /\ next = [k \in 0..n |-> next[k]]
  <2>1. ASSUME NEW k \in 0..(n - 1) PROVE next[k + 1] = 2 * p[k]
    <3>1. k + 1 \in 0..n /\ k + 1 # 0 /\ (k + 1) - 1 = k
      OBVIOUS
    <3>2. next[k + 1] = 2 * p[(k + 1) - 1]
      BY <3>1
    <3> QED
      BY <3>1, <3>2
  <2> QED
    BY <2>1
<1>2. ASSUME Doubles(p, n), NEW k \in 0..n PROVE p[k] = next[k]
  <2>1. CASE k = 0
    BY <1>2, <1>1, <2>1 DEF Doubles
  <2>2. CASE k # 0
    <3> DEFINE j == k - 1
    <3>1. j \in 0..(n - 1) /\ j + 1 = k
      BY <2>2
    <3> HIDE DEF j, next
    <3>2. p[j + 1] = 2 * p[j] /\ next[j + 1] = 2 * p[j]
      BY <1>1, <1>2, <3>1 DEF Doubles
    <3> QED
      BY <3>1, <3>2
  <2> QED
    BY <2>1, <2>2
<1> HIDE DEF next
<1>3. ASSUME Doubles(p, n) PROVE p = next
  BY <1>1, <1>2, <1>3 DEF Doubles
<1>4. ASSUME p = next PROVE Doubles(p, n)
  BY <1>1, <1>4 DEF Doubles
<1> QED
  BY <1>3, <1>4 DEF next

\* and there is such a table.
LEMMA DoublesExist ==
    ASSUME NEW last \in Nat
    PROVE  \E p : Doubles(p, last)
<1> DEFINE T == {n \in 0..last : \E p : Doubles(p, n)}
<1>1. 0 \in T
  <2> DEFINE p == [k \in 0..0 |-> 1]
  <2>1. p[0] = 1 /\ p = [k \in 0..0 |-> p[k]]
    OBVIOUS
  <2>2. Doubles(p, 0)
    <3> HIDE DEF p
    <3> QED
      BY <2>1 DEF Doubles
  <2> QED
    BY <2>2
<1>2. ASSUME NEW n \in 0..(last - 1), n \in T PROVE n + 1 \in T
  <2>1. PICK p : Doubles(p, n)
    BY <1>2
  <2> DEFINE more == [k \in 0..(n + 1) |-> IF k <= n THEN p[k] ELSE 2 * p[n]]
  <2>2. /\ \A k \in 0..n : more[k] = p[k]
        /\ more[n + 1] = 2 * p[n]
        /\ more = [k \in 0..(n + 1) |-> more[k]]
    OBVIOUS
  <2> HIDE DEF more
  <2>3. ASSUME NEW k \in 0..n PROVE more[k + 1] = 2 * more[k]
    <3>1. CASE k = n
      BY <2>2, <3>1
    <3>2. CASE k # n
      <4>1. k \in 0..(n - 1) /\ k + 1 \in 0..n
        BY <3>2
      <4>2. p[k + 1] = 2 * p[k]
        BY <2>1, <4>1 DEF Doubles
      <4> QED
        BY <2>2, <4>1, <4>2
    <3> QED
      BY <3>1, <3>2
  <2>4. more[0] = 1 /\ (n + 1) - 1 = n /\ n + 1 \in 0..last
    <3>1. p[0] = 1
      BY <2>1 DEF Doubles
    <3>2. 0 \in 0..n /\ (n + 1) - 1 = n /\ n + 1 \in 0..last
      OBVIOUS
    <3> QED
      BY <2>2, <3>1, <3>2
  <2>5. Doubles(more, n + 1)
    BY <2>2, <2>3, <2>4 DEF Doubles
  <2> QED
    BY <2>4, <2>5
<1>3. last \in T
  <2> HIDE DEF T
  <2>1. T \in SUBSET (0..last)
    BY DEF T
  <2>2. T = 0..last
    BY <1>1, <1>2, <2>1, Reaches
  <2> QED
    BY <2>2
<1> QED
  BY <1>3

\* So Power doubles.
LEMMA PowerDoubles ==
    /\ Power[0] = 1
    /\ \A n \in 0..(IndexBits - 1) : Power[n + 1] = 2 * Power[n]
<1> DEFINE power == CHOOSE p : p = [k \in 0..IndexBits |-> IF k = 0 THEN 1 ELSE 2 * p[k - 1]]
<1>1. IndexBits \in Nat
  BY SizingAssumption
<1>2. Power = [n \in 0..IndexBits |-> power[n]]
  BY DEF Power
<1>3. \E p : p = [k \in 0..IndexBits |-> IF k = 0 THEN 1 ELSE 2 * p[k - 1]]
  BY <1>1, DoublesExist, DoublesIsTheRecursion
<1>4. power = [k \in 0..IndexBits |-> IF k = 0 THEN 1 ELSE 2 * power[k - 1]]
  BY <1>3
<1> HIDE DEF power
<1>5. Doubles(power, IndexBits)
  BY <1>1, <1>4, DoublesIsTheRecursion
<1> QED
  BY <1>1, <1>2, <1>5 DEF Doubles

\* Powers of two are positive,
LEMMA PowerType == \A n \in 0..IndexBits : Power[n] \in Nat \ {0}
<1> DEFINE T == {n \in 0..IndexBits : Power[n] \in Nat \ {0}}
<1>1. IndexBits \in Nat
  BY SizingAssumption
<1>2. 0 \in T
  BY <1>1, PowerDoubles
<1>3. ASSUME NEW n \in 0..(IndexBits - 1), n \in T PROVE n + 1 \in T
  BY <1>1, <1>3, PowerDoubles
<1>4. T \in SUBSET (0..IndexBits)
  OBVIOUS
<1> HIDE DEF T
<1>5. T = 0..IndexBits
  BY <1>1, <1>2, <1>3, <1>4, Reaches
<1> QED
  BY <1>5 DEF T

\* 2^(m + n) = 2^m * 2^n
LEMMA PowerSum ==
    ASSUME NEW m \in Nat, NEW n \in Nat, m + n <= IndexBits
    PROVE  Power[m + n] = Power[m] * Power[n]
<1> DEFINE T == {k \in 0..n : Power[m + k] = Power[m] * Power[k]}
<1>1. IndexBits \in Nat /\ m \in 0..IndexBits
  BY SizingAssumption
<1>2. 0 \in T
  BY <1>1, PowerDoubles, PowerType
<1>3. ASSUME NEW k \in 0..(n - 1), k \in T PROVE k + 1 \in T
  <2>1. /\ k \in 0..(IndexBits - 1) /\ m + k \in 0..(IndexBits - 1) /\ k \in 0..IndexBits
        /\ m + (k + 1) = (m + k) + 1
    BY <1>1
  <2>2. Power[(m + k) + 1] = 2 * Power[m + k] /\ Power[k + 1] = 2 * Power[k]
    BY <2>1, PowerDoubles
  <2>3. Power[m + k] = Power[m] * Power[k]
    BY <1>3
  <2>4. Power[m] \in Nat /\ Power[k] \in Nat
    BY <1>1, <2>1, PowerType
  <2> DEFINE a == Power[m]
             b == Power[k]
  <2>5. 2 * (a * b) = a * (2 * b)
    <3> HIDE DEF a, b
    <3>1. a \in Nat /\ b \in Nat
      BY <2>4 DEF a, b
    <3> QED
      BY <3>1
  <2> QED
    BY <2>1, <2>2, <2>3, <2>5
<1>4. T \in SUBSET (0..n)
  OBVIOUS
<1> HIDE DEF T
<1>5. T = 0..n
  BY <1>2, <1>3, <1>4, Reaches
<1> QED
  BY <1>5 DEF T

\* A larger power is a multiple of a smaller one.
LEMMA PowerSplits ==
    ASSUME NEW n \in 0..IndexBits, NEW m \in 0..n
    PROVE  /\ Power[n] = Power[m] * Power[n - m]
           /\ Power[m] \in Nat \ {0} /\ Power[n - m] \in Nat \ {0} /\ Power[m] <= Power[n]
<1>1. IndexBits \in Nat /\ m \in Nat /\ n - m \in Nat /\ m + (n - m) = n
      /\ m \in 0..IndexBits /\ n - m \in 0..IndexBits
  BY SizingAssumption
<1>2. Power[n] = Power[m] * Power[n - m]
  BY <1>1, PowerSum
<1>3. Power[m] \in Nat \ {0} /\ Power[n - m] \in Nat \ {0}
  BY <1>1, PowerType
<1> DEFINE a == Power[m]
           b == Power[n - m]
<1>4. a <= a * b
  <2>1. a \in Nat \ {0} /\ b \in Nat \ {0}
    BY <1>3
  <2> HIDE DEF a, b
  <2> QED
    BY <2>1
<1> QED
  BY <1>2, <1>3, <1>4

\* and grow.
LEMMA PowerGrows ==
    ASSUME NEW n \in 0..IndexBits, NEW m \in 0..(n - 1)
    PROVE  2 * Power[m] <= Power[n] /\ Power[m] < Power[n]
<1>1. IndexBits \in Nat /\ m \in 0..(IndexBits - 1) /\ m + 1 \in 0..n /\ m \in 0..IndexBits
  BY SizingAssumption
<1>2. Power[m + 1] <= Power[n] /\ Power[m + 1] = 2 * Power[m] /\ Power[m] \in Nat \ {0}
  BY <1>1, PowerSplits, PowerDoubles, PowerType
<1>3. Power[n] \in Nat
  BY PowerType
<1> QED
  BY <1>2, <1>3

\* So powers are ordered as their exponents.
LEMMA PowerOrder ==
    ASSUME NEW m \in 0..IndexBits, NEW n \in 0..IndexBits
    PROVE  (Power[m] <= Power[n] => m <= n) /\ (Power[m] < Power[n] => m < n)
<1>1. IndexBits \in Nat /\ m \in Nat /\ n \in Nat /\ Power[m] \in Nat /\ Power[n] \in Nat
  BY SizingAssumption, PowerType
<1>2. CASE m < n
  BY <1>2
<1>3. CASE m = n
  BY <1>1, <1>3
<1>4. CASE n < m
  <2>1. n \in 0..(m - 1)
    BY <1>1, <1>4
  <2>2. Power[n] < Power[m]
    BY <2>1, PowerGrows
  <2> QED
    BY <1>1, <2>2
<1> QED
  BY <1>1, <1>2, <1>3, <1>4

\* The words of a bitmap and the halves of bucket_config.
LEMMA PowerValues == Power[5] = 32 /\ Power[16] = 2^16 /\ 2^17 <= Indices /\ Indices \in Nat
<1>0. IndexBits \in Nat /\ IndexBits > 16
  BY SizingAssumption
<1>1. Power[1] = 2 /\ Power[2] = 4
  <2>1. Power[0 + 1] = 2 * Power[0]
    BY <1>0, PowerDoubles
  <2>2. Power[1 + 1] = 2 * Power[1]
    BY <1>0, PowerDoubles
  <2> QED
    BY <2>1, <2>2, PowerDoubles
<1>2. Power[4] = 16 /\ Power[8] = 256
  <2>1. Power[2 + 2] = Power[2] * Power[2]
    BY <1>0, PowerSum
  <2>2. Power[4 + 4] = Power[4] * Power[4]
    BY <1>0, PowerSum
  <2> QED
    BY <2>1, <2>2, <1>1
<1>3. Power[5] = 32 /\ Power[16] = 65536
  <2>1. Power[4 + 1] = Power[4] * Power[1]
    BY <1>0, PowerSum
  <2>2. Power[8 + 8] = Power[8] * Power[8]
    BY <1>0, PowerSum
  <2> QED
    BY <2>1, <2>2, <1>1, <1>2
<1>4. 2 * Power[16] <= Power[IndexBits]
  <2>1. IndexBits \in 0..IndexBits /\ 16 \in 0..(IndexBits - 1)
    BY <1>0
  <2> QED
    BY <2>1, PowerGrows
<1>5. Indices \in Nat
  BY <1>0, PowerType DEF Indices
<1> QED
  BY <1>3, <1>4, <1>5 DEF Indices

-----------------------------------------------------------------------------
(* Backends and the gate *)

Before  == {"start", "select"}
Between == Before \cup {"range", "next"}

Judgement == [nonce : Nat, outcome : Outcomes]

ArgsInv ==
    /\ args.edgeBits \in 1..IndexBits
    /\ args.nonceStart \in Nat /\ args.count \in Nat

\* A backend is chosen before the first request, and auto's choice has the
\* requested graph in its range.
BackendInv ==
    /\ solver \in {"none", "cpu", "wgpu", "metal"}
    /\ pc # "exited" => exit = "none"
    /\ pc \notin Before \cup {"exited"} =>
          /\ solver # "none"
          /\ args.backend = "auto" => args.edgeBits \in Supported
    /\ AutoServes

\* What gate has judged, and found, so far.
SoFar ==
    /\ nonce = args.nonceStart + Len(judged)
    /\ \A i \in DOMAIN judged :
          judged[i].nonce = args.nonceStart + i - 1 /\ judged[i].outcome \in Conclusive
    /\ \A i, j \in DOMAIN found : i < j => found[i] < found[j]
    /\ \A i \in DOMAIN judged :
          judged[i].outcome = "proof" <=> \E j \in DOMAIN found : found[j] = judged[i].nonce
    /\ \A j \in DOMAIN found : \E i \in DOMAIN judged : found[j] = judged[i].nonce

GateInv ==
    /\ nonce \in Nat /\ judged \in Seq(Judgement) /\ found \in Seq(Nat)
    /\ exit \in {"none", "ok"} => SoFar
    /\ pc \in Between => Len(judged) <= args.count
    /\ pc \notin Between \cup {"exited"} /\ ~Live => Len(judged) < args.count
    /\ exit = "ok" => Len(judged) = args.count /\ (Acceptance => found = AcceptFound)

CommandInv == ArgsInv /\ BackendInv /\ GateInv

-----------------------------------------------------------------------------

\* Every start of the program satisfies the invariant.
LEMMA InitCommand == Init => CommandInv
<1> SUFFICES ASSUME Init PROVE CommandInv
  OBVIOUS
<1>1. ArgsInv
  BY CommandAssumption DEF Init, ArgsInv
<1>2. BackendInv
  BY DEF Init, BackendInv, AutoServes, Before
<1>3. GateInv
  BY <1>1 DEF Init, GateInv, SoFar, ArgsInv, Between, Before
<1> QED
  BY <1>1, <1>2, <1>3 DEF CommandInv

\* No step changes what clap parsed.
LEMMA ArgsStay == ASSUME [Next]_vars PROVE args' = args
<1>1. CASE UNCHANGED vars
  BY <1>1 DEF vars
<1>2. CASE Work
  BY <1>2 DEF Work, input, Refused, Started, TakeMetal, TakeWgpu, TakeCpu, NoBackend,
      RangeOverflows, RangeFits, Request, Refuses, Validated, TooLarge, BeginSizing,
      TooManyParts, MoreParts, PartsFit, ScratchTooLarge, MetalSized, GoesOn, GivesUp,
      Mining, Complete
<1> QED
  BY <1>1, <1>2 DEF Next, Exited

\* Each step keeps auto's backend able to solve the graph.
LEMMA BackendKept == ASSUME CommandInv, [Next]_vars PROVE BackendInv'
<1> USE DEF CommandInv, ArgsInv, BackendInv, AutoServes, Before, Exit
<1>a. args' = args
  BY ArgsStay
<1>1. CASE UNCHANGED vars
  BY <1>1 DEF vars, Supported
<1>2. CASE Refused \/ NoBackend \/ RangeOverflows \/ TooLarge \/ TooManyParts
           \/ ScratchTooLarge \/ Mining \/ Complete
  BY <1>2, <1>a DEF Refused, NoBackend, RangeOverflows, TooLarge, TooManyParts,
      ScratchTooLarge, Mining, Complete
<1>3. CASE Started
  BY <1>3, <1>a DEF Started
<1>4. CASE TakeMetal
  BY <1>4, <1>a, CommandAssumption DEF TakeMetal, WantsMetal, Supported
<1>5. CASE TakeWgpu
  BY <1>5, <1>a DEF TakeWgpu, Supported
<1>6. CASE TakeCpu
  BY <1>6, <1>a DEF TakeCpu, Supported
<1>7. CASE RangeFits \/ Request
  BY <1>7, <1>a DEF RangeFits, Request, Supported
<1>8. CASE Refuses
  BY <1>8, <1>a DEF Refuses
<1>9. CASE Validated
  BY <1>9, <1>a DEF Validated, Supported
<1>10. CASE BeginSizing \/ MoreParts \/ PartsFit \/ MetalSized
  BY <1>10, <1>a DEF BeginSizing, MoreParts, PartsFit, MetalSized, Sized, Supported
<1>11. CASE GoesOn
  BY <1>11, <1>a DEF GoesOn, Judge, Supported
<1>12. CASE GivesUp
  BY <1>12, <1>a DEF GivesUp, Judge
<1> QED
  BY <1>1, <1>2, <1>3, <1>4, <1>5, <1>6, <1>7, <1>8, <1>9, <1>10, <1>11, <1>12
  DEF Next, Work, Exited

\* Judging a nonce conclusively appends it to what was judged, and to what was
\* found if a proof was.
LEMMA JudgedKept == ASSUME CommandInv, GoesOn, args' = args PROVE GateInv'
<1> USE DEF CommandInv, ArgsInv, BackendInv, GateInv, Between, Before
<1>1. PICK outcome \in {"proof", "noCycle", "inconclusive"} :
         /\ Judge(outcome)
         /\ found' = IF outcome = "proof" THEN Append(found, nonce) ELSE found
         /\ nonce' = nonce + 1
         /\ pc' = "next" /\ exit' = exit
  BY DEF GoesOn
<1> DEFINE judgement == [nonce |-> nonce, outcome |-> outcome]
<1>2. /\ judged' = Append(judged, judgement)
      /\ judgement \in Judgement /\ exit = "none" /\ ~Live /\ pc = "solve"
  BY <1>1 DEF Judge, Judgement, Outcomes
<1>3. /\ judged' \in Seq(Judgement) /\ Len(judged') = Len(judged) + 1
      /\ \A i \in DOMAIN judged : i \in DOMAIN judged' /\ judged'[i] = judged[i]
      /\ DOMAIN judged' = DOMAIN judged \cup {Len(judged) + 1}
      /\ judged'[Len(judged) + 1] = judgement
  BY <1>2
<1>4. found' \in Seq(Nat)
  BY <1>1
<1>5. SoFar
  BY <1>2
<1>6. \A i \in DOMAIN judged : judged[i].nonce < nonce
  BY <1>5 DEF SoFar
<1>7. \A j \in DOMAIN found : found[j] \in Nat /\ found[j] < nonce
  <2> TAKE j \in DOMAIN found
  <2>1. PICK i \in DOMAIN judged : found[j] = judged[i].nonce
    BY <1>5 DEF SoFar
  <2>2. found[j] \in Nat
    OBVIOUS
  <2> QED
    BY <2>1, <2>2, <1>6
<1>8. nonce' = nonce + 1 /\ nonce \in Nat /\ args.nonceStart \in Nat /\ Len(judged) \in Nat
  BY <1>1
<1>9. found \in Seq(Nat) /\ judged \in Seq(Judgement) /\ judgement.nonce = nonce
      /\ judgement.outcome = outcome /\ outcome \in Conclusive
  BY <1>1 DEF Conclusive
<1> HIDE DEF judgement, CommandInv, ArgsInv, BackendInv, GateInv, Between, Before
<1>10. SoFar'
  <2>1. nonce' = args'.nonceStart + Len(judged')
    BY <1>3, <1>5, <1>8 DEF SoFar
  <2>2. \A i \in DOMAIN judged' :
           judged'[i].nonce = args'.nonceStart + i - 1 /\ judged'[i].outcome \in Conclusive
    <3> TAKE i \in DOMAIN judged'
    <3>1. CASE i \in DOMAIN judged
      BY <3>1, <1>3, <1>5 DEF SoFar
    <3>2. CASE i = Len(judged) + 1
      BY <3>2, <1>3, <1>5, <1>8, <1>9 DEF SoFar
    <3> QED
      BY <3>1, <3>2, <1>3
  <2>3. CASE outcome = "proof"
    <3>1. /\ DOMAIN found' = DOMAIN found \cup {Len(found) + 1}
          /\ \A j \in DOMAIN found : found'[j] = found[j] /\ j < Len(found) + 1
          /\ found'[Len(found) + 1] = nonce
      BY <1>1, <1>9, <2>3
    <3>2. \A i, j \in DOMAIN found' : i < j => found'[i] < found'[j]
      BY <3>1, <1>5, <1>7, <1>8, <1>9 DEF SoFar
    <3>3. \A i \in DOMAIN judged' :
             judged'[i].outcome = "proof" <=> \E j \in DOMAIN found' : found'[j] = judged'[i].nonce
      <4> TAKE i \in DOMAIN judged'
      <4>1. CASE i \in DOMAIN judged
        <5>1. judged'[i] = judged[i] /\ judged[i].nonce # nonce
          BY <4>1, <1>3, <1>6, <1>8, <1>9 DEF Judgement
        <5>2. (\E j \in DOMAIN found' : found'[j] = judged[i].nonce)
                <=> \E j \in DOMAIN found : found[j] = judged[i].nonce
          BY <5>1, <3>1
        <5> QED
          BY <4>1, <5>1, <5>2, <1>5 DEF SoFar
      <4>2. CASE i = Len(judged) + 1
        BY <4>2, <3>1, <1>3, <1>9, <2>3
      <4> QED
        BY <4>1, <4>2, <1>3
    <3>4. \A j \in DOMAIN found' : \E i \in DOMAIN judged' : found'[j] = judged'[i].nonce
      <4> TAKE j \in DOMAIN found'
      <4>1. CASE j \in DOMAIN found
        <5>1. PICK i \in DOMAIN judged : found[j] = judged[i].nonce
          BY <4>1, <1>5 DEF SoFar
        <5> QED
          BY <4>1, <5>1, <3>1, <1>3
      <4>2. CASE j = Len(found) + 1
        BY <4>2, <3>1, <1>3, <1>9
      <4> QED
        BY <4>1, <4>2, <3>1
    <3> QED
      BY <2>1, <2>2, <3>2, <3>3, <3>4 DEF SoFar
  <2>4. CASE outcome # "proof"
    <3>1. found' = found
      BY <1>1, <2>4
    <3>2. \A i \in DOMAIN judged' :
             judged'[i].outcome = "proof" <=> \E j \in DOMAIN found : found[j] = judged'[i].nonce
      <4> TAKE i \in DOMAIN judged'
      <4>1. CASE i \in DOMAIN judged
        BY <4>1, <1>3, <1>5 DEF SoFar
      <4>2. CASE i = Len(judged) + 1
        BY <4>2, <1>3, <1>7, <1>9, <2>4
      <4> QED
        BY <4>1, <4>2, <1>3
    <3>3. \A j \in DOMAIN found : \E i \in DOMAIN judged' : found[j] = judged'[i].nonce
      BY <1>3, <1>5 DEF SoFar
    <3> QED
      BY <2>1, <2>2, <3>1, <3>2, <3>3, <1>5 DEF SoFar
  <2> QED
    BY <2>3, <2>4
<1>11. Len(judged') <= args'.count /\ nonce' \in Nat
  BY <1>2, <1>3, <1>8 DEF CommandInv, ArgsInv, GateInv, Between, Before
<1>12. pc' = "next" /\ exit' = "none"
  BY <1>1, <1>2
<1> QED
  BY <1>3, <1>4, <1>10, <1>11, <1>12 DEF GateInv, Between, Before

\* Each step keeps what gate judged and found so far.
LEMMA GateKept == ASSUME CommandInv, [Next]_vars PROVE GateInv'
<1>a. args' = args
  BY ArgsStay
<1>1. CASE GoesOn
  BY <1>1, <1>a, JudgedKept
<1>2. CASE GivesUp
  <2>1. PICK outcome \in {"badProof", "cancelled", "error"} : Judge(outcome)
    BY <1>2 DEF GivesUp
  <2>2. judged' \in Seq(Judgement)
    BY <2>1 DEF CommandInv, GateInv, Judge, Judgement, Outcomes
  <2> QED
    BY <1>2, <1>a, <2>2 DEF GivesUp, Exit, CommandInv, GateInv, Between, Before
<1>3. CASE Complete
  <2>1. ~Live /\ Len(judged) = args.count
    BY <1>3 DEF Complete, MoreNonces, CommandInv, ArgsInv, BackendInv, GateInv, SoFar, Between, Before
  <2>2. exit = "none" /\ SoFar /\ pc = "next"
    BY <1>3 DEF Complete, CommandInv, BackendInv, GateInv
  <2> QED
    BY <1>3, <1>a, <2>1, <2>2 DEF Complete, Exit, gate, input, CommandInv, GateInv, SoFar,
        Acceptance, Between, Before
<1>4. ASSUME UNCHANGED gate, pc' = "exited", exit' \notin {"none", "ok"} PROVE GateInv'
  BY <1>4, <1>a DEF gate, CommandInv, GateInv, SoFar, Between, Before
<1>5. CASE Refused \/ NoBackend \/ RangeOverflows \/ Refuses \/ TooLarge \/ TooManyParts
           \/ ScratchTooLarge \/ Mining
  BY <1>4, <1>5 DEF Refused, NoBackend, RangeOverflows, Refuses, TooLarge, TooManyParts,
      ScratchTooLarge, Mining, Exit
<1>6. CASE Started \/ TakeMetal \/ TakeWgpu \/ TakeCpu \/ RangeFits
  <2>1. UNCHANGED gate /\ pc' \in Between /\ exit' = exit /\ pc \in Between /\ exit = "none"
    BY <1>6 DEF Started, TakeMetal, TakeWgpu, TakeCpu, RangeFits, Between, Before,
        CommandInv, BackendInv
  <2> QED
    BY <2>1, <1>a DEF gate, CommandInv, GateInv, SoFar, Between, Before
<1>7. CASE Request
  BY <1>7, <1>a DEF Request, MoreNonces, gate, Live, CommandInv, ArgsInv, BackendInv, GateInv,
      SoFar, Between, Before
<1>8. CASE Validated \/ BeginSizing \/ MoreParts \/ PartsFit \/ MetalSized
  <2>1. /\ UNCHANGED gate /\ exit' = exit
        /\ pc' \notin Between \cup {"exited"} /\ pc \notin Between \cup {"exited"}
    BY <1>8 DEF Validated, BeginSizing, MoreParts, PartsFit, MetalSized, Sized, Between, Before,
        CommandInv, BackendInv
  <2> QED
    BY <2>1, <1>a DEF gate, Live, CommandInv, BackendInv, GateInv, SoFar
<1>9. CASE UNCHANGED vars
  BY <1>9 DEF vars, Live, Acceptance, CommandInv, GateInv, SoFar, Between, Before
<1> QED
  BY <1>1, <1>2, <1>3, <1>5, <1>6, <1>7, <1>8, <1>9 DEF Next, Work, Exited

\* The invariant, from the three lemmas.
THEOREM CommandInvariant == Spec => []CommandInv
<1>1. ASSUME CommandInv, [Next]_vars PROVE CommandInv'
  <2>1. ArgsInv'
    BY <1>1, ArgsStay DEF CommandInv, ArgsInv
  <2> QED
    BY <1>1, <2>1, BackendKept, GateKept DEF CommandInv
<1> QED
  BY InitCommand, <1>1, PTL DEF Spec

\* make_solver's auto never takes a backend whose capabilities leave out the
\* graph asked for, on any machine and with any arguments.
THEOREM AutoServesAlways == Spec => []AutoServes
<1>1. CommandInv => AutoServes
  BY DEF CommandInv, BackendInv
<1> QED
  BY CommandInvariant, <1>1, PTL

\* A successful gate judged its whole range and reports exactly what it proved,
\* for every range and every outcome of its solves.
THEOREM GateIsExactAlways == Spec => []GateIsExact
<1>1. CommandInv => GateIsExact
  BY DEF CommandInv, GateInv, SoFar, GateIsExact
<1> QED
  BY CommandInvariant, <1>1, PTL

-----------------------------------------------------------------------------
(* Sizing *)

\* A product divided, rounding up, by one of its factors.
LEMMA CeilDivProduct ==
    ASSUME NEW n \in Nat, NEW d \in Nat \ {0}
    PROVE  CeilDiv(d * n, d) = n
  BY DEF CeilDiv

\* What fits in u32 is not changed by it.
LEMMA U32Same ==
    ASSUME NEW n \in Nat, n < Indices
    PROVE  U32(n) = n
  BY PowerValues DEF U32

\* The buckets of a part are of its capacity, and there is room for the
\* overflow word behind a quarter of their counts.
LEMMA CapacityNat ==
    ASSUME NEW n \in Nat, NEW buckets \in Nat \ {0}
    PROVE  CeilDiv(n, buckets) \in Nat /\ Capacity(n, buckets) \in Nat
<1>1. CeilDiv(n, buckets) \in Nat
  BY DEF CeilDiv
<1>2. CeilDiv(CeilDiv(n, buckets), 20) \in Nat
  BY <1>1 DEF CeilDiv
<1> QED
  BY <1>1, <1>2 DEF Capacity

\* The window of a part: when the parts are equal, none is cut short.
LEMMA EqualParts ==
    ASSUME NEW pieces \in Nat \ {0}, NEW size \in Nat \ {0}, NEW buckets \in 1..(2^16 - 1),
           NEW part \in 0..(pieces - 1), size < Indices
    PROVE  /\ PartEdges(pieces * size, pieces) = size
           /\ PartParams(pieces * size, pieces, buckets, part).chunk_count = size
           /\ PartParams(pieces * size, pieces, buckets, part).buckets = buckets
<1>1. PartEdges(pieces * size, pieces) = size
  BY CeilDivProduct DEF PartEdges
<1>2. pieces * size - part * size >= size
  <2>1. (pieces - part) * size >= size
    OBVIOUS
  <2>2. (pieces - part) * size = pieces * size - part * size
    OBVIOUS
  <2> QED
    BY <2>1, <2>2
<1>3. buckets % 2^16 = buckets
  OBVIOUS
<1> QED
  BY <1>1, <1>2, <1>3, U32Same DEF PartParams

\* slean_capacity, in u32 and with its own rounding, is the capacity the host
\* allocated the arenas by (src/solver/lean.wgsl and slean_sizing).
THEOREM CapacitiesAgree ==
    ASSUME NEW pieces \in Nat \ {0}, NEW size \in Nat \ {0}, NEW buckets \in 1..(2^16 - 1),
           NEW part \in 0..(pieces - 1),
           size + buckets < Indices, Capacity(size, buckets) < Indices
    PROVE  slean_capacity(PartParams(pieces * size, pieces, buckets, part))
              = Capacity(PartEdges(pieces * size, pieces), buckets)
<1> DEFINE p == PartParams(pieces * size, pieces, buckets, part)
           base == CeilDiv(size, buckets)
<1>a. Indices \in Nat /\ size + buckets - 1 \in Nat /\ size < Indices
      /\ size + buckets - 1 < Indices
  BY PowerValues
<1>1. p.chunk_count = size /\ p.buckets = buckets /\ PartEdges(pieces * size, pieces) = size
  BY <1>a, EqualParts
<1>2. U32(size + buckets - 1) = size + buckets - 1
  BY <1>a, U32Same
<1>3. Quotient(U32(p.chunk_count + p.buckets - 1), p.buckets) = base
  BY <1>1, <1>2 DEF Quotient, CeilDiv
<1>4. base + (base + 19) \div 20 + 64 = Capacity(size, buckets)
  <2>1. base \in Nat
    BY CapacityNat, buckets \in Nat \ {0}
  <2>2. CeilDiv(base, 20) = (base + 19) \div 20
    BY <2>1 DEF CeilDiv
  <2> QED
    BY <2>2 DEF Capacity
<1>5. U32(Capacity(size, buckets)) = Capacity(size, buckets)
  <2>1. Capacity(size, buckets) \in Nat
    BY CapacityNat, buckets \in Nat \ {0}
  <2> QED
    BY <2>1, U32Same
<1> QED
  BY <1>1, <1>3, <1>4, <1>5 DEF slean_capacity

\* Every slot a kernel may take in an arena, of any of its buckets, lies in the
\* arena: behind the counts and the overflow word, before the end.
THEOREM SlotsInside ==
    ASSUME NEW size \in Nat \ {0}, NEW buckets \in 4..(2^16 - 1),
           NEW bucket \in 0..(buckets \div 4 - 1),
           NEW slot \in 0..(Capacity(size, buckets) - 1)
    PROVE  LET header == buckets \div 4 + 1
               word == header + bucket * Capacity(size, buckets) + slot
           IN  header <= word /\ word < ArenaWords(size, buckets)
<1> DEFINE quarter == buckets \div 4
           capacity == Capacity(size, buckets)
<1>1. capacity \in Nat /\ quarter \in Nat /\ bucket \in 0..(quarter - 1) /\ slot \in 0..(capacity - 1)
  <2>1. buckets \in Nat \ {0} /\ size \in Nat
    OBVIOUS
  <2>2. capacity \in Nat
    BY <2>1, CapacityNat
  <2> QED
    BY <2>1, <2>2
<1> HIDE DEF quarter, capacity
<1>2. bucket * capacity >= 0
  BY <1>1
<1>3. bucket * capacity + slot < quarter * capacity
  <2>1. (bucket + 1) * capacity <= quarter * capacity
    BY <1>1
  <2>2. (bucket + 1) * capacity = bucket * capacity + capacity
    BY <1>1
  <2> QED
    BY <1>1, <1>2, <2>1, <2>2
<1> QED
  BY <1>1, <1>2, <1>3 DEF ArenaWords, quarter, capacity

\* The dead buckets a kernel counts are the ones the host allocated: when a part
\* is whole buckets (`fill' of them), both count these.
THEOREM DeadBucketsAgree ==
    ASSUME NEW local \in Nat \ {0}, NEW fill \in Nat \ {0},
           NEW p \in [word_count : Nat, chunk_base : Nat, chunk_count : Nat, buckets : Nat \ {0}],
           p.word_count = p.buckets * local, p.chunk_count = 32 * local * fill,
           p.chunk_count + 31 < Indices
    PROVE  /\ slean_bucket_words(p) = local
           /\ slean_dead_bucket_count(p) = fill
           /\ DeadBucketCount(p.chunk_count, local) = fill
<1>1. slean_bucket_words(p) = local
  BY DEF slean_bucket_words, Quotient
<1>2. local * fill \in Nat /\ p.chunk_count = 32 * (local * fill)
  OBVIOUS
<1>3. slean_dead_bucket_count(p) = fill
  <2>1. U32(p.chunk_count + 31) = 32 * (local * fill) + 31
    BY <1>2, U32Same
  <2>2. (32 * (local * fill) + 31) \div 32 = local * fill
    BY <1>2
  <2>3. (local * fill) \div local = fill
    OBVIOUS
  <2> QED
    BY <1>1, <2>1, <2>2, <2>3 DEF slean_dead_bucket_count, Quotient
<1>4. DeadBucketCount(p.chunk_count, local) = fill
  <2>1. CeilDiv(p.chunk_count, 8) = 4 * (local * fill)
    BY <1>2 DEF CeilDiv
  <2>2. 4 * (local * fill) = (4 * local) * fill
    OBVIOUS
  <2>3. CeilDiv((4 * local) * fill, 4 * local) = fill
    BY CeilDivProduct
  <2> QED
    BY <2>1, <2>2, <2>3 DEF DeadBucketCount, AtLeastOne
<1> QED
  BY <1>1, <1>3, <1>4

\* With such parts the dead arena's capacity is the same on both sides too.
THEOREM DeadCapacitiesAgree ==
    ASSUME NEW local \in Nat \ {0}, NEW fill \in Nat \ {0},
           NEW p \in [word_count : Nat, chunk_base : Nat, chunk_count : Nat, buckets : Nat \ {0}],
           p.word_count = p.buckets * local, p.chunk_count = 32 * local * fill,
           p.chunk_count + fill + 31 < Indices, 45 * (32 * local) < Indices
    PROVE  slean_dead_capacity(p) = DeadCapacity(p.chunk_count, fill)
<1> DEFINE base == 32 * local
<1>a. Indices \in Nat /\ p.chunk_count \in Nat
  BY PowerValues
<1>1. slean_dead_bucket_count(p) = fill
  <2>1. p.chunk_count + 31 < Indices
    BY <1>a
  <2> QED
    BY <2>1, DeadBucketsAgree
<1>2. base \in Nat /\ p.chunk_count = fill * base
  OBVIOUS
<1>3. CeilDiv(p.chunk_count, fill) = base
  BY <1>2, CeilDivProduct
<1> HIDE DEF base
<1>4. Quotient(U32(p.chunk_count + fill - 1), fill) = base
  <2>1. p.chunk_count + fill - 1 \in Nat /\ p.chunk_count + fill - 1 < Indices
    BY <1>a
  <2>2. U32(p.chunk_count + fill - 1) = p.chunk_count + fill - 1
    BY <2>1, U32Same
  <2> QED
    BY <1>3, <2>2 DEF Quotient, CeilDiv
<1>5. U32(base * 45) = base * 45
  BY <1>2, U32Same DEF base
<1> QED
  BY <1>1, <1>2, <1>3, <1>4, <1>5 DEF slean_dead_capacity, DeadCapacity, CeilDiv

\* The parts of a graph, as the kernels get them in u32, lie end to end: each
\* ends where the next one begins and the last one at the last edge, also when
\* the edges are as many as Indices.
THEOREM PartsAdjoin ==
    ASSUME NEW pieces \in Nat \ {0}, NEW size \in Nat \ {0}, NEW buckets \in 1..(2^16 - 1),
           NEW part \in 0..(pieces - 1),
           pieces * size <= Indices, size < Indices
    PROVE  LET p == PartParams(pieces * size, pieces, buckets, part)
           IN  p.chunk_base = part * size /\ p.chunk_base + p.chunk_count = (part + 1) * size
<1>1. Indices \in Nat
  BY PowerValues
<1>2. part * size \in Nat /\ part * size < Indices
  <2>1. (pieces - part) * size > 0 /\ (pieces - part) * size = pieces * size - part * size
    OBVIOUS
  <2> QED
    BY <1>1, <2>1
<1>3. U32(part * size) = part * size
  BY <1>2, U32Same
<1>4. /\ PartEdges(pieces * size, pieces) = size
      /\ PartParams(pieces * size, pieces, buckets, part).chunk_count = size
  BY EqualParts
<1>5. PartParams(pieces * size, pieces, buckets, part).chunk_base = part * size
  BY <1>3, <1>4 DEF PartParams
<1>6. part * size + size = (part + 1) * size
  OBVIOUS
<1> QED
  BY <1>4, <1>5, <1>6

-----------------------------------------------------------------------------
(* The sizes of a request *)

SomePower == PowersOfTwo \ {1}

InputInv ==
    /\ \E s \in Scenarios : machine = s.machine
    /\ args.edgeBits \in 1..IndexBits
    /\ args.parts \in SomePower /\ args.localKib \in SomePower
    /\ machine.localWords \in Nat \ {0, 1}

\* The sizes that a solve runs with are those that its mode asks for.
SizesGood ==
    /\ sized.mode \in {"slean", "bucketed", "lean", "metal"}
    /\ sized.mode = "slean" =>
          /\ Slean /\ BucketCountFits
          /\ parts \in SomePower /\ parts <= Edges
          /\ sized.partEdges = PartEdges(Edges, parts)
    /\ sized.mode = "bucketed" =>
          Bucketed /\ sized.partEdges = ChunkEdges(Edges)
    /\ sized.mode = "lean" => sized.partEdges = Edges
    /\ sized.mode = "metal" =>
          /\ parts \in SomePower /\ sized.partEdges = Edges \div parts
          /\ args.edgeBits >= MetalMinBits

\* While the parts are doubled they stay a power of two until they are too many.
PartsGood ==
    /\ parts \in Nat /\ (parts \in SomePower \/ parts > Edges)
    /\ Slean => BucketCountFits

SizedInv ==
    /\ sized.mode # "none" => pc \in {"solve", "exited"} /\ SizesGood
    /\ pc = "parts" => PartsGood
    /\ pc = "metal" => args.edgeBits >= MetalMinBits

RequestInv == InputInv /\ SizedInv

\* The powers of two that arguments are, by their exponents.
LEMMA PowersAre ==
    /\ \A n \in PowersOfTwo : \E k \in 0..IndexBits : n = Power[k]
    /\ \A k \in 0..IndexBits : Power[k] \in PowersOfTwo
    /\ \A n \in SomePower : \E k \in 1..IndexBits : n = Power[k]
    /\ \A k \in 1..IndexBits : Power[k] \in SomePower
<1>1. IndexBits \in Nat
  BY SizingAssumption
<1>2. /\ \A n \in PowersOfTwo : \E k \in 0..IndexBits : n = Power[k]
      /\ \A k \in 0..IndexBits : Power[k] \in PowersOfTwo
  BY DEF PowersOfTwo
<1>3. \A n \in SomePower : \E k \in 1..IndexBits : n = Power[k]
  BY <1>1, <1>2, PowerDoubles DEF SomePower
<1>4. ASSUME NEW k \in 1..IndexBits PROVE Power[k] \in SomePower
  <2>1. k \in 0..IndexBits /\ 0 \in 0..(k - 1)
    BY <1>1
  <2>2. Power[0] < Power[k]
    BY <2>1, PowerGrows
  <2> QED
    BY <1>2, <2>1, <2>2, PowerDoubles DEF SomePower
<1> QED
  BY <1>2, <1>3, <1>4

\* Twice as many parts are a power of two again, or more than the edges.
LEMMA PartsDouble ==
    ASSUME InputInv, NEW n \in SomePower
    PROVE  2 * n \in SomePower \/ 2 * n > Edges
<1>0. IndexBits \in Nat
  BY SizingAssumption
<1>1. PICK k \in 1..IndexBits : n = Power[k]
  BY PowersAre
<1>2. CASE k = IndexBits
  <2>1. args.edgeBits \in 0..IndexBits /\ args.edgeBits \in 0..k
    BY <1>0, <1>2 DEF InputInv
  <2>2. Power[args.edgeBits] <= Power[k] /\ Power[k] \in Nat \ {0}
    BY <1>0, <1>2, <2>1, PowerSplits, PowerType
  <2>3. Edges = Power[args.edgeBits]
    BY DEF Edges, EdgeCount
  <2>4. Power[args.edgeBits] \in Nat
    BY <2>1, PowerType
  <2> QED
    BY <1>1, <2>2, <2>3, <2>4
<1>3. CASE k # IndexBits
  <2>1. k \in 0..(IndexBits - 1) /\ k + 1 \in 1..IndexBits
    BY <1>0, <1>3
  <2>2. Power[k + 1] = 2 * Power[k]
    BY <2>1, PowerDoubles
  <2> QED
    BY <1>1, <2>1, <2>2, PowersAre
<1> QED
  BY <1>2, <1>3

\* What selected_slean_parts returns is a power of two above one.
LEMMA PartsSelected ==
    ASSUME InputInv
    PROVE  SelectedParts \in SomePower
<1>1. IndexBits \in Nat /\ IndexBits > 16
  BY SizingAssumption
<1>2. Power[1] = 2 /\ Power[2] = 4
  <2>1. Power[0 + 1] = 2 * Power[0] /\ Power[1 + 1] = 2 * Power[1]
    BY <1>1, PowerDoubles
  <2> QED
    BY <2>1, PowerDoubles
<1>3. 2 \in SomePower /\ 4 \in SomePower
  <2>1. 1 \in 1..IndexBits /\ 2 \in 1..IndexBits
    BY <1>1
  <2> QED
    BY <1>2, <2>1, PowersAre
<1> QED
  BY <1>3 DEF SelectedParts, InputInv

\* No step changes the machine or the arguments.
LEMMA InputStays == ASSUME [Next]_vars PROVE UNCHANGED <<args, machine>>
<1>1. CASE UNCHANGED vars
  BY <1>1 DEF vars
<1>2. CASE Work
  BY <1>2 DEF Work, Refused, Started, TakeMetal, TakeWgpu, TakeCpu, NoBackend, RangeOverflows,
     RangeFits, Request, Refuses, Validated, TooLarge, BeginSizing, TooManyParts, MoreParts,
     PartsFit, ScratchTooLarge, MetalSized, GoesOn, GivesUp, Mining, Complete, input
<1> QED
  BY <1>1, <1>2 DEF Next, Exited

\* Every start of the program satisfies the invariant of its sizes,
LEMMA InitRequest == Init => RequestInv
<1> SUFFICES ASSUME Init PROVE RequestInv
  OBVIOUS
<1>1. PICK s \in Scenarios : machine = s.machine /\ args = s.args
  BY DEF Init
<1>2. InputInv
  BY <1>1, CommandAssumption DEF InputInv, SomePower
<1> QED
  BY <1>2 DEF Init, RequestInv, SizedInv

\* the sizes are as good as they were while nothing they depend on changes,
LEMMA StayGood ==
    ASSUME UNCHANGED <<args, machine, parts>>
    PROVE  /\ UNCHANGED sized => (SizesGood' <=> SizesGood)
           /\ PartsGood' <=> PartsGood
<1>1. /\ Edges' = Edges /\ (Slean' <=> Slean) /\ (Bucketed' <=> Bucketed)
      /\ (BucketCountFits' <=> BucketCountFits) /\ SomePower' = SomePower
  BY DEF Edges, Slean, Bucketed, BucketCountFits, BucketCount, Words, LocalWords, SomePower
<1> QED
  BY <1>1 DEF SizesGood, PartsGood

\* and each step keeps them so.
LEMMA NextSized ==
    ASSUME RequestInv, solver \in {"none", "cpu", "wgpu", "metal"}, [Next]_vars
    PROVE  SizedInv'
<1>0. /\ args' = args /\ machine' = machine /\ InputInv /\ SizedInv
  BY InputStays DEF RequestInv
<1>2. /\ Edges' = Edges /\ (Slean' <=> Slean) /\ (Bucketed' <=> Bucketed)
      /\ (BucketCountFits' <=> BucketCountFits) /\ SomePower' = SomePower
  BY <1>0 DEF Edges, Slean, Bucketed, BucketCountFits, BucketCount, Words, LocalWords, SomePower
<1>3. ASSUME parts' = parts, sized' = sized, pc' \notin {"parts", "metal"},
             sized.mode # "none" => pc' \in {"solve", "exited"}
      PROVE  SizedInv'
  <2>1. SizesGood' <=> SizesGood
    BY <1>0, <1>3, StayGood
  <2> QED
    BY <1>0, <1>3, <2>1 DEF SizedInv
<1>4. CASE Refused \/ Started \/ TakeMetal \/ TakeWgpu \/ TakeCpu \/ NoBackend
  <2>1. /\ parts' = parts /\ sized' = sized /\ pc' \notin {"parts", "metal"}
        /\ pc # "solve" /\ pc # "exited"
    BY <1>4 DEF Refused, Started, TakeMetal, TakeWgpu, TakeCpu, NoBackend, Exit
  <2> QED
    BY <1>0, <1>3, <2>1 DEF SizedInv
<1>5. CASE RangeOverflows \/ RangeFits \/ Request \/ Refuses \/ TooLarge \/ TooManyParts
           \/ ScratchTooLarge \/ Complete
  <2>1. /\ parts' = parts /\ sized' = sized /\ pc' \notin {"parts", "metal"}
        /\ pc # "solve" /\ pc # "exited"
    BY <1>5 DEF RangeOverflows, RangeFits, Request, Refuses, TooLarge, TooManyParts,
       ScratchTooLarge, Complete, Exit
  <2> QED
    BY <1>0, <1>3, <2>1 DEF SizedInv
<1>6. CASE Validated
  <2>1. /\ parts' = parts /\ sized' = sized /\ pc = "validate" /\ Valid
        /\ pc' = IF solver = "cpu" THEN "solve" ELSE solver
    BY <1>6 DEF Validated
  <2>2. pc' = "metal" => args.edgeBits >= MetalMinBits
    <3>1. pc' = "metal" => args.edgeBits \in MetalMinBits..IndexBits
      BY <2>1 DEF Valid, Supported
    <3>2. MetalMinBits \in Int /\ IndexBits \in Int
      BY CommandAssumption, SizingAssumption
    <3> QED
      BY <3>1, <3>2
  <2>3. pc' # "parts" /\ sized.mode = "none"
    BY <1>0, <2>1 DEF SizedInv
  <2> QED
    BY <1>0, <2>1, <2>2, <2>3 DEF SizedInv
<1>7. CASE BeginSizing
  <2>1. /\ sized' = sized /\ pc = "wgpu" /\ pc' = "parts" /\ parts' = SelectedParts
        /\ Slean => BucketCountFits
    BY <1>7 DEF BeginSizing
  <2>2. parts' \in SomePower /\ parts' \in Nat
    <3>1. parts' \in SomePower
      BY <1>0, <2>1, PartsSelected
    <3>2. PICK k \in 1..IndexBits : parts' = Power[k]
      BY <3>1, PowersAre
    <3> QED
      BY <3>1, <3>2, PowerType, SizingAssumption
  <2>4. PartsGood'
    BY <1>2, <2>1, <2>2 DEF PartsGood
  <2>3. sized.mode = "none"
    BY <1>0, <2>1 DEF SizedInv
  <2> QED
    BY <2>1, <2>4, <2>3 DEF SizedInv
<1>8. CASE MoreParts
  <2>1. /\ sized' = sized /\ pc = "parts" /\ pc' = "parts" /\ parts' = parts * 2
        /\ parts <= Edges
    BY <1>8 DEF MoreParts
  <2>2. PartsGood
    BY <1>0, <2>1 DEF SizedInv
  <2>3. Edges \in Nat /\ IndexBits \in Nat
    <3>1. args.edgeBits \in 0..IndexBits /\ IndexBits \in Nat
      BY <1>0, SizingAssumption DEF InputInv
    <3> QED
      BY <3>1, PowerType DEF Edges, EdgeCount
  <2>4. parts \in SomePower
    <3>1. CASE parts \in SomePower
      BY <3>1
    <3>2. CASE parts > Edges
      BY <2>1, <2>2, <2>3, <3>2 DEF PartsGood
    <3> QED
      BY <2>2, <3>1, <3>2 DEF PartsGood
  <2>5. 2 * parts \in SomePower \/ 2 * parts > Edges
    BY <1>0, <2>4, PartsDouble
  <2>6. parts' = 2 * parts /\ parts' \in Nat
    <3>1. PICK k \in 1..IndexBits : parts = Power[k]
      BY <2>4, PowersAre
    <3>2. parts \in Nat
      BY <2>3, <3>1, PowerType
    <3> QED
      BY <2>1, <3>2
  <2>7. PartsGood'
    BY <1>2, <2>2, <2>5, <2>6 DEF PartsGood
  <2>8. sized.mode = "none"
    BY <1>0, <2>1 DEF SizedInv
  <2> QED
    BY <2>1, <2>7, <2>8 DEF SizedInv
<1>9. CASE PartsFit
  <2>1. pc = "parts" /\ pc' = "solve" /\ parts' = parts /\ parts <= Edges
    BY <1>9 DEF PartsFit, Sized
  <2>2. PartsGood
    BY <1>0, <2>1 DEF SizedInv
  <2>3. Edges \in Nat /\ IndexBits \in Nat
    <3>1. args.edgeBits \in 0..IndexBits /\ IndexBits \in Nat
      BY <1>0, SizingAssumption DEF InputInv
    <3> QED
      BY <3>1, PowerType DEF Edges, EdgeCount
  <2>4. parts \in SomePower
    <3>1. CASE parts \in SomePower
      BY <3>1
    <3>2. CASE parts > Edges
      BY <2>1, <2>2, <2>3, <3>2 DEF PartsGood
    <3> QED
      BY <2>2, <3>1, <3>2 DEF PartsGood
  <2>5. \/ Slean /\ sized' = [mode |-> "slean", partEdges |-> PartEdges(Edges, parts)]
        \/ Bucketed /\ sized' = [mode |-> "bucketed", partEdges |-> ChunkEdges(Edges)]
        \/ sized' = [mode |-> "lean", partEdges |-> Edges]
    BY <1>9 DEF PartsFit, Sized
  <2>6. SizesGood'
    BY <1>2, <2>1, <2>2, <2>4, <2>5 DEF SizesGood, PartsGood
  <2> QED
    BY <2>1, <2>6 DEF SizedInv
<1>10. CASE MetalSized
  <2>1. /\ parts' = args.parts /\ pc' = "solve"
        /\ sized' = [mode |-> "metal", partEdges |-> Edges \div args.parts]
    BY <1>10 DEF MetalSized, Sized
  <2>3. args.edgeBits >= MetalMinBits
    BY <1>0, <1>10 DEF MetalSized, SizedInv
  <2>2. SizesGood'
    BY <1>0, <1>2, <2>1, <2>3 DEF SizesGood, InputInv
  <2> QED
    BY <2>1, <2>2 DEF SizedInv
<1>11. CASE GoesOn \/ GivesUp
  <2>1. sized' = [mode |-> "none"] /\ pc' \notin {"parts", "metal"}
    BY <1>11 DEF GoesOn, GivesUp, Judge, Exit
  <2> QED
    BY <2>1 DEF SizedInv
<1>12. CASE Mining
  <2>1. parts' = parts /\ sized' = sized /\ pc' = "exited"
    BY <1>12 DEF Mining, Exit
  <2> QED
    BY <1>3, <2>1
<1>13. CASE UNCHANGED vars
  <2>1. parts' = parts /\ sized' = sized /\ pc' = pc
    BY <1>13 DEF vars
  <2>2. (SizesGood' <=> SizesGood) /\ (PartsGood' <=> PartsGood)
    BY <1>0, <2>1, StayGood
  <2> QED
    BY <1>0, <2>1, <2>2 DEF SizedInv
<1> QED
  BY <1>4, <1>5, <1>6, <1>7, <1>8, <1>9, <1>10, <1>11, <1>12, <1>13 DEF Next, Work, Exited

LEMMA NextRequest ==
    ASSUME RequestInv, solver \in {"none", "cpu", "wgpu", "metal"}, [Next]_vars
    PROVE  RequestInv'
<1>1. InputInv'
  BY InputStays DEF RequestInv, InputInv, SomePower
<1> QED
  BY <1>1, NextSized DEF RequestInv

-----------------------------------------------------------------------------
(* What the sizes of a request are *)

\* Powers of two divide each other.
LEMMA PowersDivide ==
    ASSUME NEW a \in PowersOfTwo, NEW b \in PowersOfTwo
    PROVE  /\ a \in Nat \ {0} /\ b \in Nat \ {0}
           /\ a <= b => \E c \in PowersOfTwo : b = a * c
           /\ a < b => 2 * a <= b
<1>0. IndexBits \in Nat
  BY SizingAssumption
<1>1. PICK m \in 0..IndexBits : a = Power[m]
  BY PowersAre
<1>2. PICK n \in 0..IndexBits : b = Power[n]
  BY PowersAre
<1>3. a \in Nat \ {0} /\ b \in Nat \ {0}
  BY <1>1, <1>2, PowerType
<1>4. ASSUME a <= b PROVE \E c \in PowersOfTwo : b = a * c
  <2>1. m \in 0..n /\ n - m \in 0..IndexBits
    BY <1>0, <1>1, <1>2, <1>4, PowerOrder
  <2>2. b = a * Power[n - m]
    BY <1>1, <1>2, <2>1, PowerSplits
  <2> QED
    BY <2>1, <2>2, PowersAre
<1>5. ASSUME a < b PROVE 2 * a <= b
  <2>1. m \in 0..(n - 1)
    BY <1>0, <1>1, <1>2, <1>5, PowerOrder
  <2> QED
    BY <1>1, <1>2, <2>1, PowerGrows
<1> QED
  BY <1>3, <1>4, <1>5

\* The powers of two that occur.
LEMMA SmallPowers ==
    /\ {1, 2, 32, 256, 2^16, Indices, RangeEdges, WholeChunk} \subseteq PowersOfTwo
    /\ 2 * WholeChunk <= Indices /\ RangeEdges <= Indices
<1>0. IndexBits \in Nat /\ IndexBits > 16 /\ ChunkBits \in 0..(IndexBits - 1)
      /\ RangeBits \in 0..IndexBits
  BY SizingAssumption
<1>1. Power[1] = 2 /\ Power[2] = 4
  <2>1. Power[0 + 1] = 2 * Power[0] /\ Power[1 + 1] = 2 * Power[1]
    BY <1>0, PowerDoubles
  <2> QED
    BY <2>1, PowerDoubles
<1>2. Power[8] = 256
  <2>1. Power[2 + 2] = Power[2] * Power[2]
    BY <1>0, PowerSum
  <2>2. Power[4 + 4] = Power[4] * Power[4]
    BY <1>0, PowerSum
  <2> QED
    BY <2>1, <2>2, <1>1
<1>3. {0, 1, 5, 8, 16, IndexBits, RangeBits, ChunkBits} \subseteq 0..IndexBits
  BY <1>0
<1>4. {1, 2, 32, 256, 2^16, Indices, RangeEdges, WholeChunk} \subseteq PowersOfTwo
  BY <1>1, <1>2, <1>3, PowersAre, PowerValues, PowerDoubles DEF Indices, RangeEdges, WholeChunk
<1>5. 2 * WholeChunk <= Indices
  BY <1>0, PowerGrows DEF WholeChunk, Indices
<1>6. RangeEdges <= Indices
  BY <1>0, PowerSplits DEF RangeEdges, Indices
<1> QED
  BY <1>4, <1>5, <1>6

\* So is the number of edges, and a graph with buckets has two words or more.
LEMMA EdgesPower ==
    ASSUME InputInv
    PROVE  /\ Edges \in PowersOfTwo /\ Edges \in Nat \ {0, 1} /\ Edges <= Indices
           /\ Bucketed => 64 <= Edges
<1>0. IndexBits \in Nat /\ IndexBits > 16
  BY SizingAssumption
<1> DEFINE bits == args.edgeBits
<1>1. bits \in 1..IndexBits
  BY DEF InputInv
<1>2. Edges = Power[bits]
  BY DEF Edges, EdgeCount
<1> HIDE DEF bits
<1>3. bits \in 0..IndexBits /\ 0 \in 0..(bits - 1)
  BY <1>0, <1>1
<1>4. Edges \in PowersOfTwo /\ Edges \in Nat
  BY <1>2, <1>3, PowersAre, PowerType
<1>5. Power[0] < Power[bits]
  BY <1>3, PowerGrows
<1>6. Edges <= Indices
  BY <1>0, <1>2, <1>3, PowerSplits DEF Indices
<1>7. ASSUME Bucketed PROVE 64 <= Edges
  <2>1. 5 \in 0..(bits - 1)
    BY <1>0, <1>1, <1>7, CommandAssumption DEF Bucketed, bits
  <2>2. 2 * Power[5] <= Power[bits]
    BY <1>3, <2>1, PowerGrows
  <2> QED
    BY <1>2, <2>2, PowerValues
<1> QED
  BY <1>2, <1>4, <1>5, <1>6, <1>7, PowerDoubles

\* The parts of a request divide its graph.
LEMMA PartsDivide ==
    ASSUME InputInv, NEW n \in SomePower, n <= Edges
    PROVE  /\ n \in Nat \ {0, 1} /\ n \in PowersOfTwo
           /\ \E size \in PowersOfTwo : Edges = n * size /\ 2 * size <= Indices
<1>1. Edges \in PowersOfTwo /\ Edges <= Indices /\ n \in PowersOfTwo /\ n # 1
  BY EdgesPower DEF SomePower
<1>2. n \in Nat \ {0} /\ Edges \in Nat \ {0}
  BY <1>1, PowersDivide
<1>3. PICK size \in PowersOfTwo : Edges = n * size
  BY <1>1, PowersDivide
<1>4. size \in Nat \ {0} /\ n >= 2
  BY <1>1, <1>2, <1>3, PowersDivide
<1>5. 2 * size <= n * size
  BY <1>2, <1>4
<1>6. Indices \in Nat
  BY PowerValues
<1> QED
  BY <1>1, <1>2, <1>3, <1>4, <1>5, <1>6

\* Division, rounding up.
LEMMA CeilDivBounds ==
    ASSUME NEW n \in Nat, NEW d \in Nat \ {0}
    PROVE  /\ CeilDiv(n, d) \in Nat
           /\ n <= CeilDiv(n, d) * d /\ CeilDiv(n, d) * d < n + d
           /\ n # 0 => CeilDiv(n, d) # 0
<1> DEFINE m == n + d - 1
           k == m \div d
<1>1. m \in Nat /\ k \in Nat
  OBVIOUS
<1>2. k * d <= m /\ m < k * d + d
  OBVIOUS
<1>3. k = CeilDiv(n, d)
  BY DEF CeilDiv
<1>4. n <= k * d /\ k * d < n + d
  BY <1>2
<1> QED
  BY <1>1, <1>3, <1>4

\* The least multiple of d that is not below n.
LEMMA CeilDivIs ==
    ASSUME NEW n \in Nat, NEW d \in Nat \ {0}, NEW k \in Nat \ {0},
           n <= k * d, (k - 1) * d < n
    PROVE  CeilDiv(n, d) = k
<1> DEFINE c == CeilDiv(n, d)
<1>1. c \in Nat /\ n <= c * d /\ c * d < n + d
  BY CeilDivBounds
<1> HIDE DEF c
<1>2. CASE c < k
  <2>1. c * d <= (k - 1) * d
    BY <1>1, <1>2
  <2> QED
    BY <1>1, <2>1
<1>3. CASE c > k
  <2>1. (k + 1) * d <= c * d /\ (k + 1) * d = k * d + d
    BY <1>1, <1>3
  <2> QED
    BY <1>1, <2>1
<1> QED
  BY <1>1, <1>2, <1>3 DEF c

\* A slean request, as numbers: n parts of `size' edges, `buckets' buckets of
\* `width' words, which the host takes to be of `local' words.
Laid(edges, n, size, words, buckets, width, local) ==
    /\ n \in Nat \ {0, 1} /\ size \in Nat \ {0} /\ edges = n * size
    /\ edges \in Nat /\ edges <= Indices /\ 2 * size <= Indices
    /\ buckets \in 1..(2^15) /\ width \in Nat \ {0, 1} /\ words = buckets * width
    /\ words \in Nat /\ edges = 32 * words
    /\ local \in Nat /\ width <= local /\ (buckets - 1) * local < words
    /\ n <= buckets => \E fill \in Nat \ {0} : buckets = n * fill
    /\ n > buckets => 2 * buckets <= n

\* The bitmap of such a graph is whole words,
LEMMA WordsOf ==
    ASSUME InputInv, Bucketed
    PROVE  /\ Words \in PowersOfTwo /\ Words \in Nat \ {0, 1} /\ Edges = 32 * Words
           /\ WordCount(Edges) = Words
<1>1. Edges \in PowersOfTwo /\ Edges \in Nat /\ 64 <= Edges /\ 32 \in PowersOfTwo
  BY EdgesPower, SmallPowers
<1>2. PICK w \in PowersOfTwo : Edges = 32 * w
  BY <1>1, PowersDivide
<1>3. w \in Nat \ {0}
  BY <1>2, PowersDivide
<1>4. CeilDiv(32 * w, 32) = w
  BY <1>3, CeilDivProduct
<1>5. Words = w
  BY <1>2, <1>4 DEF Words, WordCount
<1> QED
  BY <1>1, <1>2, <1>3, <1>5 DEF Words

\* and a bucket is one of three sizes that fit it.
LEMMA LocalIs ==
    ASSUME InputInv, Bucketed
    PROVE  /\ LocalWords \in Nat \ {0, 1} /\ LocalWords <= Words
           /\ LocalWords \in {args.localKib * 256, machine.localWords, Words}
<1>1. args.localKib \in Nat \ {0}
  BY PowersDivide DEF InputInv, SomePower
<1>2. args.localKib * 256 \in Nat \ {0, 1}
  BY <1>1
<1>3. machine.localWords \in Nat \ {0, 1} /\ Words \in Nat \ {0, 1}
  BY WordsOf DEF InputInv
<1> QED
  BY <1>2, <1>3 DEF LocalWords

\* Every slean request that is solved is of this kind.
LEMMA SleanLaid ==
    ASSUME InputInv, SizesGood, sized.mode = "slean"
    PROVE  /\ \E width \in PowersOfTwo :
                Laid(Edges, parts, sized.partEdges, Words, BucketCount, width, LocalWords)
           /\ WordCount(Edges) = Words
<1>1. /\ Bucketed /\ BucketCount \in PowersOfTwo /\ BucketCount < 2^16
      /\ parts \in SomePower /\ parts <= Edges /\ sized.partEdges = PartEdges(Edges, parts)
  BY DEF SizesGood, Slean, BucketCountFits
<1>2. /\ Words \in PowersOfTwo /\ Words \in Nat \ {0, 1} /\ Edges = 32 * Words
      /\ WordCount(Edges) = Words /\ Edges <= Indices
  BY <1>1, WordsOf, EdgesPower
<1>3. LocalWords \in Nat \ {0, 1} /\ LocalWords <= Words
  BY <1>1, LocalIs
<1> DEFINE B == BucketCount
           L == LocalWords
           W == Words
<1>4. B \in Nat \ {0} /\ W <= B * L /\ B * L < W + L
  <2>1. B = CeilDiv(W, L)
    BY DEF BucketCount
  <2> QED
    BY <1>2, <1>3, <2>1, CeilDivBounds
<1>5. B \in 1..(2^15)
  <2>1. 2^16 \in PowersOfTwo /\ B \in PowersOfTwo /\ B < 2^16
    BY <1>1, SmallPowers
  <2>2. 2 * B <= 2^16
    BY <2>1, PowersDivide
  <2> QED
    BY <1>4, <2>2
<1>6. B <= W
  <2> HIDE DEF B, L, W
  <2>1. W \in Nat /\ L \in Nat \ {0, 1}
    BY <1>2, <1>3 DEF L, W
  <2> SUFFICES ASSUME W <= B - 1 PROVE FALSE
    BY <1>4, <2>1
  <2>2. W * L <= (B - 1) * L
    BY <1>4, <2>1
  <2>3. W <= W * L /\ (B - 1) * L = B * L - L
    BY <1>4, <2>1
  <2> QED
    BY <1>4, <2>1, <2>2, <2>3
<1>7. PICK width \in PowersOfTwo : W = B * width
  BY <1>1, <1>2, <1>6, PowersDivide
<1>8. width \in Nat \ {0}
  BY <1>7, PowersDivide
<1>9. width <= L /\ width # 1 /\ (B - 1) * L < W
  <2> HIDE DEF B, L, W
  <2>1. W \in Nat \ {0, 1} /\ L \in Nat \ {0, 1}
    BY <1>2, <1>3 DEF L, W
  <2>2. (B - 1) * L = B * L - L
    BY <1>4, <2>1
  <2>3. width <= L
    <3> SUFFICES ASSUME L + 1 <= width PROVE FALSE
      BY <1>8, <2>1
    <3>1. B * (L + 1) <= B * width /\ B * (L + 1) = B * L + B
      BY <1>4, <1>8, <2>1
    <3> QED
      BY <1>4, <1>7, <2>1, <3>1
  <2>4. ASSUME width = 1 PROVE FALSE
    <3>1. W = B
      BY <1>4, <1>7, <2>4
    <3>2. (B - 1) * 2 <= (B - 1) * L
      BY <1>4, <2>1
    <3> QED
      BY <1>4, <2>1, <2>2, <3>1, <3>2
  <2> QED
    BY <1>4, <2>1, <2>2, <2>3, <2>4
<1>10. PICK size \in PowersOfTwo : Edges = parts * size /\ 2 * size <= Indices
  BY <1>1, PartsDivide
<1>11. size \in Nat \ {0} /\ parts \in Nat \ {0, 1} /\ parts \in PowersOfTwo
  BY <1>1, <1>10, PowersDivide, PartsDivide
<1>12. sized.partEdges = size
  BY <1>1, <1>10, <1>11, CeilDivProduct DEF PartEdges
<1>13. /\ parts <= B => \E fill \in Nat \ {0} : B = parts * fill
       /\ parts > B => 2 * B <= parts
  <2>1. parts <= B => \E fill \in PowersOfTwo : B = parts * fill
    BY <1>1, <1>11, PowersDivide
  <2>2. B < parts => 2 * B <= parts
    BY <1>1, <1>11, PowersDivide
  <2>3. parts > B => B < parts
    BY <1>4, <1>11
  <2> QED
    BY <2>1, <2>2, <2>3, PowersDivide
<1>14. Laid(Edges, parts, sized.partEdges, W, B, width, L)
  <2> HIDE DEF B, L, W
  <2>1. Edges \in Nat /\ Edges = 32 * W /\ W \in Nat /\ L \in Nat
    BY <1>2, <1>3, EdgesPower DEF L, W
  <2> QED
    BY <1>2, <1>5, <1>7, <1>8, <1>9, <1>10, <1>11, <1>12, <1>13, <2>1 DEF Laid
<1> QED
  BY <1>2, <1>7, <1>14

-----------------------------------------------------------------------------
(* A slean request, part by part *)

\* What the kernels get for a part.
LEMMA LaidPart ==
    ASSUME NEW edges, NEW n, NEW size, NEW words, NEW buckets, NEW width, NEW local,
           Laid(edges, n, size, words, buckets, width, local), WordCount(edges) = words,
           NEW part \in 0..(n - 1)
    PROVE  LET p == PartParams(edges, n, buckets, part)
           IN  /\ p.word_count = words /\ p.buckets = buckets
               /\ p.chunk_base = part * size /\ p.chunk_count = size
               /\ p.chunk_base + p.chunk_count = (part + 1) * size
               /\ p \in [word_count : Nat, chunk_base : Nat, chunk_count : Nat,
                         buckets : Nat \ {0}]
               /\ PartEdges(edges, n) = size
<1> DEFINE p == PartParams(n * size, n, buckets, part)
<1>1. /\ n \in Nat \ {0} /\ size \in Nat \ {0} /\ buckets \in 1..(2^16 - 1) /\ edges = n * size
      /\ words \in Nat /\ 32 * words <= Indices /\ 2 * size <= Indices /\ n * size <= Indices
      /\ words # 0 /\ Indices \in Nat
  BY PowerValues DEF Laid
<1>2. size < Indices /\ words < Indices
  BY <1>1
<1>3. p.chunk_count = size /\ p.buckets = buckets /\ PartEdges(n * size, n) = size
  BY <1>1, <1>2, EqualParts
<1>4. p.chunk_base = part * size /\ p.chunk_base + p.chunk_count = (part + 1) * size
  BY <1>1, <1>2, PartsAdjoin
<1>5. p.word_count = words
  BY <1>1, <1>2, U32Same DEF PartParams
<1>6. p = [word_count |-> p.word_count, chunk_base |-> p.chunk_base,
           chunk_count |-> p.chunk_count, buckets |-> p.buckets]
  BY DEF PartParams
<1>7. part * size \in Nat
  BY <1>1
<1> HIDE DEF p
<1>8. p \in [word_count : Nat, chunk_base : Nat, chunk_count : Nat, buckets : Nat \ {0}]
  BY <1>1, <1>3, <1>4, <1>5, <1>6, <1>7
<1> QED
  BY <1>1, <1>3, <1>4, <1>5, <1>8 DEF p

\* The margin of a capacity is small.
LEMMA CapacityFits ==
    ASSUME NEW size \in Nat \ {0}, NEW buckets \in Nat \ {0}, 2 * size <= Indices
    PROVE  Capacity(size, buckets) < Indices
<1> DEFINE base == CeilDiv(size, buckets)
<1>1. base \in Nat /\ base * buckets < size + buckets
  BY CeilDivBounds
<1>2. base <= size
  <2> HIDE DEF base
  <2> SUFFICES ASSUME size + 1 <= base PROVE FALSE
    BY <1>1
  <2>1. (size + 1) * buckets <= base * buckets
    BY <1>1
  <2>2. (size + 1) * buckets = size * buckets + buckets /\ size <= size * buckets
    OBVIOUS
  <2> QED
    BY <1>1, <2>1, <2>2
<1>3. CeilDiv(base, 20) \in Nat /\ CeilDiv(base, 20) * 20 < base + 20
  <2> HIDE DEF base
  <2> QED
    BY <1>1, 20 \in Nat \ {0}, CeilDivBounds
<1>4. Indices \in Nat /\ 2^17 <= Indices
  BY PowerValues
<1>5. Capacity(size, buckets) = base + CeilDiv(base, 20) + 64
  BY DEF Capacity
<1> HIDE DEF base
<1> QED
  BY <1>1, <1>2, <1>3, <1>4, <1>5

\* They compute the host's capacity from it,
LEMMA LaidCapacity ==
    ASSUME NEW edges, NEW n, NEW size, NEW words, NEW buckets, NEW width, NEW local,
           Laid(edges, n, size, words, buckets, width, local), WordCount(edges) = words,
           NEW part \in 0..(n - 1)
    PROVE  slean_capacity(PartParams(edges, n, buckets, part)) = Capacity(size, buckets)
<1>1. /\ n \in Nat \ {0} /\ size \in Nat \ {0} /\ buckets \in 1..(2^16 - 1) /\ edges = n * size
      /\ buckets \in 1..(2^15) /\ 2 * size <= Indices /\ Indices \in Nat /\ 2^17 <= Indices
  BY PowerValues DEF Laid
<1>2. size + buckets < Indices
  BY <1>1
<1>3. Capacity(size, buckets) < Indices
  BY <1>1, CapacityFits
<1>4. PartEdges(n * size, n) = size
  BY <1>1, CeilDivProduct DEF PartEdges
<1>5. slean_capacity(PartParams(n * size, n, buckets, part)) = Capacity(PartEdges(n * size, n), buckets)
  <2>1. size + buckets < Indices /\ Capacity(size, buckets) < Indices
    BY <1>2, <1>3
  <2>2. n \in Nat \ {0} /\ size \in Nat \ {0} /\ buckets \in 1..(2^16 - 1) /\ part \in 0..(n - 1)
    BY <1>1
  <2> QED
    BY ONLY <2>1, <2>2, CapacitiesAgree
<1>6. edges = n * size
  BY <1>1
<1> QED
  BY ONLY <1>4, <1>5, <1>6

\* With no more parts than buckets, a part is whole buckets.
LEMMA LaidFill ==
    ASSUME NEW edges, NEW n, NEW size, NEW words, NEW buckets, NEW width, NEW local,
           Laid(edges, n, size, words, buckets, width, local), n <= buckets
    PROVE  \E fill \in Nat \ {0} :
              /\ size = 32 * width * fill /\ 2 * fill <= buckets
              /\ DeadBucketCount(size, local) = fill
<1>1. PICK fill \in Nat \ {0} : buckets = n * fill
  BY DEF Laid
<1>2. /\ n \in Nat \ {0, 1} /\ size \in Nat \ {0} /\ width \in Nat \ {0, 1} /\ local \in Nat
      /\ buckets \in Nat \ {0} /\ width <= local /\ (buckets - 1) * local < buckets * width
      /\ n * size = 32 * (buckets * width)
  BY DEF Laid
<1>3. size = 32 * width * fill
  <2>1. n * size = n * (32 * width * fill)
    BY <1>1, <1>2
  <2> QED
    BY <1>2, <2>1
<1>4. 2 * fill <= buckets
  BY <1>1, <1>2
<1>5. (fill - 1) * local < fill * width
  <2> SUFFICES ASSUME fill * width <= (fill - 1) * local PROVE FALSE
    BY <1>2
  <2>1. (fill * width) * buckets <= ((fill - 1) * local) * buckets
    BY <1>2
  <2>2. fill * ((buckets - 1) * local) < fill * (buckets * width)
    BY <1>2
  <2>3. (fill * width) * buckets = fill * (buckets * width)
    BY <1>2
  <2>4. ((fill - 1) * buckets) * local <= (fill * (buckets - 1)) * local
    <3>1. (fill - 1) * buckets = fill * buckets - buckets
          /\ fill * (buckets - 1) = fill * buckets - fill
      BY <1>2
    <3>2. (fill - 1) * buckets <= fill * (buckets - 1)
      BY <1>2, <1>4, <3>1
    <3> QED
      BY <1>2, <3>2
  <2>5. ((fill - 1) * local) * buckets = ((fill - 1) * buckets) * local
        /\ fill * ((buckets - 1) * local) = (fill * (buckets - 1)) * local
    BY <1>2
  <2> QED
    BY <1>2, <2>1, <2>2, <2>3, <2>4, <2>5
<1>6. DeadBucketCount(size, local) = fill
  <2>1. CeilDiv(size, 8) = 4 * (width * fill)
    <3>1. width * fill \in Nat /\ size = 32 * (width * fill)
      BY <1>2, <1>3
    <3> QED
      BY <3>1 DEF CeilDiv
  <2>2. 4 * (width * fill) \in Nat /\ 4 * local \in Nat \ {0}
    BY <1>2
  <2>3. 4 * (width * fill) <= fill * (4 * local)
    <3>1. fill * width <= fill * local
      BY <1>2
    <3> QED
      BY <1>2, <3>1
  <2>4. (fill - 1) * (4 * local) < 4 * (width * fill)
    BY <1>2, <1>5
  <2>5. CeilDiv(4 * (width * fill), 4 * local) = fill
    BY <2>2, <2>3, <2>4, CeilDivIs
  <2> QED
    BY <2>1, <2>5 DEF DeadBucketCount, AtLeastOne
<1> QED
  BY <1>3, <1>4, <1>6

\* and then its dead buckets.
LEMMA LaidDead ==
    ASSUME NEW edges, NEW n, NEW size, NEW words, NEW buckets, NEW width, NEW local,
           Laid(edges, n, size, words, buckets, width, local), WordCount(edges) = words,
           NEW part \in 0..(n - 1), n <= buckets
    PROVE  LET p == PartParams(edges, n, buckets, part)
               dead == DeadBucketCount(size, local)
           IN  /\ dead \in Nat \ {0} /\ size = 32 * width * dead
               /\ size + dead + 31 < Indices
               /\ slean_bucket_words(p) = width
               /\ slean_dead_bucket_count(p) = dead
<1> DEFINE p == PartParams(edges, n, buckets, part)
<1>1. PICK fill \in Nat \ {0} :
         /\ size = 32 * width * fill /\ 2 * fill <= buckets
         /\ DeadBucketCount(size, local) = fill
  BY LaidFill
<1>2. /\ p.word_count = words /\ p.buckets = buckets /\ p.chunk_count = size
      /\ p \in [word_count : Nat, chunk_base : Nat, chunk_count : Nat, buckets : Nat \ {0}]
  BY LaidPart
<1>3. /\ width \in Nat \ {0} /\ words = buckets * width /\ size \in Nat /\ 2 * size <= Indices
      /\ buckets \in 1..(2^15) /\ Indices \in Nat /\ 2^17 <= Indices
  BY PowerValues DEF Laid
<1>4. size + fill + 31 < Indices /\ size + 31 < Indices
  BY <1>1, <1>3
<1> HIDE DEF p
<1>5. slean_bucket_words(p) = width /\ slean_dead_bucket_count(p) = fill
  BY <1>1, <1>2, <1>3, <1>4, DeadBucketsAgree
<1> QED
  BY <1>1, <1>4, <1>5 DEF p

\* With more parts than buckets, a part is less than a bucket: the kernel counts
\* no dead bucket and the host one.
LEMMA LaidThin ==
    ASSUME NEW edges, NEW n, NEW size, NEW words, NEW buckets, NEW width, NEW local,
           Laid(edges, n, size, words, buckets, width, local), WordCount(edges) = words,
           NEW part \in 0..(n - 1), n > buckets
    PROVE  LET p == PartParams(edges, n, buckets, part)
           IN  /\ size <= 16 * width
               /\ slean_bucket_words(p) = width
               /\ slean_dead_bucket_count(p) = 0
               /\ DeadBucketCount(size, local) = 1
<1> DEFINE p == PartParams(edges, n, buckets, part)
<1>1. p.word_count = words /\ p.buckets = buckets /\ p.chunk_count = size
  BY LaidPart
<1>2. /\ n \in Nat \ {0, 1} /\ size \in Nat \ {0} /\ width \in Nat \ {0, 1} /\ local \in Nat
      /\ buckets \in Nat \ {0} /\ width <= local /\ words = buckets * width
      /\ n * size = 32 * (buckets * width) /\ 2 * buckets <= n
      /\ 2 * size <= Indices /\ Indices \in Nat /\ 2^17 <= Indices
  BY PowerValues DEF Laid
<1>3. size <= 16 * width
  <2> SUFFICES ASSUME 16 * width + 1 <= size PROVE FALSE
    BY <1>2
  <2>1. (2 * buckets) * (16 * width + 1) <= n * size
    <3>1. (2 * buckets) * (16 * width + 1) <= (2 * buckets) * size
      BY <1>2
    <3>2. (2 * buckets) * size <= n * size
      BY <1>2
    <3> QED
      BY <1>2, <3>1, <3>2
  <2>2. (2 * buckets) * (16 * width + 1) = 32 * (buckets * width) + 2 * buckets
    BY <1>2
  <2> QED
    BY <1>2, <2>1, <2>2
<1> HIDE DEF p
<1>4. slean_bucket_words(p) = width
  BY <1>1, <1>2 DEF slean_bucket_words, Quotient
<1>5. slean_dead_bucket_count(p) = 0
  <2>1. U32(size + 31) = size + 31
    BY <1>2, U32Same
  <2>2. (size + 31) \div 32 \in Nat /\ (size + 31) \div 32 < width
    BY <1>2, <1>3
  <2>3. ((size + 31) \div 32) \div width = 0
    <3> DEFINE k == (size + 31) \div 32
    <3>1. k \in Nat /\ k < width
      BY <2>2
    <3> HIDE DEF k
    <3>2. k \div width = 0
      BY <1>2, <3>1
    <3> QED
      BY <3>2 DEF k
  <2> QED
    BY <1>1, <1>2, <1>4, <2>1, <2>3 DEF slean_dead_bucket_count, Quotient
<1>6. DeadBucketCount(size, local) = 1
  <2> DEFINE eighths == CeilDiv(size, 8)
  <2>1. eighths \in Nat \ {0} /\ eighths * 8 < size + 8
    BY <1>2, 8 \in Nat \ {0}, CeilDivBounds
  <2>2. 4 * local \in Nat \ {0} /\ size <= 16 * local
    BY <1>2, <1>3
  <2> HIDE DEF eighths
  <2>3. eighths <= 1 * (4 * local) /\ (1 - 1) * (4 * local) < eighths
    BY <1>2, <2>1, <2>2
  <2>4. CeilDiv(eighths, 4 * local) = 1
    BY <2>1, <2>2, <2>3, CeilDivIs
  <2> QED
    BY <2>4 DEF DeadBucketCount, AtLeastOne, eighths
<1> QED
  BY <1>3, <1>4, <1>5, <1>6 DEF p

-----------------------------------------------------------------------------
(* Hosts and kernels agree *)

\* With plain workgroup storage, the buckets are as wide as the host takes them to be.
LEMMA WidthIsLocal ==
    ASSUME StorageIsPlain, InputInv, Bucketed,
           NEW width \in PowersOfTwo, NEW n, NEW size,
           Laid(Edges, n, size, Words, BucketCount, width, LocalWords)
    PROVE  width = LocalWords /\ 1440 * LocalWords < Indices
<1> DEFINE B == BucketCount
           L == LocalWords
           W == Words
           own == machine.localWords
           asked == args.localKib
<1>0. Indices \in Nat
  BY PowerValues
<1>1. /\ B \in Nat \ {0} /\ width \in Nat \ {0, 1} /\ L \in Nat /\ W \in Nat
      /\ W = B * width /\ width <= L /\ (B - 1) * L < W /\ B = CeilDiv(W, L)
  BY DEF Laid, BucketCount
<1>2. /\ L \in Nat \ {0, 1} /\ L <= W /\ L <= own /\ L \in {asked * 256, own, W}
      /\ W \in PowersOfTwo /\ own \in Nat /\ Edges = 32 * W
  <2>1. L <= own
    <3>1. args.localKib \in Nat /\ own \in Nat /\ W \in Nat
      BY PowersDivide, WordsOf DEF InputInv, SomePower
    <3> QED
      BY <3>1 DEF LocalWords
  <2> QED
    BY <2>1, LocalIs, WordsOf DEF InputInv
<1>3. /\ \A q \in PowersOfTwo : q < own => 3 * q <= 2 * own
      /\ 4 * own <= WordCount(EdgeCount(BucketedMinBits))
      /\ 1440 * own < Indices
  BY DEF InputInv, StorageIsPlain
<1>4. asked \in PowersOfTwo /\ 256 \in PowersOfTwo /\ asked \in Nat \ {0}
  BY SmallPowers, PowersDivide DEF InputInv, SomePower
<1>5. WordCount(EdgeCount(BucketedMinBits)) \in Nat /\ WordCount(EdgeCount(BucketedMinBits)) <= W
  <2>1. /\ BucketedMinBits \in 6..args.edgeBits /\ args.edgeBits \in 0..IndexBits
        /\ IndexBits \in Nat /\ IndexBits > 16
    BY CommandAssumption, SizingAssumption DEF Bucketed, InputInv
  <2>2. 5 \in 0..BucketedMinBits /\ BucketedMinBits \in 0..args.edgeBits
        /\ BucketedMinBits \in 0..IndexBits /\ BucketedMinBits - 5 \in 0..IndexBits
    BY <2>1
  <2> DEFINE least == Power[BucketedMinBits]
             w == Power[BucketedMinBits - 5]
  <2>3. least = 32 * w /\ w \in Nat
    BY <2>2, PowerSplits, PowerValues
  <2>4. least <= Edges
    BY <2>1, <2>2, PowerSplits DEF Edges, EdgeCount
  <2> HIDE DEF least, w
  <2>5. CeilDiv(32 * w, 32) = w
    BY <2>3, CeilDivProduct
  <2>6. w <= W
    <3>1. 32 * w <= 32 * W
      BY <1>2, <2>3, <2>4
    <3>2. W \in Nat
      BY <1>1
    <3> HIDE DEF W
    <3> QED
      BY <2>3, <3>1, <3>2
  <2> QED
    BY <2>3, <2>5, <2>6 DEF WordCount, EdgeCount, least
<1> HIDE DEF B, L, W, own, asked
<1>6. ASSUME NEW d \in Nat \ {0}, W = L * d PROVE width = L
  <2>1. CeilDiv(L * d, L) = d
    BY <1>2, <1>6, CeilDivProduct
  <2>2. L * d = d * width
    BY <1>1, <1>6, <2>1
  <2> QED
    BY <1>1, <1>2, <1>6, <2>2
<1>7. ASSUME L = W PROVE width = L
  <2>1. W = L * 1 /\ 1 \in Nat \ {0}
    BY <1>1, <1>7
  <2> QED
    BY <1>6, <2>1
<1>8. ASSUME L = asked * 256 PROVE width = L
  <2>1. asked <= W
    BY <1>2, <1>4, <1>8
  <2>2. PICK c \in PowersOfTwo : W = asked * c
    BY <1>2, <1>4, <2>1, PowersDivide
  <2>3. c \in Nat \ {0} /\ 256 <= c
    <3>1. c \in Nat \ {0}
      BY <2>2, PowersDivide
    <3>2. ASSUME c < 256 PROVE FALSE
      <4>1. asked * (c + 1) <= asked * 256 /\ asked * (c + 1) = asked * c + asked
        BY <1>4, <3>1, <3>2
      <4> QED
        BY <1>2, <1>4, <1>8, <2>2, <3>1, <4>1
    <3> QED
      BY <3>1, <3>2
  <2>4. PICK d \in PowersOfTwo : c = 256 * d
    BY <1>4, <2>2, <2>3, PowersDivide
  <2>5. d \in Nat \ {0}
    BY <2>4, PowersDivide
  <2>6. W = L * d
    BY <1>4, <1>8, <2>2, <2>4, <2>5
  <2> QED
    BY <1>6, <2>5, <2>6
<1>9. ASSUME L = own PROVE width = L
  <2> SUFFICES ASSUME width < L PROVE FALSE
    BY <1>1
  <2>1. 3 * width <= 2 * L /\ 4 * L <= W
    BY <1>1, <1>2, <1>3, <1>5, <1>9
  <2>2. B >= 5
    <3> SUFFICES ASSUME B <= 4 PROVE FALSE
      BY <1>1
    <3>1. B * width <= 4 * width
      BY <1>1
    <3> QED
      BY <1>1, <2>1, <3>1
  <2>3. (B - 1) * (3 * width) <= (B - 1) * (2 * L)
    BY <1>1, <2>1, <2>2
  <2>4. (B - 1) * (3 * width) = 3 * (B * width) - 3 * width
        /\ (B - 1) * (2 * L) = 2 * ((B - 1) * L)
    BY <1>1
  <2>5. B * width < 3 * width
    BY <1>1, <2>3, <2>4
  <2>6. 5 * width <= B * width
    BY <1>1, <2>2
  <2> QED
    BY <1>1, <2>5, <2>6
<1>10. width = L
  BY <1>2, <1>7, <1>8, <1>9
<1>11. 1440 * L < Indices
  BY <1>0, <1>2, <1>3
<1> QED
  BY <1>10, <1>11 DEF L

\* A slean pass: the kernels' capacities and dead buckets are the host's.
LEMMA SleanAgrees ==
    ASSUME StorageIsPlain, InputInv, SizesGood, sized.mode = "slean", NEW part \in Range(parts)
    PROVE  LET p == SleanPart(part)
               dead == DeadBucketCount(sized.partEdges, LocalWords)
           IN  /\ slean_capacity(p) = Capacity(sized.partEdges, BucketCount)
               /\ slean_bucket_words(p) = LocalWords
               /\ IF DeadBucketsFill
                  THEN /\ slean_dead_bucket_count(p) = dead
                       /\ slean_dead_capacity(p) = DeadCapacity(sized.partEdges, dead)
                  ELSE slean_dead_bucket_count(p) = 0
<1> DEFINE p == SleanPart(part)
           size == sized.partEdges
           L == LocalWords
           dead == DeadBucketCount(size, L)
<1>1. PICK width \in PowersOfTwo :
         Laid(Edges, parts, size, Words, BucketCount, width, L)
  BY SleanLaid
<1>2. WordCount(Edges) = Words /\ part \in 0..(parts - 1) /\ Bucketed
      /\ p = PartParams(Edges, parts, BucketCount, part)
  BY SleanLaid DEF Range, SizesGood, Slean, SleanPart
<1>3. width = L /\ 1440 * L < Indices
  BY <1>1, <1>2, WidthIsLocal
<1>4. slean_capacity(p) = Capacity(size, BucketCount)
  BY <1>1, <1>2, LaidCapacity
<1>5. /\ p.word_count = Words /\ p.buckets = BucketCount /\ p.chunk_count = size
      /\ p \in [word_count : Nat, chunk_base : Nat, chunk_count : Nat, buckets : Nat \ {0}]
  BY <1>1, <1>2, LaidPart
<1>6. /\ L \in Nat \ {0} /\ Words = BucketCount * L /\ parts \in Nat /\ BucketCount \in Nat
      /\ Indices \in Nat
  BY <1>1, <1>3, PowerValues DEF Laid
<1>7. CASE DeadBucketsFill
  <2>1. /\ dead \in Nat \ {0} /\ size = 32 * L * dead
        /\ size + dead + 31 < Indices
        /\ slean_bucket_words(p) = L /\ slean_dead_bucket_count(p) = dead
    BY <1>1, <1>2, <1>3, <1>7, LaidDead DEF DeadBucketsFill
  <2>2. 45 * (32 * L) < Indices
    BY <1>3, <1>6
  <2>3. slean_dead_capacity(p) = DeadCapacity(size, dead)
    <3> HIDE DEF p, size, L, dead
    <3> QED
      BY <1>5, <1>6, <2>1, <2>2, DeadCapacitiesAgree
  <2> QED
    BY <1>4, <1>7, <2>1, <2>3
<1>8. CASE ~DeadBucketsFill
  <2>1. parts > BucketCount
    BY <1>6, <1>8 DEF DeadBucketsFill
  <2>2. slean_bucket_words(p) = L /\ slean_dead_bucket_count(p) = 0
    BY <1>1, <1>2, <1>3, <2>1, LaidThin
  <2> QED
    BY <1>4, <1>8, <2>2
<1> QED
  BY <1>7, <1>8

\* A bucketed pass has chunks of this many edges.
LEMMA Chunks ==
    ASSUME InputInv
    PROVE  LET size == ChunkEdges(Edges)
           IN  /\ size \in Nat \ {0}
               /\ 2 * size <= Indices
               /\ \E n \in Nat \ {0} : Edges = n * size /\ CeilDiv(Edges, size) = n
<1>1. /\ Edges \in PowersOfTwo /\ WholeChunk \in PowersOfTwo /\ 2 * WholeChunk <= Indices
      /\ Indices \in Nat
  BY EdgesPower, SmallPowers, PowerValues
<1>2. Edges \in Nat \ {0} /\ WholeChunk \in Nat \ {0}
  BY <1>1, PowersDivide
<1> DEFINE size == ChunkEdges(Edges)
<1>3. size \in {Edges, WholeChunk} /\ size <= WholeChunk /\ size <= Edges
  BY <1>2 DEF ChunkEdges
<1>4. size \in PowersOfTwo /\ size \in Nat \ {0} /\ 2 * size <= Indices
  BY <1>1, <1>2, <1>3
<1> HIDE DEF size
<1>5. PICK n \in PowersOfTwo : Edges = size * n
  BY <1>1, <1>3, <1>4, PowersDivide
<1>6. n \in Nat \ {0} /\ Edges = n * size
  BY <1>4, <1>5, PowersDivide
<1>7. CeilDiv(Edges, size) = n
  BY <1>4, <1>5, <1>6, CeilDivProduct
<1> QED
  BY <1>4, <1>6, <1>7 DEF size

\* None of them is cut short.
LEMMA ChunkIs ==
    ASSUME InputInv, NEW chunk \in Range(CeilDiv(Edges, ChunkEdges(Edges)))
    PROVE  LET size == ChunkEdges(Edges)
               p == ChunkParams(Edges, chunk)
           IN  p.chunk_base = chunk * size /\ p.chunk_count = size
<1> DEFINE size == ChunkEdges(Edges)
<1>1. size \in Nat \ {0} /\ 2 * size <= Indices /\ Edges <= Indices /\ Indices \in Nat
  BY Chunks, EdgesPower, PowerValues
<1>2. PICK n \in Nat \ {0} : Edges = n * size /\ CeilDiv(Edges, size) = n
  BY Chunks
<1>3. chunk \in 0..(n - 1)
  BY <1>2 DEF Range
<1>4. ChunkParams(Edges, chunk)
         = [chunk_base  |-> U32(chunk * size),
            chunk_count |-> U32(IF size <= Edges - chunk * size THEN size ELSE Edges - chunk * size)]
  BY DEF ChunkParams
<1> HIDE DEF size
<1>5. (n - chunk) * size >= size /\ (n - chunk) * size = n * size - chunk * size
      /\ chunk * size \in Nat
  BY <1>1, <1>3
<1>6. chunk * size < Indices /\ size < Indices /\ size <= Edges - chunk * size
  BY <1>1, <1>2, <1>5
<1>7. U32(chunk * size) = chunk * size /\ U32(size) = size
  BY <1>1, <1>5, <1>6, U32Same
<1> QED
  BY <1>4, <1>6, <1>7 DEF size

\* u32 only makes numbers smaller.
LEMMA U32Less ==
    ASSUME NEW n \in Nat
    PROVE  U32(n) \in Nat /\ U32(n) <= n
<1>1. Indices \in Nat \ {0}
  BY PowerValues
<1> DEFINE m == Indices
<1> HIDE DEF m
<1>2. n % m \in Nat /\ n % m <= n
  BY <1>1 DEF m
<1> QED
  BY <1>2 DEF U32, m

\* What the theorems below share: a request that is being solved.
LEMMA RequestInvariant == Spec => [](CommandInv /\ RequestInv)
<1>1. ASSUME CommandInv, RequestInv, [Next]_vars PROVE RequestInv'
  <2>1. solver \in {"none", "cpu", "wgpu", "metal"}
    BY <1>1 DEF CommandInv, BackendInv
  <2> QED
    BY <1>1, <2>1, NextRequest
<1> QED
  BY CommandInvariant, InitRequest, <1>1, PTL DEF Spec

\* Host and kernels compute the same layout for every request, on every adapter
\* whose workgroup storage is plain.
THEOREM SizesAgreeAlways ==
    ASSUME StorageIsPlain
    PROVE  Spec => []SizesAgree
<1>1. ASSUME RequestInv PROVE SizesAgree
  <2>0. InputInv /\ (sized.mode # "none" => SizesGood)
    BY <1>1 DEF RequestInv, SizedInv
  <2>1. ASSUME sized.mode = "slean", NEW part \in Range(parts)
        PROVE  LET p == SleanPart(part)
                   dead == DeadBucketCount(sized.partEdges, LocalWords)
               IN  /\ slean_capacity(p) = Capacity(sized.partEdges, BucketCount)
                   /\ slean_bucket_words(p) = LocalWords
                   /\ IF DeadBucketsFill
                      THEN /\ slean_dead_bucket_count(p) = dead
                           /\ slean_dead_capacity(p) = DeadCapacity(sized.partEdges, dead)
                      ELSE slean_dead_bucket_count(p) = 0
    BY <2>0, <2>1, SleanAgrees
  <2>2. ASSUME sized.mode = "bucketed",
               NEW chunk \in Range(CeilDiv(Edges, sized.partEdges))
        PROVE  256 + 2 * 64 * bucket_config_capacity(ChunkParams(Edges, chunk))
                  <= ScratchWords(Edges)
    <3> DEFINE size == ChunkEdges(Edges)
               p == ChunkParams(Edges, chunk)
    <3>1. sized.partEdges = size
      BY <2>0, <2>2 DEF SizesGood
    <3>2. p.chunk_count = size /\ size \in Nat \ {0} /\ 2 * size <= Indices
      BY <2>0, <2>2, <3>1, ChunkIs, Chunks
    <3> HIDE DEF p, size
    <3>3. Indices \in Nat /\ 2^17 <= Indices
      BY PowerValues
    <3>4. U32(size + 63) = size + 63
      BY <3>2, <3>3, U32Same
    <3>5. bucket_config_capacity(p) = CeilDiv(size, 64) + 2^16
      BY <3>2, <3>4 DEF bucket_config_capacity, CeilDiv
    <3>6. CeilDiv(size, 64) \in Nat
      BY <3>2, 64 \in Nat \ {0}, CeilDivBounds
    <3> QED
      BY <3>5, <3>6 DEF ScratchWords, p, size
  <2> QED
    BY <2>1, <2>2 DEF SizesAgree
<1> QED
  BY RequestInvariant, <1>1, PTL

\* In a slean pass the live and the dead of a part stay in their arenas, and the
\* kernels' buckets make up the bitmap.
LEMMA SleanInside ==
    ASSUME InputInv, SizesGood, sized.mode = "slean", NEW part \in Range(parts)
    PROVE  LET p == SleanPart(part)
               dead == DeadBucketCount(sized.partEdges, LocalWords)
               last == DeadBucket(p, p.chunk_count - 1)
           IN  /\ slean_header_words(p) + slean_shard_width(p) * slean_capacity(p)
                     <= ArenaWords(sized.partEdges, BucketCount)
               /\ slean_dead_bucket_count(p) + 1 + (last + 1) * slean_dead_capacity(p)
                     <= DeadArenaWords(sized.partEdges, dead)
               /\ BucketCount * slean_bucket_words(p) = Words
               /\ LocalWords <= SeenWords => slean_bucket_words(p) <= SeenWords
<1> DEFINE p == SleanPart(part)
           size == sized.partEdges
           L == LocalWords
           dead == DeadBucketCount(size, L)
           last == DeadBucket(p, p.chunk_count - 1)
<1>1. PICK width \in PowersOfTwo :
         Laid(Edges, parts, size, Words, BucketCount, width, L)
  BY SleanLaid
<1>2. WordCount(Edges) = Words /\ part \in 0..(parts - 1)
      /\ p = PartParams(Edges, parts, BucketCount, part)
  BY SleanLaid DEF Range, SleanPart
<1>3. slean_capacity(p) = Capacity(size, BucketCount)
  BY <1>1, <1>2, LaidCapacity
<1>4. /\ p.word_count = Words /\ p.buckets = BucketCount /\ p.chunk_count = size
  BY <1>1, <1>2, LaidPart
<1>5. /\ L \in Nat /\ width \in Nat \ {0, 1} /\ Words = BucketCount * width /\ parts \in Nat
      /\ BucketCount \in Nat \ {0} /\ Indices \in Nat /\ width <= L /\ size \in Nat \ {0}
      /\ 2 * size <= Indices /\ 2^17 <= Indices
  BY <1>1, PowerValues DEF Laid
<1>6. slean_bucket_words(p) = width
  BY <1>1, <1>2, <1>5, LaidDead, LaidThin
<1>7. slean_header_words(p) + slean_shard_width(p) * slean_capacity(p)
         <= ArenaWords(size, BucketCount)
  <2>1. Capacity(size, BucketCount) \in Nat /\ BucketCount \div 4 \in Nat
    <3> HIDE DEF size
    <3>1. Capacity(size, BucketCount) \in Nat
      BY <1>5, CapacityNat
    <3> QED
      BY <1>5, <3>1
  <2> DEFINE quarter == BucketCount \div 4
             capacity == Capacity(size, BucketCount)
  <2>2. quarter * capacity \in Nat
    <3> HIDE DEF quarter, capacity
    <3> QED
      BY <2>1 DEF quarter, capacity
  <2>3. /\ slean_header_words(p) + slean_shard_width(p) * slean_capacity(p)
              = quarter + 1 + quarter * capacity
        /\ ArenaWords(size, BucketCount) = quarter + 1 + quarter * capacity
    BY <1>3, <1>4 DEF slean_header_words, slean_shard_width, ArenaWords
  <2> HIDE DEF quarter, capacity
  <2> QED
    BY <2>1, <2>2, <2>3 DEF quarter
<1>8. BucketCount * slean_bucket_words(p) = Words
  BY <1>5, <1>6
<1>9. L <= SeenWords => slean_bucket_words(p) <= SeenWords
  BY <1>5, <1>6, SizingAssumption
<1>10. last = (size - 1) \div (width * 32)
  BY <1>4, <1>5, <1>6 DEF DeadBucket, Quotient
<1>11. CASE parts <= BucketCount
  <2>1. /\ dead \in Nat \ {0} /\ size = 32 * width * dead /\ size + dead + 31 < Indices
        /\ slean_dead_bucket_count(p) = dead
    BY <1>1, <1>2, <1>11, LaidDead
  <2> DEFINE base == 32 * width
  <2>2. base \in Nat \ {0} /\ size = base * dead /\ width * 32 = base
    BY <1>5, <2>1
  <2> HIDE DEF p, size, L, dead, base
  <2>9. CeilDiv(size, dead) = base
    <3>1. CeilDiv(dead * base, dead) = base
      BY <2>1, <2>2, CeilDivProduct
    <3>2. size = dead * base
      BY <2>1, <2>2
    <3> QED
      BY <3>1, <3>2
  <2>3. last = dead - 1
    <3>1. base * dead - 1 = base * (dead - 1) + (base - 1)
      BY <2>1, <2>2
    <3>2. (base * (dead - 1) + (base - 1)) \div base = dead - 1
      BY <2>1, <2>2
    <3> QED
      BY <1>10, <2>2, <3>1, <3>2
  <2>4. slean_dead_capacity(p) \in Nat /\ slean_dead_capacity(p) <= DeadCapacity(size, dead)
    <3>1. U32(size + dead - 1) = size + dead - 1
      BY <1>5, <2>1, U32Same
    <3>3. Quotient(U32(p.chunk_count + dead - 1), dead) = base
      BY <1>4, <2>1, <3>1, <2>9 DEF Quotient, CeilDiv
    <3>4. slean_dead_capacity(p) = (U32(base * 45) + 99) \div 100 + 64
      BY <2>1, <3>3 DEF slean_dead_capacity
    <3>5. DeadCapacity(size, dead) = (base * 45 + 99) \div 100 + 64
      BY <2>2, <2>9 DEF DeadCapacity, CeilDiv
    <3>6. U32(base * 45) \in Nat /\ U32(base * 45) <= base * 45
      BY <2>2, U32Less
    <3> QED
      BY <2>2, <3>4, <3>5, <3>6
  <2>5. (last + 1) * slean_dead_capacity(p) <= dead * DeadCapacity(size, dead)
    <3> DEFINE mine == slean_dead_capacity(p)
               its == DeadCapacity(size, dead)
    <3>1. its \in Nat /\ mine \in Nat /\ mine <= its
      BY <2>2, <2>4, <2>9 DEF DeadCapacity, CeilDiv
    <3> HIDE DEF mine, its
    <3>2. dead * mine <= dead * its
      BY <2>1, <3>1
    <3> QED
      BY <2>1, <2>3, <3>2 DEF mine, its
  <2>6. DeadArenaWords(size, dead) = dead + 1 + dead * DeadCapacity(size, dead)
    BY DEF DeadArenaWords
  <2>7. dead * DeadCapacity(size, dead) \in Int /\ (last + 1) * slean_dead_capacity(p) \in Int
    <3>1. DeadCapacity(size, dead) \in Nat
      BY <2>2, <2>9 DEF DeadCapacity, CeilDiv
    <3> QED
      BY <2>1, <2>3, <2>4, <3>1
  <2>8. slean_dead_bucket_count(p) + 1 + (last + 1) * slean_dead_capacity(p)
           <= DeadArenaWords(size, dead)
    BY <2>1, <2>5, <2>6, <2>7
  <2> QED
    BY <1>7, <1>8, <1>9, <2>8 DEF p, size, L, dead
<1>12. CASE parts > BucketCount
  <2>1. /\ size <= 16 * width
        /\ slean_dead_bucket_count(p) = 0 /\ dead = 1
    BY <1>1, <1>2, <1>12, LaidThin
  <2> HIDE DEF p, size, L, dead
  <2>2. last = 0
    <3> DEFINE k == size - 1
               d == width * 32
    <3>1. k \in Nat /\ d \in Nat \ {0} /\ k < d
      BY <1>5, <2>1
    <3> HIDE DEF k, d
    <3>2. k \div d = 0
      BY <3>1
    <3> QED
      BY <1>10, <3>2 DEF k, d
  <2>3. slean_dead_capacity(p) \in Nat /\ slean_dead_capacity(p) <= DeadCapacity(size, 1)
    <3>1. U32(size + 0 - 1) = size - 1
      BY <1>5, U32Same
    <3>2. CeilDiv(size, 1) = size
      BY <1>5 DEF CeilDiv
    <3>3. Quotient(U32(p.chunk_count + 0 - 1), 0) = size - 1
      BY <1>4, <3>1 DEF Quotient
    <3>4. slean_dead_capacity(p) = (U32((size - 1) * 45) + 99) \div 100 + 64
      BY <2>1, <3>3 DEF slean_dead_capacity
    <3>5. DeadCapacity(size, 1) = (size * 45 + 99) \div 100 + 64
      BY <1>5, <3>2 DEF DeadCapacity, CeilDiv
    <3>6. U32((size - 1) * 45) \in Nat /\ U32((size - 1) * 45) <= (size - 1) * 45
      BY <1>5, U32Less
    <3> QED
      BY <1>5, <3>4, <3>5, <3>6
  <2>4. DeadArenaWords(size, 1) = 1 + 1 + 1 * DeadCapacity(size, 1)
    BY DEF DeadArenaWords
  <2>5. DeadCapacity(size, 1) \in Nat
    <3>1. CeilDiv(size, 1) = size
      BY <1>5 DEF CeilDiv
    <3> QED
      BY <1>5, <3>1 DEF DeadCapacity, CeilDiv
  <2>6. slean_dead_bucket_count(p) + 1 + (last + 1) * slean_dead_capacity(p)
           <= DeadArenaWords(size, dead)
    BY <2>1, <2>2, <2>3, <2>4, <2>5
  <2> QED
    BY <1>7, <1>8, <1>9, <2>6 DEF p, size, L, dead
<1> QED
  BY <1>5, <1>11, <1>12

\* The parts of a Metal request divide its graph.
LEMMA MetalParts ==
    ASSUME InputInv, SizesGood, sized.mode = "metal", parts <= Edges
    PROVE  /\ sized.partEdges \in PowersOfTwo /\ sized.partEdges \in Nat \ {0}
           /\ parts \in Nat \ {0} /\ Edges = parts * sized.partEdges
           /\ 2 * sized.partEdges <= Indices
<1>1. parts \in SomePower /\ sized.partEdges = Edges \div parts
  BY DEF SizesGood
<1>2. PICK size \in PowersOfTwo : Edges = parts * size /\ 2 * size <= Indices
  BY <1>1, PartsDivide
<1>3. size \in Nat \ {0} /\ parts \in Nat \ {0}
  BY <1>1, <1>2, PartsDivide, PowersDivide
<1>4. (parts * size) \div parts = size
  BY <1>3
<1> QED
  BY <1>1, <1>2, <1>3, <1>4

\* Each dead edge of a Metal part has a range, and parts of whole ranges keep to
\* the bitmap;
LEMMA MetalInside ==
    ASSUME InputInv, SizesGood, sized.mode = "metal", parts <= Edges, NEW part \in Range(parts)
    PROVE  /\ (sized.partEdges - 1) \div RangeEdges < MetalDeadBuckets(sized.partEdges)
           /\ PartsAreRanges => LastWordApplied(sized.partEdges, part) < Words
<1> DEFINE size == sized.partEdges
           R == RangeEdges
<1>1. /\ size \in PowersOfTwo /\ size \in Nat \ {0} /\ parts \in Nat \ {0}
      /\ Edges = parts * size
  BY MetalParts
<1>2. R \in PowersOfTwo /\ R \in Nat \ {0}
  BY SmallPowers, PowersDivide
<1>3. SeenWords \in Nat \ {0} /\ R = 32 * SeenWords
  BY <1>2, SizingAssumption DEF RangeEdges
<1>4. MetalDeadBuckets(size) = AtLeastOne(size \div R)
  BY DEF MetalDeadBuckets
<1> HIDE DEF size, R
<1>5. CASE size < R
  <2>1. size \div R = 0 /\ (size - 1) \div R = 0
    BY <1>1, <1>2, <1>5
  <2>2. MetalDeadBuckets(size) = 1
    BY <1>4, <2>1 DEF AtLeastOne
  <2>3. size \in 1..(R - 1)
    BY <1>1, <1>2, <1>5
  <2> QED
    BY <2>1, <2>2, <2>3 DEF size, R, PartsAreRanges
<1>6. CASE R <= size
  <2>1. PICK m \in PowersOfTwo : size = R * m
    BY <1>1, <1>2, <1>6, PowersDivide
  <2>2. m \in Nat \ {0}
    BY <2>1, PowersDivide
  <2>3. size \div R = m /\ (size - 1) \div R = m - 1
    <3>1. R * m - 1 = R * (m - 1) + (R - 1)
      BY <1>2, <2>2
    <3>2. (R * (m - 1) + (R - 1)) \div R = m - 1
      BY <1>2, <2>2
    <3>3. (R * m) \div R = m
      BY <1>2, <2>2
    <3> QED
      BY <2>1, <3>1, <3>2, <3>3
  <2>4. MetalDeadBuckets(size) = m
    BY <1>4, <2>2, <2>3 DEF AtLeastOne
  <2> DEFINE v == m * SeenWords
  <2>5. v \in Nat \ {0} /\ size = 32 * v
    BY <1>3, <2>1, <2>2
  <2> HIDE DEF v
  <2>6. part \in 0..(parts - 1)
    BY DEF Range
  <2>7. (part * size) \div 32 = part * v
    <3>1. part * size = 32 * (part * v) /\ part * v \in Nat
      BY <1>1, <2>5, <2>6
    <3> QED
      BY <3>1
  <2>8. LastWordApplied(size, part) = part * v + v - 1
    BY <2>4, <2>7 DEF LastWordApplied, v
  <2>9. Words = parts * v
    <3>1. parts * v \in Nat /\ Edges = 32 * (parts * v)
      BY <1>1, <2>5
    <3>2. CeilDiv(32 * (parts * v), 32) = parts * v
      BY <3>1, CeilDivProduct
    <3> QED
      BY <3>1, <3>2 DEF Words, WordCount
  <2>10. part * v + v <= parts * v
    <3>1. (part + 1) * v <= parts * v /\ (part + 1) * v = part * v + v
      BY <1>1, <2>5, <2>6
    <3> QED
      BY <3>1
  <2>11. part * v \in Nat /\ parts * v \in Nat
    BY <1>1, <2>5, <2>6
  <2>12. LastWordApplied(size, part) < Words
    BY <2>5, <2>8, <2>9, <2>10, <2>11
  <2> QED
    BY <2>2, <2>3, <2>4, <2>12 DEF size, R
<1> QED
  BY <1>1, <1>2, <1>5, <1>6

\* parts without edges stay in the first range, and the graph has one;
LEMMA EmptyInside ==
    ASSUME InputInv, SizesGood, sized.mode = "metal", parts > Edges, NEW part \in Range(parts)
    PROVE  /\ (sized.partEdges - 1) \div RangeEdges < MetalDeadBuckets(sized.partEdges)
           /\ LastWordApplied(sized.partEdges, part) < Words
<1>1. Edges \in Nat \ {0} /\ parts \in Nat \ {0} /\ sized.partEdges = Edges \div parts
  <2>1. PICK k \in 1..IndexBits : parts = Power[k]
    BY PowersAre DEF SizesGood
  <2>2. k \in 0..IndexBits /\ args.edgeBits \in 0..IndexBits
    BY <2>1, SizingAssumption DEF InputInv
  <2> QED
    BY <2>1, <2>2, PowerType DEF SizesGood, Edges, EdgeCount
<1>2. sized.partEdges = 0
  BY <1>1
<1>3. RangeEdges \in Nat \ {0} /\ RangeEdges = 32 * SeenWords /\ SeenWords \in Nat \ {0}
  <2>1. RangeEdges \in Nat \ {0}
    BY SmallPowers, PowersDivide
  <2> QED
    BY <2>1, SizingAssumption DEF RangeEdges
<1>4. MetalDeadBuckets(0) = 1
  BY <1>3 DEF MetalDeadBuckets, AtLeastOne
<1>5. SeenWords <= Words
  <2>1. RangeBits \in 0..args.edgeBits /\ args.edgeBits \in 0..IndexBits
    BY CommandAssumption, SizingAssumption DEF SizesGood, InputInv
  <2>2. RangeEdges <= Edges
    BY <2>1, PowerSplits DEF RangeEdges, Edges, EdgeCount
  <2> QED
    BY <1>1, <1>3, <2>2 DEF Words, WordCount, CeilDiv
<1>6. LastWordApplied(0, part) = SeenWords - 1
  BY <1>3, <1>4 DEF LastWordApplied, Range
<1>7. (0 - 1) \div RangeEdges < 1
  BY <1>3
<1>8. Words \in Nat
  BY <1>1 DEF Words, WordCount, CeilDiv
<1> QED
  BY <1>2, <1>3, <1>4, <1>5, <1>6, <1>7, <1>8

\* but of parts that are a fraction of a range, the last reaches past the bitmap.
LEMMA MetalOutside ==
    ASSUME InputInv, SizesGood, sized.mode = "metal", 3 < SeenWords, ~PartsAreRanges
    PROVE  MetalLeaves
<1> DEFINE size == sized.partEdges
           w == (parts - 1) * size
<1>1. RangeEdges \in Nat \ {0} /\ RangeEdges = 32 * SeenWords /\ SeenWords \in Nat \ {0}
  <2>1. RangeEdges \in Nat \ {0}
    BY SmallPowers, PowersDivide
  <2> QED
    BY <2>1, SizingAssumption DEF RangeEdges
<1>2. size \in Nat \ {0} /\ size < RangeEdges
  BY <1>1 DEF PartsAreRanges
<1>3. parts <= Edges
  <2>1. Edges \in Nat \ {0} /\ parts \in Nat \ {0} /\ size = Edges \div parts
    <3>1. PICK k \in 1..IndexBits : parts = Power[k]
      BY PowersAre DEF SizesGood
    <3>2. k \in 0..IndexBits /\ args.edgeBits \in 0..IndexBits
      BY <3>1, SizingAssumption DEF InputInv
    <3> QED
      BY <3>1, <3>2, PowerType DEF SizesGood, Edges, EdgeCount
  <2> QED
    BY <1>2, <2>1
<1>4. /\ size \in PowersOfTwo /\ parts \in Nat \ {0} /\ Edges = parts * size
  BY <1>3, MetalParts
<1>5. w \in Nat /\ Edges = w + size
  <2>1. parts - 1 \in Nat /\ parts * size = (parts - 1) * size + size
    BY <1>2, <1>4
  <2> QED
    BY <1>2, <1>4, <2>1
<1>6. RangeEdges \in PowersOfTwo
  BY SmallPowers
<1>7. 2 * size <= RangeEdges
  BY <1>2, <1>4, <1>6, PowersDivide
<1>8. MetalDeadBuckets(size) = 1
  BY <1>1, <1>2 DEF MetalDeadBuckets, AtLeastOne
<1>9. LastWordApplied(size, parts - 1) = w \div 32 + SeenWords - 1
  BY <1>1, <1>5, <1>8 DEF LastWordApplied
<1>10. Words = (w + size + 31) \div 32
  BY <1>5 DEF Words, WordCount, CeilDiv
<1> HIDE DEF w, size
<1>11. (w + size + 31) \div 32 <= w \div 32 + SeenWords - 1
  <2>1. size <= 16 * SeenWords
    BY <1>1, <1>2, <1>7
  <2> DEFINE q == w \div 32
             top == w + size + 31
  <2>2. q \in Nat /\ w <= 32 * q + 31
    BY <1>5
  <2>3. top \in Nat /\ top < 32 * (q + SeenWords)
    BY <1>1, <1>2, <1>5, <2>1, <2>2
  <2>4. q + SeenWords \in Nat
    BY <1>1, <2>2
  <2> HIDE DEF q, top
  <2>5. top \div 32 < q + SeenWords
    BY <2>3, <2>4
  <2>6. top \div 32 \in Nat
    BY <2>3
  <2> QED
    BY <1>1, <2>2, <2>5, <2>6 DEF q, top
<1>12. w \div 32 \in Nat /\ (w + size + 31) \div 32 \in Nat
  BY <1>2, <1>5
<1> QED
  BY <1>9, <1>10, <1>11, <1>12 DEF MetalLeaves, size

\* With two exceptions no kernel reaches past what the host allocated, whatever
\* the request and the machine.  The arenas and the buckets of a Metal part's dead
\* edges hold without exception.  The exceptions are in StaysInside: buckets wider
\* than a workgroup's bitmap (~BucketsFit), and parts smaller than a range of
\* apply_dead (~PartsAreRanges).  LeavesOtherwise is about these two.
THEOREM StaysInsideWhereItFits == Spec => []StaysInside
<1>1. ASSUME RequestInv PROVE StaysInside
  <2>0. InputInv /\ (sized.mode # "none" => SizesGood)
    BY <1>1 DEF RequestInv, SizedInv
  <2>1. ASSUME sized.mode = "slean", NEW part \in Range(parts)
        PROVE  LET p == SleanPart(part)
                   dead == DeadBucketCount(sized.partEdges, LocalWords)
                   last == DeadBucket(p, p.chunk_count - 1)
               IN  /\ slean_header_words(p) + slean_shard_width(p) * slean_capacity(p)
                         <= ArenaWords(sized.partEdges, BucketCount)
                   /\ slean_dead_bucket_count(p) + 1 + (last + 1) * slean_dead_capacity(p)
                         <= DeadArenaWords(sized.partEdges, dead)
                   /\ BucketCount * slean_bucket_words(p) = Words
                   /\ BucketsFit => slean_bucket_words(p) <= SeenWords
    BY <2>0, <2>1, SleanInside DEF BucketsFit
  <2>2. ASSUME sized.mode = "metal", NEW part \in Range(parts)
        PROVE  /\ (sized.partEdges - 1) \div RangeEdges < MetalDeadBuckets(sized.partEdges)
               /\ PartsAreRanges => LastWordApplied(sized.partEdges, part) < Words
    <3>1. parts <= Edges \/ parts > Edges
      <4>1. PICK k \in 1..IndexBits : parts = Power[k]
        BY <2>0, <2>2, PowersAre DEF SizesGood
      <4>2. k \in 0..IndexBits /\ args.edgeBits \in 0..IndexBits
        BY <2>0, <4>1, SizingAssumption DEF InputInv
      <4>3. parts \in Int /\ Edges \in Int
        BY <4>1, <4>2, PowerType DEF Edges, EdgeCount
      <4> QED
        BY <4>3
    <3>2. ASSUME parts <= Edges
          PROVE  /\ (sized.partEdges - 1) \div RangeEdges < MetalDeadBuckets(sized.partEdges)
                 /\ PartsAreRanges => LastWordApplied(sized.partEdges, part) < Words
      BY <2>0, <2>2, <3>2, MetalInside
    <3>3. ASSUME parts > Edges
          PROVE  /\ (sized.partEdges - 1) \div RangeEdges < MetalDeadBuckets(sized.partEdges)
                 /\ LastWordApplied(sized.partEdges, part) < Words
      BY <2>0, <2>2, <3>3, EmptyInside
    <3> QED
      BY <3>1, <3>2, <3>3
  <2> QED
    BY <2>1, <2>2 DEF StaysInside
<1> QED
  BY RequestInvariant, <1>1, PTL

\* The two exceptions are no caution of StaysInside: whenever a request meets one,
\* a bucket is wider than the workgroup's bitmap, or the last part reaches past the
\* edge bitmap.  For storage as adapters have it, and a bitmap of more than
\* three words (it has 8192).
THEOREM LeavesOtherwise ==
    ASSUME StorageIsPlain, 3 < SeenWords
    PROVE  Spec => [](/\ Solving /\ sized.mode = "slean" /\ ~BucketsFit => SleanLeaves
                      /\ Solving /\ sized.mode = "metal" /\ ~PartsAreRanges => MetalLeaves)
<1>1. ASSUME RequestInv
      PROVE  /\ Solving /\ sized.mode = "slean" /\ ~BucketsFit => SleanLeaves
             /\ Solving /\ sized.mode = "metal" /\ ~PartsAreRanges => MetalLeaves
  <2>0. InputInv /\ (sized.mode # "none" => SizesGood)
    BY <1>1 DEF RequestInv, SizedInv
  <2>1. ASSUME sized.mode = "slean", ~BucketsFit, NEW part \in Range(parts)
        PROVE  slean_bucket_words(SleanPart(part)) > SeenWords
    <3>1. slean_bucket_words(SleanPart(part)) = LocalWords
      BY <2>0, <2>1, SleanAgrees
    <3>2. LocalWords \in Int /\ SeenWords \in Int
      BY <2>0, <2>1, SleanLaid, SizingAssumption DEF Laid
    <3> QED
      BY <2>1, <3>1, <3>2 DEF BucketsFit
  <2>2. ASSUME sized.mode = "metal", ~PartsAreRanges PROVE MetalLeaves
    BY <2>0, <2>2, MetalOutside
  <2> QED
    BY <2>1, <2>2 DEF SleanLeaves
<1> QED
  BY RequestInvariant, <1>1, PTL

\* Windows of one size, end to end, as many as make up the graph.
Tiles(windows, edges) ==
    \E n \in Nat \ {0}, size \in Nat \ {0} :
       /\ DOMAIN windows = 0..(n - 1) /\ edges = n * size
       /\ \A i \in 0..(n - 1) :
             /\ windows[i].chunk_base = i * size
             /\ windows[i].chunk_base + windows[i].chunk_count = (i + 1) * size

\* Each of them ends where the next begins, the last at the last edge.
LEMMA TilesMeet ==
    ASSUME NEW windows, NEW edges, Tiles(windows, edges), NEW i \in DOMAIN windows
    PROVE  LET end == windows[i].chunk_base + windows[i].chunk_count
           IN  /\ i = 0 => windows[i].chunk_base = 0
               /\ end = IF i + 1 \in DOMAIN windows THEN windows[i + 1].chunk_base ELSE edges
<1>1. PICK n \in Nat \ {0}, size \in Nat \ {0} :
         /\ DOMAIN windows = 0..(n - 1) /\ edges = n * size
         /\ \A k \in 0..(n - 1) :
               /\ windows[k].chunk_base = k * size
               /\ windows[k].chunk_base + windows[k].chunk_count = (k + 1) * size
  BY DEF Tiles
<1>2. i \in 0..(n - 1) /\ windows[i].chunk_base = i * size
      /\ windows[i].chunk_base + windows[i].chunk_count = (i + 1) * size
  BY <1>1
<1>3. i = 0 => windows[i].chunk_base = 0
  BY <1>1, <1>2
<1>4. CASE i + 1 \in 0..(n - 1)
  BY <1>1, <1>2, <1>3, <1>4
<1>5. CASE i + 1 \notin 0..(n - 1)
  <2>1. i + 1 = n
    BY <1>1, <1>2, <1>5
  <2> QED
    BY <1>1, <1>2, <1>3, <1>5, <2>1
<1> QED
  BY <1>4, <1>5

\* The windows of every mode are of this kind.
LEMMA WindowsTile ==
    ASSUME InputInv, SizesGood, sized.mode = "metal" => parts <= Edges
    PROVE  Tiles(Windows, Edges)
<1>0. Edges \in Nat \ {0, 1} /\ Edges <= Indices /\ Indices \in Nat
  BY EdgesPower, PowerValues
<1> DEFINE size == sized.partEdges
<1>1. CASE sized.mode = "slean"
  <2>1. PICK width \in PowersOfTwo :
           Laid(Edges, parts, size, Words, BucketCount, width, LocalWords)
    BY <1>1, SleanLaid
  <2>2. parts \in Nat \ {0} /\ size \in Nat \ {0} /\ Edges = parts * size
    BY <2>1 DEF Laid
  <2>3. Windows = [part \in 0..(parts - 1) |-> SleanPart(part)]
    BY <1>1 DEF Windows, Range
  <2>4. ASSUME NEW i \in 0..(parts - 1)
        PROVE  /\ Windows[i].chunk_base = i * size
               /\ Windows[i].chunk_base + Windows[i].chunk_count = (i + 1) * size
    <3>1. WordCount(Edges) = Words
      BY <1>1, SleanLaid
    <3> DEFINE p == PartParams(Edges, parts, BucketCount, i)
    <3>2. p.chunk_base = i * size /\ p.chunk_base + p.chunk_count = (i + 1) * size
      BY <2>1, <3>1, LaidPart
    <3>3. Windows[i] = p
      BY <2>3 DEF SleanPart
    <3> QED
      BY <3>2, <3>3
  <2>5. DOMAIN Windows = 0..(parts - 1)
    BY <2>3
  <2> QED
    BY <2>2, <2>4, <2>5 DEF Tiles
<1>2. CASE sized.mode = "bucketed"
  <2>1. size = ChunkEdges(Edges)
    BY <1>2 DEF SizesGood
  <2>2. PICK n \in Nat \ {0} : Edges = n * size /\ CeilDiv(Edges, size) = n
    BY <2>1, Chunks
  <2>3. size \in Nat \ {0}
    BY <2>1, Chunks
  <2>4. Windows = [chunk \in 0..(n - 1) |-> ChunkParams(Edges, chunk)]
    BY <1>2, <2>2 DEF Windows, Range
  <2>5. ASSUME NEW i \in 0..(n - 1)
        PROVE  /\ Windows[i].chunk_base = i * size
               /\ Windows[i].chunk_base + Windows[i].chunk_count = (i + 1) * size
    <3>1. i \in Range(CeilDiv(Edges, ChunkEdges(Edges)))
      BY <2>1, <2>2 DEF Range
    <3> DEFINE p == ChunkParams(Edges, i)
    <3>2. p.chunk_base = i * size /\ p.chunk_count = size
      BY <2>1, <3>1, ChunkIs
    <3>3. i * size + size = (i + 1) * size
      BY <2>3
    <3>4. Windows[i] = p
      BY <2>4
    <3> QED
      BY <3>2, <3>3, <3>4
  <2>6. DOMAIN Windows = 0..(n - 1)
    BY <2>4
  <2> QED
    BY <2>2, <2>3, <2>5, <2>6 DEF Tiles
<1>3. CASE sized.mode = "metal"
  <2>1. /\ size \in Nat \ {0} /\ parts \in Nat \ {0} /\ Edges = parts * size
        /\ 2 * size <= Indices
    BY <1>3, MetalParts
  <2>2. Windows = [part \in 0..(parts - 1) |->
                     [chunk_base |-> U32(part * size), chunk_count |-> U32(size)]]
    BY <1>3 DEF Windows, Range
  <2> HIDE DEF size
  <2>3. ASSUME NEW i \in 0..(parts - 1)
        PROVE  /\ Windows[i].chunk_base = i * size
               /\ Windows[i].chunk_base + Windows[i].chunk_count = (i + 1) * size
    <3>1. (parts - i) * size >= size /\ (parts - i) * size = parts * size - i * size
          /\ i * size \in Nat /\ i * size + size = (i + 1) * size
      BY <2>1
    <3>2. i * size < Indices /\ size < Indices
      BY <1>0, <2>1, <3>1
    <3>3. U32(i * size) = i * size /\ U32(size) = size
      BY <2>1, <3>1, <3>2, U32Same
    <3>4. Windows[i] = [chunk_base |-> U32(i * size), chunk_count |-> U32(size)]
      BY <2>2
    <3> QED
      BY <3>1, <3>3, <3>4
  <2>4. DOMAIN Windows = 0..(parts - 1)
    BY <2>2
  <2> QED
    BY <2>1, <2>3, <2>4 DEF Tiles
<1>4. CASE sized.mode = "lean"
  <2>1. Windows = [all \in {0} |-> [chunk_base |-> 0, chunk_count |-> Edges]]
    BY <1>4 DEF Windows
  <2>2. /\ DOMAIN Windows = 0..(1 - 1) /\ Edges = 1 * Edges
        /\ \A i \in 0..(1 - 1) :
              /\ Windows[i].chunk_base = i * Edges
              /\ Windows[i].chunk_base + Windows[i].chunk_count = (i + 1) * Edges
    BY <1>0, <2>1
  <2> QED
    BY <1>0, <2>2 DEF Tiles
<1> QED
  BY <1>1, <1>2, <1>3, <1>4 DEF SizesGood

\* init_edges sets all bits of the graph and no others, also of the largest.
LEMMA AllBitsSet ==
    ASSUME InputInv
    PROVE  BitsSet(Edges) = Edges
<1>1. Edges \in Nat \ {0, 1} /\ Edges <= Indices /\ Indices \in Nat \ {0}
  BY EdgesPower, PowerValues
<1> DEFINE rest == U32(Edges) % 32
           k == Edges \div 32
<1>2. Edges = 32 * k + (Edges % 32) /\ k \in Nat /\ Edges % 32 \in 0..31
  BY <1>1
<1>3. CASE Edges < Indices
  <2>1. U32(Edges) = Edges /\ rest = Edges % 32
    BY <1>1, <1>3, U32Same
  <2>2. CASE Edges % 32 = 0
    <3>1. WordCount(Edges) = k
      BY <1>1, <1>2, <2>2 DEF WordCount, CeilDiv
    <3>2. BitsSet(Edges) = k * 32
      BY <2>1, <2>2, <3>1 DEF BitsSet
    <3>3. k * 32 = Edges
      <4> HIDE DEF k
      <4> QED
        BY <1>1, <1>2, <2>2
    <3> QED
      BY <3>2, <3>3
  <2>3. CASE Edges % 32 # 0
    <3>1. WordCount(Edges) = k + 1
      BY <1>1, <1>2, <2>3 DEF WordCount, CeilDiv
    <3> QED
      BY <1>1, <1>2, <2>1, <2>3, <3>1 DEF BitsSet
  <2> QED
    BY <2>2, <2>3
<1>4. CASE Edges = Indices
  <2> DEFINE m == Indices
  <2>1. U32(Edges) = 0
    <3> HIDE DEF m
    <3>1. m \in Nat \ {0}
      BY <1>1 DEF m
    <3>2. m % m = 0
      BY <3>1
    <3> QED
      BY <1>4, <3>2 DEF U32, m
  <2>2. PICK w \in PowersOfTwo : Edges = 32 * w
    <3>1. 32 \in PowersOfTwo /\ Edges \in PowersOfTwo /\ 32 <= Edges
      BY <1>4, SmallPowers, EdgesPower, PowerValues
    <3> QED
      BY <3>1, PowersDivide
  <2>3. w \in Nat
    BY <2>2, PowersDivide
  <2>4. WordCount(Edges) = w
    <3>1. CeilDiv(32 * w, 32) = w
      BY <2>3, CeilDivProduct
    <3> QED
      BY <2>2, <3>1 DEF WordCount
  <2> QED
    BY <2>1, <2>2, <2>3, <2>4 DEF BitsSet
<1> QED
  BY <1>1, <1>3, <1>4

\* Every pass covers every edge once, in every mode and up to the largest graph.
THEOREM PartsTileAlways == Spec => []PartsTile
<1>1. ASSUME RequestInv PROVE PartsTile
  <2>0. InputInv /\ (sized.mode # "none" => SizesGood)
    BY <1>1 DEF RequestInv, SizedInv
  <2>1. ASSUME sized.mode # "none", sized.mode = "metal" => parts <= Edges
        PROVE  \A i \in DOMAIN Windows :
                  LET end == Windows[i].chunk_base + Windows[i].chunk_count
                  IN  /\ i = 0 => Windows[i].chunk_base = 0
                      /\ end = IF i + 1 \in DOMAIN Windows THEN Windows[i + 1].chunk_base
                               ELSE Edges
    <3>1. Tiles(Windows, Edges)
      BY <2>0, <2>1, WindowsTile
    <3> QED
      BY <3>1, TilesMeet
  <2>2. BitsSet(Edges) = Edges
    BY <2>0, AllBitsSet
  <2> QED
    BY <2>1, <2>2 DEF PartsTile
<1> QED
  BY RequestInvariant, <1>1, PTL
=============================================================================
