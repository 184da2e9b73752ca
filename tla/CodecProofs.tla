------------------------------ MODULE CodecProofs -----------------------------
(***************************************************************************)
(* Proofs about Codec, for any objects, words and log messages.            *)
(*                                                                         *)
(* The messages are written and read by folds over sequences.  What these  *)
(* compute is proved by induction on numbers, for which sets of numbers    *)
(* stand in for predicates and functions for operators.                    *)
(*                                                                         *)
(* First come folds and the fields found in bytes: what is written of a    *)
(* list of fields is read as this list, also behind other bytes.  Then, of *)
(* a Synonym and of a Vocabulary, that reading what was written of one     *)
(* merges it, that sizes are lengths, and that every operation leaves an   *)
(* object as it should be.  Then log messages, the invariant, and the      *)
(* theorems.                                                               *)
(***************************************************************************)
EXTENDS Codec, SequenceTheorems, WellFoundedInduction, TLAPS

\* A set of numbers that has 0 and the successor of each of its numbers has
\* all of them.
LEMMA Induction ==
  ASSUME NEW S, 0 \in S, \A n \in Nat : n \in S => n + 1 \in S
  PROVE  Nat \subseteq S
<1> DEFINE T == Nat \ S
           R == OpToRel(<, Nat)
<1> SUFFICES ASSUME T # {} PROVE FALSE
  OBVIOUS
<1>1. T \subseteq Nat /\ IsWellFoundedOn(R, Nat)
  BY NatLessThanWellFounded
<1> HIDE DEF R
<1>2. PICK x \in T : \A y \in T : ~(<<y, x>> \in R)
  <2> HIDE DEF T
  <2> QED BY <1>1, WFMin
<1>3. x \in Nat /\ x # 0 /\ x \notin S
  BY <1>2
<1>4. x - 1 \in Nat /\ x - 1 \notin S
  <2>1. x - 1 \in Nat /\ (x - 1) + 1 = x
    BY <1>3
  <2> QED BY <1>3, <2>1
<1>5. <<x - 1, x>> \in R
  BY <1>3, <1>4 DEF R, OpToRel
<1> QED BY <1>2, <1>4, <1>5

-----------------------------------------------------------------------------
(* Folds.  A fold is a run of its steps over the elements of a sequence.    *)

\* The greatest of the first n numbers is n, if it is among them.
LEMMA MaxOfPrefix ==
  ASSUME NEW n \in Nat, NEW d \in SUBSET (1..n), n \in d
  PROVE  Max(d) = n
<1>1. \A y \in d : n >= y
  OBVIOUS
<1>2. \A x \in d : (\A y \in d : x >= y) => x = n
  OBVIOUS
<1> QED BY <1>1, <1>2, Zenon DEF Max

\* A set of some of the first n numbers has its greatest in it.
LEMMA MaxIn ==
  ASSUME NEW n \in Nat, NEW d \in SUBSET (1..n), d # {}
  PROVE  Max(d) \in d
<1> DEFINE S == {k \in Nat : \A c \in SUBSET (1..k) : c # {} => Max(c) \in c}
<1>1. 0 \in S
  <2>1. 1..0 = {}
    OBVIOUS
  <2> QED BY <2>1
<1>2. ASSUME NEW k \in Nat, k \in S PROVE k + 1 \in S
  <2> SUFFICES ASSUME NEW c \in SUBSET (1..k + 1), c # {} PROVE Max(c) \in c
    OBVIOUS
  <2>1. CASE k + 1 \in c
    BY <2>1, MaxOfPrefix
  <2>2. CASE k + 1 \notin c
    BY <1>2, <2>2
  <2> QED BY <2>1, <2>2
<1> HIDE DEF S
<1>3. n \in S
  BY <1>1, <1>2, Induction
<1> QED BY <1>3 DEF S

\* A part of the first k + 1 numbers is one of the first k when k + 1 is taken away.
LEMMA PrefixParts ==
  ASSUME NEW k \in Nat, NEW d \in SUBSET (1..k + 1)
  PROVE  /\ d \ {k + 1} \in SUBSET (1..k)
         /\ k + 1 \notin d => d \in SUBSET (1..k)
<1>1. \A i \in 1..k + 1 : i # k + 1 => i \in 1..k
  OBVIOUS
<1> QED BY <1>1, Zenon

\* The element behind the first k is one of the sequence's.
LEMMA NextElement ==
  ASSUME NEW E, NEW s \in Seq(E), NEW k \in Nat, k + 1 <= Len(s)
  PROVE  s[k + 1] \in E
OBVIOUS

\* The greatest of 1..k is k; without it there is 1..k - 1.
LEMMA PrefixFacts ==
  ASSUME NEW n \in Nat, NEW k \in 1..n
  PROVE  /\ (1..k) \ {Max(1..k)} = 1..k - 1
         /\ 1..k \in SUBSET (1..n) /\ 1..k # {} /\ Max(1..k) = k
<1>1. k \in Nat /\ k \in 1..k
  OBVIOUS
<1>2. Max(1..k) = k
  BY <1>1, MaxOfPrefix
<1>3. \A i : i \in (1..k) \ {k} <=> i \in 1..k - 1
  OBVIOUS
<1>4. (1..k) \ {k} = 1..k - 1
  BY <1>3, Zenon
<1>5. 1..k \in SUBSET (1..n)
  OBVIOUS
<1>6. 1..k # {}
  BY <1>1
<1> QED BY <1>2, <1>4, <1>5, <1>6

\* The steps take an element of E and give a value in T.
IsFold(T, E, base, step) == base \in T /\ step \in [T \X E -> T]

Run(T, step, base, s, f) ==
  /\ f \in [0..Len(s) -> T]
  /\ f[0] = base
  /\ \A k \in 1..Len(s) : f[k] = step[<<f[k - 1], s[k]>>]

Folded(T, step, base, s) == (CHOOSE f : Run(T, step, base, s, f))[Len(s)]

\* The functions FoldLeft chooses from: those that fold the elements of every
\* part of the sequence, the last first.
FoldsParts(step, base, s, iter) ==
  \A d \in SUBSET DOMAIN s :
    iter[d] = IF d = {} THEN base ELSE step[<<iter[d \ {Max(d)}], s[Max(d)]>>]

\* There are such functions.
LEMMA PartsExist ==
  ASSUME NEW T, NEW E, NEW base, NEW step, IsFold(T, E, base, step), NEW s \in Seq(E)
  PROVE  \E iter \in [SUBSET DOMAIN s -> T] : FoldsParts(step, base, s, iter)
<1> base \in T /\ step \in [T \X E -> T]
  BY DEF IsFold
<1> DEFINE Folds(k, iter) ==
      \A d \in SUBSET (1..k) :
        iter[d] = IF d = {} THEN base ELSE step[<<iter[d \ {Max(d)}], s[Max(d)]>>]
    S == {k \in Nat : k <= Len(s) => \E iter \in [SUBSET (1..k) -> T] : Folds(k, iter)}
<1>1. 0 \in S
  <2> DEFINE iter == [d \in SUBSET (1..0) |-> base]
  <2>1. iter \in [SUBSET (1..0) -> T]
    OBVIOUS
  <2>2. \A d \in SUBSET (1..0) : d = {}
    <3>1. 1..0 = {}
      OBVIOUS
    <3> QED BY <3>1
  <2>3. Folds(0, iter)
    BY <2>2
  <2> HIDE DEF iter, Folds
  <2> QED BY <2>1, <2>3
<1>2. ASSUME NEW k \in Nat, k \in S PROVE k + 1 \in S
  <2> SUFFICES ASSUME k + 1 <= Len(s)
               PROVE  \E new \in [SUBSET (1..k + 1) -> T] : Folds(k + 1, new)
    <3> HIDE DEF Folds
    <3>1. k + 1 \in Nat
      OBVIOUS
    <3> QED BY <3>1, Zenon
  <2>1. PICK iter \in [SUBSET (1..k) -> T] : Folds(k, iter)
    <3> HIDE DEF Folds
    <3>1. k <= Len(s)
      OBVIOUS
    <3> QED BY <1>2, <3>1
  <2> DEFINE With(d) == step[<<iter[d \ {k + 1}], s[k + 1]>>]
             new == [d \in SUBSET (1..k + 1) |-> IF k + 1 \in d THEN With(d) ELSE iter[d]]
  <2>2. ASSUME NEW d \in SUBSET (1..k + 1)
        PROVE  /\ d \ {k + 1} \in SUBSET (1..k)
               /\ k + 1 \notin d => d \in SUBSET (1..k)
    BY PrefixParts
  <2>3. s[k + 1] \in E
    BY NextElement
  <2>4. ASSUME NEW d \in SUBSET (1..k + 1) PROVE With(d) \in T
    <3>1. iter[d \ {k + 1}] \in T
      BY <2>2
    <3> QED BY <2>3, <3>1
  <2>5. ASSUME NEW d \in SUBSET (1..k + 1) PROVE k + 1 \notin d => iter[d] \in T
    BY <2>2
  <2>6. new \in [SUBSET (1..k + 1) -> T]
    <3> HIDE DEF With
    <3> QED BY <2>4, <2>5
  <2>7. ASSUME NEW d \in SUBSET (1..k + 1)
        PROVE  new[d] = IF d = {} THEN base ELSE step[<<new[d \ {Max(d)}], s[Max(d)]>>]
    <3>1. CASE k + 1 \in d
      <4>1. Max(d) = k + 1
        BY <3>1, MaxOfPrefix
      <4>2. d \ {k + 1} \in SUBSET (1..k + 1) /\ k + 1 \notin d \ {k + 1}
        OBVIOUS
      <4>3. new[d \ {k + 1}] = iter[d \ {k + 1}]
        BY <4>2, Zenon
      <4>4. new[d] = With(d)
        BY <3>1, Zenon
      <4>5. d # {}
        BY <3>1
      <4> QED BY <4>1, <4>3, <4>4, <4>5, Zenon
    <3>2. CASE k + 1 \notin d
      <4>1. d \ {Max(d)} \in SUBSET (1..k + 1) /\ k + 1 \notin d \ {Max(d)}
        BY <3>2
      <4>2. new[d \ {Max(d)}] = iter[d \ {Max(d)}]
        BY <4>1, Zenon
      <4>3. new[d] = iter[d]
        BY <3>2, Zenon
      <4>4. d \in SUBSET (1..k)
        BY <2>2, <3>2
      <4>5. iter[d] = IF d = {} THEN base ELSE step[<<iter[d \ {Max(d)}], s[Max(d)]>>]
        BY <2>1, <4>4, Zenon
      <4> QED BY <4>2, <4>3, <4>5, Zenon
    <3> QED BY <3>1, <3>2
  <2> HIDE DEF new
  <2>8. Folds(k + 1, new)
    BY <2>7, Zenon
  <2> QED BY <2>6, <2>8, Zenon
<1> HIDE DEF S
<1>3. Len(s) \in S
  <2>1. Len(s) \in Nat
    OBVIOUS
  <2> QED BY <1>1, <1>2, <2>1, Induction
<1>4. DOMAIN s = 1..Len(s) /\ Len(s) \in Nat
  OBVIOUS
<1>5. \E iter \in [SUBSET (1..Len(s)) -> T] : Folds(Len(s), iter)
  <2> HIDE DEF Folds
  <2>1. Len(s) <= Len(s)
    BY <1>4
  <2> QED BY <1>3, <2>1, Zenon DEF S
<1> QED BY <1>4, <1>5, Zenon DEF FoldsParts

\* Whatever folds the parts has a run of the steps on the prefixes.
LEMMA PartsRun ==
  ASSUME NEW T, NEW E, NEW base, NEW step, IsFold(T, E, base, step), NEW s \in Seq(E),
         NEW iter, iter[{}] = base,
         \A d \in SUBSET DOMAIN s :
           d # {} /\ iter[d \ {Max(d)}] \in T
             => iter[d] = step[<<iter[d \ {Max(d)}], s[Max(d)]>>]
  PROVE  Run(T, step, base, s, [k \in 0..Len(s) |-> iter[1..k]])
<1> base \in T /\ step \in [T \X E -> T]
  BY DEF IsFold
<1>1. \A k \in 1..Len(s) :
        iter[1..k - 1] \in T => iter[1..k] = step[<<iter[1..k - 1], s[k]>>] /\ s[k] \in E
  <2> SUFFICES ASSUME NEW k \in 1..Len(s), iter[1..k - 1] \in T
               PROVE  iter[1..k] = step[<<iter[1..k - 1], s[k]>>]
    OBVIOUS
  <2>1. Len(s) \in Nat /\ DOMAIN s = 1..Len(s)
    OBVIOUS
  <2>2. /\ (1..k) \ {Max(1..k)} = 1..k - 1
        /\ 1..k \in SUBSET DOMAIN s /\ 1..k # {} /\ Max(1..k) = k
    BY <2>1, PrefixFacts
  <2> QED BY <2>2
<1> DEFINE S == {k \in Nat : k <= Len(s) => iter[1..k] \in T}
<1>2. 0 \in S
  <2>1. 1..0 = {}
    OBVIOUS
  <2> QED BY <2>1
<1>3. ASSUME NEW k \in Nat, k \in S PROVE k + 1 \in S
  <2> SUFFICES ASSUME k + 1 <= Len(s) PROVE iter[1..k + 1] \in T
    OBVIOUS
  <2>1. k + 1 \in 1..Len(s) /\ (k + 1) - 1 = k /\ iter[1..k] \in T
    BY <1>3
  <2> QED BY <1>1, <2>1
<1> HIDE DEF S
<1>4. \A k \in 0..Len(s) : iter[1..k] \in T
  <2>1. \A k \in 0..Len(s) : k \in S
    BY <1>2, <1>3, Induction
  <2> QED BY <2>1 DEF S
<1>5. 1..0 = {}
  OBVIOUS
<1> QED BY <1>1, <1>4, <1>5 DEF Run


\* There is one run of a sequence.
LEMMA RunUnique ==
  ASSUME NEW T, NEW E, NEW base, NEW step, IsFold(T, E, base, step), NEW s \in Seq(E),
         NEW f, NEW g, Run(T, step, base, s, f), Run(T, step, base, s, g)
  PROVE  f = g
<1> DEFINE S == {k \in Nat : k <= Len(s) => f[k] = g[k]}
<1>1. 0 \in S
  BY DEF Run
<1>2. ASSUME NEW k \in Nat, k \in S PROVE k + 1 \in S
  <2> SUFFICES ASSUME k + 1 <= Len(s) PROVE f[k + 1] = g[k + 1]
    OBVIOUS
  <2>1. k + 1 \in 1..Len(s) /\ (k + 1) - 1 = k /\ f[k] = g[k]
    BY <1>2
  <2> QED BY <2>1 DEF Run
<1>3. \A k \in 0..Len(s) : f[k] = g[k]
  <2> HIDE DEF S
  <2>1. \A k \in 0..Len(s) : k \in S
    BY <1>1, <1>2, Induction
  <2> QED BY <2>1 DEF S
<1>4. f \in [0..Len(s) -> T] /\ g \in [0..Len(s) -> T]
  BY DEF Run
<1> QED BY <1>3, <1>4

\* A fold is what any run of it ends with.
LEMMA FoldedIs ==
  ASSUME NEW T, NEW E, NEW base, NEW step, IsFold(T, E, base, step), NEW s \in Seq(E),
         NEW f, Run(T, step, base, s, f)
  PROVE  Folded(T, step, base, s) = f[Len(s)]
<1> DEFINE g == CHOOSE h : Run(T, step, base, s, h)
<1>1. Run(T, step, base, s, g)
  <2> HIDE DEF Run
  <2> QED BY Zenon
<1>2. f = g
  <2> HIDE DEF g
  <2> QED BY <1>1, RunUnique
<1> QED BY <1>2, Zenon DEF Folded

\* There is such a run.
LEMMA FoldedRuns ==
  ASSUME NEW T, NEW E, NEW base, NEW step, IsFold(T, E, base, step), NEW s \in Seq(E)
  PROVE  \E f : /\ Run(T, step, base, s, f)
                /\ Folded(T, step, base, s) = f[Len(s)]
                /\ Folded(T, step, base, s) \in T
<1>1. PICK iter \in [SUBSET DOMAIN s -> T] : FoldsParts(step, base, s, iter)
  BY PartsExist
<1>2. iter[{}] = base
  <2>1. {} \in SUBSET DOMAIN s
    OBVIOUS
  <2> QED BY <1>1, <2>1, Zenon DEF FoldsParts
<1>3. \A d \in SUBSET DOMAIN s :
           d # {} /\ iter[d \ {Max(d)}] \in T
             => iter[d] = step[<<iter[d \ {Max(d)}], s[Max(d)]>>]
  BY <1>1, Zenon DEF FoldsParts
<1> DEFINE f == [k \in 0..Len(s) |-> iter[1..k]]
<1>4. Run(T, step, base, s, f)
  BY <1>2, <1>3, PartsRun
<1> HIDE DEF f
<1>5. Folded(T, step, base, s) = f[Len(s)]
  BY <1>4, FoldedIs
<1>6. f[Len(s)] \in T
  <2>1. Len(s) \in 0..Len(s)
    OBVIOUS
  <2> QED BY <1>4, <2>1 DEF Run
<1> QED BY <1>4, <1>5, <1>6

\* The parts, and what takes the steps to them.
PartsIn(T, step, base, s, iter) ==
  /\ iter \in [SUBSET DOMAIN s -> T]
  /\ FoldsParts(step, base, s, iter)

TakesSteps(T, step, base, s, iter) ==
  /\ iter[{}] = base
  /\ \A d \in SUBSET DOMAIN s :
       d # {} /\ iter[d \ {Max(d)}] \in T
         => iter[d] = step[<<iter[d \ {Max(d)}], s[Max(d)]>>]

\* A function on the parts of the domain of s.
LEMMA PartsOf ==
  ASSUME NEW T, NEW E, NEW base, NEW step, IsFold(T, E, base, step), NEW s \in Seq(E)
  PROVE  \E iter : PartsIn(T, step, base, s, iter)
<1>1. PICK iter \in [SUBSET DOMAIN s -> T] : FoldsParts(step, base, s, iter)
  BY PartsExist
<1> QED BY <1>1 DEF PartsIn

\* The element the fold takes next is one of the sequence's.
LEMMA MaxElement ==
  ASSUME NEW E, NEW s \in Seq(E)
  PROVE  \A d \in SUBSET DOMAIN s : d # {} => s[Max(d)] \in E /\ d \ {Max(d)} \in SUBSET DOMAIN s
<1> SUFFICES ASSUME NEW d \in SUBSET DOMAIN s, d # {} PROVE s[Max(d)] \in E
  OBVIOUS
<1>1. Len(s) \in Nat /\ DOMAIN s = 1..Len(s)
  OBVIOUS
<1>2. Max(d) \in d
  BY <1>1, MaxIn
<1> QED BY <1>2

\* Whatever function FoldLeft chooses, the fold is what it has for the whole domain.
LEMMA FoldedParts ==
  ASSUME NEW T, NEW E, NEW base, NEW step, IsFold(T, E, base, step), NEW s \in Seq(E),
         NEW iter, TakesSteps(T, step, base, s, iter)
  PROVE  iter[DOMAIN s] = Folded(T, step, base, s)
<1> DEFINE f == [k \in 0..Len(s) |-> iter[1..k]]
<1>1. Run(T, step, base, s, f)
  BY PartsRun DEF TakesSteps
<1>2. Len(s) \in 0..Len(s) /\ DOMAIN s = 1..Len(s)
  OBVIOUS
<1>3. f[Len(s)] = iter[DOMAIN s]
  BY <1>2, Zenon
<1> HIDE DEF f
<1> QED BY <1>1, <1>3, FoldedIs

\* Folding nothing gives the base.
LEMMA FoldedEmpty ==
  ASSUME NEW T, NEW E, NEW base, NEW step, IsFold(T, E, base, step)
  PROVE  Folded(T, step, base, <<>>) = base
<1> DEFINE s == <<>>
<1>1. s \in Seq(E) /\ Len(s) = 0
  OBVIOUS
<1> HIDE DEF s
<1>2. PICK f : /\ Run(T, step, base, s, f)
               /\ Folded(T, step, base, s) = f[Len(s)]
               /\ Folded(T, step, base, s) \in T
  BY <1>1, FoldedRuns
<1>3. Folded(T, step, base, s) = base
  BY <1>1, <1>2 DEF Run
<1> QED BY <1>3 DEF s

\* Folding one element more is one step more.
LEMMA FoldedAppend ==
  ASSUME NEW T, NEW E, NEW base, NEW step, IsFold(T, E, base, step),
         NEW s \in Seq(E), NEW e \in E
  PROVE  Folded(T, step, base, Append(s, e)) = step[<<Folded(T, step, base, s), e>>]
<1>1. PICK f : /\ Run(T, step, base, s, f)
               /\ Folded(T, step, base, s) = f[Len(s)]
               /\ Folded(T, step, base, s) \in T
  BY FoldedRuns
<1> DEFINE t == Append(s, e)
           n == Len(s)
           last == step[<<f[n], e>>]
           g == [k \in 0..n + 1 |-> IF k = n + 1 THEN last ELSE f[k]]
<1>2. n \in Nat /\ t \in Seq(E) /\ Len(t) = n + 1 /\ t[n + 1] = e /\ \A k \in 1..n : t[k] = s[k]
  OBVIOUS
<1>3. last \in T
  BY <1>1 DEF IsFold
<1>4. f \in [0..n -> T] /\ f[0] = base /\ \A k \in 1..n : f[k] = step[<<f[k - 1], s[k]>>]
  BY <1>1 DEF Run
<1> HIDE DEF t, n, last
<1>5. g[n + 1] = last /\ \A k \in 0..n : g[k] = f[k]
  BY <1>2
<1>6. g \in [0..n + 1 -> T]
  BY <1>2, <1>3, <1>4
<1> HIDE DEF g
<1>7. Run(T, step, base, t, g)
  <2>1. g[0] = base
    BY <1>2, <1>4, <1>5
  <2>2. ASSUME NEW k \in 1..n PROVE g[k] = step[<<g[k - 1], t[k]>>]
    <3>1. g[k] = f[k] /\ g[k - 1] = f[k - 1] /\ t[k] = s[k]
      BY <1>2, <1>5
    <3> QED BY <1>4, <3>1
  <2>3. g[n + 1] = step[<<g[(n + 1) - 1], t[n + 1]>>]
    <3>1. (n + 1) - 1 = n /\ g[n] = f[n]
      BY <1>2, <1>5
    <3> QED BY <1>2, <1>5, <3>1 DEF last
  <2>4. \A k \in 1..Len(t) : k \in 1..n \/ k = n + 1
    BY <1>2
  <2>5. \A k \in 1..Len(t) : g[k] = step[<<g[k - 1], t[k]>>]
    BY <2>2, <2>3, <2>4, Zenon
  <2> QED BY <1>2, <1>6, <2>1, <2>5 DEF Run
<1>8. Folded(T, step, base, t) = g[n + 1]
  BY <1>2, <1>7, FoldedIs
<1> QED BY <1>1, <1>5, <1>8 DEF t, n, last

\* What is folded is of the type of the steps.
LEMMA FoldedIn ==
  ASSUME NEW T, NEW E, NEW base, NEW step, IsFold(T, E, base, step), NEW s \in Seq(E)
  PROVE  Folded(T, step, base, s) \in T
BY FoldedRuns

\* A sequence that is not empty is one an element has been appended to.
LEMMA FrontAndLast ==
  ASSUME NEW E, NEW n \in Nat, NEW s \in Seq(E), Len(s) = n + 1
  PROVE  \E t \in Seq(E), e \in E : s = Append(t, e) /\ Len(t) = n
<1> DEFINE t == [i \in 1..n |-> s[i]]
<1>1. \A i \in 1..n : s[i] \in E
  OBVIOUS
<1>2. t \in Seq(E) /\ Len(t) = n /\ \A i \in 1..n : t[i] = s[i]
  BY <1>1
<1>3. s[n + 1] \in E
  OBVIOUS
<1> HIDE DEF t
<1>4. s = Append(t, s[n + 1])
  BY <1>2, <1>3
<1> QED BY <1>2, <1>3, <1>4

\* Folding two sequences is folding the second onto the first.
LEMMA FoldedConcat ==
  ASSUME NEW T, NEW E, NEW base, NEW step, IsFold(T, E, base, step),
         NEW s \in Seq(E), NEW t \in Seq(E)
  PROVE  Folded(T, step, base, s \o t) = Folded(T, step, Folded(T, step, base, s), t)
<1> DEFINE Good(u) == Folded(T, step, base, s \o u) = Folded(T, step, Folded(T, step, base, s), u)
           S == {n \in Nat : \A u \in Seq(E) : Len(u) = n => Good(u)}
<1> DEFINE b == Folded(T, step, base, s)
<1>1. IsFold(T, E, b, step)
  BY FoldedIn DEF IsFold
<1> HIDE DEF b
<1>2. 0 \in S
  <2>1. \A u \in Seq(E) : Len(u) = 0 => u = <<>>
    OBVIOUS
  <2>2. s \o <<>> = s
    OBVIOUS
  <2>3. Folded(T, step, b, <<>>) = b
    BY <1>1, FoldedEmpty
  <2>4. Good(<<>>)
    BY <2>2, <2>3 DEF b
  <2> QED BY <2>1, <2>4
<1>3. ASSUME NEW n \in Nat, n \in S PROVE n + 1 \in S
  <2> SUFFICES ASSUME NEW u \in Seq(E), Len(u) = n + 1 PROVE Good(u)
    <3> HIDE DEF Good
    <3> QED OBVIOUS
  <2>1. PICK v \in Seq(E), e \in E : u = Append(v, e) /\ Len(v) = n
    BY FrontAndLast
  <2>2. Good(v)
    <3> HIDE DEF Good
    <3> QED BY <1>3, <2>1
  <2> DEFINE w == s \o v
  <2>3. s \o u = Append(w, e) /\ w \in Seq(E)
    BY <2>1
  <2> HIDE DEF w
  <2>4. Folded(T, step, base, Append(w, e)) = step[<<Folded(T, step, base, w), e>>]
    BY <2>3, FoldedAppend
  <2>5. Folded(T, step, b, Append(v, e)) = step[<<Folded(T, step, b, v), e>>]
    BY <1>1, FoldedAppend
  <2>6. Folded(T, step, base, w) = Folded(T, step, b, v)
    BY <2>2 DEF w, b
  <2>7. Folded(T, step, base, s \o u) = Folded(T, step, b, u)
    BY <2>1, <2>3, <2>4, <2>5, <2>6, Zenon
  <2> QED BY <2>7 DEF b
<1> HIDE DEF S
<1>4. Len(t) \in S
  BY <1>2, <1>3, Induction
<1> QED BY <1>4 DEF S

-----------------------------------------------------------------------------
(* Fields. *)

\* What FieldsIn finds: fields that are all there, and Broken.
GoodFields ==
  {f \in [tag : Nat, value : Seq(Nat)] :
     \/ f.tag % 8 = 0 /\ Len(f.value) = 1
     \/ f.tag % 8 = 2}
Fields == GoodFields \cup {Broken}

\* The parts of FieldsIn, named: the index of the last byte of the field at i,
\* whether there is no such field, the field.
LastOf(w, i) == i + 1 + (IF w[i] % 8 = 2 THEN w[i + 1] ELSE 0)
BreaksAt(w, i) ==
  i + 1 = Len(w) + 1 \/ w[i] % 8 \notin {0, 2} \/ LastOf(w, i) >= Len(w) + 1
FieldAt(w, i) ==
  [tag |-> w[i], value |-> SubSeq(w, IF w[i] % 8 = 0 THEN i + 1 ELSE i + 2, LastOf(w, i))]
FieldsAt(w, g, i) ==
  IF i = Len(w) + 1 THEN <<>>
  ELSE IF BreaksAt(w, i) THEN <<Broken>> ELSE <<FieldAt(w, i)>> \o g[LastOf(w, i) + 1]
IsFrom(w, g) == g = [i \in 1..Len(w) + 1 |-> FieldsAt(w, g, i)]
From(w) == CHOOSE g : IsFrom(w, g)

\* FieldsIn is the function of its LET at 1.
LEMMA FieldsInIsFrom ==
  ASSUME NEW w
  PROVE  FieldsIn(w) = From(w)[1]
BY DEF FieldsIn, From, IsFrom, FieldsAt, FieldAt, BreaksAt, LastOf

\* A field that does not break ends within the bytes.
LEMMA FieldAtTyped ==
  ASSUME NEW w \in Seq(Nat), NEW i \in 1..Len(w), ~BreaksAt(w, i)
  PROVE  /\ LastOf(w, i) \in Nat /\ i < LastOf(w, i) /\ LastOf(w, i) <= Len(w)
         /\ FieldAt(w, i) \in GoodFields
<1>1. w[i] \in Nat /\ i + 1 \in 1..Len(w) /\ w[i + 1] \in Nat /\ w[i] % 8 \in {0, 2}
  BY DEF BreaksAt
<1>2. LastOf(w, i) \in Nat /\ i < LastOf(w, i) /\ LastOf(w, i) <= Len(w)
  <2>1. ~(LastOf(w, i) >= Len(w) + 1)
    BY DEF BreaksAt
  <2>2. LastOf(w, i) = i + 1 \/ LastOf(w, i) = i + 1 + w[i + 1]
    BY <1>1 DEF LastOf
  <2>3. Len(w) \in Nat
    OBVIOUS
  <2> QED BY <1>1, <2>1, <2>2, <2>3
<1>3. CASE w[i] % 8 = 0
  <2>1. LastOf(w, i) = i + 1
    BY <1>1, <1>3 DEF LastOf
  <2> DEFINE v == SubSeq(w, i + 1, i + 1)
  <2>2. v \in Seq(Nat) /\ Len(v) = 1
    BY <1>1
  <2> HIDE DEF v
  <2>3. FieldAt(w, i) = [tag |-> w[i], value |-> v]
    BY <1>3, <2>1 DEF FieldAt, v
  <2> QED BY <1>1, <1>2, <1>3, <2>2, <2>3 DEF GoodFields
<1>4. CASE w[i] % 8 = 2
  <2> DEFINE v == SubSeq(w, i + 2, LastOf(w, i))
  <2>1. v \in Seq(Nat)
    BY <1>1, <1>2
  <2> HIDE DEF v
  <2>2. FieldAt(w, i) = [tag |-> w[i], value |-> v]
    <3>1. ~(w[i] % 8 = 0)
      BY <1>4
    <3> QED BY <3>1, Zenon DEF FieldAt, v
  <2> QED BY <1>1, <1>2, <1>4, <2>1, <2>2 DEF GoodFields
<1> QED BY <1>1, <1>3, <1>4

\* There is a function as From describes it, so that From is one.
LEMMA FromExists ==
  ASSUME NEW w \in Seq(Nat)
  PROVE  \E g \in [1..Len(w) + 1 -> Seq(Fields)] :
           \A i \in 1..Len(w) + 1 : g[i] = FieldsAt(w, g, i)
<1> DEFINE End == Len(w) + 1
           Upto(k, g) == \A i \in 1..End : i + k >= End => g[i] = FieldsAt(w, g, i)
           S == {k \in Nat : \E g \in [1..End -> Seq(Fields)] : Upto(k, g)}
<1>1. End \in Nat /\ End = Len(w) + 1 /\ Len(w) \in Nat /\ End \in 1..End
  OBVIOUS
<1> HIDE DEF End
<1>2. 0 \in S
  <2> DEFINE g == [i \in 1..End |-> <<>>]
  <2>1. g \in [1..End -> Seq(Fields)]
    OBVIOUS
  <2>2. ASSUME NEW i \in 1..End, i + 0 >= End PROVE g[i] = FieldsAt(w, g, i)
    <3>1. i = Len(w) + 1
      BY <1>1, <2>2
    <3>2. g[i] = <<>>
      OBVIOUS
    <3> QED BY <3>1, <3>2, Zenon DEF FieldsAt
  <2> HIDE DEF g
  <2>3. Upto(0, g)
    BY <2>2, Zenon
  <2> HIDE DEF Upto
  <2> QED BY <2>1, <2>3
<1>3. ASSUME NEW k \in Nat, k \in S PROVE k + 1 \in S
  <2>1. PICK g \in [1..End -> Seq(Fields)] : Upto(k, g)
    <3> HIDE DEF Upto
    <3> QED BY <1>3
  <2> SUFFICES \E f \in [1..End -> Seq(Fields)] : Upto(k + 1, f)
    <3> HIDE DEF Upto
    <3>1. k + 1 \in Nat
      OBVIOUS
    <3> QED BY <3>1, Zenon
  <2>2. CASE k + 1 >= End
    <3>1. ASSUME NEW i \in 1..End PROVE i + k >= End
      BY <1>1, <2>2, <3>1
    <3>2. Upto(k + 1, g)
      BY <2>1, <3>1
    <3> QED BY <3>2, Zenon
  <2>3. CASE k + 1 < End
    <3> DEFINE j == End - (k + 1)
               new == FieldsAt(w, g, j)
               h == [g EXCEPT ![j] = new]
    <3>1. j \in 1..Len(w) /\ j \in 1..End /\ j # Len(w) + 1
      BY <1>1, <2>3
    <3>2. \A i \in 1..End : i + (k + 1) >= End => i = j \/ (i + k >= End /\ j < i)
      BY <1>1, <2>3
    <3> HIDE DEF j
    <3>3. new \in Seq(Fields)
      <4>1. CASE BreaksAt(w, j)
        <5>1. new = <<Broken>>
          BY <3>1, <4>1, Zenon DEF FieldsAt
        <5> QED BY <5>1 DEF Fields
      <4>2. CASE ~BreaksAt(w, j)
        <5>1. LastOf(w, j) + 1 \in 1..End /\ FieldAt(w, j) \in Fields
          BY <1>1, <3>1, <4>2, FieldAtTyped DEF Fields
        <5>2. new = <<FieldAt(w, j)>> \o g[LastOf(w, j) + 1]
          BY <3>1, <4>2, Zenon DEF FieldsAt
        <5>3. g[LastOf(w, j) + 1] \in Seq(Fields)
          BY <5>1
        <5> HIDE DEF new
        <5> QED BY <5>1, <5>2, <5>3
      <4> QED BY <4>1, <4>2
    <3> HIDE DEF new
    <3>4. h \in [1..End -> Seq(Fields)] /\ h[j] = new /\ \A i \in 1..End : i # j => h[i] = g[i]
      BY <3>1, <3>3
    <3> HIDE DEF h
    <3>5. ASSUME NEW i \in 1..End, j <= i PROVE FieldsAt(w, h, i) = FieldsAt(w, g, i)
      <4>1. CASE i = Len(w) + 1 \/ BreaksAt(w, i)
        BY <4>1, Zenon DEF FieldsAt
      <4>2. CASE i # Len(w) + 1 /\ ~BreaksAt(w, i)
        <5>1. i \in 1..Len(w)
          BY <1>1, <4>2
        <5>2. LastOf(w, i) + 1 \in 1..End /\ LastOf(w, i) + 1 # j
          BY <1>1, <3>1, <3>5, <4>2, <5>1, FieldAtTyped
        <5>3. h[LastOf(w, i) + 1] = g[LastOf(w, i) + 1]
          BY <3>4, <5>2, Zenon
        <5> QED BY <5>3, Zenon DEF FieldsAt
      <4> QED BY <4>1, <4>2
    <3>6. ASSUME NEW i \in 1..End, i + (k + 1) >= End PROVE h[i] = FieldsAt(w, h, i)
      <4>1. CASE i = j
        <5>1. j <= j
          BY <3>1
        <5>2. FieldsAt(w, h, j) = new
          BY <3>1, <3>5, <5>1 DEF new
        <5> QED BY <3>4, <4>1, <5>2, Zenon
      <4>2. CASE i # j
        <5>1. i + k >= End /\ j <= i
          BY <1>1, <3>1, <3>2, <3>6, <4>2
        <5>2. g[i] = FieldsAt(w, g, i) /\ h[i] = g[i]
          BY <2>1, <3>4, <4>2, <5>1, Zenon
        <5> QED BY <3>5, <5>1, <5>2
      <4> QED BY <4>1, <4>2
    <3>7. Upto(k + 1, h)
      BY <3>6, Zenon
    <3>8. h \in [1..End -> Seq(Fields)]
      BY <3>4
    <3> HIDE DEF Upto
    <3> QED BY <3>7, <3>8
  <2>4. k + 1 >= End \/ k + 1 < End
    BY <1>1
  <2> HIDE DEF Upto
  <2> QED BY <2>2, <2>3, <2>4, Zenon
<1> HIDE DEF S
<1>4. End \in S
  BY <1>1, <1>2, <1>3, Induction
<1>5. PICK g \in [1..End -> Seq(Fields)] : Upto(End, g)
  <2> HIDE DEF Upto
  <2> QED BY <1>4 DEF S
<1>6. ASSUME NEW i \in 1..End PROVE i + End >= End
  BY <1>1
<1>7. \A i \in 1..End : g[i] = FieldsAt(w, g, i)
  BY <1>5, <1>6, Zenon
<1> QED BY <1>7, Zenon DEF End

\* The function FieldsIn chooses is as it describes it.
LEMMA FromIs ==
  ASSUME NEW w \in Seq(Nat)
  PROVE  \A i \in 1..Len(w) + 1 : From(w)[i] = FieldsAt(w, From(w), i)
<1>1. PICK g \in [1..Len(w) + 1 -> Seq(Fields)] :
        \A i \in 1..Len(w) + 1 : g[i] = FieldsAt(w, g, i)
  BY FromExists
<1>2. IsFrom(w, g)
  <2>1. g = [i \in 1..Len(w) + 1 |-> g[i]]
    OBVIOUS
  <2>2. [i \in 1..Len(w) + 1 |-> g[i]] = [i \in 1..Len(w) + 1 |-> FieldsAt(w, g, i)]
    BY <1>1, Zenon
  <2> QED BY <2>1, <2>2, Zenon DEF IsFrom
<1>3. IsFrom(w, From(w))
  BY <1>2, Zenon DEF From
<1> DEFINE h == From(w)
<1>4. h = [i \in 1..Len(w) + 1 |-> FieldsAt(w, h, i)]
  BY <1>3, Zenon DEF IsFrom
<1> HIDE DEF h
<1>5. \A i \in 1..Len(w) + 1 : h[i] = FieldsAt(w, h, i)
  BY <1>4, Zenon
<1> QED BY <1>5 DEF h

\* The bytes of w behind the first p are those of v.
Behind(w, v, p) == Len(w) = p + Len(v) /\ \A i \in 1..Len(v) : w[p + i] = v[i]

\* The parts of w that end at the n-th byte behind the first p are those of v.
PartsBehind(w, v, p, n) ==
  \A a \in Nat : a >= 1 => SubSeq(w, p + a, p + n) = SubSeq(v, a, n)

\* Parts of the bytes of w behind the first p are the parts of v.
LEMMA SubSeqBehind ==
  ASSUME NEW w \in Seq(Nat), NEW v \in Seq(Nat), NEW p \in Nat, Behind(w, v, p),
         NEW n \in Nat, n <= Len(v)
  PROVE  PartsBehind(w, v, p, n)
<1> SUFFICES ASSUME NEW a \in Nat, a >= 1 PROVE SubSeq(w, p + a, p + n) = SubSeq(v, a, n)
  BY Zenon DEF PartsBehind
<1> DEFINE x == SubSeq(w, p + a, p + n)
           y == SubSeq(v, a, n)
<1>1. Len(w) = p + Len(v) /\ \A i \in 1..Len(v) : w[p + i] = v[i]
  BY DEF Behind
<1>2. x \in Seq(Nat) /\ y \in Seq(Nat) /\ Len(x) = Len(y)
  BY <1>1
<1>3. \A i \in 1..Len(y) : x[i] = y[i]
  <2> SUFFICES ASSUME NEW i \in 1..Len(y) PROVE x[i] = y[i]
    OBVIOUS
  <2>1. y[i] = v[a + i - 1] /\ a + i - 1 \in 1..Len(v)
    OBVIOUS
  <2>2. x[i] = w[p + a + i - 1] /\ p + (a + i - 1) = p + a + i - 1
    BY <1>1
  <2>3. w[p + (a + i - 1)] = v[a + i - 1]
    BY <1>1, <2>1
  <2> QED BY <2>1, <2>2, <2>3
<1> HIDE DEF x, y
<1>4. x = y
  BY <1>2, <1>3, SeqEqual
<1> QED BY <1>4 DEF x, y

\* It finds fields, at every index.
LEMMA FromTyped ==
  ASSUME NEW w \in Seq(Nat)
  PROVE  \A i \in 1..Len(w) + 1 : From(w)[i] \in Seq(Fields)
<1> DEFINE End == Len(w) + 1
           g == From(w)
           S == {k \in Nat : \A i \in 1..End : i + k >= End => g[i] \in Seq(Fields)}
<1>1. End \in Nat /\ End = Len(w) + 1 /\ Len(w) \in Nat
  OBVIOUS
<1>2. \A i \in 1..End : g[i] = FieldsAt(w, g, i)
  BY FromIs
<1> HIDE DEF End, g
<1>3. 0 \in S
  <2>1. ASSUME NEW i \in 1..End, i + 0 >= End PROVE g[i] \in Seq(Fields)
    <3>1. i = Len(w) + 1
      BY <1>1, <2>1
    <3>2. g[i] = <<>>
      BY <1>2, <3>1, Zenon DEF FieldsAt
    <3> QED BY <3>2
  <2> QED BY <2>1
<1>4. ASSUME NEW k \in Nat, k \in S PROVE k + 1 \in S
  <2>1. ASSUME NEW i \in 1..End, i + (k + 1) >= End PROVE g[i] \in Seq(Fields)
    <3>1. CASE i = Len(w) + 1
      <4>1. g[i] = <<>>
        BY <1>2, <3>1, Zenon DEF FieldsAt
      <4> QED BY <4>1
    <3>2. CASE i # Len(w) + 1 /\ BreaksAt(w, i)
      <4>1. g[i] = <<Broken>>
        BY <1>2, <3>2, Zenon DEF FieldsAt
      <4> QED BY <4>1 DEF Fields
    <3>3. CASE i # Len(w) + 1 /\ ~BreaksAt(w, i)
      <4>1. i \in 1..Len(w)
        BY <1>1, <3>3
      <4> DEFINE j == LastOf(w, i) + 1
      <4>2. j \in 1..End /\ j + k >= End /\ FieldAt(w, i) \in Fields
        BY <1>1, <2>1, <3>3, <4>1, FieldAtTyped DEF Fields
      <4>3. g[i] = <<FieldAt(w, i)>> \o g[j]
        BY <1>2, <3>3, Zenon DEF FieldsAt
      <4> HIDE DEF j
      <4>4. g[j] \in Seq(Fields)
        BY <1>4, <4>2
      <4> QED BY <4>2, <4>3, <4>4
    <3> QED BY <3>1, <3>2, <3>3
  <2> QED BY <2>1
<1> HIDE DEF S
<1>5. End \in S
  BY <1>1, <1>3, <1>4, Induction
<1>6. \A i \in 1..End : i + End >= End
  BY <1>1
<1> QED BY <1>5, <1>6 DEF S, End, g

\* So does FieldsIn.
LEMMA FieldsInTyped ==
  ASSUME NEW w \in Seq(Nat)
  PROVE  FieldsIn(w) \in Seq(Fields)
<1>1. 1 \in 1..Len(w) + 1
  OBVIOUS
<1> QED BY <1>1, FromTyped, FieldsInIsFrom

\* A sum, put together in another way.
LEMMA Plus ==
  ASSUME NEW p \in Nat, NEW i \in Nat, NEW n \in Nat
  PROVE  (p + i) + 1 + n = p + (i + 1 + n) /\ i + 1 + n \in Nat
OBVIOUS

\* A comparison, with p added on both sides.
LEMMA SumAtLeast ==
  ASSUME NEW p \in Nat, NEW a \in Nat, NEW b \in Nat
  PROVE  p + a >= (p + b) + 1 <=> a >= b + 1
OBVIOUS

\* A field that starts behind p other bytes is the same field, p bytes later.
LEMMA SameBehind ==
  ASSUME NEW w \in Seq(Nat), NEW v \in Seq(Nat), NEW p \in Nat, Behind(w, v, p),
         NEW i \in 1..Len(v)
  PROVE  /\ BreaksAt(w, p + i) <=> BreaksAt(v, i)
         /\ ~BreaksAt(v, i) => /\ LastOf(w, p + i) = p + LastOf(v, i)
                               /\ FieldAt(w, p + i) = FieldAt(v, i)
<1>1. Len(w) = p + Len(v) /\ \A j \in 1..Len(v) : w[p + j] = v[j]
  BY DEF Behind
<1>2. w[p + i] = v[i] /\ p + i \in 1..Len(w) /\ v[i] \in Nat /\ i \in Nat /\ Len(v) \in Nat
  BY <1>1
<1>3. CASE i = Len(v)
  <2>1. BreaksAt(v, i)
    BY <1>3 DEF BreaksAt
  <2>2. (p + i) + 1 = Len(w) + 1
    BY <1>1, <1>2, <1>3
  <2>3. BreaksAt(w, p + i)
    BY <2>2 DEF BreaksAt
  <2> QED BY <2>1, <2>3
<1>4. CASE i # Len(v)
  <2>1. i + 1 \in 1..Len(v) /\ p + (i + 1) = (p + i) + 1
    BY <1>2, <1>4
  <2>2. w[(p + i) + 1] = v[i + 1] /\ v[i + 1] \in Nat
    <3>1. w[p + (i + 1)] = v[i + 1]
      BY <1>1, <2>1, Zenon
    <3>2. v[i + 1] \in Nat
      BY <2>1
    <3> QED BY <2>1, <3>1, <3>2, Zenon
  <2>3. LastOf(w, p + i) = p + LastOf(v, i) /\ LastOf(v, i) \in Nat
    <3>1. p \in Nat
      OBVIOUS
    <3>2. CASE v[i] % 8 = 2
      <4>1. LastOf(v, i) = i + 1 + v[i + 1] /\ LastOf(w, p + i) = (p + i) + 1 + v[i + 1]
        BY <1>2, <2>2, <3>2, Zenon DEF LastOf
      <4>2. (p + i) + 1 + v[i + 1] = p + (i + 1 + v[i + 1]) /\ i + 1 + v[i + 1] \in Nat
        BY <1>2, <2>2, <3>1, Plus
      <4> QED BY <4>1, <4>2, Zenon
    <3>3. CASE ~(v[i] % 8 = 2)
      <4>1. LastOf(v, i) = i + 1 + 0 /\ LastOf(w, p + i) = (p + i) + 1 + 0
        BY <1>2, <2>2, <3>3, Zenon DEF LastOf
      <4> QED BY <1>2, <2>2, <4>1
    <3> QED BY <3>2, <3>3
  <2>4. (p + i) + 1 # Len(w) + 1 /\ i + 1 # Len(v) + 1
    BY <1>1, <1>2, <1>4
  <2>5. LastOf(w, p + i) >= Len(w) + 1 <=> LastOf(v, i) >= Len(v) + 1
    <3>1. p + LastOf(v, i) >= (p + Len(v)) + 1 <=> LastOf(v, i) >= Len(v) + 1
      BY <1>2, <2>3, SumAtLeast
    <3> QED BY <1>1, <2>3, <3>1, Zenon
  <2>6. BreaksAt(w, p + i) <=> BreaksAt(v, i)
    BY <1>2, <2>4, <2>5, Zenon DEF BreaksAt
  <2>7. ASSUME ~BreaksAt(v, i) PROVE FieldAt(w, p + i) = FieldAt(v, i)
    <3>1. LastOf(v, i) <= Len(v)
      BY <2>7, FieldAtTyped
    <3> DEFINE n == LastOf(v, i)
    <3>2. PartsBehind(w, v, p, n)
      <4> HIDE DEF n
      <4>1. n \in Nat /\ n <= Len(v)
        BY <2>3, <3>1 DEF n
      <4> QED BY <4>1, SubSeqBehind
    <3>3. SubSeq(w, (p + i) + 1, LastOf(w, p + i)) = SubSeq(v, i + 1, LastOf(v, i))
      <4>1. p + (i + 1) = (p + i) + 1 /\ i + 1 \in Nat /\ i + 1 >= 1
        BY <1>2
      <4> QED BY <2>3, <3>2, <4>1, Zenon DEF PartsBehind
    <3>4. SubSeq(w, (p + i) + 2, LastOf(w, p + i)) = SubSeq(v, i + 2, LastOf(v, i))
      <4>1. p + (i + 2) = (p + i) + 2 /\ i + 2 \in Nat /\ i + 2 >= 1
        BY <1>2
      <4> QED BY <2>3, <3>2, <4>1, Zenon DEF PartsBehind
    <3> QED BY <1>2, <3>3, <3>4, Zenon DEF FieldAt
  <2> QED BY <2>3, <2>6, <2>7
<1> QED BY <1>3, <1>4

\* The field after the one that ends at l is one nearer to the end.
LEMMA Further ==
  ASSUME NEW l \in Nat, NEW i \in Nat, NEW k \in Nat, NEW n \in Nat, NEW p \in Nat,
         i < l, l <= n, i + (k + 1) >= n + 1
  PROVE  /\ l + 1 \in 1..n + 1 /\ (l + 1) + k >= n + 1
         /\ (p + l) + 1 = p + (l + 1)
OBVIOUS

\* What is found from p + 1 on is what is found in the bytes behind the first p.
LEMMA FromBehind ==
  ASSUME NEW w \in Seq(Nat), NEW v \in Seq(Nat), NEW p \in Nat, Behind(w, v, p)
  PROVE  From(w)[p + 1] = From(v)[1]
<1> DEFINE End == Len(v) + 1
           g == From(w)
           h == From(v)
           S == {k \in Nat : \A i \in 1..End : i + k >= End => g[p + i] = h[i]}
<1>1. End \in Nat /\ End = Len(v) + 1 /\ Len(v) \in Nat /\ p + End = Len(w) + 1
  <2>1. Len(w) = p + Len(v)
    BY DEF Behind
  <2> QED BY <2>1
<1>2. \A i \in 1..End : h[i] = FieldsAt(v, h, i)
  BY FromIs
<1>3. \A i \in 1..End : g[p + i] = FieldsAt(w, g, p + i)
  <2>1. \A i \in 1..Len(w) + 1 : g[i] = FieldsAt(w, g, i)
    BY FromIs
  <2>2. \A i \in 1..End : p + i \in 1..Len(w) + 1
    BY <1>1
  <2> QED BY <2>1, <2>2, Zenon
<1> HIDE DEF End, g, h
<1>4. ASSUME NEW i \in 1..End, i = End PROVE g[p + i] = h[i]
  <2>1. i = Len(v) + 1 /\ p + i = Len(w) + 1
    BY <1>1, <1>4
  <2>2. h[i] = <<>> /\ g[p + i] = <<>>
    BY <1>2, <1>3, <2>1, Zenon DEF FieldsAt
  <2> QED BY <2>2
<1>5. 0 \in S
  <2>1. \A i \in 1..End : i + 0 >= End => i = End
    BY <1>1
  <2> QED BY <1>4, <2>1
<1>6. ASSUME NEW k \in Nat, k \in S PROVE k + 1 \in S
  <2>1. ASSUME NEW i \in 1..End, i + (k + 1) >= End, i # End PROVE g[p + i] = h[i]
    <3>1. i \in 1..Len(v) /\ i # Len(v) + 1 /\ p + i # Len(w) + 1
      BY <1>1, <2>1
    <3>2. /\ BreaksAt(w, p + i) <=> BreaksAt(v, i)
          /\ ~BreaksAt(v, i) => /\ LastOf(w, p + i) = p + LastOf(v, i)
                                /\ FieldAt(w, p + i) = FieldAt(v, i)
      BY <3>1, SameBehind
    <3>3. CASE BreaksAt(v, i)
      <4>1. h[i] = <<Broken>> /\ g[p + i] = <<Broken>>
        BY <1>2, <1>3, <3>1, <3>2, <3>3, Zenon DEF FieldsAt
      <4> QED BY <4>1
    <3>4. CASE ~BreaksAt(v, i)
      <4> DEFINE j == LastOf(v, i) + 1
      <4>1. LastOf(v, i) \in Nat /\ i < LastOf(v, i) /\ LastOf(v, i) <= Len(v)
        BY <3>1, <3>4, FieldAtTyped
      <4>2. j \in 1..End /\ j + k >= End /\ LastOf(w, p + i) + 1 = p + j
        <5>1. LastOf(w, p + i) = p + LastOf(v, i)
          BY <3>2, <3>4
        <5>2. i \in Nat /\ i + (k + 1) >= Len(v) + 1
          BY <1>1, <2>1
        <5>3. /\ LastOf(v, i) + 1 \in 1..Len(v) + 1 /\ (LastOf(v, i) + 1) + k >= Len(v) + 1
              /\ (p + LastOf(v, i)) + 1 = p + (LastOf(v, i) + 1)
          <6>1. Len(v) \in Nat /\ p \in Nat /\ k \in Nat
            BY <1>1
          <6>2. PICK l \in Nat : l = LastOf(v, i)
            BY <4>1, Zenon
          <6>3. PICK n \in Nat : n = Len(v)
            BY <6>1, Zenon
          <6>4. i < l /\ l <= n /\ i + (k + 1) >= n + 1
            BY <4>1, <5>2, <6>2, <6>3, Zenon
          <6>5. l + 1 \in 1..n + 1 /\ (l + 1) + k >= n + 1 /\ (p + l) + 1 = p + (l + 1)
            BY <5>2, <6>1, <6>4, Further
          <6> QED BY <6>2, <6>3, <6>5, Zenon
        <5> QED BY <1>1, <5>1, <5>3
      <4>3. h[i] = <<FieldAt(v, i)>> \o h[j]
        BY <1>2, <3>1, <3>4, Zenon DEF FieldsAt
      <4>4. g[p + i] = <<FieldAt(v, i)>> \o g[p + j]
        BY <1>3, <3>1, <3>2, <3>4, <4>2, Zenon DEF FieldsAt
      <4> HIDE DEF j
      <4>5. g[p + j] = h[j]
        BY <1>6, <4>2
      <4> QED BY <4>3, <4>4, <4>5
    <3> QED BY <3>3, <3>4
  <2> QED BY <1>4, <2>1
<1> HIDE DEF S
<1>7. End \in S /\ 1 \in 1..End
  <2>1. End \in S
    BY <1>1, <1>5, <1>6, Induction
  <2> QED BY <1>1, <2>1
<1>8. 1 + End >= End
  BY <1>1
<1>9. g[p + 1] = h[1]
  BY <1>7, <1>8 DEF S
<1> QED BY <1>9 DEF g, h

\* A field has two bytes at least.
LEMMA FieldBytesTyped ==
  ASSUME NEW f \in GoodFields
  PROVE  FieldBytes(f) \in Seq(Nat) /\ Len(FieldBytes(f)) > 1
<1>1. f.tag \in Nat /\ f.value \in Seq(Nat) /\ (f.tag % 8 = 0 => Len(f.value) = 1)
  BY DEF GoodFields
<1> DEFINE v == f.value
           t == f.tag
<1> HIDE DEF v, t
<1>2. <<t>> \o v \in Seq(Nat) /\ Len(<<t>> \o v) = 1 + Len(v)
  BY <1>1 DEF v, t
<1>3. <<t, Len(v)>> \o v \in Seq(Nat) /\ Len(<<t, Len(v)>> \o v) = 2 + Len(v) /\ Len(v) \in Nat
  BY <1>1 DEF v, t
<1>4. CASE f.tag % 8 = 0
  <2>1. FieldBytes(f) = <<t>> \o v
    BY <1>4, Zenon DEF FieldBytes, t, v
  <2> QED BY <1>1, <1>2, <1>4, <2>1 DEF v, t
<1>5. CASE f.tag % 8 # 0
  <2>1. FieldBytes(f) = <<t, Len(v)>> \o v
    BY <1>5, Zenon DEF FieldBytes, t, v
  <2> QED BY <1>3, <2>1
<1> QED BY <1>4, <1>5

\* The elements of two sequences of numbers put together.
LEMMA Concat ==
  ASSUME NEW b \in Seq(Nat), NEW rest \in Seq(Nat)
  PROVE  /\ b \o rest \in Seq(Nat) /\ Len(b \o rest) = Len(b) + Len(rest)
         /\ \A i \in 1..Len(b) : (b \o rest)[i] = b[i]
         /\ \A i \in 1..Len(rest) : (b \o rest)[Len(b) + i] = rest[i]
OBVIOUS

\* A part of the first of two sequences is a part of both together.
LEMMA SubSeqOfFirst ==
  ASSUME NEW b \in Seq(Nat), NEW rest \in Seq(Nat), NEW a \in Nat, a >= 1
  PROVE  SubSeq(b \o rest, a, Len(b)) = SubSeq(b, a, Len(b))
OBVIOUS

\* The parts of a number field.
LEMMA TagAndValue ==
  ASSUME NEW t \in Nat, NEW v \in Seq(Nat)
  PROVE  /\ <<t>> \o v \in Seq(Nat) /\ Len(<<t>> \o v) = 1 + Len(v) /\ (<<t>> \o v)[1] = t
         /\ SubSeq(<<t>> \o v, 2, 1 + Len(v)) = v
OBVIOUS

\* The parts of a string field.
LEMMA TagLengthAndValue ==
  ASSUME NEW t \in Nat, NEW n \in Nat, NEW v \in Seq(Nat)
  PROVE  /\ <<t, n>> \o v \in Seq(Nat) /\ Len(<<t, n>> \o v) = 2 + Len(v)
         /\ (<<t, n>> \o v)[1] = t /\ (<<t, n>> \o v)[2] = n
         /\ SubSeq(<<t, n>> \o v, 3, 2 + Len(v)) = v
OBVIOUS

\* Bytes that start with those of a field start with this field.
LEMMA FieldIsThere ==
  ASSUME NEW f \in GoodFields, NEW rest \in Seq(Nat), NEW w, w = FieldBytes(f) \o rest
  PROVE  /\ w \in Seq(Nat) /\ 1 \in 1..Len(w)
         /\ ~BreaksAt(w, 1) /\ FieldAt(w, 1) = f /\ LastOf(w, 1) = Len(FieldBytes(f))
<1> DEFINE v == f.value
           t == f.tag
           b == FieldBytes(f)
           n == Len(b)
<1>1. t \in Nat /\ v \in Seq(Nat) /\ Len(v) \in Nat /\ f = [tag |-> t, value |-> v]
  BY DEF GoodFields
<1>2. (t % 8 = 0 /\ Len(v) = 1) \/ t % 8 = 2
  BY DEF GoodFields
<1>3. b \in Seq(Nat) /\ n \in Nat /\ n >= 2
  BY FieldBytesTyped
<1>4. t % 8 = 0 => b = <<t>> \o v
  BY Zenon DEF FieldBytes
<1>5. t % 8 = 2 => b = <<t, Len(v)>> \o v
  <2>1. t % 8 = 2 => ~(t % 8 = 0)
    OBVIOUS
  <2> QED BY <2>1, Zenon DEF FieldBytes
<1>6. w = b \o rest
  OBVIOUS
<1> HIDE DEF v, t, b, n
<1>7. w \in Seq(Nat) /\ Len(w) = n + Len(rest) /\ Len(rest) \in Nat
  BY <1>3, <1>6, Concat DEF n
<1>8. \A i \in 1..n : w[i] = b[i]
  BY <1>3, <1>6, Concat DEF n
<1>9. \A a \in Nat : a >= 1 => SubSeq(w, a, n) = SubSeq(b, a, n)
  BY <1>3, <1>6, SubSeqOfFirst DEF n
<1>10. b[1] = t /\ w[1] = t
  <2>1. 1 \in 1..n
    BY <1>3
  <2>2. b[1] = t
    BY <1>1, <1>2, <1>4, <1>5, TagAndValue, TagLengthAndValue
  <2> QED BY <1>8, <2>1, <2>2, Zenon
<1>11. ASSUME t % 8 = 0 PROVE LastOf(w, 1) = n /\ FieldAt(w, 1) = f
  <2>1. ~(t % 8 = 2)
    BY <1>11
  <2>2. b = <<t>> \o v /\ Len(v) = 1
    BY <1>2, <1>4, <1>11, <2>1
  <2>3. n = 2 /\ SubSeq(b, 2, n) = v
    <3>1. n = 1 + Len(v) /\ SubSeq(b, 2, 1 + Len(v)) = v
      BY <1>1, <2>2, TagAndValue, Zenon DEF n
    <3>2. n = 2
      BY <2>2, <3>1
    <3> QED BY <3>1, <3>2, Zenon
  <2>4. LastOf(w, 1) = 1 + 1 + 0
    BY <1>10, <2>1, Zenon DEF LastOf
  <2>5. LastOf(w, 1) = n /\ 1 + 1 = 2 /\ 2 \in Nat /\ 2 >= 1
    BY <2>3, <2>4
  <2>6. FieldAt(w, 1) = [tag |-> w[1], value |-> SubSeq(w, 2, n)]
    BY <1>10, <1>11, <2>5, Zenon DEF FieldAt
  <2>7. FieldAt(w, 1) = f
    BY <1>1, <1>9, <1>10, <2>3, <2>5, <2>6, Zenon
  <2> QED BY <2>5, <2>7
<1>12. ASSUME t % 8 = 2 PROVE LastOf(w, 1) = n /\ FieldAt(w, 1) = f
  <2>1. n = 2 + Len(v) /\ SubSeq(b, 3, n) = v /\ b[2] = Len(v)
    BY <1>1, <1>5, <1>12, TagLengthAndValue DEF n
  <2>2. ~(t % 8 = 0)
    BY <1>12
  <2>3. w[2] = Len(v)
    <3>1. 2 \in 1..n
      BY <1>3
    <3> QED BY <1>8, <2>1, <3>1, Zenon
  <2>4. 1 + 1 = 2 /\ 1 + 2 = 3 /\ 3 \in Nat /\ 3 >= 1
    OBVIOUS
  <2>5. LastOf(w, 1) = 1 + 1 + w[1 + 1]
    BY <1>10, <1>12, Zenon DEF LastOf
  <2>6. LastOf(w, 1) = n
    BY <2>1, <2>3, <2>4, <2>5, Zenon
  <2>7. FieldAt(w, 1) = [tag |-> w[1], value |-> SubSeq(w, 1 + 2, LastOf(w, 1))]
    BY <1>10, <2>2, Zenon DEF FieldAt
  <2>8. FieldAt(w, 1) = f
    BY <1>1, <1>9, <1>10, <2>1, <2>4, <2>6, <2>7, Zenon
  <2> QED BY <2>6, <2>8
<1>13. LastOf(w, 1) = n /\ FieldAt(w, 1) = f
  BY <1>2, <1>11, <1>12
<1>14. ~BreaksAt(w, 1)
  <2>1. 1 + 1 # Len(w) + 1 /\ ~(n >= Len(w) + 1)
    BY <1>3, <1>7
  <2>2. t % 8 \in {0, 2}
    BY <1>2
  <2> QED BY <1>10, <1>13, <2>1, <2>2, Zenon DEF BreaksAt
<1>15. 1 \in 1..Len(w)
  BY <1>3, <1>7
<1> QED BY <1>7, <1>13, <1>14, <1>15 DEF n, b

\* No bytes are no fields.
LEMMA FieldsInNone == FieldsIn(<<>>) = <<>>
<1> DEFINE w == <<>>
<1>1. w \in Seq(Nat) /\ Len(w) + 1 = 1 /\ 1 \in 1..Len(w) + 1
  OBVIOUS
<1> HIDE DEF w
<1>2. From(w)[1] = FieldsAt(w, From(w), 1)
  BY <1>1, FromIs
<1>3. FieldsAt(w, From(w), 1) = <<>>
  BY <1>1, Zenon DEF FieldsAt
<1> QED BY <1>2, <1>3, FieldsInIsFrom DEF w

\* Bytes that start with those of a field start with this field.
LEMMA FieldsFirst ==
  ASSUME NEW f \in GoodFields, NEW rest \in Seq(Nat)
  PROVE  FieldsIn(FieldBytes(f) \o rest) = <<f>> \o FieldsIn(rest)
<1> DEFINE b == FieldBytes(f)
           w == b \o rest
           p == Len(b)
<1>1. b \in Seq(Nat) /\ p \in Nat
  BY FieldBytesTyped
<1>2. /\ w \in Seq(Nat) /\ 1 \in 1..Len(w)
      /\ ~BreaksAt(w, 1) /\ FieldAt(w, 1) = f /\ LastOf(w, 1) = Len(FieldBytes(f))
  BY FieldIsThere
<1> HIDE DEF b
<1>3. Behind(w, rest, p)
  BY <1>1, Concat DEF Behind
<1>4. LastOf(w, 1) = p
  BY <1>2 DEF b
<1> HIDE DEF w, p
<1>5. From(w)[p + 1] = From(rest)[1]
  BY <1>1, <1>2, <1>3, FromBehind
<1>6. 1 \in 1..Len(w) + 1 /\ 1 # Len(w) + 1
  BY <1>2
<1>7. From(w)[1] = FieldsAt(w, From(w), 1)
  BY <1>2, <1>6, FromIs
<1>8. From(w)[1] = <<f>> \o From(w)[p + 1]
  BY <1>2, <1>4, <1>6, <1>7, Zenon DEF FieldsAt
<1> QED BY <1>5, <1>8, FieldsInIsFrom DEF w, b

\* Induction on sequences: a set that has the empty sequence and, with a
\* sequence, those that are one element longer.
LEMMA SeqInduction ==
  ASSUME NEW E, NEW S, <<>> \in S,
         \A s \in Seq(E), e \in E : s \in S => Append(s, e) \in S
  PROVE  Seq(E) \subseteq S
<1> DEFINE N == {n \in Nat : \A s \in Seq(E) : Len(s) = n => s \in S}
<1>1. 0 \in N
  <2>1. \A s \in Seq(E) : Len(s) = 0 => s = <<>>
    OBVIOUS
  <2> QED BY <2>1
<1>2. ASSUME NEW n \in Nat, n \in N PROVE n + 1 \in N
  <2>1. ASSUME NEW s \in Seq(E), Len(s) = n + 1 PROVE s \in S
    <3>1. PICK t \in Seq(E), e \in E : s = Append(t, e) /\ Len(t) = n
      BY <2>1, FrontAndLast
    <3>2. t \in S
      BY <1>2, <3>1
    <3> QED BY <3>1, <3>2, Zenon
  <2> QED BY <2>1
<1> HIDE DEF N
<1>3. ASSUME NEW s \in Seq(E) PROVE s \in S
  <2>1. Len(s) \in N
    BY <1>1, <1>2, Induction
  <2> QED BY <2>1 DEF N
<1> QED BY <1>3

\* The bytes of a sequence of fields.
AddBytes == [x \in Seq(Nat) \X GoodFields |-> x[1] \o FieldBytes(x[2])]
BytesOf(fs) == Folded(Seq(Nat), AddBytes, <<>>, fs)

\* The bytes of fields are a fold.
LEMMA AddBytesFolds == IsFold(Seq(Nat), GoodFields, <<>>, AddBytes)
<1>1. ASSUME NEW x \in Seq(Nat) \X GoodFields PROVE x[1] \o FieldBytes(x[2]) \in Seq(Nat)
  <2>1. x[1] \in Seq(Nat) /\ x[2] \in GoodFields
    OBVIOUS
  <2>2. FieldBytes(x[2]) \in Seq(Nat)
    BY <2>1, FieldBytesTyped
  <2> QED BY <2>1, <2>2
<1>2. AddBytes \in [Seq(Nat) \X GoodFields -> Seq(Nat)]
  BY <1>1 DEF AddBytes
<1> QED BY <1>2 DEF IsFold

\* No field has no bytes.
LEMMA BytesEmpty == BytesOf(<<>>) = <<>>
BY AddBytesFolds, FoldedEmpty DEF BytesOf

\* The bytes of fields are bytes.
LEMMA BytesTyped ==
  ASSUME NEW fs \in Seq(GoodFields)
  PROVE  BytesOf(fs) \in Seq(Nat)
BY AddBytesFolds, FoldedIn DEF BytesOf

\* One field more has its bytes behind the others'.
LEMMA BytesAppend ==
  ASSUME NEW fs \in Seq(GoodFields), NEW f \in GoodFields
  PROVE  BytesOf(Append(fs, f)) = BytesOf(fs) \o FieldBytes(f)
<1> DEFINE b == BytesOf(fs)
<1>1. b \in Seq(Nat)
  BY BytesTyped
<1>2. BytesOf(Append(fs, f)) = AddBytes[<<b, f>>]
  BY AddBytesFolds, FoldedAppend DEF BytesOf
<1> HIDE DEF b
<1>3. AddBytes[<<b, f>>] = b \o FieldBytes(f)
  BY <1>1 DEF AddBytes
<1> QED BY <1>2, <1>3 DEF b

\* Putting three sequences together, the first two or the last two first.
LEMMA BytesAssociate ==
  \A a, b, c \in Seq(Nat) : (a \o b) \o c = a \o (b \o c)
BY ConcatAssociative

\* Appending to the second of two sequences.
LEMMA AppendToConcat ==
  ASSUME NEW E, NEW a \in Seq(E), NEW b \in Seq(E), NEW e \in E
  PROVE  a \o Append(b, e) = Append(a \o b, e) /\ a \o b \in Seq(E)
OBVIOUS

\* The bytes of fields put together are their bytes put together.
LEMMA BytesConcat ==
  ASSUME NEW a \in Seq(GoodFields), NEW b \in Seq(GoodFields)
  PROVE  BytesOf(a \o b) = BytesOf(a) \o BytesOf(b)
<1> DEFINE Good(s) == BytesOf(a \o s) = BytesOf(a) \o BytesOf(s)
           S == {s \in Seq(GoodFields) : Good(s)}
<1>1. BytesOf(a) \in Seq(Nat)
  BY BytesTyped
<1>2. <<>> \in S
  <2>1. a \o <<>> = a
    OBVIOUS
  <2>2. BytesOf(a) \o <<>> = BytesOf(a)
    BY <1>1
  <2>3. Good(<<>>)
    BY <2>1, <2>2, BytesEmpty
  <2> HIDE DEF Good
  <2> QED BY <2>3
<1>3. ASSUME NEW s \in Seq(GoodFields), NEW f \in GoodFields, s \in S PROVE Append(s, f) \in S
  <2>1. BytesOf(s) \in Seq(Nat) /\ FieldBytes(f) \in Seq(Nat)
    BY BytesTyped, FieldBytesTyped
  <2>2. a \o Append(s, f) = Append(a \o s, f) /\ a \o s \in Seq(GoodFields)
    BY AppendToConcat
  <2>3. BytesOf(Append(a \o s, f)) = BytesOf(a \o s) \o FieldBytes(f)
    BY <2>2, BytesAppend
  <2>4. BytesOf(Append(s, f)) = BytesOf(s) \o FieldBytes(f)
    BY BytesAppend
  <2>5. Good(s)
    <3> HIDE DEF Good
    <3> QED BY <1>3
  <2>6. (BytesOf(a) \o BytesOf(s)) \o FieldBytes(f) = BytesOf(a) \o (BytesOf(s) \o FieldBytes(f))
    BY <1>1, <2>1, BytesAssociate, Zenon
  <2>7. Good(Append(s, f))
    BY <2>2, <2>3, <2>4, <2>5, <2>6, Zenon
  <2>8. Append(s, f) \in Seq(GoodFields)
    OBVIOUS
  <2> HIDE DEF Good
  <2> QED BY <2>7, <2>8
<1> HIDE DEF S
<1>4. b \in S
  BY <1>2, <1>3, SeqInduction
<1> QED BY <1>4 DEF S

\* Bytes that start with those of some fields start with these fields.
LEMMA FieldsPrefix ==
  ASSUME NEW fs \in Seq(GoodFields), NEW rest \in Seq(Nat)
  PROVE  FieldsIn(BytesOf(fs) \o rest) = fs \o FieldsIn(rest)
<1> DEFINE Good(s) == \A r \in Seq(Nat) : FieldsIn(BytesOf(s) \o r) = s \o FieldsIn(r)
           S == {s \in Seq(GoodFields) : Good(s)}
<1>1. <<>> \in S
  <2>1. ASSUME NEW r \in Seq(Nat) PROVE FieldsIn(BytesOf(<<>>) \o r) = <<>> \o FieldsIn(r)
    <3>1. <<>> \o r = r
      OBVIOUS
    <3>2. FieldsIn(r) \in Seq(Fields)
      BY FieldsInTyped
    <3>3. <<>> \o FieldsIn(r) = FieldsIn(r)
      BY <3>2
    <3> QED BY <3>1, <3>3, BytesEmpty
  <2>2. Good(<<>>)
    BY <2>1, Zenon
  <2> HIDE DEF Good
  <2> QED BY <2>2
<1>2. ASSUME NEW s \in Seq(GoodFields), NEW f \in GoodFields, s \in S PROVE Append(s, f) \in S
  <2>1. BytesOf(s) \in Seq(Nat) /\ FieldBytes(f) \in Seq(Nat)
    BY BytesTyped, FieldBytesTyped
  <2>2. BytesOf(Append(s, f)) = BytesOf(s) \o FieldBytes(f)
    BY BytesAppend
  <2>3. Good(s)
    <3> HIDE DEF Good
    <3> QED BY <1>2
  <2>4. ASSUME NEW r \in Seq(Nat)
        PROVE  FieldsIn(BytesOf(Append(s, f)) \o r) = Append(s, f) \o FieldsIn(r)
    <3>1. (BytesOf(s) \o FieldBytes(f)) \o r = BytesOf(s) \o (FieldBytes(f) \o r)
      BY <2>1, BytesAssociate, Zenon
    <3>2. FieldBytes(f) \o r \in Seq(Nat)
      BY <2>1
    <3>3. FieldsIn(BytesOf(s) \o (FieldBytes(f) \o r)) = s \o FieldsIn(FieldBytes(f) \o r)
      BY <2>3, <3>2, Zenon
    <3>4. FieldsIn(FieldBytes(f) \o r) = <<f>> \o FieldsIn(r)
      BY FieldsFirst
    <3>5. FieldsIn(r) \in Seq(Fields) /\ s \in Seq(Fields) /\ f \in Fields
      <4>1. FieldsIn(r) \in Seq(Fields)
        BY FieldsInTyped
      <4>2. s \in Seq(Fields) /\ f \in Fields
        BY DEF Fields
      <4> QED BY <4>1, <4>2
    <3>6. s \o (<<f>> \o FieldsIn(r)) = Append(s, f) \o FieldsIn(r)
      BY <3>5
    <3> QED BY <2>2, <3>1, <3>3, <3>4, <3>6, Zenon
  <2>5. Good(Append(s, f))
    BY <2>4, Zenon
  <2>6. Append(s, f) \in Seq(GoodFields)
    OBVIOUS
  <2> HIDE DEF Good
  <2> QED BY <2>5, <2>6
<1> HIDE DEF S
<1>3. fs \in S
  BY <1>1, <1>2, SeqInduction
<1> QED BY <1>3 DEF S

\* The fields in the bytes of fields are these fields.
LEMMA FieldsOfBytes ==
  ASSUME NEW fs \in Seq(GoodFields)
  PROVE  FieldsIn(BytesOf(fs)) = fs
<1>1. BytesOf(fs) \in Seq(Nat)
  BY BytesTyped
<1>2. BytesOf(fs) \o <<>> = BytesOf(fs) /\ fs \o <<>> = fs /\ <<>> \in Seq(Nat)
  BY <1>1
<1>3. FieldsIn(BytesOf(fs) \o <<>>) = fs \o FieldsIn(<<>>)
  BY <1>2, FieldsPrefix
<1> QED BY <1>2, <1>3, FieldsInNone

-----------------------------------------------------------------------------
(* Reading a Synonym. *)

\* The messages so far read.
SynonymReadings == [ok : BOOLEAN, msg : SynonymObjects]

SynonymTags == {8, 18, 26, 34}

\* Broken is no field that is all there.
LEMMA BrokenIsNotGood == \A f \in GoodFields : f # Broken
<1> SUFFICES ASSUME NEW f \in GoodFields, f = Broken PROVE FALSE
  OBVIOUS
<1>1. f.tag = 0 /\ f.value = <<>>
  BY DEF Broken
<1>2. f.tag % 8 = 2 \/ Len(f.value) = 1
  BY DEF GoodFields
<1>3. 0 % 8 = 0 /\ Len(<<>>) = 0
  OBVIOUS
<1> QED BY <1>1, <1>2, <1>3

\* The table of Synonym's fields.
LEMMA SynonymTableIs ==
  /\ DOMAIN SynonymTable = SynonymTags
  /\ SynonymTable[18] = "synonym" /\ SynonymTable[26] = "turkish_meaning"
  /\ SynonymTable[34] = "sample_sentences"
BY DEF SynonymTable, SynonymTags

\* What reading a field comes to.
LEMMA SynonymReadCases ==
  ASSUME NEW r, NEW f
  PROVE  /\ ~r.ok \/ f = Broken => SynonymRead(r, f) = [r EXCEPT !.ok = FALSE]
         /\ r.ok /\ f # Broken =>
              /\ f.tag \notin SynonymTags => SynonymRead(r, f) = ReadUnknown(r, f)
              /\ f.tag = 8 => SynonymRead(r, f) = [r EXCEPT !.msg.id = f.value[1]]
              /\ f.tag = 18 => SynonymRead(r, f) = ReadString(r, "synonym", f)
              /\ f.tag = 26 => SynonymRead(r, f) = ReadString(r, "turkish_meaning", f)
              /\ f.tag = 34 => SynonymRead(r, f) = ReadString(r, "sample_sentences", f)
<1>1. CASE ~r.ok \/ f = Broken
  BY <1>1, Zenon DEF SynonymRead
<1>2. CASE r.ok /\ f # Broken
  <2>1. f.tag \notin SynonymTags => SynonymRead(r, f) = ReadUnknown(r, f)
    BY <1>2, SynonymTableIs DEF SynonymRead, SynonymTags
  <2>2. f.tag = 8 => SynonymRead(r, f) = [r EXCEPT !.msg.id = f.value[1]]
    BY <1>2, SynonymTableIs DEF SynonymRead, SynonymTags
  <2>3. f.tag = 18 => SynonymRead(r, f) = ReadString(r, "synonym", f)
    BY <1>2, SynonymTableIs DEF SynonymRead, SynonymTags
  <2>4. f.tag = 26 => SynonymRead(r, f) = ReadString(r, "turkish_meaning", f)
    BY <1>2, SynonymTableIs DEF SynonymRead, SynonymTags
  <2>5. f.tag = 34 => SynonymRead(r, f) = ReadString(r, "sample_sentences", f)
    BY <1>2, SynonymTableIs DEF SynonymRead, SynonymTags
  <2> QED BY <1>2, <2>1, <2>2, <2>3, <2>4, <2>5
<1> QED BY <1>1, <1>2

\* A field of a Synonym is set.
LEMMA SynonymEdited ==
  ASSUME NEW m \in SynonymObjects
  PROVE  /\ \A n \in Nat : /\ [m EXCEPT !.id = n] \in SynonymObjects
                           /\ [m EXCEPT !.cached_size = n] \in SynonymObjects
         /\ \A s \in Seq(Nat) : /\ [m EXCEPT !.synonym = s] \in SynonymObjects
                                /\ [m EXCEPT !.turkish_meaning = s] \in SynonymObjects
                                /\ [m EXCEPT !.sample_sentences = s] \in SynonymObjects
                                /\ [m EXCEPT !.unknown = s] \in SynonymObjects
BY DEF SynonymObjects

\* Reading a field gives a Synonym.
LEMMA SynonymReadTyped ==
  ASSUME NEW r \in SynonymReadings, NEW f \in Fields
  PROVE  SynonymRead(r, f) \in SynonymReadings
<1>1. r.ok \in BOOLEAN /\ r.msg \in SynonymObjects /\ r = [ok |-> r.ok, msg |-> r.msg]
  BY DEF SynonymReadings
<1>2. CASE ~r.ok \/ f = Broken
  <2>1. SynonymRead(r, f) = [r EXCEPT !.ok = FALSE]
    BY <1>2, SynonymReadCases
  <2> QED BY <2>1 DEF SynonymReadings
<1>3. CASE r.ok /\ f # Broken
  <2>1. f \in GoodFields /\ f.tag \in Nat /\ f.value \in Seq(Nat) /\ FieldBytes(f) \in Seq(Nat)
    <3>1. f \in GoodFields
      BY <1>3 DEF Fields
    <3> QED BY <3>1, FieldBytesTyped DEF GoodFields
  <2>2. CASE f.tag \notin SynonymTags
    <3> DEFINE u == r.msg.unknown \o FieldBytes(f)
    <3>1. SynonymRead(r, f) = [r EXCEPT !.msg.unknown = u]
      BY <1>3, <2>2, SynonymReadCases DEF ReadUnknown
    <3>2. u \in Seq(Nat)
      BY <1>1, <2>1 DEF SynonymObjects
    <3> HIDE DEF u
    <3>3. [r.msg EXCEPT !.unknown = u] \in SynonymObjects
      BY <1>1, <3>2, SynonymEdited
    <3> QED BY <1>1, <3>1, <3>3 DEF SynonymReadings
  <2>3. CASE f.tag = 8
    <3>1. f.value[1] \in Nat
      <4>1. ~(8 % 8 = 2)
        OBVIOUS
      <4>2. Len(f.value) = 1
        BY <2>1, <2>3, <4>1 DEF GoodFields
      <4> QED BY <2>1, <4>2
    <3>2. SynonymRead(r, f) = [r EXCEPT !.msg.id = f.value[1]]
      BY <1>3, <2>3, SynonymReadCases
    <3> DEFINE n == f.value[1]
    <3> HIDE DEF n
    <3>3. [r.msg EXCEPT !.id = n] \in SynonymObjects
      BY <1>1, <3>1, SynonymEdited DEF n
    <3>4. SynonymRead(r, f) = [r EXCEPT !.msg.id = n]
      BY <3>2 DEF n
    <3> QED BY <1>1, <3>3, <3>4 DEF SynonymReadings
  <2>4. ASSUME NEW name, [r.msg EXCEPT ![name] = f.value] \in SynonymObjects
        PROVE  ReadString(r, name, f) \in SynonymReadings
    BY <1>1, <2>4 DEF SynonymReadings, ReadString, IsUtf8
  <2>5. /\ [r.msg EXCEPT !["synonym"] = f.value] \in SynonymObjects
        /\ [r.msg EXCEPT !["turkish_meaning"] = f.value] \in SynonymObjects
        /\ [r.msg EXCEPT !["sample_sentences"] = f.value] \in SynonymObjects
    BY <1>1, <2>1, SynonymEdited
  <2>6. CASE f.tag \in {18, 26, 34}
    BY <1>3, <2>4, <2>5, <2>6, SynonymReadCases
  <2> QED BY <2>2, <2>3, <2>6 DEF SynonymTags
<1> QED BY <1>1, <1>2, <1>3

SynonymStep == [x \in SynonymReadings \X Fields |-> SynonymRead(x[1], x[2])]
SynonymFold(r, fs) == Folded(SynonymReadings, SynonymStep, r, fs)

\* Reading fields is a fold.
LEMMA SynonymFolds ==
  ASSUME NEW r \in SynonymReadings
  PROVE  IsFold(SynonymReadings, Fields, r, SynonymStep)
<1>1. ASSUME NEW x \in SynonymReadings \X Fields
      PROVE  SynonymRead(x[1], x[2]) \in SynonymReadings
  BY SynonymReadTyped
<1> QED BY <1>1 DEF IsFold, SynonymStep

\* It is the fold SynonymReadAll makes.
LEMMA SynonymFoldLeft ==
  ASSUME NEW r \in SynonymReadings, NEW s \in Seq(Fields)
  PROVE  FoldLeft(SynonymRead, r, s) = SynonymFold(r, s)
<1> DEFINE Is(it) == it = [d \in SUBSET DOMAIN s |->
                             IF d = {} THEN r ELSE SynonymRead(it[d \ {Max(d)}], s[Max(d)])]
           it == CHOOSE x : Is(x)
<1>1. FoldLeft(SynonymRead, r, s) = it[DOMAIN s]
  BY DEF FoldLeft, MapThenFoldSet
<1>2. \A a \in SynonymReadings, f \in Fields : SynonymStep[<<a, f>>] = SynonymRead(a, f)
  BY DEF SynonymStep
<1>3. \A d \in SUBSET DOMAIN s : d # {} => s[Max(d)] \in Fields /\ d \ {Max(d)} \in SUBSET DOMAIN s
  BY MaxElement
<1>4. IsFold(SynonymReadings, Fields, r, SynonymStep)
  BY SynonymFolds
<1>5. PICK parts : PartsIn(SynonymReadings, SynonymStep, r, s, parts)
  BY <1>4, PartsOf
<1>6. Is(parts)
  <2>1. parts = [d \in SUBSET DOMAIN s |-> parts[d]]
    BY <1>5 DEF PartsIn
  <2>2. \A d \in SUBSET DOMAIN s : d # {} => parts[d \ {Max(d)}] \in SynonymReadings
    BY <1>3, <1>5 DEF PartsIn
  <2>3. \A d \in SUBSET DOMAIN s :
          parts[d] = IF d = {} THEN r ELSE SynonymRead(parts[d \ {Max(d)}], s[Max(d)])
    BY <1>2, <1>3, <1>5, <2>2, Zenon DEF PartsIn, FoldsParts
  <2> QED BY <2>1, <2>3, Zenon
<1>7. Is(it)
  <2> HIDE DEF Is
  <2> QED BY <1>6, Zenon
<1> HIDE DEF it
<1>8. \A d \in SUBSET DOMAIN s :
        it[d] = IF d = {} THEN r ELSE SynonymRead(it[d \ {Max(d)}], s[Max(d)])
  BY <1>7, Zenon
<1> HIDE DEF Is
<1>9. TakesSteps(SynonymReadings, SynonymStep, r, s, it)
  <2>1. {} \in SUBSET DOMAIN s
    OBVIOUS
  <2> QED BY <1>2, <1>3, <1>8, <2>1, Zenon DEF TakesSteps
<1> QED BY <1>1, <1>4, <1>9, FoldedParts DEF SynonymFold

\* Reading fields gives a Synonym.
LEMMA SynonymFoldTyped ==
  ASSUME NEW r \in SynonymReadings, NEW s \in Seq(Fields)
  PROVE  SynonymFold(r, s) \in SynonymReadings
<1>1. IsFold(SynonymReadings, Fields, r, SynonymStep)
  BY SynonymFolds
<1> QED BY <1>1, FoldedIn DEF SynonymFold

\* Reading no field changes nothing.
LEMMA SynonymFoldNone ==
  ASSUME NEW r \in SynonymReadings
  PROVE  SynonymFold(r, <<>>) = r
<1>1. IsFold(SynonymReadings, Fields, r, SynonymStep)
  BY SynonymFolds
<1> QED BY <1>1, FoldedEmpty DEF SynonymFold

\* Reading one field more.
LEMMA SynonymFoldAppend ==
  ASSUME NEW r \in SynonymReadings, NEW s \in Seq(Fields), NEW f \in Fields
  PROVE  SynonymFold(r, Append(s, f)) = SynonymRead(SynonymFold(r, s), f)
<1>1. IsFold(SynonymReadings, Fields, r, SynonymStep)
  BY SynonymFolds
<1> DEFINE q == SynonymFold(r, s)
<1>2. SynonymFold(r, Append(s, f)) = SynonymStep[<<q, f>>]
  BY <1>1, FoldedAppend DEF SynonymFold
<1>3. q \in SynonymReadings
  BY SynonymFoldTyped
<1> HIDE DEF q
<1>4. SynonymStep[<<q, f>>] = SynonymRead(q, f)
  BY <1>3 DEF SynonymStep
<1> QED BY <1>2, <1>4 DEF q

\* Reading one field.
LEMMA SynonymFoldOne ==
  ASSUME NEW r \in SynonymReadings, NEW f \in Fields
  PROVE  SynonymFold(r, <<f>>) = SynonymRead(r, f)
<1>1. <<>> \in Seq(Fields) /\ <<f>> = Append(<<>>, f)
  OBVIOUS
<1> QED BY <1>1, SynonymFoldAppend, SynonymFoldNone

\* Reading some fields, and others behind them.
LEMMA SynonymFoldConcat ==
  ASSUME NEW r \in SynonymReadings, NEW s \in Seq(Fields), NEW t \in Seq(Fields)
  PROVE  SynonymFold(r, s \o t) = SynonymFold(SynonymFold(r, s), t)
<1>1. IsFold(SynonymReadings, Fields, r, SynonymStep)
  BY SynonymFolds
<1> QED BY <1>1, FoldedConcat DEF SynonymFold

\* What went wrong stays wrong.
LEMMA SynonymFoldFails ==
  ASSUME NEW r \in SynonymReadings, ~r.ok, NEW s \in Seq(Fields)
  PROVE  ~SynonymFold(r, s).ok
<1> DEFINE S == {t \in Seq(Fields) : ~SynonymFold(r, t).ok}
<1>1. <<>> \in S
  BY SynonymFoldNone
<1>2. ASSUME NEW t \in Seq(Fields), NEW f \in Fields, t \in S PROVE Append(t, f) \in S
  <2> DEFINE q == SynonymFold(r, t)
  <2>1. q \in SynonymReadings /\ ~q.ok
    BY <1>2, SynonymFoldTyped
  <2>2. SynonymFold(r, Append(t, f)) = SynonymRead(q, f)
    BY SynonymFoldAppend
  <2> HIDE DEF q
  <2>3. SynonymRead(q, f) = [q EXCEPT !.ok = FALSE]
    BY <2>1, SynonymReadCases
  <2>4. ~SynonymRead(q, f).ok
    BY <2>1, <2>3 DEF SynonymReadings
  <2>5. Append(t, f) \in Seq(Fields)
    OBVIOUS
  <2> QED BY <2>2, <2>4, <2>5
<1> HIDE DEF S
<1>3. s \in S
  BY <1>1, <1>2, SeqInduction
<1> QED BY <1>3 DEF S

\* Fields that are unknown where these tags are known, and their bytes.
UnknownFields(tags) == {f \in GoodFields : f.tag \notin tags}
UnknownBytes(tags) == {BytesOf(fs) : fs \in Seq(UnknownFields(tags))}

\* Unknown fields are fields.
LEMMA UnknownAreGood ==
  ASSUME NEW tags, NEW fs \in Seq(UnknownFields(tags))
  PROVE  fs \in Seq(GoodFields) /\ fs \in Seq(Fields)
BY DEF UnknownFields, Fields

\* One field of the message read into is set.
LEMMA FieldSet ==
  ASSUME NEW T, NEW r \in [ok : BOOLEAN, msg : T], NEW u
  PROVE  /\ [r EXCEPT !.msg.unknown = u] = [ok |-> r.ok, msg |-> [r.msg EXCEPT !.unknown = u]]
         /\ [r EXCEPT !.msg.id = u] = [ok |-> r.ok, msg |-> [r.msg EXCEPT !.id = u]]
<1>1. \A x : [r EXCEPT !.msg = x] = [ok |-> r.ok, msg |-> x]
  OBVIOUS
<1>2. /\ [r EXCEPT !.msg.unknown = u] = [r EXCEPT !.msg = [r.msg EXCEPT !.unknown = u]]
      /\ [r EXCEPT !.msg.id = u] = [r EXCEPT !.msg = [r.msg EXCEPT !.id = u]]
  BY Zenon
<1> QED BY <1>1, <1>2, Zenon

\* The last of two values set counts.
LEMMA SynonymUnknownTwice ==
  ASSUME NEW m \in SynonymObjects, NEW u, NEW v
  PROVE  [[m EXCEPT !.unknown = u] EXCEPT !.unknown = v] = [m EXCEPT !.unknown = v]
BY DEF SynonymObjects

\* Unknown fields are kept as they are, in their order.
LEMMA SynonymFoldUnknown ==
  ASSUME NEW r \in SynonymReadings, r.ok, NEW s \in Seq(UnknownFields(SynonymTags))
  PROVE  SynonymFold(r, s) = [r EXCEPT !.msg.unknown = @ \o BytesOf(s)]
<1> DEFINE Good(t) == SynonymFold(r, t) = [r EXCEPT !.msg.unknown = r.msg.unknown \o BytesOf(t)]
           S == {t \in Seq(UnknownFields(SynonymTags)) : Good(t)}
           m == r.msg
<1>1. r = [ok |-> TRUE, msg |-> m] /\ m \in SynonymObjects /\ m.unknown \in Seq(Nat)
  BY DEF SynonymReadings, SynonymObjects
<1>2. <<>> \in S
  <2>1. m.unknown \o BytesOf(<<>>) = m.unknown
    BY <1>1, BytesEmpty
  <2>2. [m EXCEPT !.unknown = m.unknown] = m
    BY <1>1 DEF SynonymObjects
  <2>3. [r EXCEPT !.msg.unknown = m.unknown] = r
    BY <1>1, <2>2
  <2>4. Good(<<>>)
    BY <2>1, <2>3, SynonymFoldNone
  <2> HIDE DEF Good
  <2> QED BY <2>4
<1>3. ASSUME NEW t \in Seq(UnknownFields(SynonymTags)), NEW f \in UnknownFields(SynonymTags), t \in S
      PROVE  Append(t, f) \in S
  <2>1. Good(t)
    <3> HIDE DEF Good
    <3> QED BY <1>3
  <2>2. t \in Seq(GoodFields) /\ t \in Seq(Fields)
    BY UnknownAreGood
  <2>3. f \in GoodFields /\ f \in Fields /\ f.tag \notin SynonymTags /\ f # Broken
    BY BrokenIsNotGood DEF UnknownFields, Fields
  <2> DEFINE q == SynonymFold(r, t)
             b == BytesOf(t)
             c == FieldBytes(f)
  <2>4. SynonymFold(r, Append(t, f)) = SynonymRead(q, f)
    BY <2>2, <2>3, SynonymFoldAppend
  <2>5. q = [r EXCEPT !.msg.unknown = m.unknown \o b]
    BY <2>1
  <2>6. BytesOf(Append(t, f)) = b \o c /\ b \in Seq(Nat) /\ c \in Seq(Nat)
    BY <2>2, <2>3, BytesAppend, BytesTyped, FieldBytesTyped
  <2>7. c = FieldBytes(f)
    OBVIOUS
  <2>8. q \in SynonymReadings
    BY <2>2, SynonymFoldTyped
  <2> HIDE DEF q, b, c
  <2> DEFINE u == m.unknown \o b
  <2>9. q = [ok |-> TRUE, msg |-> [m EXCEPT !.unknown = u]] /\ q.ok
    BY <1>1, <2>5
  <2>10. SynonymRead(q, f) = ReadUnknown(q, f)
    BY <2>3, <2>9, <2>8, SynonymReadCases
  <2>11. SynonymRead(q, f) = [q EXCEPT !.msg.unknown = q.msg.unknown \o c]
    BY <2>7, <2>10, Zenon DEF ReadUnknown
  <2>12. q.msg.unknown = u
    BY <1>1, <2>9 DEF SynonymObjects
  <2>13. u \o c = m.unknown \o (b \o c)
    BY <1>1, <2>6, BytesAssociate, Zenon
  <2> HIDE DEF u
  <2> DEFINE v == u \o c
             n == [m EXCEPT !.unknown = u]
  <2>14. SynonymRead(q, f) = [ok |-> TRUE, msg |-> [m EXCEPT !.unknown = v]]
    <3>1. [n EXCEPT !.unknown = v] = [m EXCEPT !.unknown = v]
      BY <1>1, SynonymUnknownTwice
    <3>2. SynonymRead(q, f) = [q EXCEPT !.msg.unknown = v]
      BY <2>11, <2>12
    <3> HIDE DEF n, v
    <3>3. [q EXCEPT !.msg.unknown = v] = [ok |-> q.ok, msg |-> [q.msg EXCEPT !.unknown = v]]
      BY <2>8, FieldSet DEF SynonymReadings
    <3>4. q.ok = TRUE /\ q.msg = n
      BY <2>9 DEF n
    <3> QED BY <3>1, <3>2, <3>3, <3>4, Zenon
  <2>15. [r EXCEPT !.msg.unknown = m.unknown \o BytesOf(Append(t, f))]
           = [ok |-> TRUE, msg |-> [m EXCEPT !.unknown = v]]
    <3>1. m.unknown \o BytesOf(Append(t, f)) = v
      BY <2>6, <2>13
    <3> HIDE DEF v
    <3>2. [r EXCEPT !.msg.unknown = v] = [ok |-> r.ok, msg |-> [r.msg EXCEPT !.unknown = v]]
      BY FieldSet DEF SynonymReadings
    <3>3. r.ok = TRUE
      BY <1>1
    <3> QED BY <3>1, <3>2, <3>3, Zenon
  <2>16. Good(Append(t, f))
    BY <2>4, <2>14, <2>15
  <2>17. Append(t, f) \in Seq(UnknownFields(SynonymTags))
    OBVIOUS
  <2> HIDE DEF Good
  <2> QED BY <2>16, <2>17
<1> HIDE DEF S
<1>4. s \in S
  BY <1>2, <1>3, SeqInduction
<1>5. Good(s)
  <2> HIDE DEF Good
  <2> QED BY <1>4 DEF S
<1> QED BY <1>5

\* A string field that is left out when the string is empty; the number.
Optional(tag, s) == IF s = <<>> THEN <<>> ELSE <<[tag |-> tag, value |-> s]>>
IdField(n) == IF n = 0 THEN <<>> ELSE <<[tag |-> 8, value |-> <<n>>]>>

\* The bytes of one field.
LEMMA BytesOne ==
  ASSUME NEW f \in GoodFields
  PROVE  BytesOf(<<f>>) = FieldBytes(f)
<1>1. <<>> \in Seq(GoodFields) /\ <<f>> = Append(<<>>, f)
  OBVIOUS
<1> DEFINE c == FieldBytes(f)
<1>2. c \in Seq(Nat)
  BY FieldBytesTyped
<1>3. BytesOf(Append(<<>>, f)) = BytesOf(<<>>) \o c
  BY <1>1, BytesAppend
<1> HIDE DEF c
<1>4. <<>> \o c = c
  BY <1>2
<1> QED BY <1>1, <1>3, <1>4, BytesEmpty DEF c

\* A string that is not empty is one field.
LEMMA OptionalIs ==
  ASSUME NEW tag \in Nat, tag % 8 = 2, NEW s \in Seq(Nat)
  PROVE  Optional(tag, s) \in Seq(GoodFields) /\ BytesOf(Optional(tag, s)) = StringField(tag, s)
<1>1. CASE s = <<>>
  <2>1. Optional(tag, s) = <<>> /\ StringField(tag, s) = <<>>
    BY <1>1, Zenon DEF Optional, StringField
  <2> QED BY <2>1, BytesEmpty
<1>2. CASE s # <<>>
  <2> DEFINE f == [tag |-> tag, value |-> s]
  <2>1. f \in GoodFields /\ f.tag = tag /\ f.value = s
    BY DEF GoodFields
  <2>2. ~(tag % 8 = 0)
    OBVIOUS
  <2>3. FieldBytes(f) = <<tag, Len(s)>> \o s
    BY <2>1, <2>2, Zenon DEF FieldBytes
  <2>4. Optional(tag, s) = <<f>> /\ StringField(tag, s) = <<tag, Len(s)>> \o s
    BY <1>2, Zenon DEF Optional, StringField
  <2> HIDE DEF f
  <2>5. <<f>> \in Seq(GoodFields)
    BY <2>1
  <2> QED BY <2>1, <2>3, <2>4, <2>5, BytesOne
<1> QED BY <1>1, <1>2

\* Two bytes put together.
LEMMA TwoBytes ==
  ASSUME NEW i \in Nat, NEW n \in Nat
  PROVE  <<i>> \o <<n>> = <<i, n>>
<1> DEFINE a == <<i>>
           b == <<n>>
           x == a \o b
           y == <<i, n>>
<1>1. a \in Seq(Nat) /\ b \in Seq(Nat) /\ Len(a) = 1 /\ Len(b) = 1 /\ a[1] = i /\ b[1] = n
  OBVIOUS
<1>2. y \in Seq(Nat) /\ Len(y) = 2 /\ y[1] = i /\ y[2] = n
  OBVIOUS
<1> HIDE DEF a, b, y
<1>3. /\ x \in Seq(Nat) /\ Len(x) = Len(a) + Len(b)
      /\ \A k \in 1..Len(a) : x[k] = a[k]
      /\ \A k \in 1..Len(b) : x[Len(a) + k] = b[k]
  BY <1>1, Concat
<1> HIDE DEF x
<1>4. 1 \in 1..1 /\ 1 + 1 = 2
  OBVIOUS
<1>5. Len(x) = 2 /\ x[1] = i /\ x[2] = n
  BY <1>1, <1>3, <1>4, Zenon
<1>6. \A k \in 1..2 : x[k] = y[k]
  BY <1>2, <1>5
<1>7. x = y
  BY <1>2, <1>3, <1>5, <1>6, SeqEqual
<1> QED BY <1>7 DEF x, y, a, b

\* A number that is not 0 is one field.
LEMMA IdFieldIs ==
  ASSUME NEW n \in Nat
  PROVE  IdField(n) \in Seq(GoodFields) /\ BytesOf(IdField(n)) = IF n = 0 THEN <<>> ELSE <<8, n>>
<1>1. CASE n = 0
  <2>1. IdField(n) = <<>>
    BY <1>1, Zenon DEF IdField
  <2>2. <<>> \in Seq(GoodFields)
    OBVIOUS
  <2> QED BY <1>1, <2>1, <2>2, BytesEmpty, Zenon
<1>2. CASE n # 0
  <2> DEFINE f == [tag |-> 8, value |-> <<n>>]
  <2>1. f \in GoodFields /\ f.tag = 8 /\ f.value = <<n>>
    BY DEF GoodFields
  <2>2. 8 % 8 = 0
    OBVIOUS
  <2>3. <<8>> \o <<n>> = <<8, n>>
    BY TwoBytes
  <2>4. FieldBytes(f) = <<8, n>>
    BY <2>1, <2>2, <2>3, Zenon DEF FieldBytes
  <2>5. IdField(n) = <<f>>
    BY <1>2, Zenon DEF IdField
  <2> HIDE DEF f
  <2>6. <<f>> \in Seq(GoodFields)
    BY <2>1
  <2> QED BY <1>2, <2>1, <2>4, <2>5, <2>6, BytesOne
<1> QED BY <1>1, <1>2

\* Reading these fields into m gives n, if these strings are UTF-8.
AllUtf8(strings) == \A s \in strings : IsUtf8(s)
SynonymReads(m, fs, strings, n) ==
  /\ AllUtf8(strings) => SynonymFold(Reading(m), fs) = Reading(n)
  /\ ~AllUtf8(strings) => ~SynonymFold(Reading(m), fs).ok

\* Strings of two sets are UTF-8 if those of each are.
LEMMA Utf8Both ==
  ASSUME NEW S, NEW T
  PROVE  AllUtf8(S \cup T) <=> AllUtf8(S) /\ AllUtf8(T)
BY DEF AllUtf8

\* No string is UTF-8.
LEMMA Utf8None == AllUtf8({})
BY DEF AllUtf8

\* One string.
LEMMA Utf8One ==
  ASSUME NEW s
  PROVE  AllUtf8({s}) <=> IsUtf8(s)
BY DEF AllUtf8

\* What reading starts with.
LEMMA SynonymReading ==
  ASSUME NEW m \in SynonymObjects
  PROVE  Reading(m) \in SynonymReadings /\ Reading(m).ok /\ Reading(m).msg = m
BY DEF Reading, SynonymReadings

\* Reading some fields, and others behind them.
LEMMA SynonymReadsBoth ==
  ASSUME NEW m \in SynonymObjects, NEW n \in SynonymObjects, NEW p \in SynonymObjects,
         NEW s \in Seq(Fields), NEW t \in Seq(Fields), NEW S, NEW T,
         SynonymReads(m, s, S, n), SynonymReads(n, t, T, p)
  PROVE  SynonymReads(m, s \o t, S \cup T, p)
<1> DEFINE q == SynonymFold(Reading(m), s)
<1>1. q \in SynonymReadings /\ SynonymFold(Reading(m), s \o t) = SynonymFold(q, t)
  BY SynonymReading, SynonymFoldTyped, SynonymFoldConcat
<1>2. ~q.ok => ~SynonymFold(q, t).ok
  BY <1>1, SynonymFoldFails
<1>3. (AllUtf8(S) => q = Reading(n)) /\ (~AllUtf8(S) => ~q.ok)
  BY Zenon DEF SynonymReads
<1>4. /\ AllUtf8(T) => SynonymFold(Reading(n), t) = Reading(p)
      /\ ~AllUtf8(T) => ~SynonymFold(Reading(n), t).ok
  BY Zenon DEF SynonymReads
<1> HIDE DEF q
<1> QED BY <1>1, <1>2, <1>3, <1>4, Utf8Both, Zenon DEF SynonymReads

\* Reading a string that may have been left out.
LEMMA SynonymReadsOptional ==
  ASSUME NEW m \in SynonymObjects, NEW s \in Seq(Nat), NEW tag, NEW name,
         <<tag, name>> \in {<<18, "synonym">>, <<26, "turkish_meaning">>, <<34, "sample_sentences">>}
  PROVE  SynonymReads(m, Optional(tag, s), {s}, [m EXCEPT ![name] = Merged(s, @)])
<1>1. CASE s = <<>>
  <2>1. Optional(tag, s) = <<>> /\ Merged(s, m[name]) = m[name]
    BY <1>1, Zenon DEF Optional, Merged
  <2>2. IsUtf8(s)
    BY <1>1 DEF IsUtf8
  <2>3. [m EXCEPT ![name] = m[name]] = m
    BY DEF SynonymObjects
  <2>4. SynonymFold(Reading(m), <<>>) = Reading(m)
    BY SynonymReading, SynonymFoldNone
  <2> QED BY <2>1, <2>2, <2>3, <2>4, Utf8One, Zenon DEF SynonymReads
<1>2. CASE s # <<>>
  <2> DEFINE f == [tag |-> tag, value |-> s]
  <2>1. f \in GoodFields /\ f \in Fields /\ f.tag = tag /\ f.value = s /\ f # Broken
    <3>1. tag \in Nat /\ tag % 8 = 2
      OBVIOUS
    <3>2. f \in GoodFields /\ f.tag = tag /\ f.value = s
      BY <3>1 DEF GoodFields
    <3> HIDE DEF f
    <3> QED BY <3>2, BrokenIsNotGood DEF Fields
  <2>2. Optional(tag, s) = <<f>> /\ Merged(s, m[name]) = s
    BY <1>2, Zenon DEF Optional, Merged
  <2> HIDE DEF f
  <2>3. SynonymFold(Reading(m), <<f>>) = SynonymRead(Reading(m), f)
    BY <2>1, SynonymReading, SynonymFoldOne
  <2>4. SynonymRead(Reading(m), f) = ReadString(Reading(m), name, f)
    BY <2>1, SynonymReading, SynonymReadCases
  <2>5. ReadString(Reading(m), name, f) = [ok |-> IsUtf8(s), msg |-> [m EXCEPT ![name] = s]]
    BY <2>1, SynonymReading, Zenon DEF ReadString
  <2>6. IsUtf8(s) \in BOOLEAN
    BY DEF IsUtf8
  <2> DEFINE n == [m EXCEPT ![name] = s]
             q == SynonymFold(Reading(m), Optional(tag, s))
  <2>7. q = [ok |-> IsUtf8(s), msg |-> n]
    BY <2>2, <2>3, <2>4, <2>5, Zenon
  <2>8. n = [m EXCEPT ![name] = Merged(s, @)]
    BY <2>2, Zenon
  <2> HIDE DEF n
  <2>9. IsUtf8(s) => q = Reading(n)
    BY <2>6, <2>7 DEF Reading
  <2>10. ~IsUtf8(s) => ~q.ok
    BY <2>7
  <2> QED BY <2>8, <2>9, <2>10, Utf8One, Zenon DEF SynonymReads, n
<1> QED BY <1>1, <1>2

\* Reading a number that may have been left out.
LEMMA SynonymReadsId ==
  ASSUME NEW m \in SynonymObjects, NEW i \in Nat
  PROVE  SynonymReads(m, IdField(i), {}, [m EXCEPT !.id = IF i # 0 THEN i ELSE @])
<1>1. CASE i = 0
  <2>1. IdField(i) = <<>>
    BY <1>1, Zenon DEF IdField
  <2>2. [m EXCEPT !.id = IF i # 0 THEN i ELSE m.id] = m
    BY <1>1 DEF SynonymObjects
  <2>3. SynonymFold(Reading(m), <<>>) = Reading(m)
    BY SynonymReading, SynonymFoldNone
  <2> QED BY <2>1, <2>2, <2>3, Utf8None, Zenon DEF SynonymReads
<1>2. CASE i # 0
  <2> DEFINE f == [tag |-> 8, value |-> <<i>>]
  <2>1. f \in GoodFields /\ f.tag = 8 /\ f.value = <<i>>
    BY DEF GoodFields
  <2>2. IdField(i) = <<f>>
    BY <1>2, Zenon DEF IdField
  <2> HIDE DEF f
  <2>3. f \in Fields /\ f # Broken /\ f.value[1] = i
    BY <2>1, BrokenIsNotGood DEF Fields
  <2>4. SynonymFold(Reading(m), <<f>>) = SynonymRead(Reading(m), f)
    BY <2>3, SynonymReading, SynonymFoldOne
  <2>5. SynonymRead(Reading(m), f) = [Reading(m) EXCEPT !.msg.id = f.value[1]]
    BY <2>1, <2>3, SynonymReading, SynonymReadCases
  <2> DEFINE n == [m EXCEPT !.id = i]
  <2>6. [Reading(m) EXCEPT !.msg.id = i] = Reading(n)
    <3> DEFINE r == Reading(m)
    <3>1. r \in SynonymReadings /\ r.ok = TRUE /\ r.msg = m
      BY SynonymReading DEF Reading
    <3> HIDE DEF r
    <3>2. [r EXCEPT !.msg.id = i] = [ok |-> r.ok, msg |-> [r.msg EXCEPT !.id = i]]
      BY <3>1, FieldSet DEF SynonymReadings
    <3> QED BY <3>1, <3>2, Zenon DEF r, Reading
  <2>7. n = [m EXCEPT !.id = IF i # 0 THEN i ELSE m.id]
    BY <1>2
  <2> HIDE DEF n
  <2>8. SynonymFold(Reading(m), IdField(i)) = Reading(n)
    BY <2>2, <2>3, <2>4, <2>5, <2>6, Zenon
  <2> QED BY <2>7, <2>8, Utf8None, Zenon DEF SynonymReads
<1> QED BY <1>1, <1>2

\* Reading unknown fields.
LEMMA SynonymReadsUnknown ==
  ASSUME NEW m \in SynonymObjects, NEW us \in Seq(UnknownFields(SynonymTags))
  PROVE  SynonymReads(m, us, {}, [m EXCEPT !.unknown = @ \o BytesOf(us)])
<1> DEFINE u == m.unknown \o BytesOf(us)
           r == Reading(m)
<1>1. r \in SynonymReadings /\ r.ok = TRUE /\ r.msg = m
  BY SynonymReading DEF Reading
<1> HIDE DEF r
<1>2. SynonymFold(r, us) = [r EXCEPT !.msg.unknown = @ \o BytesOf(us)]
  BY <1>1, SynonymFoldUnknown
<1>3. SynonymFold(r, us) = [r EXCEPT !.msg.unknown = u]
  BY <1>1, <1>2
<1> HIDE DEF u
<1>4. [r EXCEPT !.msg.unknown = u] = [ok |-> r.ok, msg |-> [r.msg EXCEPT !.unknown = u]]
  BY <1>1, FieldSet DEF SynonymReadings
<1>5. SynonymFold(r, us) = Reading([m EXCEPT !.unknown = u])
  BY <1>1, <1>3, <1>4, Zenon DEF Reading
<1> QED BY <1>5, Utf8None, Zenon DEF SynonymReads, r, u

\* The fields a Synonym is written as, the unknown ones at the end.
SynonymFields(m, us) ==
  (((IdField(m.id) \o Optional(18, m.synonym)) \o Optional(26, m.turkish_meaning))
    \o Optional(34, m.sample_sentences)) \o us

\* Fields put together are fields.
LEMMA GoodConcat ==
  ASSUME NEW s \in Seq(GoodFields), NEW t \in Seq(GoodFields)
  PROVE  s \o t \in Seq(GoodFields) /\ s \in Seq(Fields)
BY DEF Fields

\* The types of a Synonym's fields.
LEMMA SynonymTyped ==
  ASSUME NEW m \in SynonymObjects
  PROVE  /\ m.id \in Nat /\ m.synonym \in Seq(Nat) /\ m.turkish_meaning \in Seq(Nat)
         /\ m.sample_sentences \in Seq(Nat) /\ m.unknown \in Seq(Nat) /\ m.cached_size \in Nat
BY DEF SynonymObjects

\* Synonyms of the same fields are the same.
LEMMA SynonymEqual ==
  ASSUME NEW m \in SynonymObjects, NEW n \in SynonymObjects,
         m.id = n.id, m.synonym = n.synonym, m.turkish_meaning = n.turkish_meaning,
         m.sample_sentences = n.sample_sentences, m.unknown = n.unknown,
         m.cached_size = n.cached_size
  PROVE  m = n
<1>1. \A o \in SynonymObjects :
        o = [id |-> o.id, synonym |-> o.synonym, turkish_meaning |-> o.turkish_meaning,
             sample_sentences |-> o.sample_sentences, unknown |-> o.unknown,
             cached_size |-> o.cached_size]
  BY DEF SynonymObjects
<1> QED BY <1>1, Zenon

\* The string fields of the classes.
LEMMA OptionalGood ==
  ASSUME NEW s \in Seq(Nat)
  PROVE  \A tag \in {10, 18, 26, 34, 42} :
           /\ Optional(tag, s) \in Seq(GoodFields)
           /\ BytesOf(Optional(tag, s)) = StringField(tag, s)
<1> SUFFICES ASSUME NEW tag \in {10, 18, 26, 34, 42}
             PROVE  /\ Optional(tag, s) \in Seq(GoodFields)
                    /\ BytesOf(Optional(tag, s)) = StringField(tag, s)
  OBVIOUS
<1>1. tag \in Nat /\ tag % 8 = 2
  OBVIOUS
<1> QED BY <1>1, OptionalIs

\* A Synonym is written as the bytes of its fields.
LEMMA SynonymWriteIs ==
  ASSUME NEW m \in SynonymObjects, NEW us \in Seq(GoodFields), m.unknown = BytesOf(us)
  PROVE  /\ SynonymFields(m, us) \in Seq(GoodFields)
         /\ SynonymWrite(m) = BytesOf(SynonymFields(m, us))
<1> DEFINE a == IdField(m.id)
           b == Optional(18, m.synonym)
           c == Optional(26, m.turkish_meaning)
           d == Optional(34, m.sample_sentences)
<1>1. /\ a \in Seq(GoodFields) /\ b \in Seq(GoodFields)
      /\ c \in Seq(GoodFields) /\ d \in Seq(GoodFields)
  BY SynonymTyped, IdFieldIs, OptionalGood
<1>2. /\ BytesOf(a) = IF m.id = 0 THEN <<>> ELSE <<8, m.id>>
      /\ BytesOf(b) = StringField(18, m.synonym)
      /\ BytesOf(c) = StringField(26, m.turkish_meaning)
      /\ BytesOf(d) = StringField(34, m.sample_sentences)
  BY SynonymTyped, IdFieldIs, OptionalGood
<1>3. SynonymFields(m, us) = (((a \o b) \o c) \o d) \o us
  BY DEF SynonymFields
<1>4. SynonymWrite(m)
        = (((BytesOf(a) \o BytesOf(b)) \o BytesOf(c)) \o BytesOf(d)) \o BytesOf(us)
  BY <1>2, Zenon DEF SynonymWrite
<1> HIDE DEF a, b, c, d
<1>5. a \o b \in Seq(GoodFields) /\ BytesOf(a \o b) = BytesOf(a) \o BytesOf(b)
  BY <1>1, GoodConcat, BytesConcat
<1> DEFINE e == a \o b
<1> HIDE DEF e
<1>6. e \o c \in Seq(GoodFields) /\ BytesOf(e \o c) = BytesOf(e) \o BytesOf(c)
  BY <1>1, <1>5, GoodConcat, BytesConcat DEF e
<1> DEFINE f == e \o c
<1> HIDE DEF f
<1>7. f \o d \in Seq(GoodFields) /\ BytesOf(f \o d) = BytesOf(f) \o BytesOf(d)
  BY <1>1, <1>6, GoodConcat, BytesConcat DEF f
<1> DEFINE g == f \o d
<1> HIDE DEF g
<1>8. g \o us \in Seq(GoodFields) /\ BytesOf(g \o us) = BytesOf(g) \o BytesOf(us)
  BY <1>7, GoodConcat, BytesConcat DEF g
<1> QED BY <1>3, <1>4, <1>5, <1>6, <1>7, <1>8, Zenon DEF e, f, g

\* A merged string is a string.
LEMMA MergedTyped ==
  ASSUME NEW s \in Seq(Nat), NEW t \in Seq(Nat)
  PROVE  Merged(s, t) \in Seq(Nat)
BY DEF Merged

\* Two strings put together are a string.
LEMMA ConcatTyped ==
  ASSUME NEW s \in Seq(Nat), NEW t \in Seq(Nat)
  PROVE  s \o t \in Seq(Nat)
OBVIOUS

\* The fields of a merged Synonym.
LEMMA SynonymMergeIs ==
  ASSUME NEW m \in SynonymObjects, NEW x \in SynonymObjects
  PROVE  /\ SynonymMerge(m, x) \in SynonymObjects
         /\ SynonymMerge(m, x).id = IF x.id # 0 THEN x.id ELSE m.id
         /\ SynonymMerge(m, x).synonym = Merged(x.synonym, m.synonym)
         /\ SynonymMerge(m, x).turkish_meaning = Merged(x.turkish_meaning, m.turkish_meaning)
         /\ SynonymMerge(m, x).sample_sentences = Merged(x.sample_sentences, m.sample_sentences)
         /\ SynonymMerge(m, x).unknown = m.unknown \o x.unknown
         /\ SynonymMerge(m, x).cached_size = m.cached_size
<1> DEFINE s == Merged(x.synonym, m.synonym)
           t == Merged(x.turkish_meaning, m.turkish_meaning)
           u == Merged(x.sample_sentences, m.sample_sentences)
           i == IF x.id # 0 THEN x.id ELSE m.id
           v == m.unknown \o x.unknown
<1>1. s \in Seq(Nat) /\ t \in Seq(Nat) /\ u \in Seq(Nat) /\ v \in Seq(Nat) /\ i \in Nat
  BY SynonymTyped, MergedTyped, ConcatTyped
<1>2. SynonymMerge(m, x) = [m EXCEPT !.synonym = s, !.turkish_meaning = t,
                                     !.sample_sentences = u, !.id = i, !.unknown = v]
  BY DEF SynonymMerge
<1> HIDE DEF s, t, u, v, i
<1>3. SynonymMerge(m, x)
        = [id |-> i, synonym |-> s, turkish_meaning |-> t, sample_sentences |-> u,
           unknown |-> v, cached_size |-> m.cached_size]
  BY <1>2 DEF SynonymObjects
<1>4. m.cached_size \in Nat
  BY SynonymTyped
<1>5. SynonymMerge(m, x) \in SynonymObjects
  BY <1>1, <1>3, <1>4 DEF SynonymObjects
<1> DEFINE n == SynonymMerge(m, x)
<1>6. /\ n.id = i /\ n.synonym = s /\ n.turkish_meaning = t /\ n.sample_sentences = u
      /\ n.unknown = v /\ n.cached_size = m.cached_size
  BY <1>3
<1> QED BY <1>5, <1>6, Zenon DEF s, t, u, v, i

\* Reading the strings of a Synonym.
LEMMA SynonymReadsStrings ==
  ASSUME NEW m \in SynonymObjects, NEW s \in Seq(Nat)
  PROVE  /\ [m EXCEPT !.synonym = Merged(s, @)] \in SynonymObjects
         /\ [m EXCEPT !.turkish_meaning = Merged(s, @)] \in SynonymObjects
         /\ [m EXCEPT !.sample_sentences = Merged(s, @)] \in SynonymObjects
         /\ SynonymReads(m, Optional(18, s), {s}, [m EXCEPT !.synonym = Merged(s, @)])
         /\ SynonymReads(m, Optional(26, s), {s}, [m EXCEPT !.turkish_meaning = Merged(s, @)])
         /\ SynonymReads(m, Optional(34, s), {s}, [m EXCEPT !.sample_sentences = Merged(s, @)])
<1>1. /\ Merged(s, m.synonym) \in Seq(Nat)
      /\ Merged(s, m.turkish_meaning) \in Seq(Nat)
      /\ Merged(s, m.sample_sentences) \in Seq(Nat)
  BY SynonymTyped, MergedTyped
<1>2. /\ [m EXCEPT !.synonym = Merged(s, @)] \in SynonymObjects
      /\ [m EXCEPT !.turkish_meaning = Merged(s, @)] \in SynonymObjects
      /\ [m EXCEPT !.sample_sentences = Merged(s, @)] \in SynonymObjects
  BY <1>1, SynonymEdited
<1> DEFINE Names == {<<18, "synonym">>, <<26, "turkish_meaning">>, <<34, "sample_sentences">>}
<1>3. /\ <<18, "synonym">> \in Names /\ <<26, "turkish_meaning">> \in Names
      /\ <<34, "sample_sentences">> \in Names
  OBVIOUS
<1> DEFINE P(tag, name) == SynonymReads(m, Optional(tag, s), {s}, [m EXCEPT ![name] = Merged(s, @)])
<1>4. \A tag, name : <<tag, name>> \in Names => P(tag, name)
  BY SynonymReadsOptional
<1> HIDE DEF P, Names
<1>5. P(18, "synonym") /\ P(26, "turkish_meaning") /\ P(34, "sample_sentences")
  BY <1>3, <1>4, Zenon
<1> QED BY <1>2, <1>5 DEF P

\* What is read from the bytes of x is what merging x gives, if x is UTF-8.
LEMMA SynonymReadsWritten ==
  ASSUME NEW m \in SynonymObjects, NEW x \in SynonymObjects,
         x.unknown \in UnknownBytes(SynonymTags)
  PROVE  /\ SynonymIsUtf8(x) => SynonymReadAll(m, SynonymWrite(x)) = Reading(SynonymMerge(m, x))
         /\ ~SynonymIsUtf8(x) => ~SynonymReadAll(m, SynonymWrite(x)).ok
<1>1. PICK us \in Seq(UnknownFields(SynonymTags)) : x.unknown = BytesOf(us)
  BY DEF UnknownBytes
<1>2. us \in Seq(GoodFields) /\ us \in Seq(Fields)
  BY UnknownAreGood
<1>3. SynonymFields(x, us) \in Seq(GoodFields) /\ SynonymWrite(x) = BytesOf(SynonymFields(x, us))
  BY <1>1, <1>2, SynonymWriteIs
<1>4. SynonymReadAll(m, SynonymWrite(x)) = SynonymFold(Reading(m), SynonymFields(x, us))
  <2>1. FieldsIn(SynonymWrite(x)) = SynonymFields(x, us)
    BY <1>3, FieldsOfBytes
  <2>2. SynonymFields(x, us) \in Seq(Fields)
    BY <1>3, GoodConcat
  <2> QED BY <2>1, <2>2, SynonymReading, SynonymFoldLeft DEF SynonymReadAll
<1> DEFINE a == IdField(x.id)
           b == Optional(18, x.synonym)
           c == Optional(26, x.turkish_meaning)
           d == Optional(34, x.sample_sentences)
           n1 == [m EXCEPT !.id = IF x.id # 0 THEN x.id ELSE @]
           n2 == [n1 EXCEPT !.synonym = Merged(x.synonym, @)]
           n3 == [n2 EXCEPT !.turkish_meaning = Merged(x.turkish_meaning, @)]
           n4 == [n3 EXCEPT !.sample_sentences = Merged(x.sample_sentences, @)]
           n5 == [n4 EXCEPT !.unknown = @ \o BytesOf(us)]
           s == x.synonym
           t == x.turkish_meaning
           u == x.sample_sentences
<1>5. a \in Seq(Fields) /\ b \in Seq(Fields) /\ c \in Seq(Fields) /\ d \in Seq(Fields)
  BY SynonymTyped, IdFieldIs, OptionalGood, GoodConcat
<1>6. n1 \in SynonymObjects /\ SynonymReads(m, a, {}, n1)
  BY SynonymTyped, SynonymReadsId, SynonymEdited
<1> HIDE DEF n1
<1>7. n2 \in SynonymObjects /\ SynonymReads(n1, b, {s}, n2)
  BY <1>6, SynonymTyped, SynonymReadsStrings
<1> HIDE DEF n2
<1>8. n3 \in SynonymObjects /\ SynonymReads(n2, c, {t}, n3)
  BY <1>7, SynonymTyped, SynonymReadsStrings
<1> HIDE DEF n3
<1>9. n4 \in SynonymObjects /\ SynonymReads(n3, d, {u}, n4)
  BY <1>8, SynonymTyped, SynonymReadsStrings
<1> HIDE DEF n4
<1>10. n5 \in SynonymObjects /\ SynonymReads(n4, us, {}, n5)
  BY <1>1, <1>2, <1>9, SynonymTyped, SynonymReadsUnknown, SynonymEdited, ConcatTyped
<1> HIDE DEF a, b, c, d, n5, s, t, u
<1> DEFINE ab == a \o b
           abc == ab \o c
           abcd == abc \o d
<1>11. ab \in Seq(Fields) /\ SynonymReads(m, ab, {} \cup {s}, n2)
  BY <1>5, <1>6, <1>7, SynonymReadsBoth
<1> HIDE DEF ab
<1>12. abc \in Seq(Fields) /\ SynonymReads(m, abc, ({} \cup {s}) \cup {t}, n3)
  BY <1>5, <1>7, <1>8, <1>11, SynonymReadsBoth
<1> HIDE DEF abc
<1>13. abcd \in Seq(Fields) /\ SynonymReads(m, abcd, (({} \cup {s}) \cup {t}) \cup {u}, n4)
  BY <1>5, <1>8, <1>9, <1>12, SynonymReadsBoth
<1> HIDE DEF abcd
<1>14. SynonymReads(m, abcd \o us, ((({} \cup {s}) \cup {t}) \cup {u}) \cup {}, n5)
  BY <1>2, <1>9, <1>10, <1>13, SynonymReadsBoth
<1>15. abcd \o us = SynonymFields(x, us)
  BY Zenon DEF abcd, abc, ab, a, b, c, d, SynonymFields
<1>16. n5 = SynonymMerge(m, x)
  <2>1. /\ n1.id = (IF x.id # 0 THEN x.id ELSE m.id) /\ n1.synonym = m.synonym
        /\ n1.turkish_meaning = m.turkish_meaning /\ n1.sample_sentences = m.sample_sentences
        /\ n1.unknown = m.unknown /\ n1.cached_size = m.cached_size
    BY DEF n1, SynonymObjects
  <2>2. /\ n2.id = n1.id /\ n2.synonym = Merged(x.synonym, n1.synonym)
        /\ n2.turkish_meaning = n1.turkish_meaning
        /\ n2.sample_sentences = n1.sample_sentences
        /\ n2.unknown = n1.unknown /\ n2.cached_size = n1.cached_size
    BY <1>6 DEF n2, SynonymObjects
  <2>3. /\ n3.id = n2.id /\ n3.synonym = n2.synonym
        /\ n3.turkish_meaning = Merged(x.turkish_meaning, n2.turkish_meaning)
        /\ n3.sample_sentences = n2.sample_sentences
        /\ n3.unknown = n2.unknown /\ n3.cached_size = n2.cached_size
    BY <1>7 DEF n3, SynonymObjects
  <2>4. /\ n4.id = n3.id /\ n4.synonym = n3.synonym
        /\ n4.turkish_meaning = n3.turkish_meaning
        /\ n4.sample_sentences = Merged(x.sample_sentences, n3.sample_sentences)
        /\ n4.unknown = n3.unknown /\ n4.cached_size = n3.cached_size
    BY <1>8 DEF n4, SynonymObjects
  <2>5. /\ n5.id = n4.id /\ n5.synonym = n4.synonym
        /\ n5.turkish_meaning = n4.turkish_meaning
        /\ n5.sample_sentences = n4.sample_sentences
        /\ n5.unknown = n4.unknown \o x.unknown /\ n5.cached_size = n4.cached_size
    BY <1>1, <1>9 DEF n5, SynonymObjects
  <2> DEFINE n == SynonymMerge(m, x)
  <2>6. /\ n.id = (IF x.id # 0 THEN x.id ELSE m.id)
        /\ n.synonym = Merged(x.synonym, m.synonym)
        /\ n.turkish_meaning = Merged(x.turkish_meaning, m.turkish_meaning)
        /\ n.sample_sentences = Merged(x.sample_sentences, m.sample_sentences)
        /\ n.unknown = m.unknown \o x.unknown
        /\ n.cached_size = m.cached_size
    BY SynonymMergeIs, Zenon
  <2>7. n \in SynonymObjects
    BY SynonymMergeIs
  <2> HIDE DEF n
  <2>8. n5.id = n.id /\ n5.synonym = n.synonym /\ n5.turkish_meaning = n.turkish_meaning
    BY <2>1, <2>2, <2>3, <2>4, <2>5, <2>6
  <2>9. n5.sample_sentences = n.sample_sentences /\ n5.unknown = n.unknown
         /\ n5.cached_size = n.cached_size
    BY <2>1, <2>2, <2>3, <2>4, <2>5, <2>6
  <2>10. n5 = n
    BY <1>10, <2>7, <2>8, <2>9, SynonymEqual
  <2> QED BY <2>10 DEF n
<1> DEFINE all == ((({} \cup {s}) \cup {t}) \cup {u}) \cup {}
<1>17. SynonymIsUtf8(x) <=> AllUtf8(all)
  <2>1. all = {s, t, u}
    OBVIOUS
  <2>2. AllUtf8(all) <=> IsUtf8(s) /\ IsUtf8(t) /\ IsUtf8(u)
    BY <2>1, Zenon DEF AllUtf8
  <2> QED BY <2>2, Zenon DEF SynonymIsUtf8, s, t, u
<1> QED BY <1>4, <1>14, <1>15, <1>16, <1>17, Zenon DEF SynonymReads

-----------------------------------------------------------------------------
(* What a Synonym is while the program runs. *)

\* What is unknown are fields; a cleared element has none.
WellSynonyms == {m \in SynonymObjects : m.unknown \in UnknownBytes(SynonymTags)}
ClearSynonyms == {m \in SynonymObjects : SynonymContent(m) = SynonymDefault}

\* The bytes of unknown fields are bytes.
LEMMA UnknownIsTyped ==
  ASSUME NEW tags, NEW b \in UnknownBytes(tags)
  PROVE  b \in Seq(Nat)
<1>1. PICK fs \in Seq(UnknownFields(tags)) : b = BytesOf(fs)
  BY DEF UnknownBytes
<1>2. fs \in Seq(GoodFields)
  BY UnknownAreGood
<1> QED BY <1>1, <1>2, BytesTyped

\* There may be none.
LEMMA UnknownNone ==
  ASSUME NEW tags
  PROVE  <<>> \in UnknownBytes(tags)
<1>1. <<>> \in Seq(UnknownFields(tags))
  OBVIOUS
<1> QED BY <1>1, BytesEmpty DEF UnknownBytes

\* Those of one message and of another are those of both.
LEMMA UnknownBoth ==
  ASSUME NEW tags, NEW a \in UnknownBytes(tags), NEW b \in UnknownBytes(tags)
  PROVE  a \o b \in UnknownBytes(tags)
<1>1. PICK fs \in Seq(UnknownFields(tags)) : a = BytesOf(fs)
  BY DEF UnknownBytes
<1>2. PICK gs \in Seq(UnknownFields(tags)) : b = BytesOf(gs)
  BY DEF UnknownBytes
<1>3. fs \in Seq(GoodFields) /\ gs \in Seq(GoodFields)
  BY UnknownAreGood
<1>4. fs \o gs \in Seq(UnknownFields(tags))
  OBVIOUS
<1>5. a \o b = BytesOf(fs \o gs)
  BY <1>1, <1>2, <1>3, BytesConcat
<1> QED BY <1>4, <1>5 DEF UnknownBytes

\* Those of one field.
LEMMA UnknownOne ==
  ASSUME NEW tags, NEW f \in UnknownFields(tags)
  PROVE  FieldBytes(f) \in UnknownBytes(tags)
<1>1. f \in GoodFields /\ <<f>> \in Seq(UnknownFields(tags))
  BY DEF UnknownFields
<1>2. FieldBytes(f) = BytesOf(<<f>>)
  BY <1>1, BytesOne
<1> QED BY <1>1, <1>2 DEF UnknownBytes

\* The content of a Synonym is all but the size it keeps.
LEMMA SynonymContentIs ==
  ASSUME NEW m \in SynonymObjects
  PROVE  /\ SynonymContent(m) \in SynonymObjects
         /\ SynonymContent(m).id = m.id /\ SynonymContent(m).synonym = m.synonym
         /\ SynonymContent(m).turkish_meaning = m.turkish_meaning
         /\ SynonymContent(m).sample_sentences = m.sample_sentences
         /\ SynonymContent(m).unknown = m.unknown /\ SynonymContent(m).cached_size = 0
BY DEF SynonymContent, SynonymObjects

\* A new Synonym has nothing.
LEMMA SynonymDefaultIs ==
  /\ SynonymDefault \in SynonymObjects
  /\ SynonymDefault.id = 0 /\ SynonymDefault.synonym = <<>>
  /\ SynonymDefault.turkish_meaning = <<>> /\ SynonymDefault.sample_sentences = <<>>
  /\ SynonymDefault.unknown = <<>> /\ SynonymDefault.cached_size = 0
BY DEF SynonymDefault, SynonymObjects

\* A clear Synonym has nothing but a size.
LEMMA ClearSynonymIs ==
  ASSUME NEW m \in ClearSynonyms
  PROVE  /\ m \in SynonymObjects /\ m \in WellSynonyms
         /\ m.id = 0 /\ m.synonym = <<>> /\ m.turkish_meaning = <<>>
         /\ m.sample_sentences = <<>> /\ m.unknown = <<>>
<1>1. m \in SynonymObjects /\ SynonymContent(m) = SynonymDefault
  BY DEF ClearSynonyms
<1>2. /\ m.id = 0 /\ m.synonym = <<>> /\ m.turkish_meaning = <<>>
      /\ m.sample_sentences = <<>> /\ m.unknown = <<>>
  BY <1>1, SynonymContentIs, SynonymDefaultIs
<1> QED BY <1>1, <1>2, UnknownNone DEF WellSynonyms

\* A Synonym that is cleared is clear.
LEMMA SynonymClearIsClear ==
  ASSUME NEW m \in SynonymObjects
  PROVE  SynonymClear(m) \in ClearSynonyms
<1>1. m.cached_size \in Nat
  BY SynonymTyped
<1>2. SynonymClear(m) \in SynonymObjects
  BY <1>1, SynonymDefaultIs, SynonymEdited DEF SynonymClear
<1>3. SynonymContent(SynonymClear(m)) = SynonymDefault
  <2>1. \A d \in SynonymObjects, c \in Nat :
          d.cached_size = 0 => [[d EXCEPT !.cached_size = c] EXCEPT !.cached_size = 0] = d
    BY DEF SynonymObjects
  <2> QED BY <1>1, <2>1, SynonymDefaultIs, Zenon DEF SynonymContent, SynonymClear
<1> QED BY <1>2, <1>3 DEF ClearSynonyms

\* So is a new one.
LEMMA DefaultIsClear == SynonymDefault \in ClearSynonyms
<1>1. SynonymContent(SynonymDefault) = SynonymDefault
  BY DEF SynonymContent, SynonymDefault
<1> QED BY <1>1, SynonymDefaultIs DEF ClearSynonyms

\* Merging keeps the unknown fields readable.
LEMMA WellMerge ==
  ASSUME NEW m \in WellSynonyms, NEW x \in WellSynonyms
  PROVE  SynonymMerge(m, x) \in WellSynonyms
<1>1. m \in SynonymObjects /\ x \in SynonymObjects
  BY DEF WellSynonyms
<1>2. SynonymMerge(m, x) \in SynonymObjects /\ SynonymMerge(m, x).unknown = m.unknown \o x.unknown
  BY <1>1, SynonymMergeIs
<1>3. m.unknown \o x.unknown \in UnknownBytes(SynonymTags)
  BY UnknownBoth DEF WellSynonyms
<1> QED BY <1>2, <1>3 DEF WellSynonyms

\* What is merged into a cleared element is its content.
LEMMA MergeIntoClear ==
  ASSUME NEW m \in ClearSynonyms, NEW x \in SynonymObjects
  PROVE  SynonymContent(SynonymMerge(m, x)) = SynonymContent(x)
<1> DEFINE n == SynonymMerge(m, x)
           a == SynonymContent(n)
           b == SynonymContent(x)
<1>1. m \in SynonymObjects /\ m.id = 0 /\ m.synonym = <<>> /\ m.turkish_meaning = <<>>
      /\ m.sample_sentences = <<>> /\ m.unknown = <<>>
  BY ClearSynonymIs
<1>2. /\ n \in SynonymObjects /\ n.id = (IF x.id # 0 THEN x.id ELSE m.id)
      /\ n.synonym = Merged(x.synonym, m.synonym)
      /\ n.turkish_meaning = Merged(x.turkish_meaning, m.turkish_meaning)
      /\ n.sample_sentences = Merged(x.sample_sentences, m.sample_sentences)
      /\ n.unknown = m.unknown \o x.unknown
  BY <1>1, SynonymMergeIs
<1> HIDE DEF n
<1>3. <<>> \o x.unknown = x.unknown
  BY SynonymTyped
<1>4. \A s : Merged(s, <<>>) = s
  BY Zenon DEF Merged
<1>5. n.id = x.id
  BY <1>1, <1>2
<1>6. /\ n.synonym = x.synonym /\ n.turkish_meaning = x.turkish_meaning
      /\ n.sample_sentences = x.sample_sentences /\ n.unknown = x.unknown
  BY <1>1, <1>2, <1>3, <1>4
<1>7. /\ a \in SynonymObjects /\ b \in SynonymObjects
      /\ a.id = b.id /\ a.synonym = b.synonym /\ a.turkish_meaning = b.turkish_meaning
      /\ a.sample_sentences = b.sample_sentences /\ a.unknown = b.unknown
      /\ a.cached_size = b.cached_size
  BY <1>2, <1>5, <1>6, SynonymContentIs
<1> HIDE DEF a, b
<1>8. a = b
  BY <1>7, SynonymEqual
<1> QED BY <1>8 DEF a, b, n

\* Reading a field keeps the unknown fields readable.
LEMMA WellSynonymRead ==
  ASSUME NEW r \in SynonymReadings, r.msg \in WellSynonyms, NEW f \in Fields
  PROVE  SynonymRead(r, f).msg \in WellSynonyms
<1> DEFINE q == SynonymRead(r, f)
           m == r.msg
<1>1. /\ m \in SynonymObjects /\ m.unknown \in UnknownBytes(SynonymTags)
      /\ r = [ok |-> r.ok, msg |-> m] /\ r.ok \in BOOLEAN
  BY DEF SynonymReadings, WellSynonyms
<1>2. q \in SynonymReadings /\ q.msg \in SynonymObjects
  BY SynonymReadTyped DEF SynonymReadings
<1>3. CASE ~r.ok \/ f = Broken
  <2>1. q = [r EXCEPT !.ok = FALSE]
    BY <1>3, SynonymReadCases
  <2>2. q.msg = m
    BY <1>1, <2>1
  <2> QED BY <2>2
<1>4. CASE r.ok /\ f # Broken
  <2>1. f \in GoodFields
    BY <1>4 DEF Fields
  <2>2. CASE f.tag \notin SynonymTags
    <3> DEFINE c == FieldBytes(f)
               u == m.unknown \o c
    <3>1. q = [r EXCEPT !.msg.unknown = u]
      BY <1>4, <2>2, SynonymReadCases DEF ReadUnknown
    <3>2. c \in UnknownBytes(SynonymTags)
      BY <2>1, <2>2, UnknownOne DEF UnknownFields
    <3> HIDE DEF c, q
    <3>3. u \in UnknownBytes(SynonymTags)
      BY <1>1, <3>2, UnknownBoth
    <3> HIDE DEF u
    <3>4. q = [ok |-> r.ok, msg |-> [m EXCEPT !.unknown = u]]
      BY <3>1, FieldSet, Zenon DEF SynonymReadings
    <3>5. q.msg.unknown = u
      BY <1>1, <3>4 DEF SynonymObjects
    <3> QED BY <1>2, <3>3, <3>5 DEF WellSynonyms, q
  <2>3. CASE f.tag = 8
    <3>1. q = [r EXCEPT !.msg.id = f.value[1]]
      BY <1>4, <2>3, SynonymReadCases
    <3> HIDE DEF q
    <3>2. q = [ok |-> r.ok, msg |-> [m EXCEPT !.id = f.value[1]]]
      BY <3>1, FieldSet, Zenon DEF SynonymReadings
    <3>3. q.msg.unknown = m.unknown
      BY <1>1, <3>2 DEF SynonymObjects
    <3> QED BY <1>1, <1>2, <3>3 DEF WellSynonyms, q
  <2>4. ASSUME NEW name, name # "unknown"
        PROVE  ReadString(r, name, f).msg.unknown = m.unknown
    BY <1>1, <2>4 DEF SynonymObjects, ReadString
  <2>5. CASE f.tag \in {18, 26, 34}
    <3>1. q.msg.unknown = m.unknown
      BY <1>4, <2>4, <2>5, SynonymReadCases
    <3> HIDE DEF q
    <3> QED BY <1>1, <1>2, <3>1 DEF WellSynonyms, q
  <2> QED BY <2>2, <2>3, <2>5 DEF SynonymTags
<1> QED BY <1>3, <1>4

\* So does reading all.
LEMMA WellSynonymReadAll ==
  ASSUME NEW m \in WellSynonyms, NEW w \in Seq(Nat)
  PROVE  /\ SynonymReadAll(m, w).ok \in BOOLEAN
         /\ SynonymReadAll(m, w).msg \in WellSynonyms
<1> DEFINE r == Reading(m)
           S == {t \in Seq(Fields) : SynonymFold(r, t).msg \in WellSynonyms}
<1>1. m \in SynonymObjects /\ r \in SynonymReadings /\ r.msg = m
  BY SynonymReading DEF WellSynonyms
<1> HIDE DEF r
<1>2. <<>> \in S
  BY <1>1, SynonymFoldNone
<1>3. ASSUME NEW t \in Seq(Fields), NEW f \in Fields, t \in S PROVE Append(t, f) \in S
  <2> DEFINE q == SynonymFold(r, t)
  <2>1. q \in SynonymReadings /\ q.msg \in WellSynonyms
    BY <1>1, <1>3, SynonymFoldTyped
  <2>2. SynonymFold(r, Append(t, f)) = SynonymRead(q, f)
    BY <1>1, SynonymFoldAppend
  <2> HIDE DEF q
  <2>3. SynonymRead(q, f).msg \in WellSynonyms
    BY <2>1, WellSynonymRead
  <2>4. Append(t, f) \in Seq(Fields)
    OBVIOUS
  <2> QED BY <2>2, <2>3, <2>4
<1> DEFINE s == FieldsIn(w)
<1>4. s \in Seq(Fields)
  BY FieldsInTyped
<1> HIDE DEF S, s
<1>5. s \in S
  BY <1>2, <1>3, <1>4, SeqInduction
<1>6. SynonymReadAll(m, w) = SynonymFold(r, s)
  BY <1>1, <1>4, SynonymFoldLeft DEF SynonymReadAll, s, r
<1>7. SynonymFold(r, s).ok \in BOOLEAN
  BY <1>1, <1>4, SynonymFoldTyped DEF SynonymReadings
<1> QED BY <1>5, <1>6, <1>7 DEF S

\* The length of two sequences put together.
LEMMA Lengths ==
  ASSUME NEW s \in Seq(Nat), NEW t \in Seq(Nat)
  PROVE  s \o t \in Seq(Nat) /\ Len(s \o t) = Len(s) + Len(t) /\ Len(s) \in Nat /\ Len(t) \in Nat
OBVIOUS

\* The size of a string field is its length.
LEMMA StringFieldIs ==
  ASSUME NEW tag \in Nat, NEW s \in Seq(Nat)
  PROVE  StringField(tag, s) \in Seq(Nat) /\ Len(StringField(tag, s)) = StringFieldSize(s)
<1>1. CASE s = <<>>
  BY <1>1 DEF StringField, StringFieldSize
<1>2. CASE s # <<>>
  <2>1. StringField(tag, s) = <<tag, Len(s)>> \o s /\ StringFieldSize(s) = 1 + (1 + Len(s))
    BY <1>2, Zenon DEF StringField, StringFieldSize
  <2>2. <<tag, Len(s)>> \o s \in Seq(Nat) /\ Len(<<tag, Len(s)>> \o s) = 2 + Len(s)
    BY TagLengthAndValue
  <2>3. Len(s) \in Nat
    OBVIOUS
  <2> QED BY <2>1, <2>2, <2>3
<1> QED BY <1>1, <1>2

\* The size kept is the size written, however it is come by.
LEMMA SynonymSizeIsExact ==
  ASSUME NEW m \in SynonymObjects
  PROVE  /\ SynonymWrite(m) \in Seq(Nat) /\ SynonymSize(m) \in Nat
         /\ SynonymSize(m) = Len(SynonymWrite(m))
<1> DEFINE i == IF m.id = 0 THEN <<>> ELSE <<8, m.id>>
           a == StringField(18, m.synonym)
           b == StringField(26, m.turkish_meaning)
           c == StringField(34, m.sample_sentences)
           u == m.unknown
<1>1. i \in Seq(Nat) /\ Len(i) = (IF m.id = 0 THEN 0 ELSE 2)
  BY SynonymTyped
<1>2. /\ a \in Seq(Nat) /\ b \in Seq(Nat) /\ c \in Seq(Nat) /\ u \in Seq(Nat)
      /\ Len(a) = StringFieldSize(m.synonym) /\ Len(b) = StringFieldSize(m.turkish_meaning)
      /\ Len(c) = StringFieldSize(m.sample_sentences)
  BY StringFieldIs, SynonymTyped
<1>3. SynonymWrite(m) = i \o a \o b \o c \o u
  BY DEF SynonymWrite
<1>4. SynonymSize(m) = Len(a) + Len(b) + Len(c) + Len(i) + Len(u)
  BY <1>1, <1>2 DEF SynonymSize
<1> HIDE DEF i, a, b, c, u
<1> DEFINE p == i \o a
           q == p \o b
           r == q \o c
           w == r \o u
<1>5. p \in Seq(Nat) /\ Len(p) = Len(i) + Len(a)
  BY <1>1, <1>2, Lengths
<1> HIDE DEF p
<1>6. q \in Seq(Nat) /\ Len(q) = Len(p) + Len(b)
  BY <1>2, <1>5, Lengths
<1> HIDE DEF q
<1>7. r \in Seq(Nat) /\ Len(r) = Len(q) + Len(c)
  BY <1>2, <1>6, Lengths
<1> HIDE DEF r
<1>8. w \in Seq(Nat) /\ Len(w) = Len(r) + Len(u) /\ Len(w) \in Nat
  BY <1>2, <1>7, Lengths
<1> HIDE DEF w
<1>9. SynonymWrite(m) = w
  BY <1>3, Zenon DEF w, r, q, p
<1>10. Len(i) \in Nat /\ Len(a) \in Nat /\ Len(b) \in Nat /\ Len(c) \in Nat /\ Len(u) \in Nat
  BY <1>1, <1>2, Lengths
<1>11. Len(w) = Len(a) + Len(b) + Len(c) + Len(i) + Len(u)
  BY <1>5, <1>6, <1>7, <1>8, <1>10
<1> QED BY <1>4, <1>8, <1>9, <1>11

\* A Synonym asked for its size keeps it, and has the same fields.
LEMMA SynonymSizedIs ==
  ASSUME NEW m \in SynonymObjects
  PROVE  /\ SynonymSized(m) \in SynonymObjects
         /\ SynonymWrite(SynonymSized(m)) = SynonymWrite(m)
         /\ SynonymSized(m).cached_size = SynonymSize(m)
         /\ SynonymSized(m).unknown = m.unknown
<1> DEFINE c == SynonymSize(m)
           n == SynonymSized(m)
<1>1. c \in Nat
  BY SynonymSizeIsExact
<1>2. n = [m EXCEPT !.cached_size = c]
  BY DEF SynonymSized
<1> HIDE DEF c, n
<1>3. /\ n \in SynonymObjects /\ n.id = m.id /\ n.synonym = m.synonym
      /\ n.turkish_meaning = m.turkish_meaning /\ n.sample_sentences = m.sample_sentences
      /\ n.unknown = m.unknown /\ n.cached_size = c
  BY <1>1, <1>2 DEF SynonymObjects
<1>4. SynonymWrite(n) = SynonymWrite(m)
  BY <1>3, Zenon DEF SynonymWrite
<1> QED BY <1>3, <1>4 DEF n, c

\* A sequence of elements of A is one of elements of a larger set.
LEMMA SeqOfMore ==
  ASSUME NEW A, NEW B, A \subseteq B, NEW s \in Seq(A)
  PROVE  s \in Seq(B)
OBVIOUS

\* Bytes are numbers.
LEMMA BytesAreNumbers ==
  ASSUME NEW s \in Seq(0..NotUtf8)
  PROVE  s \in Seq(Nat)
<1> DEFINE A == 0..NotUtf8
<1>1. A \subseteq Nat
  BY DEF NotUtf8
<1> HIDE DEF A
<1>2. s \in Seq(A)
  BY DEF A
<1> QED BY <1>1, <1>2, SeqOfMore

\* The strings and the numbers of the setters are of the types of the fields.
LEMMA StringsAreTyped ==
  /\ \A s \in Strings : s \in Seq(Nat)
  /\ \A n \in Ids : n \in Nat
<1>1. ASSUME NEW s \in Strings PROVE s \in Seq(Nat)
  <2>1. s \in Seq(0..NotUtf8)
    BY MessagesAssumption
  <2> QED BY <2>1, BytesAreNumbers
<1> QED BY <1>1, MessagesAssumption

\* The accessors keep the unknown fields readable.
LEMMA WellSynonymEdits ==
  ASSUME NEW m \in WellSynonyms
  PROVE  \A n \in SynonymEdits(m) : n \in WellSynonyms
<1>1. m \in SynonymObjects /\ m.unknown \in UnknownBytes(SynonymTags)
  BY DEF WellSynonyms
<1>2. /\ \A n \in Nat : [m EXCEPT !.id = n] \in WellSynonyms
      /\ \A s \in Seq(Nat) : /\ [m EXCEPT !.synonym = s] \in WellSynonyms
                             /\ [m EXCEPT !.turkish_meaning = s] \in WellSynonyms
                             /\ [m EXCEPT !.sample_sentences = s] \in WellSynonyms
  BY <1>1 DEF WellSynonyms, SynonymObjects
<1> QED BY <1>2, StringsAreTyped DEF SynonymEdits, EditId, EditSynonym, EditTurkishMeaning,
             EditSampleSentences

\* So does another size kept.
LEMMA WellSynonymResized ==
  ASSUME NEW m \in WellSynonyms, NEW c \in Nat
  PROVE  [m EXCEPT !.cached_size = c] \in WellSynonyms
BY DEF WellSynonyms, SynonymObjects

-----------------------------------------------------------------------------
(* What a Vocabulary is while the program runs, and reading one. *)

VocabularyTags == {10, 18, 26, 34, 42}

WellObjects == [word : Seq(Nat), synonyms : Seq(WellSynonyms),
                macmillan_url : Seq(Nat), youglish_url : Seq(Nat), reverso_url : Seq(Nat),
                unknown : UnknownBytes(VocabularyTags), spare : Seq(ClearSynonyms)]

\* The types of a Vocabulary's fields.
LEMMA VocabularyTyped ==
  ASSUME NEW m \in WellObjects
  PROVE  /\ m.word \in Seq(Nat) /\ m.synonyms \in Seq(WellSynonyms)
         /\ m.macmillan_url \in Seq(Nat) /\ m.youglish_url \in Seq(Nat)
         /\ m.reverso_url \in Seq(Nat)
         /\ m.unknown \in UnknownBytes(VocabularyTags) /\ m.unknown \in Seq(Nat)
         /\ m.spare \in Seq(ClearSynonyms)
<1>1. m.unknown \in UnknownBytes(VocabularyTags)
  BY DEF WellObjects
<1> QED BY <1>1, UnknownIsTyped DEF WellObjects

\* Vocabulary objects of the same fields are the same.
LEMMA VocabularyEqual ==
  ASSUME NEW m \in WellObjects, NEW n \in WellObjects,
         m.word = n.word, m.synonyms = n.synonyms, m.macmillan_url = n.macmillan_url,
         m.youglish_url = n.youglish_url, m.reverso_url = n.reverso_url,
         m.unknown = n.unknown, m.spare = n.spare
  PROVE  m = n
<1>1. \A o \in WellObjects :
        o = [word |-> o.word, synonyms |-> o.synonyms, macmillan_url |-> o.macmillan_url,
             youglish_url |-> o.youglish_url, reverso_url |-> o.reverso_url,
             unknown |-> o.unknown, spare |-> o.spare]
  BY DEF WellObjects
<1> QED BY <1>1, Zenon

\* m with other elements.
WithElements(m, ss, p) ==
  [word |-> m.word, synonyms |-> ss, macmillan_url |-> m.macmillan_url,
   youglish_url |-> m.youglish_url, reverso_url |-> m.reverso_url, unknown |-> m.unknown,
   spare |-> p]

\* Its fields.
LEMMA WithElementsIs ==
  ASSUME NEW m \in WellObjects, NEW ss, NEW p
  PROVE  /\ WithElements(m, ss, p).word = m.word
         /\ WithElements(m, ss, p).synonyms = ss
         /\ WithElements(m, ss, p).macmillan_url = m.macmillan_url
         /\ WithElements(m, ss, p).youglish_url = m.youglish_url
         /\ WithElements(m, ss, p).reverso_url = m.reverso_url
         /\ WithElements(m, ss, p).unknown = m.unknown
         /\ WithElements(m, ss, p).spare = p
BY DEF WithElements

\* It is of the type of m.
LEMMA WithElementsTyped ==
  ASSUME NEW m \in WellObjects, NEW ss \in Seq(WellSynonyms), NEW p \in Seq(ClearSynonyms)
  PROVE  WithElements(m, ss, p) \in WellObjects
BY VocabularyTyped DEF WithElements, WellObjects

IsRecord(A, B, C, D, m) ==
  m \in [word : A, synonyms : B, macmillan_url : A, youglish_url : A, reverso_url : A,
         unknown : C, spare : D]

SetElements(m, ss) == [m EXCEPT !.synonyms = ss]
SetSpare(m, p) == [m EXCEPT !.spare = p]

\* Setting the elements alone.
LEMMA ElementsEdited ==
  ASSUME NEW A, NEW B, NEW C, NEW D, NEW m, IsRecord(A, B, C, D, m), NEW ss
  PROVE  SetElements(m, ss) = WithElements(m, ss, m.spare)
BY DEF WithElements, IsRecord, SetElements

\* Setting the spare elements alone.
LEMMA SpareEdited ==
  ASSUME NEW A, NEW B, NEW C, NEW D, NEW m, IsRecord(A, B, C, D, m), NEW p
  PROVE  SetSpare(m, p) = WithElements(m, m.synonyms, p)
BY DEF WithElements, IsRecord, SetSpare

\* Setting both, one after the other.
LEMMA ElementsReplaced ==
  ASSUME NEW m \in WellObjects, NEW ss, NEW p, NEW q
  PROVE  /\ SetElements(WithElements(m, ss, p), q) = WithElements(m, q, p)
         /\ SetSpare(WithElements(m, ss, p), q) = WithElements(m, ss, q)
<1> DEFINE n == WithElements(m, ss, p)
<1>1. IsRecord(Seq(Nat), {ss}, UnknownBytes(VocabularyTags), {p}, n)
  BY VocabularyTyped DEF WithElements, IsRecord
<1>2. \A a, b : WithElements(n, a, b) = WithElements(m, a, b)
  BY DEF WithElements
<1>3. n.synonyms = ss /\ n.spare = p
  BY DEF WithElements
<1> HIDE DEF n
<1>4. SetElements(n, q) = WithElements(n, q, n.spare)
  BY <1>1, ElementsEdited
<1>5. SetSpare(n, q) = WithElements(n, n.synonyms, q)
  BY <1>1, SpareEdited
<1> QED BY <1>2, <1>3, <1>4, <1>5, Zenon DEF n

\* The same of the objects of the program.
LEMMA WithElementsEdited ==
  ASSUME NEW m \in WellObjects, NEW ss, NEW p
  PROVE  /\ SetElements(m, ss) = WithElements(m, ss, m.spare)
         /\ SetSpare(SetElements(m, ss), p) = WithElements(m, ss, p)
         /\ SetElements(SetSpare(m, p), ss) = WithElements(m, ss, p)
<1>1. IsRecord(Seq(Nat), Seq(WellSynonyms), UnknownBytes(VocabularyTags), Seq(ClearSynonyms), m)
  BY DEF IsRecord, WellObjects
<1>2. SetElements(m, ss) = WithElements(m, ss, m.spare)
  BY <1>1, ElementsEdited
<1>3. SetSpare(m, p) = WithElements(m, m.synonyms, p)
  BY <1>1, SpareEdited
<1> QED BY <1>2, <1>3, ElementsReplaced

\* The parts of a sequence that is not empty.
LEMMA HeadAndTail ==
  ASSUME NEW E, NEW s \in Seq(E), s # <<>>
  PROVE  Head(s) \in E /\ Tail(s) \in Seq(E)
OBVIOUS

SetLast(s, e) == [s EXCEPT ![Len(s)] = e]

\* Replacing the element appended last.
LEMMA LastAppended ==
  ASSUME NEW E, NEW s \in Seq(E), NEW e \in E
  PROVE  /\ Append(s, e) \in Seq(E) /\ Len(Append(s, e)) = Len(s) + 1
         /\ Last(Append(s, e)) = e
         /\ \A f \in E : SetLast(Append(s, e), f) = Append(s, f)
<1> DEFINE t == Append(s, e)
<1>1. t \in Seq(E) /\ Len(t) = Len(s) + 1 /\ t[Len(t)] = e
  OBVIOUS
<1>2. ASSUME NEW f \in E PROVE SetLast(t, f) = Append(s, f)
  <2> DEFINE u == [t EXCEPT ![Len(t)] = f]
             v == Append(s, f)
  <2>1. u \in Seq(E) /\ Len(u) = Len(t)
    BY <1>1
  <2>2. v \in Seq(E) /\ Len(v) = Len(s) + 1
    OBVIOUS
  <2>3. ASSUME NEW i \in 1..Len(u) PROVE u[i] = v[i]
    <3>1. Len(s) \in Nat /\ i \in 1..Len(s) + 1 /\ i \in DOMAIN t
      BY <1>1, <2>1
    <3>2. CASE i = Len(s) + 1
      <4>1. v[i] = f
        BY <3>2
      <4>2. u[i] = f
        BY <1>1, <3>1, <3>2
      <4> QED BY <4>1, <4>2
    <3>3. CASE i # Len(s) + 1
      <4>1. i \in 1..Len(s)
        BY <3>1, <3>3
      <4>2. v[i] = s[i] /\ t[i] = s[i]
        BY <4>1
      <4>3. u[i] = t[i]
        BY <1>1, <3>1, <3>3
      <4> QED BY <4>2, <4>3
    <3> QED BY <3>2, <3>3
  <2> HIDE DEF u, v
  <2>4. u = v
    BY <1>1, <2>1, <2>2, <2>3, SeqEqual
  <2> QED BY <2>4, Zenon DEF u, v, SetLast
<1> QED BY <1>1, <1>2 DEF Last

\* A new element is clear; AddMerged and ReadElement replace it.
LEMMA AddSynonymIs ==
  ASSUME NEW m \in WellObjects
  PROVE  \E c \in ClearSynonyms, p \in Seq(ClearSynonyms) :
           /\ AddSynonym(m) = WithElements(m, Append(m.synonyms, c), p)
           /\ Last(AddSynonym(m).synonyms) = c
           /\ \A e \in WellSynonyms :
                WithLast(AddSynonym(m), e) = WithElements(m, Append(m.synonyms, e), p)
<1> DEFINE a == AddSynonym(m)
           ss == m.synonyms
<1>1. ss \in Seq(WellSynonyms) /\ m.spare \in Seq(ClearSynonyms)
  BY VocabularyTyped
<1>2. \E c \in ClearSynonyms, p \in Seq(ClearSynonyms) : a = WithElements(m, Append(ss, c), p)
  <2>1. CASE m.spare = <<>>
    <3>1. a = SetElements(m, Append(ss, SynonymDefault))
      BY <2>1, Zenon DEF AddSynonym, SetElements
    <3>2. a = WithElements(m, Append(ss, SynonymDefault), m.spare)
      BY <3>1, WithElementsEdited
    <3> HIDE DEF a
    <3> QED BY <1>1, <3>2, DefaultIsClear
  <2>2. CASE m.spare # <<>>
    <3> DEFINE c == Head(m.spare)
               p == Tail(m.spare)
    <3>1. a = SetSpare(SetElements(m, Append(ss, c)), p)
      BY <2>2, Zenon DEF AddSynonym, SetElements, SetSpare
    <3>2. c \in ClearSynonyms /\ p \in Seq(ClearSynonyms)
      BY <1>1, <2>2, HeadAndTail
    <3> HIDE DEF c, p
    <3>3. a = WithElements(m, Append(ss, c), p)
      BY <3>1, WithElementsEdited
    <3> HIDE DEF a
    <3> QED BY <3>2, <3>3
  <2> QED BY <2>1, <2>2
<1> HIDE DEF a
<1>3. PICK c \in ClearSynonyms, p \in Seq(ClearSynonyms) : a = WithElements(m, Append(ss, c), p)
  BY <1>2, Zenon
<1>4. c \in WellSynonyms
  BY ClearSynonymIs
<1> DEFINE t == Append(ss, c)
<1>5. a = WithElements(m, t, p) /\ a.synonyms = t
  <2>1. WithElements(m, t, p).synonyms = t
    BY DEF WithElements
  <2> QED BY <1>3, <2>1, Zenon
<1>6. Last(t) = c
  BY <1>1, <1>4, LastAppended
<1>7. ASSUME NEW e \in WellSynonyms
      PROVE  WithLast(a, e) = WithElements(m, Append(ss, e), p)
  <2>1. SetLast(t, e) = Append(ss, e)
    BY <1>1, <1>4, LastAppended
  <2> HIDE DEF t
  <2>2. WithLast(a, e) = SetElements(a, SetLast(t, e))
    BY <1>5, Zenon DEF WithLast, SetElements, SetLast
  <2>3. WithLast(a, e) = SetElements(WithElements(m, t, p), Append(ss, e))
    BY <1>5, <2>1, <2>2, Zenon
  <2> QED BY <2>3, ElementsReplaced
<1> QED BY <1>5, <1>6, <1>7 DEF a

VocabularyReadings == [ok : BOOLEAN, msg : WellObjects]
SetUnknown(m, u) == [m EXCEPT !.unknown = u]
SetString(m, name, s) == [m EXCEPT ![name] = s]
Failed(m) == [ok |-> FALSE, msg |-> m]
Checked(s, m) == [ok |-> IsUtf8(s), msg |-> m]

\* What reading starts with and comes to.
LEMMA VocabularyReading ==
  ASSUME NEW m \in WellObjects
  PROVE  /\ Reading(m) \in VocabularyReadings /\ Failed(m) \in VocabularyReadings
         /\ Reading(m).ok /\ ~Failed(m).ok /\ Reading(m).msg = m /\ Failed(m).msg = m
         /\ \A s : /\ Checked(s, m) \in VocabularyReadings
                   /\ IsUtf8(s) => Checked(s, m) = Reading(m)
                   /\ ~IsUtf8(s) => Checked(s, m) = Failed(m)
<1>1. \A s : IsUtf8(s) \in BOOLEAN
  BY DEF IsUtf8
<1> QED BY <1>1 DEF VocabularyReadings, Reading, Failed, Checked

\* The table of Vocabulary's fields.
LEMMA VocabularyTableIs ==
  /\ DOMAIN VocabularyTable = VocabularyTags
  /\ VocabularyTable[10] = "word" /\ VocabularyTable[26] = "macmillan_url"
  /\ VocabularyTable[34] = "youglish_url" /\ VocabularyTable[42] = "reverso_url"
BY DEF VocabularyTable, VocabularyTags

\* Reading a string sets it, and checks it.
LEMMA ReadStringIs ==
  ASSUME NEW r, NEW name, NEW f
  PROVE  ReadString(r, name, f) = Checked(f.value, SetString(r.msg, name, f.value))
BY Zenon DEF ReadString, Checked, SetString

\* Reading an unknown field keeps its bytes.
LEMMA ReadUnknownIs ==
  ASSUME NEW r \in VocabularyReadings, r.ok, NEW f
  PROVE  ReadUnknown(r, f) = Reading(SetUnknown(r.msg, r.msg.unknown \o FieldBytes(f)))
<1> DEFINE u == r.msg.unknown \o FieldBytes(f)
<1>1. ReadUnknown(r, f) = [r EXCEPT !.msg.unknown = u]
  BY Zenon DEF ReadUnknown
<1> HIDE DEF u
<1>2. [r EXCEPT !.msg.unknown = u] = [ok |-> r.ok, msg |-> [r.msg EXCEPT !.unknown = u]]
  BY FieldSet, Zenon DEF VocabularyReadings
<1>3. r.ok = TRUE
  BY DEF VocabularyReadings
<1> QED BY <1>1, <1>2, <1>3, Zenon DEF Reading, SetUnknown, u

\* A reading that fails has its message.
LEMMA OkCleared ==
  ASSUME NEW T, NEW r \in [ok : BOOLEAN, msg : T]
  PROVE  [r EXCEPT !.ok = FALSE] = [ok |-> FALSE, msg |-> r.msg]
<1>1. \A x : [r EXCEPT !.ok = x] = [ok |-> x, msg |-> r.msg]
  OBVIOUS
<1> QED BY <1>1, Zenon

\* What reading a field comes to.
LEMMA VocabularyReadCases ==
  ASSUME NEW r \in VocabularyReadings, NEW f
  PROVE  /\ ~r.ok \/ f = Broken => VocabularyRead(r, f) = Failed(r.msg)
         /\ r.ok /\ f # Broken =>
              /\ f.tag \notin VocabularyTags
                   => VocabularyRead(r, f)
                        = Reading(SetUnknown(r.msg, r.msg.unknown \o FieldBytes(f)))
              /\ f.tag = 18 => VocabularyRead(r, f) = ReadElement(r, f)
              /\ f.tag = 10 => VocabularyRead(r, f)
                                 = Checked(f.value, SetString(r.msg, "word", f.value))
              /\ f.tag = 26 => VocabularyRead(r, f)
                                 = Checked(f.value, SetString(r.msg, "macmillan_url", f.value))
              /\ f.tag = 34 => VocabularyRead(r, f)
                                 = Checked(f.value, SetString(r.msg, "youglish_url", f.value))
              /\ f.tag = 42 => VocabularyRead(r, f)
                                 = Checked(f.value, SetString(r.msg, "reverso_url", f.value))
<1>1. CASE ~r.ok \/ f = Broken
  <2>1. VocabularyRead(r, f) = [r EXCEPT !.ok = FALSE]
    BY <1>1, Zenon DEF VocabularyRead
  <2>2. [r EXCEPT !.ok = FALSE] = Failed(r.msg)
    BY OkCleared DEF VocabularyReadings, Failed
  <2> QED BY <1>1, <2>1, <2>2
<1>2. CASE r.ok /\ f # Broken
  <2>1. f.tag \notin VocabularyTags => VocabularyRead(r, f) = ReadUnknown(r, f)
    BY <1>2, VocabularyTableIs DEF VocabularyRead, VocabularyTags
  <2>2. f.tag = 18 => VocabularyRead(r, f) = ReadElement(r, f)
    BY <1>2, VocabularyTableIs DEF VocabularyRead, VocabularyTags
  <2>3. f.tag = 10 => VocabularyRead(r, f) = ReadString(r, "word", f)
    BY <1>2, VocabularyTableIs DEF VocabularyRead, VocabularyTags
  <2>4. f.tag = 26 => VocabularyRead(r, f) = ReadString(r, "macmillan_url", f)
    BY <1>2, VocabularyTableIs DEF VocabularyRead, VocabularyTags
  <2>5. f.tag = 34 => VocabularyRead(r, f) = ReadString(r, "youglish_url", f)
    BY <1>2, VocabularyTableIs DEF VocabularyRead, VocabularyTags
  <2>6. f.tag = 42 => VocabularyRead(r, f) = ReadString(r, "reverso_url", f)
    BY <1>2, VocabularyTableIs DEF VocabularyRead, VocabularyTags
  <2> QED BY <1>2, <2>1, <2>2, <2>3, <2>4, <2>5, <2>6, ReadStringIs, ReadUnknownIs, Zenon
<1> QED BY <1>1, <1>2, Zenon

\* A string of a Vocabulary is set.
LEMMA VocabularyStringSet ==
  ASSUME NEW m \in WellObjects, NEW s \in Seq(Nat)
  PROVE  /\ SetString(m, "word", s) \in WellObjects
         /\ SetString(m, "macmillan_url", s) \in WellObjects
         /\ SetString(m, "youglish_url", s) \in WellObjects
         /\ SetString(m, "reverso_url", s) \in WellObjects
<1>1. SetString(m, "word", s) \in WellObjects
  BY DEF SetString, WellObjects
<1>2. SetString(m, "macmillan_url", s) \in WellObjects
  BY DEF SetString, WellObjects
<1>3. SetString(m, "youglish_url", s) \in WellObjects
  BY DEF SetString, WellObjects
<1>4. SetString(m, "reverso_url", s) \in WellObjects
  BY DEF SetString, WellObjects
<1> QED BY <1>1, <1>2, <1>3, <1>4

\* Its unknown fields are set.
LEMMA VocabularyUnknownSet ==
  ASSUME NEW m \in WellObjects, NEW u \in UnknownBytes(VocabularyTags)
  PROVE  SetUnknown(m, u) \in WellObjects
BY DEF SetUnknown, WellObjects

\* Reading an element gives a Vocabulary.
LEMMA ReadElementTyped ==
  ASSUME NEW r \in VocabularyReadings, NEW f \in GoodFields
  PROVE  ReadElement(r, f) \in VocabularyReadings
<1> DEFINE a == AddSynonym(r.msg)
           e == SynonymReadAll(Last(a.synonyms), f.value)
<1>1. r.msg \in WellObjects
  BY DEF VocabularyReadings
<1>2. PICK c \in ClearSynonyms, p \in Seq(ClearSynonyms) :
        /\ Last(a.synonyms) = c
        /\ \A s \in WellSynonyms :
             WithLast(a, s) = WithElements(r.msg, Append(r.msg.synonyms, s), p)
  BY <1>1, AddSynonymIs
<1>3. f.value \in Seq(Nat) /\ c \in WellSynonyms
  BY ClearSynonymIs DEF GoodFields
<1>4. e.ok \in BOOLEAN /\ e.msg \in WellSynonyms
  BY <1>2, <1>3, WellSynonymReadAll
<1>5. ReadElement(r, f) = [ok |-> e.ok, msg |-> WithLast(a, e.msg)]
  BY Zenon DEF ReadElement
<1> HIDE DEF a, e
<1>6. WithLast(a, e.msg) = WithElements(r.msg, Append(r.msg.synonyms, e.msg), p)
  BY <1>2, <1>4
<1>7. Append(r.msg.synonyms, e.msg) \in Seq(WellSynonyms)
  BY <1>1, <1>4, VocabularyTyped
<1>8. WithLast(a, e.msg) \in WellObjects
  BY <1>1, <1>6, <1>7, WithElementsTyped
<1> QED BY <1>4, <1>5, <1>8 DEF VocabularyReadings

\* So does reading any field.
LEMMA VocabularyReadTyped ==
  ASSUME NEW r \in VocabularyReadings, NEW f \in Fields
  PROVE  VocabularyRead(r, f) \in VocabularyReadings
<1>1. r.ok \in BOOLEAN /\ r.msg \in WellObjects
  BY DEF VocabularyReadings
<1>2. CASE ~r.ok \/ f = Broken
  BY <1>1, <1>2, VocabularyReadCases, VocabularyReading
<1>3. CASE r.ok /\ f # Broken
  <2>1. f \in GoodFields /\ f.value \in Seq(Nat)
    <3>1. f \in GoodFields
      BY <1>3 DEF Fields
    <3> QED BY <3>1 DEF GoodFields
  <2>2. CASE f.tag \notin VocabularyTags
    <3>1. FieldBytes(f) \in UnknownBytes(VocabularyTags)
      BY <2>1, <2>2, UnknownOne DEF UnknownFields
    <3>2. r.msg.unknown \o FieldBytes(f) \in UnknownBytes(VocabularyTags)
      BY <1>1, <3>1, VocabularyTyped, UnknownBoth
    <3>3. SetUnknown(r.msg, r.msg.unknown \o FieldBytes(f)) \in WellObjects
      BY <1>1, <3>2, VocabularyUnknownSet
    <3> QED BY <1>3, <2>2, <3>3, VocabularyReadCases, VocabularyReading
  <2>3. CASE f.tag = 18
    BY <1>3, <2>1, <2>3, VocabularyReadCases, ReadElementTyped
  <2>4. ASSUME NEW n \in WellObjects, VocabularyRead(r, f) = Checked(f.value, n)
        PROVE  VocabularyRead(r, f) \in VocabularyReadings
    BY <2>4, VocabularyReading
  <2>5. CASE f.tag = 10
    <3> DEFINE n == SetString(r.msg, "word", f.value)
    <3>1. n \in WellObjects
      BY <1>1, <2>1, VocabularyStringSet
    <3>2. VocabularyRead(r, f) = Checked(f.value, n)
      BY <1>3, <2>5, VocabularyReadCases
    <3> QED BY <2>4, <3>1, <3>2
  <2>6. CASE f.tag = 26
    <3> DEFINE n == SetString(r.msg, "macmillan_url", f.value)
    <3>1. n \in WellObjects
      BY <1>1, <2>1, VocabularyStringSet
    <3>2. VocabularyRead(r, f) = Checked(f.value, n)
      BY <1>3, <2>6, VocabularyReadCases
    <3> QED BY <2>4, <3>1, <3>2
  <2>7. CASE f.tag = 34
    <3> DEFINE n == SetString(r.msg, "youglish_url", f.value)
    <3>1. n \in WellObjects
      BY <1>1, <2>1, VocabularyStringSet
    <3>2. VocabularyRead(r, f) = Checked(f.value, n)
      BY <1>3, <2>7, VocabularyReadCases
    <3> QED BY <2>4, <3>1, <3>2
  <2>8. CASE f.tag = 42
    <3> DEFINE n == SetString(r.msg, "reverso_url", f.value)
    <3>1. n \in WellObjects
      BY <1>1, <2>1, VocabularyStringSet
    <3>2. VocabularyRead(r, f) = Checked(f.value, n)
      BY <1>3, <2>8, VocabularyReadCases
    <3> QED BY <2>4, <3>1, <3>2
  <2> QED BY <2>2, <2>3, <2>5, <2>6, <2>7, <2>8 DEF VocabularyTags
<1> QED BY <1>2, <1>3

VocabularyStep == [x \in VocabularyReadings \X Fields |-> VocabularyRead(x[1], x[2])]
VocabularyFold(r, fs) == Folded(VocabularyReadings, VocabularyStep, r, fs)

\* Reading fields is a fold.
LEMMA VocabularyFolds ==
  ASSUME NEW r \in VocabularyReadings
  PROVE  IsFold(VocabularyReadings, Fields, r, VocabularyStep)
<1>1. ASSUME NEW x \in VocabularyReadings \X Fields
      PROVE  VocabularyRead(x[1], x[2]) \in VocabularyReadings
  BY VocabularyReadTyped
<1> QED BY <1>1 DEF IsFold, VocabularyStep

\* It is the fold VocabularyReadAll makes.
LEMMA VocabularyFoldLeft ==
  ASSUME NEW r \in VocabularyReadings, NEW s \in Seq(Fields)
  PROVE  FoldLeft(VocabularyRead, r, s) = VocabularyFold(r, s)
<1> DEFINE Is(it) == it = [d \in SUBSET DOMAIN s |->
                             IF d = {} THEN r ELSE VocabularyRead(it[d \ {Max(d)}], s[Max(d)])]
           it == CHOOSE x : Is(x)
<1>1. FoldLeft(VocabularyRead, r, s) = it[DOMAIN s]
  BY DEF FoldLeft, MapThenFoldSet
<1>2. \A a \in VocabularyReadings, f \in Fields : VocabularyStep[<<a, f>>] = VocabularyRead(a, f)
  BY DEF VocabularyStep
<1>3. \A d \in SUBSET DOMAIN s : d # {} => s[Max(d)] \in Fields /\ d \ {Max(d)} \in SUBSET DOMAIN s
  BY MaxElement
<1>4. IsFold(VocabularyReadings, Fields, r, VocabularyStep)
  BY VocabularyFolds
<1>5. PICK parts : PartsIn(VocabularyReadings, VocabularyStep, r, s, parts)
  BY <1>4, PartsOf
<1>6. Is(parts)
  <2>1. parts = [d \in SUBSET DOMAIN s |-> parts[d]]
    BY <1>5 DEF PartsIn
  <2>2. \A d \in SUBSET DOMAIN s : d # {} => parts[d \ {Max(d)}] \in VocabularyReadings
    BY <1>3, <1>5 DEF PartsIn
  <2>3. \A d \in SUBSET DOMAIN s :
          parts[d] = IF d = {} THEN r ELSE VocabularyRead(parts[d \ {Max(d)}], s[Max(d)])
    BY <1>2, <1>3, <1>5, <2>2, Zenon DEF PartsIn, FoldsParts
  <2> QED BY <2>1, <2>3, Zenon
<1>7. Is(it)
  <2> HIDE DEF Is
  <2> QED BY <1>6, Zenon
<1> HIDE DEF it
<1>8. \A d \in SUBSET DOMAIN s :
        it[d] = IF d = {} THEN r ELSE VocabularyRead(it[d \ {Max(d)}], s[Max(d)])
  BY <1>7, Zenon
<1> HIDE DEF Is
<1>9. TakesSteps(VocabularyReadings, VocabularyStep, r, s, it)
  <2>1. {} \in SUBSET DOMAIN s
    OBVIOUS
  <2> QED BY <1>2, <1>3, <1>8, <2>1, Zenon DEF TakesSteps
<1> QED BY <1>1, <1>4, <1>9, FoldedParts DEF VocabularyFold

\* Reading fields gives a Vocabulary.
LEMMA VocabularyFoldTyped ==
  ASSUME NEW r \in VocabularyReadings, NEW s \in Seq(Fields)
  PROVE  VocabularyFold(r, s) \in VocabularyReadings
<1>1. IsFold(VocabularyReadings, Fields, r, VocabularyStep)
  BY VocabularyFolds
<1> QED BY <1>1, FoldedIn DEF VocabularyFold

\* Reading no field changes nothing.
LEMMA VocabularyFoldNone ==
  ASSUME NEW r \in VocabularyReadings
  PROVE  VocabularyFold(r, <<>>) = r
<1>1. IsFold(VocabularyReadings, Fields, r, VocabularyStep)
  BY VocabularyFolds
<1> QED BY <1>1, FoldedEmpty DEF VocabularyFold

\* Reading one field more.
LEMMA VocabularyFoldAppend ==
  ASSUME NEW r \in VocabularyReadings, NEW s \in Seq(Fields), NEW f \in Fields
  PROVE  VocabularyFold(r, Append(s, f)) = VocabularyRead(VocabularyFold(r, s), f)
<1>1. IsFold(VocabularyReadings, Fields, r, VocabularyStep)
  BY VocabularyFolds
<1> DEFINE q == VocabularyFold(r, s)
<1>2. VocabularyFold(r, Append(s, f)) = VocabularyStep[<<q, f>>]
  BY <1>1, FoldedAppend DEF VocabularyFold
<1>3. q \in VocabularyReadings
  BY VocabularyFoldTyped
<1> HIDE DEF q
<1>4. VocabularyStep[<<q, f>>] = VocabularyRead(q, f)
  BY <1>3 DEF VocabularyStep
<1> QED BY <1>2, <1>4 DEF q

\* Reading one field.
LEMMA VocabularyFoldOne ==
  ASSUME NEW r \in VocabularyReadings, NEW f \in Fields
  PROVE  VocabularyFold(r, <<f>>) = VocabularyRead(r, f)
<1>1. <<>> \in Seq(Fields) /\ <<f>> = Append(<<>>, f)
  OBVIOUS
<1> QED BY <1>1, VocabularyFoldAppend, VocabularyFoldNone

\* Reading some fields, and others behind them.
LEMMA VocabularyFoldConcat ==
  ASSUME NEW r \in VocabularyReadings, NEW s \in Seq(Fields), NEW t \in Seq(Fields)
  PROVE  VocabularyFold(r, s \o t) = VocabularyFold(VocabularyFold(r, s), t)
<1>1. IsFold(VocabularyReadings, Fields, r, VocabularyStep)
  BY VocabularyFolds
<1> QED BY <1>1, FoldedConcat DEF VocabularyFold

\* What has failed stays failed.
LEMMA VocabularyFoldFails ==
  ASSUME NEW r \in VocabularyReadings, ~r.ok, NEW s \in Seq(Fields)
  PROVE  ~VocabularyFold(r, s).ok
<1> DEFINE S == {t \in Seq(Fields) : ~VocabularyFold(r, t).ok}
<1>1. <<>> \in S
  BY VocabularyFoldNone
<1>2. ASSUME NEW t \in Seq(Fields), NEW f \in Fields, t \in S PROVE Append(t, f) \in S
  <2> DEFINE q == VocabularyFold(r, t)
  <2>1. q \in VocabularyReadings /\ ~q.ok
    BY <1>2, VocabularyFoldTyped
  <2>2. VocabularyFold(r, Append(t, f)) = VocabularyRead(q, f)
    BY VocabularyFoldAppend
  <2> HIDE DEF q
  <2>3. VocabularyRead(q, f) = Failed(q.msg)
    BY <2>1, VocabularyReadCases
  <2>4. ~VocabularyRead(q, f).ok
    BY <2>3 DEF Failed
  <2>5. Append(t, f) \in Seq(Fields)
    OBVIOUS
  <2> QED BY <2>2, <2>4, <2>5
<1> HIDE DEF S
<1>3. s \in S
  BY <1>1, <1>2, SeqInduction
<1> QED BY <1>3 DEF S

\* Reading these fields into m gives n, if these strings are UTF-8.
VocabularyReads(m, fs, strings, n) ==
  /\ AllUtf8(strings) => VocabularyFold(Reading(m), fs) = Reading(n)
  /\ ~AllUtf8(strings) => ~VocabularyFold(Reading(m), fs).ok

\* Reading some fields, and others behind them.
LEMMA VocabularyReadsBoth ==
  ASSUME NEW m \in WellObjects, NEW n \in WellObjects, NEW p \in WellObjects,
         NEW s \in Seq(Fields), NEW t \in Seq(Fields), NEW S, NEW T,
         VocabularyReads(m, s, S, n), VocabularyReads(n, t, T, p)
  PROVE  VocabularyReads(m, s \o t, S \cup T, p)
<1> DEFINE q == VocabularyFold(Reading(m), s)
<1>1. q \in VocabularyReadings /\ VocabularyFold(Reading(m), s \o t) = VocabularyFold(q, t)
  BY VocabularyReading, VocabularyFoldTyped, VocabularyFoldConcat
<1>2. ~q.ok => ~VocabularyFold(q, t).ok
  BY <1>1, VocabularyFoldFails
<1>3. (AllUtf8(S) => q = Reading(n)) /\ (~AllUtf8(S) => ~q.ok)
  BY Zenon DEF VocabularyReads
<1>4. /\ AllUtf8(T) => VocabularyFold(Reading(n), t) = Reading(p)
      /\ ~AllUtf8(T) => ~VocabularyFold(Reading(n), t).ok
  BY Zenon DEF VocabularyReads
<1> HIDE DEF q
<1> QED BY <1>1, <1>2, <1>3, <1>4, Utf8Both, Zenon DEF VocabularyReads

\* Reading a string that may have been left out.
LEMMA VocabularyReadsOptional ==
  ASSUME NEW m \in WellObjects, NEW s \in Seq(Nat), NEW tag \in Nat, tag % 8 = 2, NEW n,
         n \in WellObjects,
         s = <<>> => n = m,
         s # <<>> => VocabularyRead(Reading(m), [tag |-> tag, value |-> s]) = Checked(s, n)
  PROVE  VocabularyReads(m, Optional(tag, s), {s}, n)
<1>1. CASE s = <<>>
  <2>1. Optional(tag, s) = <<>>
    BY <1>1, Zenon DEF Optional
  <2>2. IsUtf8(s)
    BY <1>1 DEF IsUtf8
  <2>3. n = m
    BY <1>1
  <2>4. VocabularyFold(Reading(m), <<>>) = Reading(m)
    BY VocabularyReading, VocabularyFoldNone
  <2> QED BY <2>1, <2>2, <2>3, <2>4, Utf8One, Zenon DEF VocabularyReads
<1>2. CASE s # <<>>
  <2> DEFINE f == [tag |-> tag, value |-> s]
             q == VocabularyFold(Reading(m), Optional(tag, s))
  <2>1. f \in GoodFields
    BY DEF GoodFields
  <2>2. Optional(tag, s) = <<f>>
    BY <1>2, Zenon DEF Optional
  <2>3. VocabularyRead(Reading(m), f) = Checked(s, n)
    BY <1>2
  <2> HIDE DEF f
  <2>4. VocabularyFold(Reading(m), <<f>>) = VocabularyRead(Reading(m), f)
    BY <2>1, VocabularyReading, VocabularyFoldOne DEF Fields
  <2>5. q = Checked(s, n)
    BY <2>2, <2>3, <2>4, Zenon
  <2> HIDE DEF q
  <2>6. IsUtf8(s) => q = Reading(n)
    BY <2>5, VocabularyReading
  <2>7. ~IsUtf8(s) => ~q.ok
    BY <2>5, VocabularyReading
  <2> QED BY <2>6, <2>7, Utf8One, Zenon DEF VocabularyReads, q
<1> QED BY <1>1, <1>2

\* m with other strings.
WithStrings(m, w, a, b, c) ==
  [word |-> w, synonyms |-> m.synonyms, macmillan_url |-> a, youglish_url |-> b,
   reverso_url |-> c, unknown |-> m.unknown, spare |-> m.spare]

\* Setting one of the strings leaves the other fields alone.
LEMMA StringSetInRecord ==
  ASSUME NEW A, NEW B, NEW C, NEW D, NEW m, IsRecord(A, B, C, D, m), NEW s
  PROVE  /\ SetString(m, "word", s)
              = WithStrings(m, s, m.macmillan_url, m.youglish_url, m.reverso_url)
         /\ SetString(m, "macmillan_url", s)
              = WithStrings(m, m.word, s, m.youglish_url, m.reverso_url)
         /\ SetString(m, "youglish_url", s)
              = WithStrings(m, m.word, m.macmillan_url, s, m.reverso_url)
         /\ SetString(m, "reverso_url", s)
              = WithStrings(m, m.word, m.macmillan_url, m.youglish_url, s)
<1>1. SetString(m, "word", s) = WithStrings(m, s, m.macmillan_url, m.youglish_url, m.reverso_url)
  <2>1. [m EXCEPT !.word = s] = WithStrings(m, s, m.macmillan_url, m.youglish_url, m.reverso_url)
    BY DEF WithStrings, IsRecord
  <2> QED BY <2>1 DEF SetString
<1>2. SetString(m, "macmillan_url", s) = WithStrings(m, m.word, s, m.youglish_url, m.reverso_url)
  <2>1. [m EXCEPT !.macmillan_url = s] = WithStrings(m, m.word, s, m.youglish_url, m.reverso_url)
    BY DEF WithStrings, IsRecord
  <2> QED BY <2>1 DEF SetString
<1>3. SetString(m, "youglish_url", s) = WithStrings(m, m.word, m.macmillan_url, s, m.reverso_url)
  <2>1. [m EXCEPT !.youglish_url = s] = WithStrings(m, m.word, m.macmillan_url, s, m.reverso_url)
    BY DEF WithStrings, IsRecord
  <2> QED BY <2>1 DEF SetString
<1>4. SetString(m, "reverso_url", s) = WithStrings(m, m.word, m.macmillan_url, m.youglish_url, s)
  <2>1. [m EXCEPT !.reverso_url = s] = WithStrings(m, m.word, m.macmillan_url, m.youglish_url, s)
    BY DEF WithStrings, IsRecord
  <2> QED BY <2>1 DEF SetString
<1> QED BY <1>1, <1>2, <1>3, <1>4

\* The same of the objects of the program.
LEMMA StringSetIs ==
  ASSUME NEW m \in WellObjects, NEW s \in Seq(Nat)
  PROVE  /\ SetString(m, "word", s)
              = WithStrings(m, s, m.macmillan_url, m.youglish_url, m.reverso_url)
         /\ SetString(m, "macmillan_url", s)
              = WithStrings(m, m.word, s, m.youglish_url, m.reverso_url)
         /\ SetString(m, "youglish_url", s)
              = WithStrings(m, m.word, m.macmillan_url, s, m.reverso_url)
         /\ SetString(m, "reverso_url", s)
              = WithStrings(m, m.word, m.macmillan_url, m.youglish_url, s)
<1>1. IsRecord(Seq(Nat), Seq(WellSynonyms), UnknownBytes(VocabularyTags), Seq(ClearSynonyms), m)
  BY DEF IsRecord, WellObjects
<1> QED BY <1>1, StringSetInRecord

\* Its fields.
LEMMA WithStringsIs ==
  ASSUME NEW m, NEW w, NEW a, NEW b, NEW c
  PROVE  /\ WithStrings(m, w, a, b, c).word = w
         /\ WithStrings(m, w, a, b, c).synonyms = m.synonyms
         /\ WithStrings(m, w, a, b, c).macmillan_url = a
         /\ WithStrings(m, w, a, b, c).youglish_url = b
         /\ WithStrings(m, w, a, b, c).reverso_url = c
         /\ WithStrings(m, w, a, b, c).unknown = m.unknown
         /\ WithStrings(m, w, a, b, c).spare = m.spare
BY DEF WithStrings

\* Setting the strings there are changes nothing.
LEMMA SameStrings ==
  ASSUME NEW m \in WellObjects
  PROVE  WithStrings(m, m.word, m.macmillan_url, m.youglish_url, m.reverso_url) = m
BY DEF WithStrings, WellObjects

\* Reading one of the strings is merging it.
LEMMA VocabularyReadsStrings ==
  ASSUME NEW m \in WellObjects, NEW s \in Seq(Nat)
  PROVE  /\ VocabularyReads(m, Optional(10, s), {s}, SetString(m, "word", Merged(s, m.word)))
         /\ VocabularyReads(m, Optional(26, s), {s},
                            SetString(m, "macmillan_url", Merged(s, m.macmillan_url)))
         /\ VocabularyReads(m, Optional(34, s), {s},
                            SetString(m, "youglish_url", Merged(s, m.youglish_url)))
         /\ VocabularyReads(m, Optional(42, s), {s},
                            SetString(m, "reverso_url", Merged(s, m.reverso_url)))
<1> DEFINE r == Reading(m)
<1>1. r \in VocabularyReadings /\ r.ok /\ r.msg = m
  BY VocabularyReading
<1> HIDE DEF r
<1>2. \A old : /\ s = <<>> => Merged(s, old) = old
               /\ s # <<>> => Merged(s, old) = s
  BY Zenon DEF Merged
<1>3. VocabularyReads(m, Optional(10, s), {s}, SetString(m, "word", Merged(s, m.word)))
  <2> DEFINE f == [tag |-> 10, value |-> s]
             n == SetString(m, "word", Merged(s, m.word))
  <2>1. f \in GoodFields /\ f.tag = 10 /\ f.value = s
    BY DEF GoodFields
  <2>2. f # Broken
    BY <2>1, BrokenIsNotGood
  <2>3. n \in WellObjects
    BY VocabularyTyped, MergedTyped, VocabularyStringSet
  <2>4. s = <<>> => n = m
    BY <1>2, VocabularyTyped, StringSetIs, SameStrings
  <2>5. s # <<>> => n = SetString(m, "word", s)
    BY <1>2
  <2> HIDE DEF n
  <2>6. s # <<>> => VocabularyRead(r, f) = Checked(s, n)
    <3> HIDE DEF f
    <3> QED BY <1>1, <2>1, <2>2, <2>5, VocabularyReadCases
  <2>7. 10 \in Nat /\ 10 % 8 = 2
    OBVIOUS
  <2>8. VocabularyReads(m, Optional(10, s), {s}, n)
    BY <2>3, <2>4, <2>6, <2>7, VocabularyReadsOptional DEF r
  <2> QED BY <2>8 DEF n
<1>4. VocabularyReads(m, Optional(26, s), {s}, SetString(m, "macmillan_url", Merged(s, m.macmillan_url)))
  <2> DEFINE f == [tag |-> 26, value |-> s]
             n == SetString(m, "macmillan_url", Merged(s, m.macmillan_url))
  <2>1. f \in GoodFields /\ f.tag = 26 /\ f.value = s
    BY DEF GoodFields
  <2>2. f # Broken
    BY <2>1, BrokenIsNotGood
  <2>3. n \in WellObjects
    BY VocabularyTyped, MergedTyped, VocabularyStringSet
  <2>4. s = <<>> => n = m
    BY <1>2, VocabularyTyped, StringSetIs, SameStrings
  <2>5. s # <<>> => n = SetString(m, "macmillan_url", s)
    BY <1>2
  <2> HIDE DEF n
  <2>6. s # <<>> => VocabularyRead(r, f) = Checked(s, n)
    <3> HIDE DEF f
    <3> QED BY <1>1, <2>1, <2>2, <2>5, VocabularyReadCases
  <2>7. 26 \in Nat /\ 26 % 8 = 2
    OBVIOUS
  <2>8. VocabularyReads(m, Optional(26, s), {s}, n)
    BY <2>3, <2>4, <2>6, <2>7, VocabularyReadsOptional DEF r
  <2> QED BY <2>8 DEF n
<1>5. VocabularyReads(m, Optional(34, s), {s}, SetString(m, "youglish_url", Merged(s, m.youglish_url)))
  <2> DEFINE f == [tag |-> 34, value |-> s]
             n == SetString(m, "youglish_url", Merged(s, m.youglish_url))
  <2>1. f \in GoodFields /\ f.tag = 34 /\ f.value = s
    BY DEF GoodFields
  <2>2. f # Broken
    BY <2>1, BrokenIsNotGood
  <2>3. n \in WellObjects
    BY VocabularyTyped, MergedTyped, VocabularyStringSet
  <2>4. s = <<>> => n = m
    BY <1>2, VocabularyTyped, StringSetIs, SameStrings
  <2>5. s # <<>> => n = SetString(m, "youglish_url", s)
    BY <1>2
  <2> HIDE DEF n
  <2>6. s # <<>> => VocabularyRead(r, f) = Checked(s, n)
    <3> HIDE DEF f
    <3> QED BY <1>1, <2>1, <2>2, <2>5, VocabularyReadCases
  <2>7. 34 \in Nat /\ 34 % 8 = 2
    OBVIOUS
  <2>8. VocabularyReads(m, Optional(34, s), {s}, n)
    BY <2>3, <2>4, <2>6, <2>7, VocabularyReadsOptional DEF r
  <2> QED BY <2>8 DEF n
<1>6. VocabularyReads(m, Optional(42, s), {s}, SetString(m, "reverso_url", Merged(s, m.reverso_url)))
  <2> DEFINE f == [tag |-> 42, value |-> s]
             n == SetString(m, "reverso_url", Merged(s, m.reverso_url))
  <2>1. f \in GoodFields /\ f.tag = 42 /\ f.value = s
    BY DEF GoodFields
  <2>2. f # Broken
    BY <2>1, BrokenIsNotGood
  <2>3. n \in WellObjects
    BY VocabularyTyped, MergedTyped, VocabularyStringSet
  <2>4. s = <<>> => n = m
    BY <1>2, VocabularyTyped, StringSetIs, SameStrings
  <2>5. s # <<>> => n = SetString(m, "reverso_url", s)
    BY <1>2
  <2> HIDE DEF n
  <2>6. s # <<>> => VocabularyRead(r, f) = Checked(s, n)
    <3> HIDE DEF f
    <3> QED BY <1>1, <2>1, <2>2, <2>5, VocabularyReadCases
  <2>7. 42 \in Nat /\ 42 % 8 = 2
    OBVIOUS
  <2>8. VocabularyReads(m, Optional(42, s), {s}, n)
    BY <2>3, <2>4, <2>6, <2>7, VocabularyReadsOptional DEF r
  <2> QED BY <2>8 DEF n
<1> QED BY <1>3, <1>4, <1>5, <1>6

\* Unknown fields are kept as they are, in their order.
LEMMA VocabularyFoldUnknown ==
  ASSUME NEW m \in WellObjects, NEW s \in Seq(UnknownFields(VocabularyTags))
  PROVE  VocabularyFold(Reading(m), s) = Reading(SetUnknown(m, m.unknown \o BytesOf(s)))
<1> DEFINE Good(t) == VocabularyFold(Reading(m), t) = Reading(SetUnknown(m, m.unknown \o BytesOf(t)))
           S == {t \in Seq(UnknownFields(VocabularyTags)) : Good(t)}
<1>1. m.unknown \in Seq(Nat)
  BY VocabularyTyped
<1>2. <<>> \in S
  <2>1. m.unknown \o BytesOf(<<>>) = m.unknown
    BY <1>1, BytesEmpty
  <2>2. SetUnknown(m, m.unknown) = m
    BY DEF SetUnknown, WellObjects
  <2>3. VocabularyFold(Reading(m), <<>>) = Reading(m)
    BY VocabularyReading, VocabularyFoldNone
  <2>4. Good(<<>>)
    BY <2>1, <2>2, <2>3
  <2> HIDE DEF Good
  <2> QED BY <2>4
<1>3. ASSUME NEW t \in Seq(UnknownFields(VocabularyTags)), NEW f \in UnknownFields(VocabularyTags),
             t \in S
      PROVE  Append(t, f) \in S
  <2>1. Good(t)
    <3> HIDE DEF Good
    <3> QED BY <1>3
  <2>2. t \in Seq(GoodFields) /\ t \in Seq(Fields)
    BY UnknownAreGood
  <2>3. f \in GoodFields /\ f \in Fields /\ f.tag \notin VocabularyTags /\ f # Broken
    BY BrokenIsNotGood DEF UnknownFields, Fields
  <2> DEFINE b == BytesOf(t)
             c == FieldBytes(f)
             u == m.unknown \o b
             n == SetUnknown(m, u)
  <2>4. VocabularyFold(Reading(m), Append(t, f)) = VocabularyRead(Reading(n), f)
    BY <2>1, <2>2, <2>3, VocabularyReading, VocabularyFoldAppend
  <2>5. BytesOf(Append(t, f)) = b \o c /\ b \in Seq(Nat) /\ c \in Seq(Nat)
    BY <2>2, <2>3, BytesAppend, BytesTyped, FieldBytesTyped
  <2>6. u \in UnknownBytes(VocabularyTags)
    <3>1. b \in UnknownBytes(VocabularyTags)
      BY DEF UnknownBytes
    <3> QED BY <3>1, VocabularyTyped, UnknownBoth
  <2>7. u \o c = m.unknown \o (b \o c)
    BY <1>1, <2>5, BytesAssociate, Zenon
  <2>8. c = FieldBytes(f)
    OBVIOUS
  <2> HIDE DEF b, c, u
  <2>9. n \in WellObjects /\ n.unknown = u /\ \A v : SetUnknown(n, v) = SetUnknown(m, v)
    <3>1. n \in WellObjects
      BY <2>6, VocabularyUnknownSet
    <3>2. n.unknown = u
      BY DEF SetUnknown, WellObjects
    <3>3. \A v : [[m EXCEPT !.unknown = u] EXCEPT !.unknown = v] = [m EXCEPT !.unknown = v]
      BY DEF WellObjects
    <3>4. \A v : SetUnknown(n, v) = SetUnknown(m, v)
      BY <3>3, Zenon DEF SetUnknown
    <3> QED BY <3>1, <3>2, <3>4
  <2> HIDE DEF n
  <2>10. VocabularyRead(Reading(n), f) = Reading(SetUnknown(n, n.unknown \o c))
    BY <2>3, <2>8, <2>9, VocabularyReading, VocabularyReadCases
  <2>11. Good(Append(t, f))
    BY <2>4, <2>5, <2>7, <2>9, <2>10, Zenon
  <2>12. Append(t, f) \in Seq(UnknownFields(VocabularyTags))
    OBVIOUS
  <2> HIDE DEF Good
  <2> QED BY <2>11, <2>12
<1> HIDE DEF S
<1>4. s \in S
  BY <1>2, <1>3, SeqInduction
<1>5. Good(s)
  <2> HIDE DEF Good
  <2> QED BY <1>4 DEF S
<1> QED BY <1>5

\* A function applied to each element.
Map(g, xs) == [i \in DOMAIN xs |-> g[xs[i]]]
IsMap(A, B, g) == g \in [A -> B]

\* Its elements.
LEMMA Mapped ==
  ASSUME NEW A, NEW B, NEW g, IsMap(A, B, g), NEW xs \in Seq(A)
  PROVE  /\ Map(g, xs) \in Seq(B) /\ Len(Map(g, xs)) = Len(xs)
         /\ \A i \in 1..Len(xs) : Map(g, xs)[i] = g[xs[i]]
<1>1. \A i \in 1..Len(xs) : g[xs[i]] \in B
  BY DEF IsMap
<1>2. Len(xs) \in Nat /\ DOMAIN xs = 1..Len(xs)
  OBVIOUS
<1> DEFINE t == [i \in 1..Len(xs) |-> g[xs[i]]]
<1>3. t \in Seq(B) /\ Len(t) = Len(xs) /\ \A i \in 1..Len(xs) : t[i] = g[xs[i]]
  BY <1>1, <1>2
<1>4. Map(g, xs) = t
  BY <1>2 DEF Map
<1> HIDE DEF t
<1> QED BY <1>3, <1>4

\* No element.
LEMMA MappedNone ==
  ASSUME NEW A, NEW B, NEW g, IsMap(A, B, g)
  PROVE  Map(g, <<>>) = <<>>
<1>1. PICK e \in Seq(A) : e = <<>> /\ Len(e) = 0
  <2>1. <<>> \in Seq(A) /\ Len(<<>>) = 0
    OBVIOUS
  <2> QED BY <2>1, Zenon
<1> DEFINE t == Map(g, e)
<1>2. t \in Seq(B) /\ Len(t) = Len(e)
  BY Mapped
<1> HIDE DEF t
<1>3. t = <<>>
  BY <1>1, <1>2
<1> QED BY <1>1, <1>3, Zenon DEF t

\* The elements of two sequences.
LEMMA MappedConcat ==
  ASSUME NEW A, NEW B, NEW g, IsMap(A, B, g), NEW xs \in Seq(A), NEW ys \in Seq(A)
  PROVE  Map(g, xs \o ys) = Map(g, xs) \o Map(g, ys)
<1> DEFINE zs == xs \o ys
           s == Map(g, xs)
           t == Map(g, ys)
           u == Map(g, zs)
<1>1. /\ zs \in Seq(A) /\ Len(zs) = Len(xs) + Len(ys) /\ Len(xs) \in Nat /\ Len(ys) \in Nat
      /\ \A i \in 1..Len(xs) : zs[i] = xs[i]
      /\ \A i \in 1..Len(ys) : zs[Len(xs) + i] = ys[i]
  OBVIOUS
<1> HIDE DEF zs
<1>2. /\ s \in Seq(B) /\ t \in Seq(B) /\ u \in Seq(B)
      /\ Len(s) = Len(xs) /\ Len(t) = Len(ys) /\ Len(u) = Len(zs)
      /\ \A i \in 1..Len(xs) : s[i] = g[xs[i]]
      /\ \A i \in 1..Len(ys) : t[i] = g[ys[i]]
      /\ \A i \in 1..Len(zs) : u[i] = g[zs[i]]
  <2>1. s \in Seq(B) /\ Len(s) = Len(xs) /\ \A i \in 1..Len(xs) : s[i] = g[xs[i]]
    BY Mapped
  <2>2. t \in Seq(B) /\ Len(t) = Len(ys) /\ \A i \in 1..Len(ys) : t[i] = g[ys[i]]
    BY Mapped
  <2>3. u \in Seq(B) /\ Len(u) = Len(zs) /\ \A i \in 1..Len(zs) : u[i] = g[zs[i]]
    BY <1>1, Mapped
  <2> HIDE DEF s, t, u
  <2> QED BY <2>1, <2>2, <2>3
<1> HIDE DEF s, t, u
<1> DEFINE v == s \o t
<1>3. /\ v \in Seq(B) /\ Len(v) = Len(xs) + Len(ys)
      /\ \A i \in 1..Len(xs) : v[i] = s[i]
      /\ \A i \in 1..Len(ys) : v[Len(xs) + i] = t[i]
  BY <1>2
<1> HIDE DEF v
<1>4. ASSUME NEW i \in 1..Len(u) PROVE u[i] = v[i]
  <2>1. CASE i \in 1..Len(xs)
    <3>1. i \in 1..Len(zs)
      BY <1>2
    <3>2. u[i] = g[zs[i]] /\ zs[i] = xs[i] /\ v[i] = s[i] /\ s[i] = g[xs[i]]
      BY <1>1, <1>2, <1>3, <2>1, <3>1, Zenon
    <3> QED BY <3>2
  <2>2. CASE i \notin 1..Len(xs)
    <3>1. PICK j \in 1..Len(ys) : i = Len(xs) + j
      <4>1. i - Len(xs) \in 1..Len(ys) /\ i = Len(xs) + (i - Len(xs))
        BY <1>1, <1>2, <2>2
      <4> QED BY <4>1, Zenon
    <3>2. i \in 1..Len(zs)
      BY <1>2
    <3>3. u[i] = g[zs[i]] /\ zs[i] = ys[j] /\ v[i] = t[j] /\ t[j] = g[ys[j]]
      BY <1>1, <1>2, <1>3, <3>1, <3>2, Zenon
    <3> QED BY <3>3
  <2> QED BY <2>1, <2>2
<1>5. u = v
  BY <1>1, <1>2, <1>3, <1>4, SeqEqual
<1> QED BY <1>5 DEF u, v, s, t, zs

\* Two sequences put together.
LEMMA ConcatIs ==
  ASSUME NEW E, NEW s \in Seq(E), NEW t \in Seq(E)
  PROVE  /\ s \o t \in Seq(E) /\ Len(s \o t) = Len(s) + Len(t)
         /\ \A i \in 1..Len(s) : (s \o t)[i] = s[i]
         /\ \A i \in 1..Len(t) : (s \o t)[Len(s) + i] = t[i]
OBVIOUS

\* Appending is putting a sequence of one behind another.
LEMMA ConcatOne ==
  ASSUME NEW E, NEW s \in Seq(E), NEW t \in Seq(E), NEW e \in E, Len(t) = 1, t[1] = e
  PROVE  s \o t = Append(s, e)
<1> DEFINE u == s \o t
           v == Append(s, e)
<1>1. /\ u \in Seq(E) /\ Len(u) = Len(s) + Len(t)
      /\ \A i \in 1..Len(s) : u[i] = s[i]
      /\ \A i \in 1..Len(t) : u[Len(s) + i] = t[i]
  BY ConcatIs
<1>2. /\ v \in Seq(E) /\ Len(v) = Len(s) + 1 /\ v[Len(s) + 1] = e
      /\ \A i \in 1..Len(s) : v[i] = s[i]
  OBVIOUS
<1>3. Len(s) \in Nat
  OBVIOUS
<1> HIDE DEF u, v
<1>4. u[Len(s) + 1] = e
  BY <1>1
<1>5. \A i \in 1..Len(u) : u[i] = v[i]
  BY <1>1, <1>2, <1>3, <1>4
<1>6. u = v
  BY <1>1, <1>2, <1>5, SeqEqual
<1> QED BY <1>6 DEF u, v

\* One element more.
LEMMA MappedAppend ==
  ASSUME NEW A, NEW B, NEW g, IsMap(A, B, g), NEW xs \in Seq(A), NEW x \in A
  PROVE  Map(g, Append(xs, x)) = Append(Map(g, xs), g[x])
<1> DEFINE ys == <<x>>
           t == Map(g, ys)
           s == Map(g, xs)
<1>1. ys \in Seq(A) /\ Len(ys) = 1 /\ ys[1] = x /\ Append(xs, x) = xs \o ys
  OBVIOUS
<1> HIDE DEF ys
<1>2. t \in Seq(B) /\ Len(t) = 1 /\ t[1] = g[x] /\ s \in Seq(B) /\ g[x] \in B
  <2>1. t \in Seq(B) /\ Len(t) = Len(ys) /\ \A i \in 1..Len(ys) : t[i] = g[ys[i]]
    BY <1>1, Mapped
  <2>2. s \in Seq(B)
    BY Mapped
  <2>3. g[x] \in B
    BY DEF IsMap
  <2> HIDE DEF t, s
  <2> QED BY <1>1, <2>1, <2>2, <2>3
<1>3. Map(g, xs \o ys) = s \o t
  BY <1>1, MappedConcat
<1> HIDE DEF s, t
<1>4. s \o t = Append(s, g[x])
  BY <1>2, ConcatOne
<1> QED BY <1>1, <1>3, <1>4 DEF s

-----------------------------------------------------------------------------
(* The elements of a Vocabulary. *)

SynonymStrings(x) == {x.synonym, x.turkish_meaning, x.sample_sentences}

\* SynonymIsUtf8 in terms of the set of strings.
LEMMA SynonymUtf8 ==
  ASSUME NEW x
  PROVE  SynonymIsUtf8(x) <=> AllUtf8(SynonymStrings(x))
BY Zenon DEF SynonymIsUtf8, AllUtf8, SynonymStrings

ElementField(x) == [tag |-> 18, value |-> SynonymWrite(x)]

\* An element is one field.
LEMMA ElementFieldIs ==
  ASSUME NEW x \in SynonymObjects
  PROVE  /\ ElementField(x) \in GoodFields /\ ElementField(x) \in Fields
         /\ ElementField(x) # Broken
         /\ ElementField(x).tag = 18 /\ ElementField(x).value = SynonymWrite(x)
<1> DEFINE w == SynonymWrite(x)
<1>1. w \in Seq(Nat)
  BY SynonymSizeIsExact
<1>2. ElementField(x) = [tag |-> 18, value |-> w]
  BY DEF ElementField
<1> HIDE DEF w
<1>3. ElementField(x) \in GoodFields /\ ElementField(x).tag = 18 /\ ElementField(x).value = w
  BY <1>1, <1>2 DEF GoodFields
<1> QED BY <1>3, BrokenIsNotGood DEF Fields, w

\* Merging one element appends it.
LEMMA AddMergedIs ==
  ASSUME NEW m \in WellObjects, NEW x \in WellSynonyms
  PROVE  \E c \in ClearSynonyms, p \in Seq(ClearSynonyms) :
           /\ Last(AddSynonym(m).synonyms) = c
           /\ WithLast(AddSynonym(m), SynonymMerge(c, x)) = AddMerged(m, x)
           /\ AddMerged(m, x) = WithElements(m, Append(m.synonyms, SynonymMerge(c, x)), p)
           /\ SynonymMerge(c, x) \in WellSynonyms
           /\ AddMerged(m, x) \in WellObjects
<1> DEFINE a == AddSynonym(m)
<1>1. PICK c \in ClearSynonyms, p \in Seq(ClearSynonyms) :
        /\ Last(a.synonyms) = c
        /\ \A e \in WellSynonyms : WithLast(a, e) = WithElements(m, Append(m.synonyms, e), p)
  BY AddSynonymIs
<1>2. SynonymMerge(c, x) \in WellSynonyms
  BY ClearSynonymIs, WellMerge
<1>3. AddMerged(m, x) = WithLast(a, SynonymMerge(c, x))
  BY <1>1, Zenon DEF AddMerged
<1> DEFINE e == SynonymMerge(c, x)
<1> HIDE DEF a, e
<1>4. AddMerged(m, x) = WithElements(m, Append(m.synonyms, e), p)
  BY <1>1, <1>2, <1>3 DEF e
<1>5. Append(m.synonyms, e) \in Seq(WellSynonyms)
  BY <1>2, VocabularyTyped DEF e
<1>6. AddMerged(m, x) \in WellObjects
  BY <1>4, <1>5, WithElementsTyped
<1> QED BY <1>1, <1>2, <1>3, <1>4, <1>6 DEF a, e

\* Reading the field of an element appends it.
LEMMA VocabularyReadsElement ==
  ASSUME NEW m \in WellObjects, NEW x \in WellSynonyms
  PROVE  VocabularyReads(m, <<ElementField(x)>>, SynonymStrings(x), AddMerged(m, x))
<1> DEFINE r == Reading(m)
           f == ElementField(x)
           a == AddSynonym(m)
           q == VocabularyFold(r, <<f>>)
<1>1. /\ r \in VocabularyReadings /\ r.ok /\ r.msg = m
      /\ f \in Fields /\ f # Broken /\ f.tag = 18 /\ f.value = SynonymWrite(x)
  BY VocabularyReading, ElementFieldIs DEF WellSynonyms
<1>2. PICK c \in ClearSynonyms :
        /\ Last(a.synonyms) = c
        /\ WithLast(a, SynonymMerge(c, x)) = AddMerged(m, x)
  BY AddMergedIs
<1> DEFINE e == SynonymReadAll(c, f.value)
<1>3. q = ReadElement(r, f)
  <2> HIDE DEF r, f
  <2>1. q = VocabularyRead(r, f)
    BY <1>1, VocabularyFoldOne
  <2> HIDE DEF q
  <2> QED BY <1>1, <2>1, VocabularyReadCases
<1> HIDE DEF q
<1>4. ReadElement(r, f) = [ok |-> e.ok, msg |-> WithLast(a, e.msg)]
  BY <1>1, <1>2, Zenon DEF ReadElement
<1>5. /\ SynonymIsUtf8(x) => e = Reading(SynonymMerge(c, x))
      /\ ~SynonymIsUtf8(x) => ~e.ok
  BY <1>1, ClearSynonymIs, SynonymReadsWritten DEF WellSynonyms
<1> HIDE DEF e, a, r, f
<1>6. SynonymIsUtf8(x) => q = Reading(AddMerged(m, x))
  <2> SUFFICES ASSUME SynonymIsUtf8(x) PROVE q = Reading(AddMerged(m, x))
    OBVIOUS
  <2>1. e = [ok |-> TRUE, msg |-> SynonymMerge(c, x)]
    BY <1>5 DEF Reading
  <2>2. e.ok = TRUE /\ e.msg = SynonymMerge(c, x)
    BY <2>1
  <2> QED BY <1>2, <1>3, <1>4, <2>2, Zenon DEF Reading
<1>7. ~SynonymIsUtf8(x) => ~q.ok
  BY <1>3, <1>4, <1>5
<1> QED BY <1>6, <1>7, SynonymUtf8, Zenon DEF VocabularyReads, q, r, f

AddMergedStep == [y \in WellObjects \X WellSynonyms |-> AddMerged(y[1], y[2])]
Added(m, xs) == Folded(WellObjects, AddMergedStep, m, xs)

\* Merging elements is a fold.
LEMMA AddedFolds ==
  ASSUME NEW m \in WellObjects
  PROVE  IsFold(WellObjects, WellSynonyms, m, AddMergedStep)
<1>1. ASSUME NEW y \in WellObjects \X WellSynonyms PROVE AddMerged(y[1], y[2]) \in WellObjects
  <2>1. y[1] \in WellObjects /\ y[2] \in WellSynonyms
    OBVIOUS
  <2> QED BY <2>1, AddMergedIs
<1> QED BY <1>1 DEF IsFold, AddMergedStep

\* It is the fold VocabularyMerge makes.
LEMMA AddedFoldLeft ==
  ASSUME NEW r \in WellObjects, NEW s \in Seq(WellSynonyms)
  PROVE  FoldLeft(AddMerged, r, s) = Added(r, s)
<1> DEFINE Is(it) == it = [d \in SUBSET DOMAIN s |->
                             IF d = {} THEN r ELSE AddMerged(it[d \ {Max(d)}], s[Max(d)])]
           it == CHOOSE x : Is(x)
<1>1. FoldLeft(AddMerged, r, s) = it[DOMAIN s]
  BY DEF FoldLeft, MapThenFoldSet
<1>2. \A a \in WellObjects, x \in WellSynonyms : AddMergedStep[<<a, x>>] = AddMerged(a, x)
  BY DEF AddMergedStep
<1>3. \A d \in SUBSET DOMAIN s :
        d # {} => s[Max(d)] \in WellSynonyms /\ d \ {Max(d)} \in SUBSET DOMAIN s
  BY MaxElement
<1>4. IsFold(WellObjects, WellSynonyms, r, AddMergedStep)
  BY AddedFolds
<1>5. PICK parts : PartsIn(WellObjects, AddMergedStep, r, s, parts)
  BY <1>4, PartsOf
<1>6. Is(parts)
  <2>1. parts = [d \in SUBSET DOMAIN s |-> parts[d]]
    BY <1>5 DEF PartsIn
  <2>2. \A d \in SUBSET DOMAIN s : d # {} => parts[d \ {Max(d)}] \in WellObjects
    BY <1>3, <1>5 DEF PartsIn
  <2>3. \A d \in SUBSET DOMAIN s :
          parts[d] = IF d = {} THEN r ELSE AddMerged(parts[d \ {Max(d)}], s[Max(d)])
    BY <1>2, <1>3, <1>5, <2>2, Zenon DEF PartsIn, FoldsParts
  <2> QED BY <2>1, <2>3, Zenon
<1>7. Is(it)
  <2> HIDE DEF Is
  <2> QED BY <1>6, Zenon
<1> HIDE DEF it
<1>8. \A d \in SUBSET DOMAIN s :
        it[d] = IF d = {} THEN r ELSE AddMerged(it[d \ {Max(d)}], s[Max(d)])
  BY <1>7, Zenon
<1> HIDE DEF Is
<1>9. TakesSteps(WellObjects, AddMergedStep, r, s, it)
  <2>1. {} \in SUBSET DOMAIN s
    OBVIOUS
  <2> QED BY <1>2, <1>3, <1>8, <2>1, Zenon DEF TakesSteps
<1> QED BY <1>1, <1>4, <1>9, FoldedParts DEF Added

\* It gives a Vocabulary.
LEMMA AddedTyped ==
  ASSUME NEW m \in WellObjects, NEW xs \in Seq(WellSynonyms)
  PROVE  Added(m, xs) \in WellObjects
<1>1. IsFold(WellObjects, WellSynonyms, m, AddMergedStep)
  BY AddedFolds
<1> QED BY <1>1, FoldedIn DEF Added

\* Merging no element changes nothing.
LEMMA AddedNone ==
  ASSUME NEW m \in WellObjects
  PROVE  Added(m, <<>>) = m
<1>1. IsFold(WellObjects, WellSynonyms, m, AddMergedStep)
  BY AddedFolds
<1> QED BY <1>1, FoldedEmpty DEF Added

\* Merging one element more.
LEMMA AddedAppend ==
  ASSUME NEW m \in WellObjects, NEW xs \in Seq(WellSynonyms), NEW x \in WellSynonyms
  PROVE  Added(m, Append(xs, x)) = AddMerged(Added(m, xs), x)
<1>1. IsFold(WellObjects, WellSynonyms, m, AddMergedStep)
  BY AddedFolds
<1> DEFINE q == Added(m, xs)
<1>2. Added(m, Append(xs, x)) = AddMergedStep[<<q, x>>]
  BY <1>1, FoldedAppend DEF Added
<1>3. q \in WellObjects
  BY AddedTyped
<1> HIDE DEF q
<1>4. AddMergedStep[<<q, x>>] = AddMerged(q, x)
  BY <1>3 DEF AddMergedStep
<1> QED BY <1>2, <1>4 DEF q

\* The elements seen by a reader.
Content == [x \in SynonymObjects |-> SynonymContent(x)]
Contents(xs) == Map(Content, xs)

\* Content is a function on Synonyms.
LEMMA ContentMaps == IsMap(SynonymObjects, SynonymObjects, Content)
BY SynonymContentIs DEF IsMap, Content

\* The elements are Synonyms.
LEMMA WellAreSynonyms ==
  ASSUME NEW xs \in Seq(WellSynonyms)
  PROVE  xs \in Seq(SynonymObjects)
<1>1. WellSynonyms \subseteq SynonymObjects
  BY DEF WellSynonyms
<1> QED BY <1>1, SeqOfMore

\* The contents of elements are Synonyms.
LEMMA ContentsTyped ==
  ASSUME NEW xs \in Seq(SynonymObjects)
  PROVE  Contents(xs) \in Seq(SynonymObjects)
BY ContentMaps, Mapped DEF Contents

\* Those of one element more.
LEMMA ContentsAppend ==
  ASSUME NEW xs \in Seq(SynonymObjects), NEW x \in SynonymObjects
  PROVE  Contents(Append(xs, x)) = Append(Contents(xs), SynonymContent(x))
<1>1. Contents(Append(xs, x)) = Append(Contents(xs), Content[x])
  BY ContentMaps, MappedAppend DEF Contents
<1>2. Content[x] = SynonymContent(x)
  BY DEF Content
<1> QED BY <1>1, <1>2

\* Those of no element.
LEMMA ContentsNone == Contents(<<>>) = <<>>
BY ContentMaps, MappedNone DEF Contents

SameButElements(n, m) ==
  /\ n.word = m.word /\ n.macmillan_url = m.macmillan_url
  /\ n.youglish_url = m.youglish_url /\ n.reverso_url = m.reverso_url
  /\ n.unknown = m.unknown

\* Merging elements appends their contents.
LEMMA AddedIs ==
  ASSUME NEW m \in WellObjects, NEW xs \in Seq(WellSynonyms)
  PROVE  /\ SameButElements(Added(m, xs), m)
         /\ Contents(Added(m, xs).synonyms) = Contents(m.synonyms) \o Contents(xs)
<1> DEFINE S == {s \in Seq(WellSynonyms) :
                   /\ SameButElements(Added(m, s), m)
                   /\ Contents(Added(m, s).synonyms) = Contents(m.synonyms) \o Contents(s)}
<1>1. m.synonyms \in Seq(SynonymObjects) /\ Contents(m.synonyms) \in Seq(SynonymObjects)
  BY VocabularyTyped, WellAreSynonyms, ContentsTyped
<1>2. <<>> \in S
  <2>1. Contents(m.synonyms) \o <<>> = Contents(m.synonyms)
    BY <1>1
  <2>2. SameButElements(m, m)
    BY DEF SameButElements
  <2>3. <<>> \in Seq(WellSynonyms)
    OBVIOUS
  <2> QED BY <2>1, <2>2, <2>3, AddedNone, ContentsNone
<1>3. ASSUME NEW s \in Seq(WellSynonyms), NEW x \in WellSynonyms, s \in S
      PROVE  Append(s, x) \in S
  <2> DEFINE q == Added(m, s)
             n == Added(m, Append(s, x))
  <2>1. q \in WellObjects /\ n = AddMerged(q, x)
    BY AddedTyped, AddedAppend
  <2>2. /\ SameButElements(q, m)
        /\ Contents(q.synonyms) = Contents(m.synonyms) \o Contents(s)
    BY <1>3
  <2> HIDE DEF q, n
  <2>3. PICK c \in ClearSynonyms, p \in Seq(ClearSynonyms) :
          /\ AddMerged(q, x) = WithElements(q, Append(q.synonyms, SynonymMerge(c, x)), p)
          /\ SynonymMerge(c, x) \in WellSynonyms
    BY <2>1, AddMergedIs
  <2> DEFINE e == SynonymMerge(c, x)
             ss == Append(q.synonyms, e)
  <2>4. n = WithElements(q, ss, p)
    BY <2>1, <2>3
  <2> HIDE DEF e, ss
  <2>5. SameButElements(n, q) /\ n.synonyms = ss
    BY <2>1, <2>4, WithElementsIs DEF SameButElements
  <2>6. SameButElements(n, m)
    BY <2>2, <2>5 DEF SameButElements
  <2>7. e \in SynonymObjects /\ x \in SynonymObjects /\ q.synonyms \in Seq(SynonymObjects)
    BY <2>1, <2>3, VocabularyTyped, WellAreSynonyms DEF e, WellSynonyms
  <2>8. Contents(ss) = Append(Contents(q.synonyms), SynonymContent(e))
    BY <2>7, ContentsAppend DEF ss
  <2>9. SynonymContent(e) = SynonymContent(x) /\ SynonymContent(x) \in SynonymObjects
    BY <2>7, MergeIntoClear, SynonymContentIs DEF e
  <2>10. s \in Seq(SynonymObjects) /\ Contents(s) \in Seq(SynonymObjects)
    BY WellAreSynonyms, ContentsTyped
  <2>11. Contents(Append(s, x)) = Append(Contents(s), SynonymContent(x))
    BY <2>7, <2>10, ContentsAppend
  <2>12. Contents(m.synonyms) \o Append(Contents(s), SynonymContent(x))
           = Append(Contents(m.synonyms) \o Contents(s), SynonymContent(x))
    BY <1>1, <2>9, <2>10, AppendToConcat
  <2>13. Contents(n.synonyms) = Contents(m.synonyms) \o Contents(Append(s, x))
    BY <2>2, <2>5, <2>8, <2>9, <2>11, <2>12, Zenon
  <2>14. Append(s, x) \in Seq(WellSynonyms)
    OBVIOUS
  <2> QED BY <2>6, <2>13, <2>14 DEF n
<1> HIDE DEF S
<1>4. xs \in S
  BY <1>2, <1>3, SeqInduction
<1> QED BY <1>4 DEF S

\* The strings of elements.
StringsOf(xs) == {s \in Seq(Nat) : \E i \in DOMAIN xs : s \in SynonymStrings(xs[i])}

\* No element has no string.
LEMMA StringsOfNone == StringsOf(<<>>) = {}
BY DEF StringsOf

\* The elements of a sequence with one more.
LEMMA AppendedIs ==
  ASSUME NEW E, NEW xs \in Seq(E), NEW x \in E
  PROVE  /\ \A i \in DOMAIN xs : i \in DOMAIN Append(xs, x) /\ Append(xs, x)[i] = xs[i]
         /\ \E i \in DOMAIN Append(xs, x) : Append(xs, x)[i] = x
         /\ \A i \in DOMAIN Append(xs, x) :
              Append(xs, x)[i] = x \/ (i \in DOMAIN xs /\ Append(xs, x)[i] = xs[i])
<1> DEFINE t == Append(xs, x)
           n == Len(xs)
<1>1. /\ n \in Nat /\ t \in Seq(E) /\ Len(t) = n + 1 /\ t[n + 1] = x
      /\ \A i \in 1..n : t[i] = xs[i]
      /\ DOMAIN t = 1..n + 1 /\ DOMAIN xs = 1..n
  OBVIOUS
<1> HIDE DEF t, n
<1>2. \A i \in 1..n : i \in 1..n + 1
  BY <1>1
<1>3. n + 1 \in 1..n + 1
  BY <1>1
<1>4. \A i \in 1..n + 1 : i = n + 1 \/ i \in 1..n
  BY <1>1
<1> QED BY <1>1, <1>2, <1>3, <1>4, Zenon DEF t

\* The strings of an element are strings.
LEMMA SynonymStringsTyped ==
  ASSUME NEW x \in WellSynonyms
  PROVE  \A s \in SynonymStrings(x) : s \in Seq(Nat)
BY SynonymTyped DEF WellSynonyms, SynonymStrings

\* One element more has its strings.
LEMMA StringsOfAppend ==
  ASSUME NEW xs \in Seq(WellSynonyms), NEW x \in WellSynonyms
  PROVE  StringsOf(Append(xs, x)) = StringsOf(xs) \cup SynonymStrings(x)
<1> DEFINE t == Append(xs, x)
<1>1. /\ \A i \in DOMAIN xs : i \in DOMAIN t /\ t[i] = xs[i]
      /\ \E i \in DOMAIN t : t[i] = x
      /\ \A i \in DOMAIN t : t[i] = x \/ (i \in DOMAIN xs /\ t[i] = xs[i])
  BY AppendedIs
<1> HIDE DEF t
<1>2. ASSUME NEW s
      PROVE  s \in StringsOf(t) <=> s \in StringsOf(xs) \cup SynonymStrings(x)
  <2>1. s \in StringsOf(t) => s \in StringsOf(xs) \cup SynonymStrings(x)
    BY <1>1, Zenon DEF StringsOf
  <2>2. s \in StringsOf(xs) => s \in StringsOf(t)
    BY <1>1, Zenon DEF StringsOf
  <2>3. s \in SynonymStrings(x) => s \in StringsOf(t)
    BY <1>1, SynonymStringsTyped, Zenon DEF StringsOf
  <2> QED BY <2>1, <2>2, <2>3, Zenon
<1>3. StringsOf(t) = StringsOf(xs) \cup SynonymStrings(x)
  BY <1>2, Zenon
<1> QED BY <1>3 DEF t

\* The strings of all elements are UTF-8 if those of each are.
LEMMA ElementsUtf8 ==
  ASSUME NEW xs \in Seq(WellSynonyms)
  PROVE  (\A i \in DOMAIN xs : SynonymIsUtf8(xs[i])) <=> AllUtf8(StringsOf(xs))
<1>1. \A i \in DOMAIN xs : xs[i] \in WellSynonyms
  OBVIOUS
<1>2. \A i \in DOMAIN xs : \A s \in SynonymStrings(xs[i]) : s \in Seq(Nat)
  BY <1>1, SynonymStringsTyped
<1>3. \A i \in DOMAIN xs : SynonymIsUtf8(xs[i]) <=> AllUtf8(SynonymStrings(xs[i]))
  BY SynonymUtf8
<1>4. (\A i \in DOMAIN xs : AllUtf8(SynonymStrings(xs[i]))) <=> AllUtf8(StringsOf(xs))
  BY <1>2, Zenon DEF AllUtf8, StringsOf
<1> QED BY <1>3, <1>4, Zenon

\* The fields of elements.
FieldOf == [x \in WellSynonyms |-> ElementField(x)]
ElementFields(xs) == Map(FieldOf, xs)

\* FieldOf is a function on the elements.
LEMMA FieldMaps == IsMap(WellSynonyms, GoodFields, FieldOf)
<1>1. \A x \in WellSynonyms : ElementField(x) \in GoodFields
  BY ElementFieldIs DEF WellSynonyms
<1> QED BY <1>1 DEF IsMap, FieldOf

\* The fields of elements, and those of one more.
LEMMA ElementFieldsIs ==
  ASSUME NEW xs \in Seq(WellSynonyms)
  PROVE  /\ ElementFields(xs) \in Seq(GoodFields)
         /\ ElementFields(xs) \in Seq(Fields)
         /\ \A x \in WellSynonyms :
              ElementFields(Append(xs, x)) = Append(ElementFields(xs), ElementField(x))
<1>1. ElementFields(xs) \in Seq(GoodFields)
  BY FieldMaps, Mapped DEF ElementFields
<1>2. ElementFields(xs) \in Seq(Fields)
  BY <1>1, GoodConcat
<1>3. ASSUME NEW x \in WellSynonyms
      PROVE  ElementFields(Append(xs, x)) = Append(ElementFields(xs), ElementField(x))
  <2>1. ElementFields(Append(xs, x)) = Append(ElementFields(xs), FieldOf[x])
    BY FieldMaps, MappedAppend DEF ElementFields
  <2>2. FieldOf[x] = ElementField(x)
    BY DEF FieldOf
  <2> QED BY <2>1, <2>2
<1> QED BY <1>1, <1>2, <1>3

\* Reading the fields of elements appends these elements.
LEMMA VocabularyReadsElements ==
  ASSUME NEW m \in WellObjects, NEW xs \in Seq(WellSynonyms)
  PROVE  VocabularyReads(m, ElementFields(xs), StringsOf(xs), Added(m, xs))
<1> DEFINE Good(s) == VocabularyReads(m, ElementFields(s), StringsOf(s), Added(m, s))
           S == {s \in Seq(WellSynonyms) : Good(s)}
<1>1. <<>> \in S
  <2>1. ElementFields(<<>>) = <<>>
    BY FieldMaps, MappedNone DEF ElementFields
  <2>2. VocabularyFold(Reading(m), <<>>) = Reading(m)
    BY VocabularyReading, VocabularyFoldNone
  <2>3. Added(m, <<>>) = m
    BY AddedNone
  <2>4. Good(<<>>)
    BY <2>1, <2>2, <2>3, StringsOfNone, Utf8None, Zenon DEF VocabularyReads
  <2> HIDE DEF Good
  <2> QED BY <2>4
<1>2. ASSUME NEW s \in Seq(WellSynonyms), NEW x \in WellSynonyms, s \in S
      PROVE  Append(s, x) \in S
  <2>1. Good(s)
    <3> HIDE DEF Good
    <3> QED BY <1>2
  <2> DEFINE q == Added(m, s)
             n == AddMerged(q, x)
             fs == ElementFields(s)
             gs == <<ElementField(x)>>
  <2>2. q \in WellObjects /\ n \in WellObjects
    BY AddedTyped, AddMergedIs
  <2>3. fs \in Seq(Fields) /\ gs \in Seq(Fields)
    <3>1. ElementField(x) \in Fields
      BY ElementFieldIs DEF WellSynonyms
    <3> HIDE DEF fs
    <3> QED BY <3>1, ElementFieldsIs DEF fs
  <2>4. VocabularyReads(q, gs, SynonymStrings(x), n)
    BY <2>2, VocabularyReadsElement
  <2>5. VocabularyReads(m, fs, StringsOf(s), q)
    BY <2>1
  <2>6. ElementFields(Append(s, x)) = fs \o gs
    <3>1. ElementFields(Append(s, x)) = Append(fs, ElementField(x)) /\ ElementField(x) \in Fields
      BY ElementFieldsIs, ElementFieldIs DEF WellSynonyms
    <3> DEFINE f == ElementField(x)
    <3> HIDE DEF fs, f
    <3>2. Append(fs, f) = fs \o <<f>>
      BY <2>3
    <3> QED BY <3>1, <3>2 DEF f
  <2> HIDE DEF fs, gs, q, n
  <2>7. VocabularyReads(m, fs \o gs, StringsOf(s) \cup SynonymStrings(x), n)
    BY <2>2, <2>3, <2>4, <2>5, VocabularyReadsBoth
  <2>8. Added(m, Append(s, x)) = n
    BY AddedAppend DEF n, q
  <2>9. Good(Append(s, x))
    BY <2>6, <2>7, <2>8, StringsOfAppend, Zenon
  <2>10. Append(s, x) \in Seq(WellSynonyms)
    OBVIOUS
  <2> HIDE DEF Good
  <2> QED BY <2>9, <2>10
<1> HIDE DEF S
<1>3. xs \in S
  BY <1>1, <1>2, SeqInduction
<1>4. Good(xs)
  <2> HIDE DEF Good
  <2> QED BY <1>3 DEF S
<1> QED BY <1>4

-----------------------------------------------------------------------------
(* Writing a Vocabulary. *)

IsFlat(seqs, g) ==
  g = [i \in 1..Len(seqs) |-> IF i = 1 THEN seqs[i] ELSE g[i - 1] \o seqs[i]]
Flat(seqs) == CHOOSE g : IsFlat(seqs, g)

\* FlattenSeq of the bytes of no fields, and of one more.
LEMMA FlattenIs ==
  ASSUME NEW seqs
  PROVE  FlattenSeq(seqs) = IF Len(seqs) = 0 THEN seqs ELSE Flat(seqs)[Len(seqs)]
BY DEF FlattenSeq, Flat, IsFlat

FieldsBytes(fs) == [i \in DOMAIN fs |-> FieldBytes(fs[i])]

\* FlattenSeq of the bytes of fields is their bytes.
LEMMA FlattenedBytes ==
  ASSUME NEW fs \in Seq(GoodFields)
  PROVE  FlattenSeq(FieldsBytes(fs)) = BytesOf(fs)
<1> DEFINE n == Len(fs)
           bs == FieldsBytes(fs)
<1>1. n \in Nat /\ DOMAIN fs = 1..n /\ \A i \in 1..n : fs[i] \in GoodFields
  OBVIOUS
<1>2. /\ bs \in Seq(Seq(Nat)) /\ Len(bs) = n
      /\ \A i \in 1..n : bs[i] = FieldBytes(fs[i]) /\ bs[i] \in Seq(Nat)
  <2>1. \A i \in 1..n : FieldBytes(fs[i]) \in Seq(Nat)
    BY <1>1, FieldBytesTyped
  <2> DEFINE t == [i \in 1..n |-> FieldBytes(fs[i])]
  <2>2. /\ t \in Seq(Seq(Nat)) /\ Len(t) = n
        /\ \A i \in 1..n : t[i] = FieldBytes(fs[i]) /\ t[i] \in Seq(Nat)
    BY <1>1, <2>1
  <2>3. bs = t
    BY <1>1 DEF FieldsBytes
  <2> HIDE DEF t, bs
  <2> QED BY <2>2, <2>3
<1>3. PICK h : /\ Run(Seq(Nat), AddBytes, <<>>, fs, h)
               /\ BytesOf(fs) = h[n]
  <2>1. IsFold(Seq(Nat), GoodFields, <<>>, AddBytes)
    BY AddBytesFolds
  <2>2. PICK f : /\ Run(Seq(Nat), AddBytes, <<>>, fs, f)
                 /\ Folded(Seq(Nat), AddBytes, <<>>, fs) = f[Len(fs)]
    BY <2>1, FoldedRuns
  <2> QED BY <2>2, Zenon DEF BytesOf
<1>4. h \in [0..n -> Seq(Nat)] /\ h[0] = <<>> /\ \A k \in 1..n : h[k] = h[k - 1] \o bs[k]
  <2>1. h \in [0..n -> Seq(Nat)] /\ h[0] = <<>> /\ \A k \in 1..n : h[k] = AddBytes[<<h[k - 1], fs[k]>>]
    BY <1>3 DEF Run
  <2>2. \A b \in Seq(Nat), f \in GoodFields : AddBytes[<<b, f>>] = b \o FieldBytes(f)
    BY DEF AddBytes
  <2>3. \A k \in 1..n : h[k - 1] \in Seq(Nat)
    BY <1>1, <2>1
  <2> HIDE DEF bs
  <2> QED BY <1>1, <1>2, <2>1, <2>2, <2>3, Zenon
<1>5. CASE n = 0
  <2>1. bs = <<>>
    <3> HIDE DEF bs
    <3> QED BY <1>2, <1>5
  <2>2. FlattenSeq(bs) = bs
    BY <1>2, <1>5, FlattenIs
  <2> QED BY <1>3, <1>4, <1>5, <2>1, <2>2
<1>6. CASE n # 0
  <2> HIDE DEF bs, n
  <2> DEFINE g == [i \in 1..n |-> h[i]]
  <2>1. ASSUME NEW i \in 1..n
        PROVE  h[i] = IF i = 1 THEN bs[i] ELSE h[i - 1] \o bs[i]
    <3>1. CASE i = 1
      <4>1. h[1] = h[1 - 1] \o bs[1]
        BY <1>4, <3>1, Zenon
      <4>2. bs[1] \in Seq(Nat) /\ 1 - 1 = 0
        BY <1>2, <3>1
      <4>3. <<>> \o bs[1] = bs[1]
        BY <4>2
      <4> QED BY <1>4, <3>1, <4>1, <4>2, <4>3, Zenon
    <3>2. CASE i # 1
      BY <1>4, <3>2, Zenon
    <3> QED BY <3>1, <3>2
  <2>2. IsFlat(bs, g)
    <3>1. ASSUME NEW i \in 1..n
          PROVE  h[i] = IF i = 1 THEN bs[i] ELSE g[i - 1] \o bs[i]
      <4>1. i # 1 => g[i - 1] = h[i - 1]
        BY <1>1
      <4> QED BY <2>1, <4>1, Zenon
    <3>2. g = [i \in 1..n |-> IF i = 1 THEN bs[i] ELSE g[i - 1] \o bs[i]]
      BY <3>1, Zenon
    <3> QED BY <1>2, <3>2, Zenon DEF IsFlat
  <2>3. IsFlat(bs, Flat(bs))
    BY <2>2, Zenon DEF Flat
  <2> DEFINE f == Flat(bs)
             S == {k \in Nat : k \in 1..n => f[k] = h[k]}
  <2> HIDE DEF f
  <2>4. \A i \in 1..n : f[i] = IF i = 1 THEN bs[i] ELSE f[i - 1] \o bs[i]
    BY <1>2, <2>3, Zenon DEF IsFlat, f
  <2>5. 0 \in S
    OBVIOUS
  <2>6. ASSUME NEW k \in Nat, k \in S PROVE k + 1 \in S
    <3> SUFFICES ASSUME k + 1 \in 1..n PROVE f[k + 1] = h[k + 1]
      OBVIOUS
    <3>1. CASE k = 0
      <4>1. k + 1 = 1 /\ 1 \in 1..n
        BY <3>1
      <4>2. f[1] = bs[1] /\ h[1] = bs[1]
        BY <2>4, <2>1, <4>1, Zenon
      <4>3. \A i : i = 1 => f[i] = h[i]
        BY <4>2, Zenon
      <4> QED BY <4>1, <4>3, Zenon
    <3>2. CASE k # 0
      <4>1. k \in 1..n /\ k + 1 # 1 /\ (k + 1) - 1 = k
        BY <1>1, <3>2
      <4>2. f[k] = h[k]
        BY <2>6, <4>1
      <4>3. \A i \in 1..n : i # 1 => f[i] = f[i - 1] \o bs[i] /\ h[i] = h[i - 1] \o bs[i]
        BY <2>4, <2>1, Zenon
      <4>4. f[k + 1] = f[(k + 1) - 1] \o bs[k + 1] /\ h[k + 1] = h[(k + 1) - 1] \o bs[k + 1]
        BY <4>1, <4>3, Zenon
      <4> QED BY <4>1, <4>2, <4>4, Zenon
    <3> QED BY <3>1, <3>2
  <2> HIDE DEF S
  <2>7. n \in S
    BY <1>1, <2>5, <2>6, Induction
  <2>8. f[n] = h[n]
    BY <1>1, <1>6, <2>7 DEF S
  <2>9. FlattenSeq(bs) = f[n]
    BY <1>2, <1>6, FlattenIs DEF f
  <2> QED BY <1>3, <2>8, <2>9 DEF bs, n
<1> QED BY <1>5, <1>6

Sized == [x \in WellSynonyms |-> SynonymSized(x)]
VocabularyBytes(m) == VocabularyWrite(VocabularySized(m))

\* An element that has kept its size is written as its field.
LEMMA SizedIs ==
  ASSUME NEW x \in WellSynonyms
  PROVE  /\ SynonymSized(x) \in WellSynonyms
         /\ SynonymField(SynonymSized(x)) = FieldBytes(ElementField(x))
<1> DEFINE n == SynonymSized(x)
           w == SynonymWrite(x)
<1>1. x \in SynonymObjects /\ x.unknown \in UnknownBytes(SynonymTags)
  BY DEF WellSynonyms
<1>2. /\ n \in SynonymObjects /\ SynonymWrite(n) = w
      /\ n.cached_size = SynonymSize(x) /\ n.unknown = x.unknown
      /\ SynonymSize(x) = Len(w)
  BY <1>1, SynonymSizedIs, SynonymSizeIsExact
<1> DEFINE f == ElementField(x)
<1>3. f.tag = 18 /\ f.value = w
  BY <1>1, ElementFieldIs
<1> HIDE DEF n, w, f
<1>4. n \in WellSynonyms
  BY <1>1, <1>2 DEF WellSynonyms
<1>5. SynonymField(n) = <<18, Len(w)>> \o w
  BY <1>2, Zenon DEF SynonymField
<1>6. ~(18 % 8 = 0)
  OBVIOUS
<1>7. FieldBytes(f) = <<18, Len(w)>> \o w
  BY <1>3, <1>6, Zenon DEF FieldBytes
<1> QED BY <1>4, <1>5, <1>7 DEF n, f

\* Sized is a function on the elements.
LEMMA SizedMaps == IsMap(WellSynonyms, WellSynonyms, Sized)
BY SizedIs DEF IsMap, Sized

\* ByteSizeLong changes the sizes kept and nothing else.
LEMMA VocabularySizedIs ==
  ASSUME NEW m \in WellObjects
  PROVE  /\ VocabularySized(m) = WithElements(m, Map(Sized, m.synonyms), m.spare)
         /\ VocabularySized(m) \in WellObjects
<1> DEFINE xs == m.synonyms
           ss == [i \in DOMAIN xs |-> SynonymSized(xs[i])]
<1>1. xs \in Seq(WellSynonyms) /\ m.spare \in Seq(ClearSynonyms)
  BY VocabularyTyped
<1>2. VocabularySized(m) = SetElements(m, ss)
  BY Zenon DEF VocabularySized, SetElements
<1> HIDE DEF xs
<1>3. ss = Map(Sized, xs)
  <2>1. \A i \in DOMAIN xs : xs[i] \in WellSynonyms
    BY <1>1
  <2>2. \A i \in DOMAIN xs : Sized[xs[i]] = SynonymSized(xs[i])
    BY <2>1, Zenon DEF Sized
  <2> QED BY <2>2, Zenon DEF Map
<1> HIDE DEF ss
<1>4. Map(Sized, xs) \in Seq(WellSynonyms)
  BY <1>1, SizedMaps, Mapped
<1>5. VocabularySized(m) = WithElements(m, Map(Sized, xs), m.spare)
  BY <1>2, <1>3, WithElementsEdited
<1> QED BY <1>1, <1>4, <1>5, WithElementsTyped DEF xs

VocabularyFields(m, us) ==
  ((((Optional(10, m.word) \o ElementFields(m.synonyms)) \o Optional(26, m.macmillan_url))
    \o Optional(34, m.youglish_url)) \o Optional(42, m.reverso_url)) \o us

\* The elements are written as their fields.
LEMMA ElementsWritten ==
  ASSUME NEW xs \in Seq(WellSynonyms)
  PROVE  LET ss == Map(Sized, xs)
         IN FlattenSeq([i \in DOMAIN ss |-> SynonymField(ss[i])]) = BytesOf(ElementFields(xs))
<1> DEFINE ss == Map(Sized, xs)
           fs == ElementFields(xs)
           bs == [i \in DOMAIN ss |-> SynonymField(ss[i])]
<1>1. fs \in Seq(GoodFields)
  BY ElementFieldsIs
<1>2. DOMAIN ss = DOMAIN xs /\ DOMAIN fs = DOMAIN xs /\ \A i \in DOMAIN xs : xs[i] \in WellSynonyms
  BY DEF Map, ElementFields
<1>3. \A i \in DOMAIN xs : ss[i] = SynonymSized(xs[i]) /\ fs[i] = ElementField(xs[i])
  <2>1. \A i \in DOMAIN xs : ss[i] = Sized[xs[i]] /\ fs[i] = FieldOf[xs[i]]
    BY DEF Map, ElementFields
  <2>2. \A x \in WellSynonyms : Sized[x] = SynonymSized(x) /\ FieldOf[x] = ElementField(x)
    BY DEF Sized, FieldOf
  <2> HIDE DEF ss, fs
  <2> QED BY <1>2, <2>1, <2>2
<1> HIDE DEF ss, fs
<1>4. \A i \in DOMAIN xs : SynonymField(ss[i]) = FieldBytes(fs[i])
  BY <1>2, <1>3, SizedIs
<1>5. bs = FieldsBytes(fs)
  BY <1>2, <1>4, Zenon DEF FieldsBytes
<1> HIDE DEF bs
<1>6. FlattenSeq(bs) = BytesOf(fs)
  BY <1>1, <1>5, FlattenedBytes
<1> QED BY <1>6 DEF bs, ss, fs

\* A Vocabulary is written as the bytes of its fields.
LEMMA VocabularyWriteIs ==
  ASSUME NEW m \in WellObjects, NEW us \in Seq(GoodFields), m.unknown = BytesOf(us)
  PROVE  /\ VocabularyFields(m, us) \in Seq(GoodFields)
         /\ VocabularyBytes(m) = BytesOf(VocabularyFields(m, us))
<1> DEFINE a == Optional(10, m.word)
           b == ElementFields(m.synonyms)
           c == Optional(26, m.macmillan_url)
           d == Optional(34, m.youglish_url)
           e == Optional(42, m.reverso_url)
           n == VocabularySized(m)
           ss == Map(Sized, m.synonyms)
<1>1. /\ a \in Seq(GoodFields) /\ b \in Seq(GoodFields) /\ c \in Seq(GoodFields)
      /\ d \in Seq(GoodFields) /\ e \in Seq(GoodFields)
  BY VocabularyTyped, OptionalGood, ElementFieldsIs
<1>2. /\ BytesOf(a) = StringField(10, m.word) /\ BytesOf(c) = StringField(26, m.macmillan_url)
      /\ BytesOf(d) = StringField(34, m.youglish_url)
      /\ BytesOf(e) = StringField(42, m.reverso_url)
  BY VocabularyTyped, OptionalGood
<1>3. /\ n.word = m.word /\ n.synonyms = ss /\ n.macmillan_url = m.macmillan_url
      /\ n.youglish_url = m.youglish_url /\ n.reverso_url = m.reverso_url
      /\ n.unknown = m.unknown
  BY VocabularySizedIs, WithElementsIs
<1> HIDE DEF n
<1>4. FlattenSeq([i \in DOMAIN n.synonyms |-> SynonymField(n.synonyms[i])]) = BytesOf(b)
  BY <1>3, VocabularyTyped, ElementsWritten, Zenon
<1>5. VocabularyBytes(m)
        = ((((BytesOf(a) \o BytesOf(b)) \o BytesOf(c)) \o BytesOf(d)) \o BytesOf(e)) \o BytesOf(us)
  BY <1>2, <1>3, <1>4, Zenon DEF VocabularyBytes, VocabularyWrite, n
<1>6. VocabularyFields(m, us) = ((((a \o b) \o c) \o d) \o e) \o us
  BY DEF VocabularyFields
<1> HIDE DEF a, b, c, d, e
<1> DEFINE f == a \o b
<1>7. f \in Seq(GoodFields) /\ BytesOf(f) = BytesOf(a) \o BytesOf(b)
  BY <1>1, GoodConcat, BytesConcat
<1> HIDE DEF f
<1> DEFINE g == f \o c
<1>8. g \in Seq(GoodFields) /\ BytesOf(g) = BytesOf(f) \o BytesOf(c)
  BY <1>1, <1>7, GoodConcat, BytesConcat
<1> HIDE DEF g
<1> DEFINE h == g \o d
<1>9. h \in Seq(GoodFields) /\ BytesOf(h) = BytesOf(g) \o BytesOf(d)
  BY <1>1, <1>8, GoodConcat, BytesConcat
<1> HIDE DEF h
<1> DEFINE k == h \o e
<1>10. k \in Seq(GoodFields) /\ BytesOf(k) = BytesOf(h) \o BytesOf(e)
  BY <1>1, <1>9, GoodConcat, BytesConcat
<1> HIDE DEF k
<1>11. k \o us \in Seq(GoodFields) /\ BytesOf(k \o us) = BytesOf(k) \o BytesOf(us)
  BY <1>10, GoodConcat, BytesConcat
<1> QED BY <1>5, <1>6, <1>7, <1>8, <1>9, <1>10, <1>11, Zenon DEF f, g, h, k

-----------------------------------------------------------------------------
(* Merging a Vocabulary, and reading one that was written. *)

\* n is q with the strings of x merged into it.
StringsMergedInto(n, q, x) ==
  n = [q EXCEPT !.word = Merged(x.word, @),
                !.macmillan_url = Merged(x.macmillan_url, @),
                !.youglish_url = Merged(x.youglish_url, @),
                !.reverso_url = Merged(x.reverso_url, @),
                !.unknown = @ \o x.unknown]

\* The fields of a Vocabulary the strings are merged into.
LEMMA StringsMerged ==
  ASSUME NEW q \in WellObjects, NEW x \in WellObjects, NEW n, StringsMergedInto(n, q, x)
  PROVE  /\ n \in WellObjects
         /\ n.word = Merged(x.word, q.word)
         /\ n.macmillan_url = Merged(x.macmillan_url, q.macmillan_url)
         /\ n.youglish_url = Merged(x.youglish_url, q.youglish_url)
         /\ n.reverso_url = Merged(x.reverso_url, q.reverso_url)
         /\ n.unknown = q.unknown \o x.unknown
         /\ n.synonyms = q.synonyms /\ n.spare = q.spare
<1> DEFINE a == Merged(x.word, q.word)
           b == Merged(x.macmillan_url, q.macmillan_url)
           c == Merged(x.youglish_url, q.youglish_url)
           d == Merged(x.reverso_url, q.reverso_url)
           u == q.unknown \o x.unknown
<1>1. a \in Seq(Nat) /\ b \in Seq(Nat) /\ c \in Seq(Nat) /\ d \in Seq(Nat)
  BY VocabularyTyped, MergedTyped
<1>2. u \in UnknownBytes(VocabularyTags)
  BY VocabularyTyped, UnknownBoth
<1>3. n = [q EXCEPT !.word = a, !.macmillan_url = b, !.youglish_url = c, !.reverso_url = d,
                    !.unknown = u]
  BY Zenon DEF StringsMergedInto
<1> HIDE DEF a, b, c, d, u
<1>4. n = [word |-> a, synonyms |-> q.synonyms, macmillan_url |-> b, youglish_url |-> c,
           reverso_url |-> d, unknown |-> u, spare |-> q.spare]
  BY <1>3 DEF WellObjects
<1>5. n \in WellObjects
  BY <1>1, <1>2, <1>4, VocabularyTyped DEF WellObjects
<1>6. /\ n.word = a /\ n.macmillan_url = b /\ n.youglish_url = c /\ n.reverso_url = d
      /\ n.unknown = u /\ n.synonyms = q.synonyms /\ n.spare = q.spare
  BY <1>4
<1> QED BY <1>5, <1>6, Zenon DEF a, b, c, d, u

\* The fields of a merged Vocabulary.
LEMMA VocabularyMergeIs ==
  ASSUME NEW m \in WellObjects, NEW x \in WellObjects
  PROVE  /\ VocabularyMerge(m, x) \in WellObjects
         /\ VocabularyMerge(m, x).word = Merged(x.word, m.word)
         /\ VocabularyMerge(m, x).macmillan_url = Merged(x.macmillan_url, m.macmillan_url)
         /\ VocabularyMerge(m, x).youglish_url = Merged(x.youglish_url, m.youglish_url)
         /\ VocabularyMerge(m, x).reverso_url = Merged(x.reverso_url, m.reverso_url)
         /\ VocabularyMerge(m, x).unknown = m.unknown \o x.unknown
         /\ VocabularyMerge(m, x).synonyms = Added(m, x.synonyms).synonyms
         /\ VocabularyMerge(m, x).spare = Added(m, x.synonyms).spare
<1> DEFINE q == Added(m, x.synonyms)
           n == VocabularyMerge(m, x)
<1>1. x.synonyms \in Seq(WellSynonyms)
  BY VocabularyTyped
<1>2. FoldLeft(AddMerged, m, x.synonyms) = q
  BY <1>1, AddedFoldLeft
<1>3. q \in WellObjects /\ SameButElements(q, m)
  BY <1>1, AddedTyped, AddedIs
<1>4. StringsMergedInto(n, q, x)
  BY <1>2, Zenon DEF VocabularyMerge, StringsMergedInto
<1> HIDE DEF q, n
<1>5. /\ n \in WellObjects
      /\ n.word = Merged(x.word, q.word)
      /\ n.macmillan_url = Merged(x.macmillan_url, q.macmillan_url)
      /\ n.youglish_url = Merged(x.youglish_url, q.youglish_url)
      /\ n.reverso_url = Merged(x.reverso_url, q.reverso_url)
      /\ n.unknown = q.unknown \o x.unknown
      /\ n.synonyms = q.synonyms /\ n.spare = q.spare
  BY <1>3, <1>4, StringsMerged
<1> QED BY <1>3, <1>5, Zenon DEF SameButElements, q, n

\* The content of a Vocabulary is all but the spare elements and the sizes kept.
LEMMA VocabularyContentIs ==
  ASSUME NEW m \in WellObjects
  PROVE  VocabularyContent(m) = WithElements(m, Contents(m.synonyms), <<>>)
<1> DEFINE xs == m.synonyms
           ss == [i \in DOMAIN xs |-> SynonymContent(xs[i])]
<1>1. xs \in Seq(WellSynonyms)
  BY VocabularyTyped
<1>2. SetSpare(m, <<>>).synonyms = m.synonyms
  BY DEF SetSpare, WellObjects
<1>3. VocabularyContent(m) = SetElements(SetSpare(m, <<>>), ss)
  BY <1>2, Zenon DEF VocabularyContent, SetElements, SetSpare
<1> HIDE DEF xs
<1>4. ss = Contents(xs)
  <2>1. \A i \in DOMAIN xs : xs[i] \in SynonymObjects
    BY <1>1 DEF WellSynonyms
  <2>2. \A i \in DOMAIN xs : Content[xs[i]] = SynonymContent(xs[i])
    BY <2>1, Zenon DEF Content
  <2> QED BY <2>2, Zenon DEF Contents, Map
<1> HIDE DEF ss
<1>5. SetElements(SetSpare(m, <<>>), ss) = WithElements(m, ss, <<>>)
  BY WithElementsEdited
<1> QED BY <1>3, <1>4, <1>5 DEF xs

SameContent(m, n) ==
  /\ SameButElements(m, n)
  /\ Contents(m.synonyms) = Contents(n.synonyms)

\* Contents are the same if their fields are.
LEMMA ContentEqual ==
  ASSUME NEW m \in WellObjects, NEW n \in WellObjects
  PROVE  VocabularyContent(m) = VocabularyContent(n) <=> SameContent(m, n)
<1>1. /\ VocabularyContent(m) = WithElements(m, Contents(m.synonyms), <<>>)
      /\ VocabularyContent(n) = WithElements(n, Contents(n.synonyms), <<>>)
  BY VocabularyContentIs
<1>2. SameContent(m, n)
        => WithElements(m, Contents(m.synonyms), <<>>) = WithElements(n, Contents(n.synonyms), <<>>)
  BY Zenon DEF SameContent, SameButElements, WithElements
<1> DEFINE a == WithElements(m, Contents(m.synonyms), <<>>)
           b == WithElements(n, Contents(n.synonyms), <<>>)
<1>3. /\ a.word = m.word /\ a.synonyms = Contents(m.synonyms)
      /\ a.macmillan_url = m.macmillan_url /\ a.youglish_url = m.youglish_url
      /\ a.reverso_url = m.reverso_url /\ a.unknown = m.unknown
  BY WithElementsIs
<1>4. /\ b.word = n.word /\ b.synonyms = Contents(n.synonyms)
      /\ b.macmillan_url = n.macmillan_url /\ b.youglish_url = n.youglish_url
      /\ b.reverso_url = n.reverso_url /\ b.unknown = n.unknown
  BY WithElementsIs
<1> HIDE DEF a, b
<1>5. a = b => SameContent(m, n)
  BY <1>3, <1>4, Zenon DEF SameContent, SameButElements
<1> QED BY <1>1, <1>2, <1>5, Zenon DEF a, b

\* n holds what m holds with x merged into it.
Joins(n, m, x) ==
  /\ n \in WellObjects
  /\ n.word = Merged(x.word, m.word)
  /\ n.macmillan_url = Merged(x.macmillan_url, m.macmillan_url)
  /\ n.youglish_url = Merged(x.youglish_url, m.youglish_url)
  /\ n.reverso_url = Merged(x.reverso_url, m.reverso_url)
  /\ n.unknown = m.unknown \o x.unknown
  /\ Contents(n.synonyms) = Contents(m.synonyms) \o Contents(x.synonyms)

\* Merging joins.
LEMMA MergeJoins ==
  ASSUME NEW m \in WellObjects, NEW x \in WellObjects
  PROVE  Joins(VocabularyMerge(m, x), m, x)
<1> DEFINE n == VocabularyMerge(m, x)
<1>1. x.synonyms \in Seq(WellSynonyms)
  BY VocabularyTyped
<1>2. Contents(Added(m, x.synonyms).synonyms) = Contents(m.synonyms) \o Contents(x.synonyms)
  BY <1>1, AddedIs
<1>3. /\ n \in WellObjects
      /\ n.word = Merged(x.word, m.word)
      /\ n.macmillan_url = Merged(x.macmillan_url, m.macmillan_url)
      /\ n.youglish_url = Merged(x.youglish_url, m.youglish_url)
      /\ n.reverso_url = Merged(x.reverso_url, m.reverso_url)
      /\ n.unknown = m.unknown \o x.unknown
      /\ n.synonyms = Added(m, x.synonyms).synonyms
  BY VocabularyMergeIs
<1> HIDE DEF n
<1> QED BY <1>2, <1>3, Zenon DEF Joins, n

\* Joining the same contents gives the same content.
LEMMA JoinsSame ==
  ASSUME NEW m \in WellObjects, NEW k \in WellObjects, NEW x \in WellObjects,
         NEW y \in WellObjects, NEW n, NEW p, Joins(n, m, x), Joins(p, k, y),
         SameContent(m, k), SameContent(x, y)
  PROVE  SameContent(n, p)
BY Zenon DEF Joins, SameContent, SameButElements

IsClear(m) ==
  /\ m.word = <<>> /\ m.macmillan_url = <<>> /\ m.youglish_url = <<>>
  /\ m.reverso_url = <<>> /\ m.unknown = <<>> /\ m.synonyms = <<>>

\* Joining with a clear object gives the content of the other.
LEMMA JoinsClear ==
  ASSUME NEW m \in WellObjects, IsClear(m), NEW x \in WellObjects, NEW n, Joins(n, m, x)
  PROVE  SameContent(n, x)
<1>1. <<>> \o x.unknown = x.unknown
  BY VocabularyTyped
<1>2. Contents(x.synonyms) \in Seq(SynonymObjects)
  BY VocabularyTyped, WellAreSynonyms, ContentsTyped
<1>3. <<>> \o Contents(x.synonyms) = Contents(x.synonyms)
  BY <1>2
<1>4. \A s : Merged(s, <<>>) = s
  BY Zenon DEF Merged
<1> QED BY <1>1, <1>3, <1>4, ContentsNone, Zenon
        DEF Joins, IsClear, SameContent, SameButElements

VocabularyStrings(x) ==
  {x.word} \cup StringsOf(x.synonyms) \cup {x.macmillan_url} \cup {x.youglish_url}
    \cup {x.reverso_url} \cup {}

\* VocabularyIsUtf8 in terms of the set of strings.
LEMMA VocabularyUtf8 ==
  ASSUME NEW x \in WellObjects
  PROVE  VocabularyIsUtf8(x) <=> AllUtf8(VocabularyStrings(x))
<1>1. x.synonyms \in Seq(WellSynonyms)
  BY VocabularyTyped
<1>2. (\A i \in DOMAIN x.synonyms : SynonymIsUtf8(x.synonyms[i])) <=> AllUtf8(StringsOf(x.synonyms))
  BY <1>1, ElementsUtf8
<1>3. AllUtf8(VocabularyStrings(x))
        <=> /\ AllUtf8(StringsOf(x.synonyms))
            /\ IsUtf8(x.word) /\ IsUtf8(x.macmillan_url) /\ IsUtf8(x.youglish_url)
            /\ IsUtf8(x.reverso_url)
  BY Zenon DEF VocabularyStrings, AllUtf8
<1> QED BY <1>2, <1>3, Zenon DEF VocabularyIsUtf8

\* Fields put together are fields.
LEMMA FieldsConcat ==
  ASSUME NEW s \in Seq(Fields), NEW t \in Seq(Fields)
  PROVE  s \o t \in Seq(Fields)
OBVIOUS

SameButString(n, m, name) ==
  /\ name # "word" => n.word = m.word
  /\ name # "macmillan_url" => n.macmillan_url = m.macmillan_url
  /\ name # "youglish_url" => n.youglish_url = m.youglish_url
  /\ name # "reverso_url" => n.reverso_url = m.reverso_url
  /\ n.synonyms = m.synonyms /\ n.unknown = m.unknown /\ n.spare = m.spare

\* The fields of a Vocabulary of which one string is set.
LEMMA StringSetFields ==
  ASSUME NEW m \in WellObjects, NEW s \in Seq(Nat)
  PROVE  /\ SetString(m, "word", s).word = s
         /\ SameButString(SetString(m, "word", s), m, "word")
         /\ SetString(m, "macmillan_url", s).macmillan_url = s
         /\ SameButString(SetString(m, "macmillan_url", s), m, "macmillan_url")
         /\ SetString(m, "youglish_url", s).youglish_url = s
         /\ SameButString(SetString(m, "youglish_url", s), m, "youglish_url")
         /\ SetString(m, "reverso_url", s).reverso_url = s
         /\ SameButString(SetString(m, "reverso_url", s), m, "reverso_url")
<1>1. LET n == SetString(m, "word", s)
      IN n.word = s /\ SameButString(n, m, "word")
  <2> DEFINE n == SetString(m, "word", s)
             k == WithStrings(m, s, m.macmillan_url, m.youglish_url, m.reverso_url)
  <2>1. n = k
    BY StringSetIs
  <2>2. /\ k.word = s /\ k.synonyms = m.synonyms /\ k.unknown = m.unknown /\ k.spare = m.spare
        /\ k.macmillan_url = m.macmillan_url /\ k.youglish_url = m.youglish_url /\ k.reverso_url = m.reverso_url
    BY WithStringsIs
  <2> HIDE DEF n, k
  <2>3. /\ n.word = s /\ n.synonyms = m.synonyms /\ n.unknown = m.unknown /\ n.spare = m.spare
        /\ n.macmillan_url = m.macmillan_url /\ n.youglish_url = m.youglish_url /\ n.reverso_url = m.reverso_url
    BY <2>1, <2>2
  <2> HIDE DEF n
  <2>4. SameButString(n, m, "word")
    BY <2>3, Zenon DEF SameButString
  <2> QED BY <2>3, <2>4 DEF n
<1>2. LET n == SetString(m, "macmillan_url", s)
      IN n.macmillan_url = s /\ SameButString(n, m, "macmillan_url")
  <2> DEFINE n == SetString(m, "macmillan_url", s)
             k == WithStrings(m, m.word, s, m.youglish_url, m.reverso_url)
  <2>1. n = k
    BY StringSetIs
  <2>2. /\ k.macmillan_url = s /\ k.synonyms = m.synonyms /\ k.unknown = m.unknown /\ k.spare = m.spare
        /\ k.word = m.word /\ k.youglish_url = m.youglish_url /\ k.reverso_url = m.reverso_url
    BY WithStringsIs
  <2> HIDE DEF n, k
  <2>3. /\ n.macmillan_url = s /\ n.synonyms = m.synonyms /\ n.unknown = m.unknown /\ n.spare = m.spare
        /\ n.word = m.word /\ n.youglish_url = m.youglish_url /\ n.reverso_url = m.reverso_url
    BY <2>1, <2>2
  <2> HIDE DEF n
  <2>4. SameButString(n, m, "macmillan_url")
    BY <2>3, Zenon DEF SameButString
  <2> QED BY <2>3, <2>4 DEF n
<1>3. LET n == SetString(m, "youglish_url", s)
      IN n.youglish_url = s /\ SameButString(n, m, "youglish_url")
  <2> DEFINE n == SetString(m, "youglish_url", s)
             k == WithStrings(m, m.word, m.macmillan_url, s, m.reverso_url)
  <2>1. n = k
    BY StringSetIs
  <2>2. /\ k.youglish_url = s /\ k.synonyms = m.synonyms /\ k.unknown = m.unknown /\ k.spare = m.spare
        /\ k.word = m.word /\ k.macmillan_url = m.macmillan_url /\ k.reverso_url = m.reverso_url
    BY WithStringsIs
  <2> HIDE DEF n, k
  <2>3. /\ n.youglish_url = s /\ n.synonyms = m.synonyms /\ n.unknown = m.unknown /\ n.spare = m.spare
        /\ n.word = m.word /\ n.macmillan_url = m.macmillan_url /\ n.reverso_url = m.reverso_url
    BY <2>1, <2>2
  <2> HIDE DEF n
  <2>4. SameButString(n, m, "youglish_url")
    BY <2>3, Zenon DEF SameButString
  <2> QED BY <2>3, <2>4 DEF n
<1>4. LET n == SetString(m, "reverso_url", s)
      IN n.reverso_url = s /\ SameButString(n, m, "reverso_url")
  <2> DEFINE n == SetString(m, "reverso_url", s)
             k == WithStrings(m, m.word, m.macmillan_url, m.youglish_url, s)
  <2>1. n = k
    BY StringSetIs
  <2>2. /\ k.reverso_url = s /\ k.synonyms = m.synonyms /\ k.unknown = m.unknown /\ k.spare = m.spare
        /\ k.word = m.word /\ k.macmillan_url = m.macmillan_url /\ k.youglish_url = m.youglish_url
    BY WithStringsIs
  <2> HIDE DEF n, k
  <2>3. /\ n.reverso_url = s /\ n.synonyms = m.synonyms /\ n.unknown = m.unknown /\ n.spare = m.spare
        /\ n.word = m.word /\ n.macmillan_url = m.macmillan_url /\ n.youglish_url = m.youglish_url
    BY <2>1, <2>2
  <2> HIDE DEF n
  <2>4. SameButString(n, m, "reverso_url")
    BY <2>3, Zenon DEF SameButString
  <2> QED BY <2>3, <2>4 DEF n
<1> QED BY <1>1, <1>2, <1>3, <1>4

\* Reading what x is written as into m merges x into m.
LEMMA VocabularyReadsFields ==
  ASSUME NEW m \in WellObjects, NEW x \in WellObjects,
         NEW us \in Seq(UnknownFields(VocabularyTags)), x.unknown = BytesOf(us)
  PROVE  \E n \in WellObjects : /\ Joins(n, m, x)
                                /\ VocabularyReads(m, VocabularyFields(x, us), VocabularyStrings(x), n)
<1> DEFINE a == Optional(10, x.word)
           b == ElementFields(x.synonyms)
           c == Optional(26, x.macmillan_url)
           d == Optional(34, x.youglish_url)
           e == Optional(42, x.reverso_url)
           n1 == SetString(m, "word", Merged(x.word, m.word))
           n2 == Added(n1, x.synonyms)
           n3 == SetString(n2, "macmillan_url", Merged(x.macmillan_url, n2.macmillan_url))
           n4 == SetString(n3, "youglish_url", Merged(x.youglish_url, n3.youglish_url))
           n5 == SetString(n4, "reverso_url", Merged(x.reverso_url, n4.reverso_url))
           n6 == SetUnknown(n5, n5.unknown \o BytesOf(us))
<1>1. /\ x.word \in Seq(Nat) /\ x.synonyms \in Seq(WellSynonyms) /\ x.macmillan_url \in Seq(Nat)
      /\ x.youglish_url \in Seq(Nat) /\ x.reverso_url \in Seq(Nat)
  BY VocabularyTyped
<1>2. us \in Seq(GoodFields) /\ us \in Seq(Fields)
  BY UnknownAreGood
<1>3. a \in Seq(Fields) /\ b \in Seq(Fields) /\ c \in Seq(Fields) /\ d \in Seq(Fields)
      /\ e \in Seq(Fields)
  BY <1>1, OptionalGood, ElementFieldsIs, GoodConcat
<1>4. n1 \in WellObjects /\ VocabularyReads(m, a, {x.word}, n1)
  BY <1>1, VocabularyTyped, MergedTyped, VocabularyStringSet, VocabularyReadsStrings
<1>5. /\ n1.word = Merged(x.word, m.word) /\ n1.synonyms = m.synonyms
      /\ n1.macmillan_url = m.macmillan_url /\ n1.youglish_url = m.youglish_url
      /\ n1.reverso_url = m.reverso_url /\ n1.unknown = m.unknown
  <2> DEFINE s == Merged(x.word, m.word)
  <2>1. s \in Seq(Nat)
    BY <1>1, VocabularyTyped, MergedTyped
  <2> HIDE DEF s
  <2> DEFINE n == SetString(m, "word", s)
  <2>2. n.word = s /\ SameButString(n, m, "word")
    BY <1>1, <2>1, StringSetFields
  <2>3. "word" # "macmillan_url" /\ "word" # "youglish_url" /\ "word" # "reverso_url"
        /\ "macmillan_url" # "youglish_url" /\ "macmillan_url" # "reverso_url"
        /\ "youglish_url" # "reverso_url"
    OBVIOUS
  <2>4. n1 = n
    BY DEF s
  <2> HIDE DEF n, n1
  <2> QED BY <2>2, <2>3, <2>4, Zenon DEF SameButString, s
<1> HIDE DEF n1
<1>6. n2 \in WellObjects /\ VocabularyReads(n1, b, StringsOf(x.synonyms), n2)
  BY <1>1, <1>4, AddedTyped, VocabularyReadsElements
<1>7. SameButElements(n2, n1) /\ Contents(n2.synonyms) = Contents(n1.synonyms) \o Contents(x.synonyms)
  BY <1>1, <1>4, AddedIs
<1> HIDE DEF n2
<1>8. n3 \in WellObjects /\ VocabularyReads(n2, c, {x.macmillan_url}, n3)
  BY <1>1, <1>6, VocabularyTyped, MergedTyped, VocabularyStringSet, VocabularyReadsStrings
<1>9. /\ n3.word = n2.word /\ n3.synonyms = n2.synonyms
      /\ n3.macmillan_url = Merged(x.macmillan_url, n2.macmillan_url)
      /\ n3.youglish_url = n2.youglish_url
      /\ n3.reverso_url = n2.reverso_url /\ n3.unknown = n2.unknown
  <2> DEFINE s == Merged(x.macmillan_url, n2.macmillan_url)
  <2>1. s \in Seq(Nat)
    BY <1>1, <1>6, VocabularyTyped, MergedTyped
  <2> HIDE DEF s
  <2> DEFINE n == SetString(n2, "macmillan_url", s)
  <2>2. n.macmillan_url = s /\ SameButString(n, n2, "macmillan_url")
    BY <1>6, <2>1, StringSetFields
  <2>3. "word" # "macmillan_url" /\ "word" # "youglish_url" /\ "word" # "reverso_url"
        /\ "macmillan_url" # "youglish_url" /\ "macmillan_url" # "reverso_url"
        /\ "youglish_url" # "reverso_url"
    OBVIOUS
  <2>4. n3 = n
    BY DEF s
  <2> HIDE DEF n, n3
  <2> QED BY <2>2, <2>3, <2>4, Zenon DEF SameButString, s
<1> HIDE DEF n3
<1>10. n4 \in WellObjects /\ VocabularyReads(n3, d, {x.youglish_url}, n4)
  BY <1>1, <1>8, VocabularyTyped, MergedTyped, VocabularyStringSet, VocabularyReadsStrings
<1>11. /\ n4.word = n3.word /\ n4.synonyms = n3.synonyms
       /\ n4.macmillan_url = n3.macmillan_url
       /\ n4.youglish_url = Merged(x.youglish_url, n3.youglish_url)
       /\ n4.reverso_url = n3.reverso_url /\ n4.unknown = n3.unknown
  <2> DEFINE s == Merged(x.youglish_url, n3.youglish_url)
  <2>1. s \in Seq(Nat)
    BY <1>1, <1>8, VocabularyTyped, MergedTyped
  <2> HIDE DEF s
  <2> DEFINE n == SetString(n3, "youglish_url", s)
  <2>2. n.youglish_url = s /\ SameButString(n, n3, "youglish_url")
    BY <1>8, <2>1, StringSetFields
  <2>3. "word" # "macmillan_url" /\ "word" # "youglish_url" /\ "word" # "reverso_url"
        /\ "macmillan_url" # "youglish_url" /\ "macmillan_url" # "reverso_url"
        /\ "youglish_url" # "reverso_url"
    OBVIOUS
  <2>4. n4 = n
    BY DEF s
  <2> HIDE DEF n, n4
  <2> QED BY <2>2, <2>3, <2>4, Zenon DEF SameButString, s
<1> HIDE DEF n4
<1>12. n5 \in WellObjects /\ VocabularyReads(n4, e, {x.reverso_url}, n5)
  BY <1>1, <1>10, VocabularyTyped, MergedTyped, VocabularyStringSet, VocabularyReadsStrings
<1>13. /\ n5.word = n4.word /\ n5.synonyms = n4.synonyms
       /\ n5.macmillan_url = n4.macmillan_url /\ n5.youglish_url = n4.youglish_url
       /\ n5.reverso_url = Merged(x.reverso_url, n4.reverso_url) /\ n5.unknown = n4.unknown
  <2> DEFINE s == Merged(x.reverso_url, n4.reverso_url)
  <2>1. s \in Seq(Nat)
    BY <1>1, <1>10, VocabularyTyped, MergedTyped
  <2> HIDE DEF s
  <2> DEFINE n == SetString(n4, "reverso_url", s)
  <2>2. n.reverso_url = s /\ SameButString(n, n4, "reverso_url")
    BY <1>10, <2>1, StringSetFields
  <2>3. "word" # "macmillan_url" /\ "word" # "youglish_url" /\ "word" # "reverso_url"
        /\ "macmillan_url" # "youglish_url" /\ "macmillan_url" # "reverso_url"
        /\ "youglish_url" # "reverso_url"
    OBVIOUS
  <2>4. n5 = n
    BY DEF s
  <2> HIDE DEF n, n5
  <2> QED BY <2>2, <2>3, <2>4, Zenon DEF SameButString, s
<1> HIDE DEF n5
<1> DEFINE u == n5.unknown \o BytesOf(us)
<1>14. u \in UnknownBytes(VocabularyTags)
  <2>1. BytesOf(us) \in UnknownBytes(VocabularyTags)
    BY DEF UnknownBytes
  <2> QED BY <1>12, <2>1, VocabularyTyped, UnknownBoth
<1>15. n6 \in WellObjects /\ VocabularyReads(n5, us, {}, n6)
  <2>1. n6 \in WellObjects
    <3> HIDE DEF u
    <3>1. SetUnknown(n5, u) \in WellObjects
      BY <1>12, <1>14, VocabularyUnknownSet
    <3> QED BY <3>1 DEF u
  <2>2. VocabularyFold(Reading(n5), us) = Reading(n6)
    BY <1>12, VocabularyFoldUnknown
  <2> QED BY <2>1, <2>2, Utf8None, Zenon DEF VocabularyReads
<1>16. /\ n6.word = n5.word /\ n6.synonyms = n5.synonyms
       /\ n6.macmillan_url = n5.macmillan_url /\ n6.youglish_url = n5.youglish_url
       /\ n6.reverso_url = n5.reverso_url /\ n6.unknown = n5.unknown \o x.unknown
  <2> HIDE DEF u
  <2>1. LET n == SetUnknown(n5, u)
        IN /\ n.word = n5.word /\ n.synonyms = n5.synonyms
           /\ n.macmillan_url = n5.macmillan_url /\ n.youglish_url = n5.youglish_url
           /\ n.reverso_url = n5.reverso_url /\ n.unknown = u
    BY <1>12 DEF SetUnknown, WellObjects
  <2> QED BY <2>1, Zenon DEF u
<1> HIDE DEF a, b, c, d, e, n6, u
<1>17. Joins(n6, m, x)
  BY <1>5, <1>7, <1>9, <1>11, <1>13, <1>15, <1>16, Zenon DEF Joins, SameButElements
<1> DEFINE ab == a \o b
           abc == ab \o c
           abcd == abc \o d
           abcde == abcd \o e
           S1 == {x.word} \cup StringsOf(x.synonyms)
           S2 == S1 \cup {x.macmillan_url}
           S3 == S2 \cup {x.youglish_url}
           S4 == S3 \cup {x.reverso_url}
<1>18. ab \in Seq(Fields) /\ VocabularyReads(m, ab, S1, n2)
  BY <1>3, <1>4, <1>6, VocabularyReadsBoth
<1> HIDE DEF ab, S1
<1>19. abc \in Seq(Fields) /\ VocabularyReads(m, abc, S2, n3)
  BY <1>3, <1>6, <1>8, <1>18, VocabularyReadsBoth
<1> HIDE DEF abc, S2
<1>20. abcd \in Seq(Fields) /\ VocabularyReads(m, abcd, S3, n4)
  <2>1. abcd \in Seq(Fields)
    BY <1>3, <1>8, <1>10, <1>19, FieldsConcat
  <2>2. VocabularyReads(m, abcd, S3, n4)
    BY <1>3, <1>8, <1>10, <1>19, VocabularyReadsBoth, SMTT(20)
  <2> QED BY <2>1, <2>2
<1> HIDE DEF abcd, S3
<1>21. abcde \in Seq(Fields) /\ VocabularyReads(m, abcde, S4, n5)
  <2>1. abcde \in Seq(Fields)
    BY <1>3, <1>10, <1>12, <1>20, FieldsConcat
  <2>2. VocabularyReads(m, abcde, S4, n5)
    BY <1>3, <1>10, <1>12, <1>20, VocabularyReadsBoth, SMTT(20)
  <2> QED BY <2>1, <2>2
<1> HIDE DEF abcde, S4
<1>22. VocabularyReads(m, abcde \o us, S4 \cup {}, n6)
  BY <1>2, <1>12, <1>15, <1>21, VocabularyReadsBoth
<1>23. abcde \o us = VocabularyFields(x, us)
  BY Zenon DEF abcde, abcd, abc, ab, a, b, c, d, e, VocabularyFields
<1>24. S4 \cup {} = VocabularyStrings(x)
  BY Zenon DEF S1, S2, S3, S4, VocabularyStrings
<1> QED BY <1>15, <1>17, <1>22, <1>23, <1>24, Zenon

\* Reading a written message.
LEMMA VocabularyReadsWritten ==
  ASSUME NEW m \in WellObjects, NEW x \in WellObjects
  PROVE  LET r == VocabularyReadAll(m, VocabularyBytes(x))
         IN /\ r \in VocabularyReadings
            /\ VocabularyIsUtf8(x) => r.ok /\ Joins(r.msg, m, x)
            /\ ~VocabularyIsUtf8(x) => ~r.ok
<1>1. PICK us \in Seq(UnknownFields(VocabularyTags)) : x.unknown = BytesOf(us)
  BY VocabularyTyped DEF UnknownBytes
<1>2. us \in Seq(GoodFields) /\ us \in Seq(Fields)
  BY UnknownAreGood
<1> DEFINE fs == VocabularyFields(x, us)
           r == VocabularyReadAll(m, VocabularyBytes(x))
<1>3. fs \in Seq(GoodFields) /\ VocabularyBytes(x) = BytesOf(fs)
  BY <1>1, <1>2, VocabularyWriteIs
<1>4. fs \in Seq(Fields) /\ FieldsIn(VocabularyBytes(x)) = fs
  <2> HIDE DEF fs
  <2> QED BY <1>3, FieldsOfBytes, GoodConcat
<1>5. PICK n \in WellObjects : Joins(n, m, x) /\ VocabularyReads(m, fs, VocabularyStrings(x), n)
  BY <1>1, VocabularyReadsFields
<1> HIDE DEF fs
<1>6. r = VocabularyFold(Reading(m), fs) /\ r \in VocabularyReadings
  BY <1>4, VocabularyReading, VocabularyFoldLeft, VocabularyFoldTyped DEF VocabularyReadAll
<1> HIDE DEF r
<1>7. VocabularyIsUtf8(x) => r = Reading(n)
  BY <1>5, <1>6, VocabularyUtf8, Zenon DEF VocabularyReads
<1>8. ~VocabularyIsUtf8(x) => ~r.ok
  BY <1>5, <1>6, VocabularyUtf8, Zenon DEF VocabularyReads
<1>9. Reading(n).ok /\ Reading(n).msg = n
  BY VocabularyReading
<1> QED BY <1>5, <1>6, <1>7, <1>8, <1>9, Zenon DEF r

\* Reading two written messages, one behind the other.
LEMMA VocabularyReadsTwo ==
  ASSUME NEW m \in WellObjects, NEW x \in WellObjects, NEW y \in WellObjects,
         VocabularyReadAll(m, VocabularyBytes(x) \o VocabularyBytes(y)).ok
  PROVE  \E n \in WellObjects :
           /\ Joins(n, m, x)
           /\ Joins(VocabularyReadAll(m, VocabularyBytes(x) \o VocabularyBytes(y)).msg, n, y)
<1>1. PICK us \in Seq(UnknownFields(VocabularyTags)) : x.unknown = BytesOf(us)
  BY VocabularyTyped DEF UnknownBytes
<1>2. PICK vs \in Seq(UnknownFields(VocabularyTags)) : y.unknown = BytesOf(vs)
  BY VocabularyTyped DEF UnknownBytes
<1>3. us \in Seq(GoodFields) /\ us \in Seq(Fields) /\ vs \in Seq(GoodFields) /\ vs \in Seq(Fields)
  BY UnknownAreGood
<1> DEFINE fs == VocabularyFields(x, us)
           gs == VocabularyFields(y, vs)
           b == VocabularyBytes(x) \o VocabularyBytes(y)
           r == VocabularyReadAll(m, b)
<1>4. fs \in Seq(GoodFields) /\ VocabularyBytes(x) = BytesOf(fs)
  BY <1>1, <1>3, VocabularyWriteIs
<1>5. gs \in Seq(GoodFields) /\ VocabularyBytes(y) = BytesOf(gs)
  BY <1>2, <1>3, VocabularyWriteIs
<1>6. PICK n \in WellObjects : Joins(n, m, x) /\ VocabularyReads(m, fs, VocabularyStrings(x), n)
  BY <1>1, VocabularyReadsFields
<1>7. PICK p \in WellObjects : Joins(p, n, y) /\ VocabularyReads(n, gs, VocabularyStrings(y), p)
  BY <1>2, VocabularyReadsFields
<1> HIDE DEF fs, gs
<1> DEFINE both == fs \o gs
<1>8. both \in Seq(GoodFields) /\ b = BytesOf(both)
  BY <1>4, <1>5, GoodConcat, BytesConcat
<1>9. fs \in Seq(Fields) /\ gs \in Seq(Fields)
  BY <1>4, <1>5, GoodConcat
<1>10. VocabularyReads(m, both, VocabularyStrings(x) \cup VocabularyStrings(y), p)
  BY <1>6, <1>7, <1>9, VocabularyReadsBoth
<1> HIDE DEF both, b
<1>11. both \in Seq(Fields) /\ FieldsIn(b) = both
  BY <1>8, FieldsOfBytes, GoodConcat
<1>12. r = VocabularyFold(Reading(m), both)
  BY <1>11, VocabularyReading, VocabularyFoldLeft DEF VocabularyReadAll
<1>13. r.ok
  BY DEF b
<1> HIDE DEF r
<1>14. r = Reading(p)
  BY <1>10, <1>12, <1>13, Zenon DEF VocabularyReads
<1>15. r.msg = p
  BY <1>14, VocabularyReading
<1> QED BY <1>6, <1>7, <1>15, Zenon DEF r, b

-----------------------------------------------------------------------------
(* The other operations of a Vocabulary. *)

\* Two functions, one after the other.
LEMMA MapMapped ==
  ASSUME NEW g, NEW h, NEW k, NEW xs, \A i \in DOMAIN xs : h[g[xs[i]]] = k[xs[i]]
  PROVE  Map(h, Map(g, xs)) = Map(k, xs)
<1> DEFINE s == Map(g, xs)
<1>1. DOMAIN s = DOMAIN xs /\ \A i \in DOMAIN xs : s[i] = g[xs[i]]
  BY DEF Map
<1> HIDE DEF s
<1>2. \A i \in DOMAIN xs : h[s[i]] = k[xs[i]]
  BY <1>1, Zenon
<1>3. Map(h, s) = Map(k, xs)
  BY <1>1, <1>2, Zenon DEF Map
<1> QED BY <1>3 DEF s

\* A new object is clear.
LEMMA VocabularyDefaultIs == VocabularyDefault \in WellObjects /\ IsClear(VocabularyDefault)
<1>1. VocabularyDefault \in WellObjects
  <2>1. <<>> \in Seq(Nat) /\ <<>> \in Seq(WellSynonyms) /\ <<>> \in Seq(ClearSynonyms)
    OBVIOUS
  <2> QED BY <2>1, UnknownNone, Zenon DEF VocabularyDefault, WellObjects
<1>2. IsClear(VocabularyDefault)
  BY DEF VocabularyDefault, IsClear
<1> QED BY <1>1, <1>2

\* Clearing an element.
ToClear == [x \in WellSynonyms |-> SynonymClear(x)]

\* The elements that are cleared are clear.
LEMMA ClearedIs ==
  ASSUME NEW xs \in Seq(WellSynonyms)
  PROVE  Cleared(xs) \in Seq(ClearSynonyms)
<1>1. IsMap(WellSynonyms, ClearSynonyms, ToClear)
  BY SynonymClearIsClear DEF IsMap, ToClear, WellSynonyms
<1>2. Map(ToClear, xs) \in Seq(ClearSynonyms)
  BY <1>1, Mapped
<1>3. \A i \in DOMAIN xs : xs[i] \in WellSynonyms
  OBVIOUS
<1>4. \A i \in DOMAIN xs : ToClear[xs[i]] = SynonymClear(xs[i])
  BY <1>3, Zenon DEF ToClear
<1>5. Map(ToClear, xs) = Cleared(xs)
  BY <1>4, Zenon DEF Map, Cleared
<1> QED BY <1>2, <1>5

\* Spare elements of two sources.
LEMMA SpareTyped ==
  ASSUME NEW s \in Seq(ClearSynonyms), NEW t \in Seq(ClearSynonyms)
  PROVE  s \o t \in Seq(ClearSynonyms)
OBVIOUS

\* An object that is cleared is clear, and its spare elements are.
LEMMA VocabularyClearIs ==
  ASSUME NEW m \in WellObjects
  PROVE  VocabularyClear(m) \in WellObjects /\ IsClear(VocabularyClear(m))
<1> DEFINE p == Cleared(m.synonyms) \o m.spare
           d == VocabularyDefault
<1>1. p \in Seq(ClearSynonyms)
  BY VocabularyTyped, ClearedIs, SpareTyped
<1>2. VocabularyClear(m) = SetSpare(d, p)
  BY Zenon DEF VocabularyClear, SetSpare
<1>3. d \in WellObjects /\ IsClear(d)
  BY VocabularyDefaultIs
<1> HIDE DEF p, d
<1>4. IsRecord(Seq(Nat), Seq(WellSynonyms), UnknownBytes(VocabularyTags), Seq(ClearSynonyms), d)
  BY <1>3 DEF IsRecord, WellObjects
<1>5. SetSpare(d, p) = WithElements(d, d.synonyms, p)
  BY <1>4, SpareEdited
<1>6. WithElements(d, d.synonyms, p) \in WellObjects
  BY <1>1, <1>3, VocabularyTyped, WithElementsTyped
<1>7. IsClear(WithElements(d, d.synonyms, p))
  BY <1>3, WithElementsIs DEF IsClear
<1> QED BY <1>2, <1>5, <1>6, <1>7

\* Copying an element.
ToCopy == [x \in WellSynonyms |-> SynonymMerge(SynonymDefault, x)]

\* Merging into a new element is a function on the elements.
LEMMA CopyMaps ==
  /\ IsMap(WellSynonyms, WellSynonyms, ToCopy)
  /\ \A x \in WellSynonyms : ToCopy[x] = SynonymMerge(SynonymDefault, x)
<1>1. \A x \in WellSynonyms : SynonymMerge(SynonymDefault, x) \in WellSynonyms
  BY DefaultIsClear, ClearSynonymIs, WellMerge
<1> QED BY <1>1 DEF IsMap, ToCopy

\* The copy constructor gives the content.
LEMMA VocabularyCopyIs ==
  ASSUME NEW m \in WellObjects
  PROVE  VocabularyCopy(m) \in WellObjects /\ SameContent(VocabularyCopy(m), m)
<1> DEFINE xs == m.synonyms
           ss == [i \in DOMAIN xs |-> SynonymMerge(SynonymDefault, xs[i])]
<1>1. xs \in Seq(WellSynonyms)
  BY VocabularyTyped
<1>2. SetSpare(m, <<>>).synonyms = m.synonyms
  BY DEF SetSpare, WellObjects
<1>3. VocabularyCopy(m) = SetElements(SetSpare(m, <<>>), ss)
  BY <1>2, Zenon DEF VocabularyCopy, SetElements, SetSpare
<1> HIDE DEF xs
<1>4. ss = Map(ToCopy, xs)
  <2>1. \A i \in DOMAIN xs : xs[i] \in WellSynonyms
    BY <1>1
  <2>2. \A i \in DOMAIN xs : ToCopy[xs[i]] = SynonymMerge(SynonymDefault, xs[i])
    BY <2>1, CopyMaps, Zenon
  <2> QED BY <2>2, Zenon DEF Map
<1> HIDE DEF ss
<1>5. SetElements(SetSpare(m, <<>>), ss) = WithElements(m, ss, <<>>)
  BY WithElementsEdited
<1>6. ss \in Seq(WellSynonyms)
  BY <1>1, <1>4, CopyMaps, Mapped
<1>7. <<>> \in Seq(ClearSynonyms)
  OBVIOUS
<1>8. WithElements(m, ss, <<>>) \in WellObjects
  BY <1>6, <1>7, WithElementsTyped
<1>9. Contents(ss) = Contents(xs)
  <2>1. \A x \in WellSynonyms : Content[ToCopy[x]] = Content[x]
    <3>1. ASSUME NEW x \in WellSynonyms PROVE Content[ToCopy[x]] = Content[x]
      <4> DEFINE c == SynonymMerge(SynonymDefault, x)
      <4>1. x \in SynonymObjects /\ c \in SynonymObjects /\ ToCopy[x] = c
        BY CopyMaps DEF WellSynonyms, IsMap
      <4>2. SynonymContent(c) = SynonymContent(x)
        BY <4>1, DefaultIsClear, MergeIntoClear
      <4> HIDE DEF c
      <4>3. Content[c] = SynonymContent(c) /\ Content[x] = SynonymContent(x)
        BY <4>1, Zenon DEF Content
      <4> QED BY <4>1, <4>2, <4>3
    <3> QED BY <3>1
  <2>2. \A i \in DOMAIN xs : xs[i] \in WellSynonyms
    BY <1>1
  <2>3. \A i \in DOMAIN xs : Content[ToCopy[xs[i]]] = Content[xs[i]]
    BY <2>1, <2>2
  <2> QED BY <1>4, <2>3, MapMapped DEF Contents
<1>10. SameContent(WithElements(m, ss, <<>>), m)
  BY <1>9, WithElementsIs DEF SameContent, SameButElements, xs
<1> QED BY <1>3, <1>5, <1>8, <1>10

\* The content of an element is written as the element is.
LEMMA WellContent ==
  /\ \A x \in WellSynonyms : /\ SynonymContent(x) \in WellSynonyms /\ x \in SynonymObjects
                             /\ Content[x] = SynonymContent(x)
                             /\ SynonymContent(SynonymContent(x)) = SynonymContent(x)
                             /\ SynonymWrite(SynonymContent(x)) = SynonymWrite(x)
<1> SUFFICES ASSUME NEW x \in WellSynonyms
             PROVE  /\ SynonymContent(x) \in WellSynonyms /\ x \in SynonymObjects
                    /\ Content[x] = SynonymContent(x)
                    /\ SynonymContent(SynonymContent(x)) = SynonymContent(x)
                    /\ SynonymWrite(SynonymContent(x)) = SynonymWrite(x)
  OBVIOUS
<1> DEFINE c == SynonymContent(x)
           d == SynonymContent(c)
<1>1. x \in SynonymObjects /\ x.unknown \in UnknownBytes(SynonymTags)
  BY DEF WellSynonyms
<1>2. /\ c \in SynonymObjects /\ c.id = x.id /\ c.synonym = x.synonym
      /\ c.turkish_meaning = x.turkish_meaning /\ c.sample_sentences = x.sample_sentences
      /\ c.unknown = x.unknown /\ c.cached_size = 0
  BY <1>1, SynonymContentIs
<1>3. /\ d \in SynonymObjects /\ d.id = c.id /\ d.synonym = c.synonym
      /\ d.turkish_meaning = c.turkish_meaning /\ d.sample_sentences = c.sample_sentences
      /\ d.unknown = c.unknown /\ d.cached_size = 0
  BY <1>2, SynonymContentIs
<1>4. Content[x] = c
  BY <1>1 DEF Content
<1> HIDE DEF c, d
<1>5. c \in WellSynonyms
  BY <1>1, <1>2 DEF WellSynonyms
<1>6. d = c
  BY <1>2, <1>3, SynonymEqual
<1>7. SynonymWrite(c) = SynonymWrite(x)
  BY <1>2, Zenon DEF SynonymWrite
<1> QED BY <1>1, <1>4, <1>5, <1>6, <1>7 DEF c, d

\* So are the contents of all.
LEMMA ContentsWell ==
  ASSUME NEW xs \in Seq(WellSynonyms)
  PROVE  /\ Contents(xs) \in Seq(WellSynonyms)
         /\ Contents(Contents(xs)) = Contents(xs)
         /\ ElementFields(Contents(xs)) = ElementFields(xs)
<1> DEFINE k == [x \in WellSynonyms |-> SynonymContent(x)]
<1>1. \A i \in DOMAIN xs : xs[i] \in WellSynonyms
  OBVIOUS
<1>2. IsMap(WellSynonyms, WellSynonyms, k) /\ \A x \in WellSynonyms : k[x] = Content[x]
  BY WellContent DEF IsMap
<1> HIDE DEF k
<1>3. Map(k, xs) \in Seq(WellSynonyms)
  BY <1>2, Mapped
<1>4. Map(k, xs) = Contents(xs)
  BY <1>1, <1>2, Zenon DEF Contents, Map
<1>5. \A i \in DOMAIN xs : Content[Content[xs[i]]] = Content[xs[i]]
  <2>1. \A x \in WellSynonyms : Content[Content[x]] = Content[x]
    BY WellContent
  <2> QED BY <1>1, <2>1, Zenon
<1>6. \A i \in DOMAIN xs : FieldOf[Content[xs[i]]] = FieldOf[xs[i]]
  <2>1. ASSUME NEW x \in WellSynonyms PROVE FieldOf[Content[x]] = FieldOf[x]
    <3> DEFINE c == SynonymContent(x)
    <3>1. Content[x] = c /\ c \in WellSynonyms /\ SynonymWrite(c) = SynonymWrite(x)
      BY WellContent
    <3> HIDE DEF c
    <3>2. ElementField(c) = ElementField(x)
      BY <3>1, Zenon DEF ElementField
    <3>3. FieldOf[c] = ElementField(c) /\ FieldOf[x] = ElementField(x)
      BY <3>1, Zenon DEF FieldOf
    <3> QED BY <3>1, <3>2, <3>3
  <2> QED BY <1>1, <2>1, Zenon
<1>7. Contents(Contents(xs)) = Contents(xs)
  BY <1>5, MapMapped DEF Contents
<1>8. ElementFields(Contents(xs)) = ElementFields(xs)
  BY <1>6, MapMapped DEF Contents, ElementFields
<1> QED BY <1>3, <1>4, <1>7, <1>8

\* A message is written as its content is.
LEMMA ContentWritten ==
  ASSUME NEW m \in WellObjects
  PROVE  /\ VocabularyContent(m) \in WellObjects /\ SameContent(VocabularyContent(m), m)
         /\ VocabularyContent(VocabularyContent(m)) = VocabularyContent(m)
         /\ VocabularyBytes(VocabularyContent(m)) = VocabularyBytes(m)
<1> DEFINE xs == m.synonyms
           c == VocabularyContent(m)
<1>1. xs \in Seq(WellSynonyms)
  BY VocabularyTyped
<1>2. c = WithElements(m, Contents(xs), <<>>)
  BY VocabularyContentIs
<1>3. <<>> \in Seq(ClearSynonyms)
  OBVIOUS
<1>4. c \in WellObjects
  BY <1>1, <1>2, <1>3, ContentsWell, WithElementsTyped
<1>5. SameButElements(c, m) /\ c.synonyms = Contents(xs)
  BY <1>2, WithElementsIs DEF SameButElements
<1> HIDE DEF c, xs
<1>6. SameContent(c, m)
  BY <1>1, <1>5, ContentsWell DEF SameContent, xs
<1>7. VocabularyContent(c) = VocabularyContent(m)
  BY <1>4, <1>6, ContentEqual
<1>8. PICK us \in Seq(UnknownFields(VocabularyTags)) : m.unknown = BytesOf(us)
  BY VocabularyTyped DEF UnknownBytes
<1>9. us \in Seq(GoodFields) /\ c.unknown = BytesOf(us)
  BY <1>5, <1>8, UnknownAreGood DEF SameButElements
<1>10. ElementFields(c.synonyms) = ElementFields(m.synonyms)
  BY <1>1, <1>5, ContentsWell DEF xs
<1>11. VocabularyFields(c, us) = VocabularyFields(m, us)
  BY <1>5, <1>10, Zenon DEF VocabularyFields, SameButElements
<1>12. VocabularyBytes(c) = BytesOf(VocabularyFields(c, us))
  BY <1>4, <1>9, VocabularyWriteIs
<1>13. VocabularyBytes(m) = BytesOf(VocabularyFields(m, us))
  BY <1>8, <1>9, VocabularyWriteIs
<1> QED BY <1>4, <1>6, <1>7, <1>11, <1>12, <1>13 DEF c

\* One element is replaced.
LEMMA ElementSet ==
  ASSUME NEW m \in WellObjects, NEW i \in DOMAIN m.synonyms, NEW e \in WellSynonyms
  PROVE  /\ SetElements(m, [m.synonyms EXCEPT ![i] = e]) \in WellObjects
         /\ SetElements(m, [m.synonyms EXCEPT ![i] = e]).synonyms = [m.synonyms EXCEPT ![i] = e]
<1> DEFINE ss == m.synonyms
           t == [ss EXCEPT ![i] = e]
<1>1. ss \in Seq(WellSynonyms) /\ m.spare \in Seq(ClearSynonyms) /\ i \in DOMAIN ss
  BY VocabularyTyped
<1> HIDE DEF ss
<1>2. t \in Seq(WellSynonyms)
  BY <1>1
<1> HIDE DEF t
<1>3. SetElements(m, t) = WithElements(m, t, m.spare)
  BY WithElementsEdited
<1>4. WithElements(m, t, m.spare) \in WellObjects
  BY <1>1, <1>2, WithElementsTyped
<1>5. WithElements(m, t, m.spare).synonyms = t
  BY WithElementsIs
<1> QED BY <1>3, <1>4, <1>5 DEF t, ss

\* What is swapped into an element.
LEMMA SwappedTyped ==
  ASSUME NEW x \in WellSynonyms, NEW y \in WellSynonyms
  PROVE  SynonymSwapped(x, y) \in WellSynonyms
<1>1. x.cached_size \in Nat
  BY SynonymTyped DEF WellSynonyms
<1> QED BY <1>1, WellSynonymResized DEF SynonymSwapped

\* What is copied into an element.
LEMMA CopiedTyped ==
  ASSUME NEW x \in WellSynonyms, NEW y \in WellSynonyms
  PROVE  SynonymCopyFrom(x, y) \in WellSynonyms
<1>1. SynonymClear(x) \in WellSynonyms
  BY SynonymClearIsClear, ClearSynonymIs DEF WellSynonyms
<1> QED BY <1>1, WellMerge DEF SynonymCopyFrom

\* The accessors give objects as they should be.
LEMMA EditsTyped ==
  ASSUME NEW m \in WellObjects, NEW n \in VocabularyEdits(m)
  PROVE  n \in WellObjects
<1> DEFINE ss == m.synonyms
<1>1. ss \in Seq(WellSynonyms) /\ m.spare \in Seq(ClearSynonyms)
      /\ \A i \in DOMAIN ss : ss[i] \in WellSynonyms
  <2>1. ss \in Seq(WellSynonyms) /\ m.spare \in Seq(ClearSynonyms)
    BY VocabularyTyped
  <2> HIDE DEF ss
  <2> QED BY <2>1
<1>2. CASE n \in EditWord(m) \cup EditMacmillanUrl(m) \cup EditYouglishUrl(m) \cup EditReversoUrl(m)
  <2>1. PICK s \in Strings : \/ n = [m EXCEPT !.word = s] \/ n = [m EXCEPT !.macmillan_url = s]
                             \/ n = [m EXCEPT !.youglish_url = s]
                             \/ n = [m EXCEPT !.reverso_url = s]
    BY <1>2, Zenon DEF EditWord, EditMacmillanUrl, EditYouglishUrl, EditReversoUrl
  <2>2. s \in Seq(Nat)
    BY StringsAreTyped
  <2>3. CASE n = [m EXCEPT !.word = s]
    BY <2>2, <2>3 DEF WellObjects
  <2>4. CASE n = [m EXCEPT !.macmillan_url = s]
    BY <2>2, <2>4 DEF WellObjects
  <2>5. CASE n = [m EXCEPT !.youglish_url = s]
    BY <2>2, <2>5 DEF WellObjects
  <2>6. CASE n = [m EXCEPT !.reverso_url = s]
    BY <2>2, <2>6 DEF WellObjects
  <2> QED BY <2>1, <2>3, <2>4, <2>5, <2>6, Zenon
<1>3. CASE n = AddSynonym(m)
  <2>1. PICK c \in ClearSynonyms, p \in Seq(ClearSynonyms) : n = WithElements(m, Append(ss, c), p)
    BY <1>3, AddSynonymIs
  <2>2. Append(ss, c) \in Seq(WellSynonyms)
    <3>1. c \in WellSynonyms
      BY ClearSynonymIs
    <3> HIDE DEF ss
    <3> QED BY <1>1, <3>1
  <2> QED BY <2>1, <2>2, WithElementsTyped
<1>4. CASE n = [m EXCEPT !.synonyms = <<>>, !.spare = Cleared(m.synonyms) \o @]
  <2> DEFINE p == Cleared(m.synonyms) \o m.spare
  <2>1. SetElements(m, <<>>).spare = m.spare
    BY DEF SetElements, WellObjects
  <2>2. n = SetSpare(SetElements(m, <<>>), p)
    BY <1>4, <2>1, Zenon DEF SetSpare, SetElements
  <2>3. p \in Seq(ClearSynonyms)
    BY <1>1, ClearedIs, SpareTyped
  <2> HIDE DEF p
  <2>4. n = WithElements(m, <<>>, p)
    BY <2>2, WithElementsEdited
  <2>5. <<>> \in Seq(WellSynonyms)
    OBVIOUS
  <2> QED BY <2>3, <2>4, <2>5, WithElementsTyped
<1>5. CASE \E i \in DOMAIN ss : \E s \in SynonymEdits(ss[i]) : n = [m EXCEPT !.synonyms[i] = s]
  <2>1. PICK i \in DOMAIN ss : \E s \in SynonymEdits(ss[i]) : n = [m EXCEPT !.synonyms[i] = s]
    BY <1>5
  <2>2. PICK s \in SynonymEdits(ss[i]) : n = [m EXCEPT !.synonyms[i] = s]
    BY <2>1
  <2>3. s \in WellSynonyms
    BY <1>1, WellSynonymEdits
  <2>4. n = SetElements(m, [ss EXCEPT ![i] = s])
    BY <2>2, Zenon DEF SetElements
  <2> QED BY <2>3, <2>4, ElementSet
<1>6. CASE \E i, j \in DOMAIN ss : n = [m EXCEPT !.synonyms[i] = SynonymCopyFrom(@, m.synonyms[j])]
  <2>1. PICK i \in DOMAIN ss, j \in DOMAIN ss :
          n = [m EXCEPT !.synonyms[i] = SynonymCopyFrom(@, m.synonyms[j])]
    BY <1>6
  <2> DEFINE s == SynonymCopyFrom(ss[i], ss[j])
  <2>2. s \in WellSynonyms
    BY <1>1, CopiedTyped
  <2>3. n = SetElements(m, [ss EXCEPT ![i] = s])
    BY <2>1, Zenon DEF SetElements
  <2> HIDE DEF s
  <2> QED BY <2>2, <2>3, ElementSet
<1>7. CASE \E i, j \in DOMAIN ss :
             n = [m EXCEPT !.synonyms[i] = SynonymSwapped(@, m.synonyms[j]),
                           !.synonyms[j] = SynonymSwapped(@, m.synonyms[i])]
  <2>1. PICK i \in DOMAIN ss, j \in DOMAIN ss :
          n = [m EXCEPT !.synonyms[i] = SynonymSwapped(@, m.synonyms[j]),
                        !.synonyms[j] = SynonymSwapped(@, m.synonyms[i])]
    BY <1>7
  <2> DEFINE s == SynonymSwapped(ss[i], ss[j])
             t == [ss EXCEPT ![i] = s]
             o == SetElements(m, t)
             u == SynonymSwapped(ss[j], ss[i])
  <2>2. s \in WellSynonyms
    BY <1>1, SwappedTyped
  <2>3. o \in WellObjects /\ o.synonyms = t
    <3> HIDE DEF s
    <3> QED BY <2>2, ElementSet
  <2>4. n = [o EXCEPT !.synonyms[j] = u]
    BY <2>1, Zenon DEF SetElements
  <2>5. n = SetElements(o, [t EXCEPT ![j] = u])
    <3> HIDE DEF o, t, u
    <3> QED BY <2>3, <2>4, Zenon DEF SetElements
  <2>6. j \in DOMAIN t
    OBVIOUS
  <2>7. u \in WellSynonyms
    BY <1>1, SwappedTyped
  <2> HIDE DEF u, o, t
  <2> QED BY <2>3, <2>5, <2>6, <2>7, ElementSet
<1>8. \/ n \in EditWord(m) \cup EditMacmillanUrl(m) \cup EditYouglishUrl(m) \cup EditReversoUrl(m)
      \/ n = AddSynonym(m)
      \/ n = [m EXCEPT !.synonyms = <<>>, !.spare = Cleared(m.synonyms) \o @]
      \/ \E i \in DOMAIN ss : \E s \in SynonymEdits(ss[i]) : n = [m EXCEPT !.synonyms[i] = s]
      \/ \E i, j \in DOMAIN ss : n = [m EXCEPT !.synonyms[i] = SynonymCopyFrom(@, m.synonyms[j])]
      \/ \E i, j \in DOMAIN ss : n = [m EXCEPT !.synonyms[i] = SynonymSwapped(@, m.synonyms[j]),
                                              !.synonyms[j] = SynonymSwapped(@, m.synonyms[i])]
  <2>1. \/ n \in EditWord(m) \cup EditMacmillanUrl(m) \cup EditYouglishUrl(m) \cup EditReversoUrl(m)
        \/ n \in EditSynonyms(m)
    BY Zenon DEF VocabularyEdits
  <2>2. n \in EditSynonyms(m) =>
          n = AddSynonym(m) \/ n = ElementsCleared(m) \/ \E i \in DOMAIN ss : n \in ElementEdits(m, i)
    BY Zenon DEF EditSynonyms
  <2>3. \A i \in DOMAIN ss : n \in ElementEdits(m, i) =>
          \/ \E s \in SynonymEdits(ss[i]) : n = [m EXCEPT !.synonyms[i] = s]
          \/ \E j \in DOMAIN ss : n = ElementCopied(m, i, j)
          \/ \E j \in DOMAIN ss : n = ElementsSwapped(m, i, j)
    BY Zenon DEF ElementEdits
  <2> QED BY <2>1, <2>2, <2>3, Zenon DEF ElementsCleared, ElementCopied, ElementsSwapped
<1> QED BY <1>2, <1>3, <1>4, <1>5, <1>6, <1>7, <1>8, Zenon

\* So does getVocabulary.
LEMMA WordsTyped ==
  ASSUME NEW w \in Words
  PROVE  w \in WellObjects
<1>1. /\ w \in VocabularyObjects /\ VocabularyContent(w) = w /\ w.unknown = <<>>
      /\ \A i \in DOMAIN w.synonyms : w.synonyms[i].unknown = <<>>
  BY CodecAssumption
<1>2. w.synonyms \in Seq(SynonymObjects)
  BY <1>1 DEF VocabularyObjects
<1> DEFINE ss == w.synonyms
<1>3. ss \in Seq(WellSynonyms)
  <2>1. \A i \in DOMAIN ss : ss[i] \in WellSynonyms
    <3>1. \A i \in DOMAIN ss : ss[i] \in SynonymObjects
      <4> HIDE DEF ss
      <4> QED BY <1>2 DEF ss
    <3> QED BY <1>1, <3>1, UnknownNone DEF WellSynonyms
  <2> HIDE DEF ss
  <2> QED BY <1>2, <2>1 DEF ss
<1>4. w.spare = <<>>
  <2>1. \A m \in VocabularyObjects : VocabularyContent(m).spare = <<>>
    BY DEF VocabularyContent, VocabularyObjects
  <2> QED BY <1>1, <2>1
<1>5. <<>> \in Seq(ClearSynonyms)
  OBVIOUS
<1> QED BY <1>1, <1>3, <1>4, <1>5, UnknownNone DEF WellObjects, VocabularyObjects

-----------------------------------------------------------------------------
(* The size of a Vocabulary. *)

SumStep == [y \in Nat \X Nat |-> Sum2(y[1], y[2])]
SumOf(s) == Folded(Nat, SumStep, 0, s)

\* The sum is a fold.
LEMMA SumFolds == IsFold(Nat, Nat, 0, SumStep)
BY DEF IsFold, SumStep, Sum2

\* It is the fold VocabularySize makes.
LEMMA SumFoldLeft ==
  ASSUME NEW s \in Seq(Nat)
  PROVE  FoldLeft(Sum2, 0, s) = SumOf(s)
<1> DEFINE Is(it) == it = [d \in SUBSET DOMAIN s |->
                             IF d = {} THEN 0 ELSE Sum2(it[d \ {Max(d)}], s[Max(d)])]
           it == CHOOSE x : Is(x)
<1>1. FoldLeft(Sum2, 0, s) = it[DOMAIN s]
  BY DEF FoldLeft, MapThenFoldSet
<1>2. \A a \in Nat, x \in Nat : SumStep[<<a, x>>] = Sum2(a, x)
  BY DEF SumStep
<1>3. \A d \in SUBSET DOMAIN s :
        d # {} => s[Max(d)] \in Nat /\ d \ {Max(d)} \in SUBSET DOMAIN s
  BY MaxElement
<1>4. IsFold(Nat, Nat, 0, SumStep)
  BY SumFolds
<1>5. PICK parts : PartsIn(Nat, SumStep, 0, s, parts)
  BY <1>4, PartsOf
<1>6. Is(parts)
  <2>1. parts = [d \in SUBSET DOMAIN s |-> parts[d]]
    BY <1>5 DEF PartsIn
  <2>2. \A d \in SUBSET DOMAIN s : d # {} => parts[d \ {Max(d)}] \in Nat
    BY <1>3, <1>5 DEF PartsIn
  <2>3. \A d \in SUBSET DOMAIN s :
          parts[d] = IF d = {} THEN 0 ELSE Sum2(parts[d \ {Max(d)}], s[Max(d)])
    BY <1>2, <1>3, <1>5, <2>2, Zenon DEF PartsIn, FoldsParts
  <2> QED BY <2>1, <2>3, Zenon
<1>7. Is(it)
  <2> HIDE DEF Is
  <2> QED BY <1>6, Zenon
<1> HIDE DEF it
<1>8. \A d \in SUBSET DOMAIN s :
        it[d] = IF d = {} THEN 0 ELSE Sum2(it[d \ {Max(d)}], s[Max(d)])
  BY <1>7, Zenon
<1> HIDE DEF Is
<1>9. TakesSteps(Nat, SumStep, 0, s, it)
  <2>1. {} \in SUBSET DOMAIN s
    OBVIOUS
  <2> QED BY <1>2, <1>3, <1>8, <2>1, Zenon DEF TakesSteps
<1> QED BY <1>1, <1>4, <1>9, FoldedParts DEF SumOf

\* The sum of no numbers, and of one more.
LEMMA SumIs ==
  /\ SumOf(<<>>) = 0
  /\ \A s \in Seq(Nat) : SumOf(s) \in Nat
  /\ \A s \in Seq(Nat), n \in Nat : SumOf(Append(s, n)) = SumOf(s) + n
<1>1. IsFold(Nat, Nat, 0, SumStep)
  BY SumFolds
<1>2. SumOf(<<>>) = 0
  BY <1>1, FoldedEmpty DEF SumOf
<1>3. \A s \in Seq(Nat) : SumOf(s) \in Nat
  BY <1>1, FoldedIn DEF SumOf
<1>4. ASSUME NEW s \in Seq(Nat), NEW n \in Nat PROVE SumOf(Append(s, n)) = SumOf(s) + n
  <2> DEFINE k == SumOf(s)
  <2>1. SumOf(Append(s, n)) = SumStep[<<k, n>>] /\ k \in Nat
    BY <1>1, <1>3, FoldedAppend DEF SumOf
  <2> HIDE DEF k
  <2>2. SumStep[<<k, n>>] = Sum2(k, n)
    BY <2>1 DEF SumStep
  <2> QED BY <2>1, <2>2 DEF k, Sum2
<1> QED BY <1>2, <1>3, <1>4

SizeOf == [x \in WellSynonyms |-> 1 + SynonymSize(x)]
Sizes(xs) == Map(SizeOf, xs)

\* SizeOf is a function on the elements.
LEMMA SizeMaps ==
  /\ IsMap(WellSynonyms, Nat, SizeOf)
  /\ \A x \in WellSynonyms : SizeOf[x] = 1 + SynonymSize(x) /\ SynonymSize(x) \in Nat
<1>1. \A x \in WellSynonyms : SynonymSize(x) \in Nat
  BY SynonymSizeIsExact DEF WellSynonyms
<1> QED BY <1>1 DEF IsMap, SizeOf

\* The size of the field of an element.
LEMMA ElementFieldSize ==
  ASSUME NEW x \in WellSynonyms
  PROVE  Len(FieldBytes(ElementField(x))) = 2 + SynonymSize(x)
<1> DEFINE w == SynonymWrite(x)
           f == ElementField(x)
<1>1. w \in Seq(Nat) /\ SynonymSize(x) = Len(w)
  BY SynonymSizeIsExact DEF WellSynonyms
<1>2. f.tag = 18 /\ f.value = w
  BY ElementFieldIs DEF WellSynonyms
<1> HIDE DEF f, w
<1>3. FieldBytes(f) = <<18, Len(w)>> \o w
  <2>1. ~(18 % 8 = 0)
    OBVIOUS
  <2> QED BY <1>2, <2>1, Zenon DEF FieldBytes
<1> DEFINE h == <<18, Len(w)>>
<1>4. h \in Seq(Nat) /\ Len(h) = 2
  BY <1>1
<1> HIDE DEF h
<1>5. Len(h \o w) = 2 + Len(w)
  BY <1>1, <1>4, Lengths
<1> QED BY <1>1, <1>3, <1>5 DEF h, f

\* The sum of the sizes is the length of the fields of all elements.
LEMMA ElementFieldsSize ==
  ASSUME NEW xs \in Seq(WellSynonyms)
  PROVE  Len(BytesOf(ElementFields(xs))) = Len(xs) + SumOf(Sizes(xs))
<1> DEFINE Good(s) == Len(BytesOf(ElementFields(s))) = Len(s) + SumOf(Sizes(s))
           S == {s \in Seq(WellSynonyms) : Good(s)}
<1>1. <<>> \in S
  <2>1. PICK e \in Seq(WellSynonyms) : e = <<>> /\ Len(e) = 0
    <3>1. <<>> \in Seq(WellSynonyms) /\ Len(<<>>) = 0
      OBVIOUS
    <3> QED BY <3>1, Zenon
  <2>2. ElementFields(e) = <<>> /\ Sizes(e) = <<>>
    BY <2>1, FieldMaps, SizeMaps, MappedNone, Zenon DEF ElementFields, Sizes
  <2>3. BytesOf(ElementFields(e)) = <<>> /\ SumOf(Sizes(e)) = 0
    BY <2>2, BytesEmpty, SumIs
  <2>4. Good(e)
    BY <2>1, <2>3
  <2> HIDE DEF Good
  <2> QED BY <2>1, <2>4
<1>2. ASSUME NEW s \in Seq(WellSynonyms), NEW x \in WellSynonyms, s \in S
      PROVE  Append(s, x) \in S
  <2>1. Good(s)
    <3> HIDE DEF Good
    <3> QED BY <1>2
  <2> DEFINE t == Append(s, x)
             b == BytesOf(ElementFields(s))
             c == FieldBytes(ElementField(x))
             z == Sizes(s)
             n == SynonymSize(x)
  <2>2. t \in Seq(WellSynonyms) /\ Len(t) = Len(s) + 1 /\ Len(s) \in Nat
    OBVIOUS
  <2>3. BytesOf(ElementFields(t)) = b \o c
    <3>1. ElementFields(t) = Append(ElementFields(s), ElementField(x))
      BY ElementFieldsIs
    <3>2. ElementFields(s) \in Seq(GoodFields) /\ ElementField(x) \in GoodFields
      BY ElementFieldsIs, ElementFieldIs DEF WellSynonyms
    <3> QED BY <3>1, <3>2, BytesAppend
  <2>4. b \in Seq(Nat) /\ c \in Seq(Nat)
    <3>1. ElementFields(s) \in Seq(GoodFields) /\ ElementField(x) \in GoodFields
      BY ElementFieldsIs, ElementFieldIs DEF WellSynonyms
    <3> QED BY <3>1, BytesTyped, FieldBytesTyped
  <2>5. Len(c) = 2 + n /\ n \in Nat
    BY ElementFieldSize, SizeMaps
  <2>6. z \in Seq(Nat) /\ Sizes(t) = Append(z, 1 + n)
    <3>1. z \in Seq(Nat)
      BY SizeMaps, Mapped DEF Sizes
    <3>2. Sizes(t) = Append(z, SizeOf[x])
      BY SizeMaps, MappedAppend DEF Sizes
    <3>3. SizeOf[x] = 1 + n
      BY SizeMaps
    <3> QED BY <3>1, <3>2, <3>3
  <2> HIDE DEF b, c, z, n
  <2>7. SumOf(Append(z, 1 + n)) = SumOf(z) + (1 + n) /\ SumOf(z) \in Nat
    <3>1. 1 + n \in Nat
      BY <2>5
    <3> QED BY <2>6, <3>1, SumIs
  <2>8. Len(b \o c) = Len(b) + Len(c)
    BY <2>4, Lengths
  <2>9. Len(b) = Len(s) + SumOf(z)
    BY <2>1 DEF b, z
  <2>10. Len(BytesOf(ElementFields(t))) = Len(t) + SumOf(Sizes(t))
    <3> HIDE DEF t
    <3> QED BY <2>2, <2>3, <2>5, <2>6, <2>7, <2>8, <2>9
  <2>11. Good(t)
    BY <2>10
  <2> HIDE DEF Good
  <2> QED BY <2>2, <2>11
<1> HIDE DEF S
<1>3. xs \in S
  BY <1>1, <1>2, SeqInduction
<1>4. Good(xs)
  <2> HIDE DEF Good
  <2> QED BY <1>3 DEF S
<1> QED BY <1>4

\* The buffer a message is written into is as long as the message.
LEMMA VocabularySizeIs ==
  ASSUME NEW m \in WellObjects
  PROVE  VocabularyBytes(m) \in Seq(Nat) /\ VocabularySize(m) = Len(VocabularyBytes(m))
<1> DEFINE xs == m.synonyms
           fs == ElementFields(xs)
           n == VocabularySized(m)
           a == StringField(10, m.word)
           b == BytesOf(fs)
           c == StringField(26, m.macmillan_url)
           d == StringField(34, m.youglish_url)
           e == StringField(42, m.reverso_url)
           u == m.unknown
<1>1. /\ m.word \in Seq(Nat) /\ xs \in Seq(WellSynonyms) /\ m.macmillan_url \in Seq(Nat)
      /\ m.youglish_url \in Seq(Nat) /\ m.reverso_url \in Seq(Nat) /\ u \in Seq(Nat)
  BY VocabularyTyped
<1>2. /\ n.word = m.word /\ n.synonyms = Map(Sized, xs) /\ n.macmillan_url = m.macmillan_url
      /\ n.youglish_url = m.youglish_url /\ n.reverso_url = m.reverso_url
      /\ n.unknown = m.unknown
  BY VocabularySizedIs, WithElementsIs
<1>3. FlattenSeq([i \in DOMAIN Map(Sized, xs) |-> SynonymField(Map(Sized, xs)[i])]) = b
  BY <1>1, ElementsWritten
<1> HIDE DEF n
<1>4. VocabularyBytes(m) = ((((a \o b) \o c) \o d) \o e) \o u
  BY <1>2, <1>3, Zenon DEF VocabularyBytes, VocabularyWrite, n
<1>5. /\ a \in Seq(Nat) /\ Len(a) = StringFieldSize(m.word)
      /\ c \in Seq(Nat) /\ Len(c) = StringFieldSize(m.macmillan_url)
      /\ d \in Seq(Nat) /\ Len(d) = StringFieldSize(m.youglish_url)
      /\ e \in Seq(Nat) /\ Len(e) = StringFieldSize(m.reverso_url)
  BY <1>1, StringFieldIs
<1>6. b \in Seq(Nat) /\ Len(b) = Len(xs) + SumOf(Sizes(xs))
  BY <1>1, ElementFieldsIs, BytesTyped, ElementFieldsSize
<1> DEFINE z == [i \in DOMAIN xs |-> 1 + SynonymSize(xs[i])]
           k == FoldLeft(Sum2, 0, z)
<1>7. k = SumOf(Sizes(xs)) /\ k \in Nat /\ Len(xs) \in Nat
  <2> HIDE DEF xs
  <2>1. \A i \in DOMAIN xs : xs[i] \in WellSynonyms
    BY <1>1
  <2>2. \A i \in DOMAIN xs : SizeOf[xs[i]] = 1 + SynonymSize(xs[i])
    BY <2>1, SizeMaps, Zenon
  <2>3. z = Sizes(xs)
    BY <2>2, Zenon DEF Sizes, Map
  <2>4. Sizes(xs) \in Seq(Nat)
    BY <1>1, SizeMaps, Mapped DEF Sizes
  <2> HIDE DEF z
  <2>5. k = SumOf(z) /\ SumOf(z) \in Nat
    BY <2>3, <2>4, SumFoldLeft, SumIs
  <2>6. Len(xs) \in Nat
    BY <1>1
  <2> QED BY <2>3, <2>5, <2>6
<1>8. VocabularySize(m) = Len(xs) + k + Len(a) + Len(c) + Len(d) + Len(e) + Len(u)
  BY <1>5 DEF VocabularySize
<1> HIDE DEF a, b, c, d, e, u, k, xs
<1> DEFINE p == a \o b
           q == p \o c
           r == q \o d
           s == r \o e
           w == s \o u
<1>9. p \in Seq(Nat) /\ Len(p) = Len(a) + Len(b)
  BY <1>5, <1>6, Lengths
<1> HIDE DEF p
<1>10. q \in Seq(Nat) /\ Len(q) = Len(p) + Len(c)
  BY <1>5, <1>9, Lengths
<1> HIDE DEF q
<1>11. r \in Seq(Nat) /\ Len(r) = Len(q) + Len(d)
  BY <1>5, <1>10, Lengths
<1> HIDE DEF r
<1>12. s \in Seq(Nat) /\ Len(s) = Len(r) + Len(e)
  BY <1>5, <1>11, Lengths
<1> HIDE DEF s
<1>13. w \in Seq(Nat) /\ Len(w) = Len(s) + Len(u)
  BY <1>1, <1>12, Lengths
<1> HIDE DEF w
<1>14. VocabularyBytes(m) = w
  BY <1>4, Zenon DEF w, s, r, q, p
<1>15. /\ Len(a) \in Nat /\ Len(c) \in Nat /\ Len(d) \in Nat /\ Len(e) \in Nat /\ Len(u) \in Nat
  BY <1>1, <1>5, Lengths
<1>16. Len(w) = Len(xs) + k + Len(a) + Len(c) + Len(d) + Len(e) + Len(u)
  BY <1>6, <1>7, <1>9, <1>10, <1>11, <1>12, <1>13, <1>15
<1> QED BY <1>8, <1>13, <1>14, <1>16

-----------------------------------------------------------------------------
(* Log messages. *)

ProtoLogReadings == [ok : BOOLEAN, msg : LogObjects]
ProtoLogTags == {10, 18, 26}

\* What reading starts with and comes to.
LEMMA ProtoLogReading ==
  ASSUME NEW m \in LogObjects
  PROVE  /\ Reading(m) \in ProtoLogReadings /\ Failed(m) \in ProtoLogReadings
         /\ Reading(m).ok /\ ~Failed(m).ok /\ Reading(m).msg = m /\ Failed(m).msg = m
         /\ \A s : /\ Checked(s, m) \in ProtoLogReadings
                   /\ IsUtf8(s) => Checked(s, m) = Reading(m)
                   /\ ~IsUtf8(s) => Checked(s, m) = Failed(m)
<1>1. \A s : IsUtf8(s) \in BOOLEAN
  BY DEF IsUtf8
<1> QED BY <1>1 DEF ProtoLogReadings, Reading, Failed, Checked

\* The table of ProtoLog's fields.
LEMMA ProtoLogTableIs ==
  /\ DOMAIN ProtoLogTable = ProtoLogTags
  /\ ProtoLogTable[10] = "log_date" /\ ProtoLogTable[18] = "log_severity"
  /\ ProtoLogTable[26] = "log_message"
BY DEF ProtoLogTable, ProtoLogTags

\* A string of a log message is set.
LEMMA LogStringSet ==
  ASSUME NEW m \in LogObjects, NEW s \in Seq(Nat)
  PROVE  /\ SetString(m, "log_date", s) = SetLogDate(m, s) /\ SetLogDate(m, s) \in LogObjects
         /\ SetString(m, "log_severity", s) = SetLogSeverity(m, s)
         /\ SetLogSeverity(m, s) \in LogObjects
         /\ SetString(m, "log_message", s) = SetLogMessage(m, s)
         /\ SetLogMessage(m, s) \in LogObjects
<1>1. SetString(m, "log_date", s) = SetLogDate(m, s)
  BY Zenon DEF SetString, SetLogDate
<1>2. SetString(m, "log_severity", s) = SetLogSeverity(m, s)
  BY Zenon DEF SetString, SetLogSeverity
<1>3. SetString(m, "log_message", s) = SetLogMessage(m, s)
  BY Zenon DEF SetString, SetLogMessage
<1>4. SetLogDate(m, s) \in LogObjects
  BY DEF SetLogDate, LogObjects
<1>5. SetLogSeverity(m, s) \in LogObjects
  BY DEF SetLogSeverity, LogObjects
<1>6. SetLogMessage(m, s) \in LogObjects
  BY DEF SetLogMessage, LogObjects
<1> QED BY <1>1, <1>2, <1>3, <1>4, <1>5, <1>6

\* What reading a field comes to.
LEMMA ProtoLogReadCases ==
  ASSUME NEW r \in ProtoLogReadings, NEW f
  PROVE  /\ ~r.ok \/ f = Broken => ProtoLogRead(r, f) = Failed(r.msg)
         /\ r.ok /\ f # Broken =>
              /\ f.tag \notin ProtoLogTags => ProtoLogRead(r, f) = ReadUnknown(r, f)
              /\ f.tag = 10 => ProtoLogRead(r, f)
                                 = Checked(f.value, SetString(r.msg, "log_date", f.value))
              /\ f.tag = 18 => ProtoLogRead(r, f)
                                 = Checked(f.value, SetString(r.msg, "log_severity", f.value))
              /\ f.tag = 26 => ProtoLogRead(r, f)
                                 = Checked(f.value, SetString(r.msg, "log_message", f.value))
<1>1. CASE ~r.ok \/ f = Broken
  <2>1. ProtoLogRead(r, f) = [r EXCEPT !.ok = FALSE]
    BY <1>1, Zenon DEF ProtoLogRead
  <2>2. [r EXCEPT !.ok = FALSE] = Failed(r.msg)
    BY OkCleared DEF ProtoLogReadings, Failed
  <2> QED BY <1>1, <2>1, <2>2
<1>2. CASE r.ok /\ f # Broken
  <2>1. f.tag \notin ProtoLogTags => ProtoLogRead(r, f) = ReadUnknown(r, f)
    BY <1>2, ProtoLogTableIs DEF ProtoLogRead, ProtoLogTags
  <2>2. f.tag = 10 => ProtoLogRead(r, f) = ReadString(r, "log_date", f)
    BY <1>2, ProtoLogTableIs DEF ProtoLogRead, ProtoLogTags
  <2>3. f.tag = 18 => ProtoLogRead(r, f) = ReadString(r, "log_severity", f)
    BY <1>2, ProtoLogTableIs DEF ProtoLogRead, ProtoLogTags
  <2>4. f.tag = 26 => ProtoLogRead(r, f) = ReadString(r, "log_message", f)
    BY <1>2, ProtoLogTableIs DEF ProtoLogRead, ProtoLogTags
  <2> QED BY <1>2, <2>1, <2>2, <2>3, <2>4, ReadStringIs, Zenon
<1> QED BY <1>1, <1>2, Zenon

\* Reading a field gives a log message.
LEMMA ProtoLogReadTyped ==
  ASSUME NEW r \in ProtoLogReadings, NEW f \in Fields
  PROVE  ProtoLogRead(r, f) \in ProtoLogReadings
<1>1. r.ok \in BOOLEAN /\ r.msg \in LogObjects
  BY DEF ProtoLogReadings
<1>2. CASE ~r.ok \/ f = Broken
  BY <1>1, <1>2, ProtoLogReadCases, ProtoLogReading
<1>3. CASE r.ok /\ f # Broken
  <2>1. f \in GoodFields /\ f.value \in Seq(Nat)
    <3>1. f \in GoodFields
      BY <1>3 DEF Fields
    <3> QED BY <3>1 DEF GoodFields
  <2>2. CASE f.tag \notin ProtoLogTags
    <3> DEFINE u == r.msg.unknown \o FieldBytes(f)
    <3>1. u \in Seq(Nat)
      <4>1. FieldBytes(f) \in Seq(Nat) /\ r.msg.unknown \in Seq(Nat)
        BY <1>1, <2>1, FieldBytesTyped DEF LogObjects
      <4> QED BY <4>1, ConcatTyped
    <3>2. ProtoLogRead(r, f) = [r EXCEPT !.msg.unknown = u]
      BY <1>3, <2>2, ProtoLogReadCases DEF ReadUnknown
    <3> HIDE DEF u
    <3>3. [r EXCEPT !.msg.unknown = u] = [ok |-> r.ok, msg |-> [r.msg EXCEPT !.unknown = u]]
      BY FieldSet, Zenon DEF ProtoLogReadings
    <3>4. [r.msg EXCEPT !.unknown = u] \in LogObjects
      BY <1>1, <3>1 DEF LogObjects
    <3> QED BY <1>1, <3>2, <3>3, <3>4 DEF ProtoLogReadings
  <2>3. ASSUME NEW n \in LogObjects, ProtoLogRead(r, f) = Checked(f.value, n)
        PROVE  ProtoLogRead(r, f) \in ProtoLogReadings
    BY <2>3, ProtoLogReading
  <2>4. CASE f.tag = 10
    BY <1>1, <1>3, <2>1, <2>3, <2>4, ProtoLogReadCases, LogStringSet
  <2>5. CASE f.tag = 18
    BY <1>1, <1>3, <2>1, <2>3, <2>5, ProtoLogReadCases, LogStringSet
  <2>6. CASE f.tag = 26
    BY <1>1, <1>3, <2>1, <2>3, <2>6, ProtoLogReadCases, LogStringSet
  <2> QED BY <2>2, <2>4, <2>5, <2>6 DEF ProtoLogTags
<1> QED BY <1>2, <1>3

ProtoLogStep == [x \in ProtoLogReadings \X Fields |-> ProtoLogRead(x[1], x[2])]
ProtoLogFold(r, fs) == Folded(ProtoLogReadings, ProtoLogStep, r, fs)

\* Reading fields is a fold.
LEMMA ProtoLogFolds ==
  ASSUME NEW r \in ProtoLogReadings
  PROVE  IsFold(ProtoLogReadings, Fields, r, ProtoLogStep)
<1>1. ASSUME NEW x \in ProtoLogReadings \X Fields
      PROVE  ProtoLogRead(x[1], x[2]) \in ProtoLogReadings
  BY ProtoLogReadTyped
<1> QED BY <1>1 DEF IsFold, ProtoLogStep

\* It is the fold ProtoLogReadAll makes.
LEMMA ProtoLogFoldLeft ==
  ASSUME NEW r \in ProtoLogReadings, NEW s \in Seq(Fields)
  PROVE  FoldLeft(ProtoLogRead, r, s) = ProtoLogFold(r, s)
<1> DEFINE Is(it) == it = [d \in SUBSET DOMAIN s |->
                             IF d = {} THEN r ELSE ProtoLogRead(it[d \ {Max(d)}], s[Max(d)])]
           it == CHOOSE x : Is(x)
<1>1. FoldLeft(ProtoLogRead, r, s) = it[DOMAIN s]
  BY DEF FoldLeft, MapThenFoldSet
<1>2. \A a \in ProtoLogReadings, f \in Fields : ProtoLogStep[<<a, f>>] = ProtoLogRead(a, f)
  BY DEF ProtoLogStep
<1>3. \A d \in SUBSET DOMAIN s : d # {} => s[Max(d)] \in Fields /\ d \ {Max(d)} \in SUBSET DOMAIN s
  BY MaxElement
<1>4. IsFold(ProtoLogReadings, Fields, r, ProtoLogStep)
  BY ProtoLogFolds
<1>5. PICK parts : PartsIn(ProtoLogReadings, ProtoLogStep, r, s, parts)
  BY <1>4, PartsOf
<1>6. Is(parts)
  <2>1. parts = [d \in SUBSET DOMAIN s |-> parts[d]]
    BY <1>5 DEF PartsIn
  <2>2. \A d \in SUBSET DOMAIN s : d # {} => parts[d \ {Max(d)}] \in ProtoLogReadings
    BY <1>3, <1>5 DEF PartsIn
  <2>3. \A d \in SUBSET DOMAIN s :
          parts[d] = IF d = {} THEN r ELSE ProtoLogRead(parts[d \ {Max(d)}], s[Max(d)])
    BY <1>2, <1>3, <1>5, <2>2, Zenon DEF PartsIn, FoldsParts
  <2> QED BY <2>1, <2>3, Zenon
<1>7. Is(it)
  <2> HIDE DEF Is
  <2> QED BY <1>6, Zenon
<1> HIDE DEF it
<1>8. \A d \in SUBSET DOMAIN s :
        it[d] = IF d = {} THEN r ELSE ProtoLogRead(it[d \ {Max(d)}], s[Max(d)])
  BY <1>7, Zenon
<1> HIDE DEF Is
<1>9. TakesSteps(ProtoLogReadings, ProtoLogStep, r, s, it)
  <2>1. {} \in SUBSET DOMAIN s
    OBVIOUS
  <2> QED BY <1>2, <1>3, <1>8, <2>1, Zenon DEF TakesSteps
<1> QED BY <1>1, <1>4, <1>9, FoldedParts DEF ProtoLogFold

\* Reading fields gives a log message.
LEMMA ProtoLogFoldTyped ==
  ASSUME NEW r \in ProtoLogReadings, NEW s \in Seq(Fields)
  PROVE  ProtoLogFold(r, s) \in ProtoLogReadings
<1>1. IsFold(ProtoLogReadings, Fields, r, ProtoLogStep)
  BY ProtoLogFolds
<1> QED BY <1>1, FoldedIn DEF ProtoLogFold

\* Reading no field changes nothing.
LEMMA ProtoLogFoldNone ==
  ASSUME NEW r \in ProtoLogReadings
  PROVE  ProtoLogFold(r, <<>>) = r
<1>1. IsFold(ProtoLogReadings, Fields, r, ProtoLogStep)
  BY ProtoLogFolds
<1> QED BY <1>1, FoldedEmpty DEF ProtoLogFold

\* Reading one field more.
LEMMA ProtoLogFoldAppend ==
  ASSUME NEW r \in ProtoLogReadings, NEW s \in Seq(Fields), NEW f \in Fields
  PROVE  ProtoLogFold(r, Append(s, f)) = ProtoLogRead(ProtoLogFold(r, s), f)
<1>1. IsFold(ProtoLogReadings, Fields, r, ProtoLogStep)
  BY ProtoLogFolds
<1> DEFINE q == ProtoLogFold(r, s)
<1>2. ProtoLogFold(r, Append(s, f)) = ProtoLogStep[<<q, f>>]
  BY <1>1, FoldedAppend DEF ProtoLogFold
<1>3. q \in ProtoLogReadings
  BY ProtoLogFoldTyped
<1> HIDE DEF q
<1>4. ProtoLogStep[<<q, f>>] = ProtoLogRead(q, f)
  BY <1>3 DEF ProtoLogStep
<1> QED BY <1>2, <1>4 DEF q

\* Reading one field.
LEMMA ProtoLogFoldOne ==
  ASSUME NEW r \in ProtoLogReadings, NEW f \in Fields
  PROVE  ProtoLogFold(r, <<f>>) = ProtoLogRead(r, f)
<1>1. <<>> \in Seq(Fields) /\ <<f>> = Append(<<>>, f)
  OBVIOUS
<1> QED BY <1>1, ProtoLogFoldAppend, ProtoLogFoldNone

\* Reading some fields, and others behind them.
LEMMA ProtoLogFoldConcat ==
  ASSUME NEW r \in ProtoLogReadings, NEW s \in Seq(Fields), NEW t \in Seq(Fields)
  PROVE  ProtoLogFold(r, s \o t) = ProtoLogFold(ProtoLogFold(r, s), t)
<1>1. IsFold(ProtoLogReadings, Fields, r, ProtoLogStep)
  BY ProtoLogFolds
<1> QED BY <1>1, FoldedConcat DEF ProtoLogFold

\* What has failed stays failed.
LEMMA ProtoLogFoldFails ==
  ASSUME NEW r \in ProtoLogReadings, ~r.ok, NEW s \in Seq(Fields)
  PROVE  ~ProtoLogFold(r, s).ok
<1> DEFINE S == {t \in Seq(Fields) : ~ProtoLogFold(r, t).ok}
<1>1. <<>> \in S
  BY ProtoLogFoldNone
<1>2. ASSUME NEW t \in Seq(Fields), NEW f \in Fields, t \in S PROVE Append(t, f) \in S
  <2> DEFINE q == ProtoLogFold(r, t)
  <2>1. q \in ProtoLogReadings /\ ~q.ok
    BY <1>2, ProtoLogFoldTyped
  <2>2. ProtoLogFold(r, Append(t, f)) = ProtoLogRead(q, f)
    BY ProtoLogFoldAppend
  <2> HIDE DEF q
  <2>3. ProtoLogRead(q, f) = Failed(q.msg)
    BY <2>1, ProtoLogReadCases
  <2>4. ~ProtoLogRead(q, f).ok
    BY <2>3 DEF Failed
  <2>5. Append(t, f) \in Seq(Fields)
    OBVIOUS
  <2> QED BY <2>2, <2>4, <2>5
<1> HIDE DEF S
<1>3. s \in S
  BY <1>1, <1>2, SeqInduction
<1> QED BY <1>3 DEF S

\* Reading these fields into m gives n, if these strings are UTF-8.
ProtoLogReads(m, fs, strings, n) ==
  /\ AllUtf8(strings) => ProtoLogFold(Reading(m), fs) = Reading(n)
  /\ ~AllUtf8(strings) => ~ProtoLogFold(Reading(m), fs).ok

\* Reading some fields, and others behind them.
LEMMA ProtoLogReadsBoth ==
  ASSUME NEW m \in LogObjects, NEW n \in LogObjects, NEW p \in LogObjects,
         NEW s \in Seq(Fields), NEW t \in Seq(Fields), NEW S, NEW T,
         ProtoLogReads(m, s, S, n), ProtoLogReads(n, t, T, p)
  PROVE  ProtoLogReads(m, s \o t, S \cup T, p)
<1> DEFINE q == ProtoLogFold(Reading(m), s)
<1>1. q \in ProtoLogReadings /\ ProtoLogFold(Reading(m), s \o t) = ProtoLogFold(q, t)
  BY ProtoLogReading, ProtoLogFoldTyped, ProtoLogFoldConcat
<1>2. ~q.ok => ~ProtoLogFold(q, t).ok
  BY <1>1, ProtoLogFoldFails
<1>3. (AllUtf8(S) => q = Reading(n)) /\ (~AllUtf8(S) => ~q.ok)
  BY Zenon DEF ProtoLogReads
<1>4. /\ AllUtf8(T) => ProtoLogFold(Reading(n), t) = Reading(p)
      /\ ~AllUtf8(T) => ~ProtoLogFold(Reading(n), t).ok
  BY Zenon DEF ProtoLogReads
<1> HIDE DEF q
<1> QED BY <1>1, <1>2, <1>3, <1>4, Utf8Both, Zenon DEF ProtoLogReads

\* Reading a string that may have been left out.
LEMMA ProtoLogReadsOptional ==
  ASSUME NEW m \in LogObjects, NEW s \in Seq(Nat), NEW tag \in Nat, tag % 8 = 2, NEW n,
         n \in LogObjects,
         s = <<>> => n = m,
         s # <<>> => ProtoLogRead(Reading(m), [tag |-> tag, value |-> s]) = Checked(s, n)
  PROVE  ProtoLogReads(m, Optional(tag, s), {s}, n)
<1>1. CASE s = <<>>
  <2>1. Optional(tag, s) = <<>>
    BY <1>1, Zenon DEF Optional
  <2>2. IsUtf8(s)
    BY <1>1 DEF IsUtf8
  <2>3. n = m
    BY <1>1
  <2>4. ProtoLogFold(Reading(m), <<>>) = Reading(m)
    BY ProtoLogReading, ProtoLogFoldNone
  <2> QED BY <2>1, <2>2, <2>3, <2>4, Utf8One, Zenon DEF ProtoLogReads
<1>2. CASE s # <<>>
  <2> DEFINE f == [tag |-> tag, value |-> s]
             q == ProtoLogFold(Reading(m), Optional(tag, s))
  <2>1. f \in GoodFields
    BY DEF GoodFields
  <2>2. Optional(tag, s) = <<f>>
    BY <1>2, Zenon DEF Optional
  <2>3. ProtoLogRead(Reading(m), f) = Checked(s, n)
    BY <1>2
  <2> HIDE DEF f
  <2>4. ProtoLogFold(Reading(m), <<f>>) = ProtoLogRead(Reading(m), f)
    BY <2>1, ProtoLogReading, ProtoLogFoldOne DEF Fields
  <2>5. q = Checked(s, n)
    BY <2>2, <2>3, <2>4, Zenon
  <2> HIDE DEF q
  <2>6. IsUtf8(s) => q = Reading(n)
    BY <2>5, ProtoLogReading
  <2>7. ~IsUtf8(s) => ~q.ok
    BY <2>5, ProtoLogReading
  <2> QED BY <2>6, <2>7, Utf8One, Zenon DEF ProtoLogReads, q
<1> QED BY <1>1, <1>2

\* A log message; an empty one is ProtoLogDefault.
LogOf(date, severity, text) ==
  [log_date |-> date, log_severity |-> severity, log_message |-> text, unknown |-> <<>>]

\* Setting one of the strings leaves the others alone.
LEMMA LogSet ==
  ASSUME NEW A, NEW m \in [log_date : A, log_severity : A, log_message : A, unknown : A],
         NEW x
  PROVE  /\ SetLogDate(m, x) = [log_date |-> x, log_severity |-> m.log_severity,
                                log_message |-> m.log_message, unknown |-> m.unknown]
         /\ SetLogSeverity(m, x) = [log_date |-> m.log_date, log_severity |-> x,
                                    log_message |-> m.log_message, unknown |-> m.unknown]
         /\ SetLogMessage(m, x) = [log_date |-> m.log_date, log_severity |-> m.log_severity,
                                   log_message |-> x, unknown |-> m.unknown]
<1>1. SetLogDate(m, x) = [log_date |-> x, log_severity |-> m.log_severity,
                          log_message |-> m.log_message, unknown |-> m.unknown]
  BY DEF SetLogDate
<1>2. SetLogSeverity(m, x) = [log_date |-> m.log_date, log_severity |-> x,
                              log_message |-> m.log_message, unknown |-> m.unknown]
  BY DEF SetLogSeverity
<1>3. SetLogMessage(m, x) = [log_date |-> m.log_date, log_severity |-> m.log_severity,
                             log_message |-> x, unknown |-> m.unknown]
  BY DEF SetLogMessage
<1> QED BY <1>1, <1>2, <1>3, Zenon

\* Its fields, and setting them.
LEMMA LogOfIs ==
  ASSUME NEW d \in Seq(Nat), NEW s \in Seq(Nat), NEW t \in Seq(Nat)
  PROVE  /\ LogOf(d, s, t) \in LogObjects
         /\ LogOf(d, s, t).log_date = d /\ LogOf(d, s, t).log_severity = s
         /\ LogOf(d, s, t).log_message = t /\ LogOf(d, s, t).unknown = <<>>
         /\ \A x \in Seq(Nat) : /\ SetLogDate(LogOf(d, s, t), x) = LogOf(x, s, t)
                                /\ SetLogSeverity(LogOf(d, s, t), x) = LogOf(d, x, t)
                                /\ SetLogMessage(LogOf(d, s, t), x) = LogOf(d, s, x)
<1> DEFINE l == LogOf(d, s, t)
<1>1. l \in LogObjects
  BY DEF LogOf, LogObjects
<1>2. l.log_date = d /\ l.log_severity = s /\ l.log_message = t /\ l.unknown = <<>>
  BY DEF LogOf
<1> HIDE DEF l
<1>3. ASSUME NEW x \in Seq(Nat) PROVE SetLogDate(l, x) = LogOf(x, s, t)
  <2>1. SetLogDate(l, x) = [log_date |-> x, log_severity |-> l.log_severity,
                            log_message |-> l.log_message, unknown |-> l.unknown]
    BY <1>1, LogSet DEF LogObjects
  <2> QED BY <1>2, <2>1, Zenon DEF LogOf
<1>4. ASSUME NEW x \in Seq(Nat) PROVE SetLogSeverity(l, x) = LogOf(d, x, t)
  <2>1. SetLogSeverity(l, x) = [log_date |-> l.log_date, log_severity |-> x,
                                log_message |-> l.log_message, unknown |-> l.unknown]
    BY <1>1, LogSet DEF LogObjects
  <2> QED BY <1>2, <2>1, Zenon DEF LogOf
<1>5. ASSUME NEW x \in Seq(Nat) PROVE SetLogMessage(l, x) = LogOf(d, s, x)
  <2>1. SetLogMessage(l, x) = [log_date |-> l.log_date, log_severity |-> l.log_severity,
                               log_message |-> x, unknown |-> l.unknown]
    BY <1>1, LogSet DEF LogObjects
  <2> QED BY <1>2, <2>1, Zenon DEF LogOf
<1> QED BY <1>1, <1>2, <1>3, <1>4, <1>5 DEF l

\* The empty log message.
LEMMA LogDefaultIs == ProtoLogDefault = LogOf(<<>>, <<>>, <<>>)
BY DEF ProtoLogDefault, LogOf

\* The fields before the text, and all.
HeaderFields(d, s) == Optional(10, d) \o Optional(18, s)
LogFields(d, s, t) == HeaderFields(d, s) \o Optional(26, t)

\* Reading the fields of a log message gives this message.
LEMMA LogReads ==
  ASSUME NEW d \in Seq(Nat), NEW s \in Seq(Nat), NEW t \in Seq(Nat)
  PROVE  /\ HeaderFields(d, s) \in Seq(Fields) /\ LogFields(d, s, t) \in Seq(Fields)
         /\ ProtoLogReads(ProtoLogDefault, HeaderFields(d, s), {d} \cup {s}, LogOf(d, s, <<>>))
         /\ ProtoLogReads(ProtoLogDefault, LogFields(d, s, t), ({d} \cup {s}) \cup {t},
                          LogOf(d, s, t))
<1> DEFINE a == Optional(10, d)
           b == Optional(18, s)
           c == Optional(26, t)
           e == <<>>
           l0 == LogOf(e, e, e)
           l1 == LogOf(d, e, e)
           l2 == LogOf(d, s, e)
           l3 == LogOf(d, s, t)
<1>1. a \in Seq(Fields) /\ b \in Seq(Fields) /\ c \in Seq(Fields)
  BY OptionalGood, GoodConcat
<1>2. e \in Seq(Nat)
  OBVIOUS
<1> HIDE DEF e
<1>3. l0 \in LogObjects /\ l1 \in LogObjects /\ l2 \in LogObjects /\ l3 \in LogObjects
  BY <1>2, LogOfIs
<1>4. /\ SetLogDate(l0, d) = l1 /\ SetLogSeverity(l1, s) = l2 /\ SetLogMessage(l2, t) = l3
  BY <1>2, LogOfIs
<1>5. /\ (d = <<>> => l1 = l0) /\ (s = <<>> => l2 = l1) /\ (t = <<>> => l3 = l2)
  BY DEF e
<1> HIDE DEF l0, l1, l2, l3
<1>6. ProtoLogReads(l0, a, {d}, l1)
  <2> DEFINE f == [tag |-> 10, value |-> d]
  <2>1. f \in GoodFields /\ f.tag = 10 /\ f.value = d /\ 10 \in Nat /\ 10 % 8 = 2
    BY DEF GoodFields
  <2>2. ProtoLogRead(Reading(l0), f) = Checked(d, l1)
    <3> HIDE DEF f
    <3>1. f # Broken
      BY <2>1, BrokenIsNotGood
    <3>2. Reading(l0) \in ProtoLogReadings /\ Reading(l0).ok /\ Reading(l0).msg = l0
      BY <1>3, ProtoLogReading
    <3>3. SetString(l0, "log_date", d) = l1
      BY <1>3, <1>4, LogStringSet
    <3> QED BY <2>1, <3>1, <3>2, <3>3, ProtoLogReadCases
  <2> QED BY <1>3, <1>5, <2>1, <2>2, ProtoLogReadsOptional
<1>7. ProtoLogReads(l1, b, {s}, l2)
  <2> DEFINE f == [tag |-> 18, value |-> s]
  <2>1. f \in GoodFields /\ f.tag = 18 /\ f.value = s /\ 18 \in Nat /\ 18 % 8 = 2
    BY DEF GoodFields
  <2>2. ProtoLogRead(Reading(l1), f) = Checked(s, l2)
    <3> HIDE DEF f
    <3>1. f # Broken
      BY <2>1, BrokenIsNotGood
    <3>2. Reading(l1) \in ProtoLogReadings /\ Reading(l1).ok /\ Reading(l1).msg = l1
      BY <1>3, ProtoLogReading
    <3>3. SetString(l1, "log_severity", s) = l2
      BY <1>3, <1>4, LogStringSet
    <3> QED BY <2>1, <3>1, <3>2, <3>3, ProtoLogReadCases
  <2> QED BY <1>3, <1>5, <2>1, <2>2, ProtoLogReadsOptional
<1>8. ProtoLogReads(l2, c, {t}, l3)
  <2> DEFINE f == [tag |-> 26, value |-> t]
  <2>1. f \in GoodFields /\ f.tag = 26 /\ f.value = t /\ 26 \in Nat /\ 26 % 8 = 2
    BY DEF GoodFields
  <2>2. ProtoLogRead(Reading(l2), f) = Checked(t, l3)
    <3> HIDE DEF f
    <3>1. f # Broken
      BY <2>1, BrokenIsNotGood
    <3>2. Reading(l2) \in ProtoLogReadings /\ Reading(l2).ok /\ Reading(l2).msg = l2
      BY <1>3, ProtoLogReading
    <3>3. SetString(l2, "log_message", t) = l3
      BY <1>3, <1>4, LogStringSet
    <3> QED BY <2>1, <3>1, <3>2, <3>3, ProtoLogReadCases
  <2> QED BY <1>3, <1>5, <2>1, <2>2, ProtoLogReadsOptional
<1> HIDE DEF a, b, c
<1> DEFINE h == a \o b
<1>9. h \in Seq(Fields)
  BY <1>1, FieldsConcat
<1>10. ProtoLogReads(l0, h, {d} \cup {s}, l2)
  BY <1>1, <1>3, <1>6, <1>7, ProtoLogReadsBoth
<1> HIDE DEF h
<1>11. h \o c \in Seq(Fields)
  BY <1>1, <1>9, FieldsConcat
<1>12. ProtoLogReads(l0, h \o c, ({d} \cup {s}) \cup {t}, l3)
  BY <1>1, <1>3, <1>8, <1>9, <1>10, ProtoLogReadsBoth
<1>13. HeaderFields(d, s) = h /\ LogFields(d, s, t) = h \o c
  BY DEF HeaderFields, LogFields, h, a, b, c
<1>14. l0 = ProtoLogDefault
  BY LogDefaultIs DEF l0, e
<1> QED BY <1>9, <1>11, <1>12, <1>13, <1>14, <1>10 DEF l2, l3, e

Header(d, s) == StringField(10, d) \o StringField(18, s)

\* A log message is written as the bytes of its fields, and has the size it says.
LEMMA LogWritten ==
  ASSUME NEW d \in Seq(Nat), NEW s \in Seq(Nat), NEW t \in Seq(Nat)
  PROVE  LET w == ProtoLogWrite(LogOf(d, s, t))
         IN /\ w = Header(d, s) \o StringField(26, t) /\ w \in Seq(Nat)
            /\ Len(w) = ProtoLogSize(LogOf(d, s, t))
            /\ Header(d, s) = BytesOf(HeaderFields(d, s)) /\ Header(d, s) \in Seq(Nat)
            /\ Len(Header(d, s)) = HeaderSize(d, s) /\ HeaderFields(d, s) \in Seq(GoodFields)
            /\ w = BytesOf(LogFields(d, s, t)) /\ LogFields(d, s, t) \in Seq(GoodFields)
<1> DEFINE a == Optional(10, d)
           b == Optional(18, s)
           c == Optional(26, t)
           x == StringField(10, d)
           y == StringField(18, s)
           z == StringField(26, t)
           l == LogOf(d, s, t)
<1>1. /\ a \in Seq(GoodFields) /\ b \in Seq(GoodFields) /\ c \in Seq(GoodFields)
      /\ BytesOf(a) = x /\ BytesOf(b) = y /\ BytesOf(c) = z
  BY OptionalGood
<1>2. /\ x \in Seq(Nat) /\ Len(x) = StringFieldSize(d)
      /\ y \in Seq(Nat) /\ Len(y) = StringFieldSize(s)
      /\ z \in Seq(Nat) /\ Len(z) = StringFieldSize(t)
  BY StringFieldIs
<1>3. l.log_date = d /\ l.log_severity = s /\ l.log_message = t /\ l.unknown = <<>>
  BY LogOfIs
<1> HIDE DEF l
<1>4. ProtoLogWrite(l) = ((x \o y) \o z) \o <<>>
  BY <1>3, Zenon DEF ProtoLogWrite
<1>5. ProtoLogSize(l) = StringFieldSize(d) + StringFieldSize(s) + StringFieldSize(t)
  <2>1. ProtoLogSize(l) = StringFieldSize(d) + StringFieldSize(s) + StringFieldSize(t) + Len(<<>>)
    BY <1>3, Zenon DEF ProtoLogSize
  <2>2. Len(<<>>) = 0
    OBVIOUS
  <2>3. Len(x) \in Nat /\ Len(y) \in Nat /\ Len(z) \in Nat
    BY <1>2, Lengths
  <2> HIDE DEF x, y, z
  <2> QED BY <1>2, <2>1, <2>2, <2>3
<1>6. HeaderSize(d, s) = StringFieldSize(d) + StringFieldSize(s)
  BY DEF HeaderSize
<1>7. Header(d, s) = x \o y /\ HeaderFields(d, s) = a \o b /\ LogFields(d, s, t) = (a \o b) \o c
  BY DEF Header, HeaderFields, LogFields
<1> HIDE DEF a, b, c, x, y, z
<1> DEFINE h == a \o b
           xy == x \o y
<1>8. h \in Seq(GoodFields) /\ BytesOf(h) = xy
  BY <1>1, GoodConcat, BytesConcat
<1>9. xy \in Seq(Nat) /\ Len(xy) = Len(x) + Len(y) /\ Len(x) \in Nat /\ Len(y) \in Nat
  BY <1>2, Lengths
<1> HIDE DEF h, xy
<1>10. h \o c \in Seq(GoodFields) /\ BytesOf(h \o c) = xy \o z
  BY <1>1, <1>8, GoodConcat, BytesConcat
<1> DEFINE w == xy \o z
<1>11. w \in Seq(Nat) /\ Len(w) = Len(xy) + Len(z) /\ Len(z) \in Nat
  BY <1>2, <1>9, Lengths
<1> HIDE DEF w
<1>12. w \o <<>> = w
  BY <1>11
<1>13. ProtoLogWrite(l) = w
  BY <1>4, <1>12, Zenon DEF w, xy
<1>14. Len(w) = ProtoLogSize(l)
  BY <1>2, <1>5, <1>9, <1>11
<1>15. Len(xy) = HeaderSize(d, s)
  BY <1>2, <1>6, <1>9
<1> QED BY <1>7, <1>8, <1>9, <1>10, <1>11, <1>13, <1>14, <1>15, Zenon DEF h, xy, w, l, z

\* A prefix that is longer than the first of two sequences.
LEMMA PrefixOfConcat ==
  ASSUME NEW a \in Seq(Nat), NEW b \in Seq(Nat), NEW n \in Nat,
         Len(a) < n, n < Len(a) + Len(b)
  PROVE  /\ n - Len(a) \in 1..Len(b) - 1
         /\ SubSeq(a \o b, 1, n) = a \o SubSeq(b, 1, n - Len(a))
<1> DEFINE k == n - Len(a)
           x == SubSeq(a \o b, 1, n)
           c == SubSeq(b, 1, k)
           y == a \o c
<1>1. k \in Nat /\ k \in 1..Len(b) - 1 /\ Len(a) + k = n
  OBVIOUS
<1>2. x \in Seq(Nat) /\ Len(x) = n /\ \A i \in 1..n : x[i] = (a \o b)[i]
  OBVIOUS
<1> HIDE DEF k
<1>3. c \in Seq(Nat) /\ Len(c) = k /\ \A i \in 1..k : c[i] = b[i]
  BY <1>1
<1> HIDE DEF x, c
<1>4. /\ y \in Seq(Nat) /\ Len(y) = Len(a) + Len(c)
      /\ \A i \in 1..Len(a) : y[i] = a[i]
      /\ \A i \in 1..Len(c) : y[Len(a) + i] = c[i]
  BY <1>3, Concat
<1> HIDE DEF y
<1>5. Len(y) = n
  BY <1>1, <1>3, <1>4
<1>6. \A i \in 1..Len(a) : (a \o b)[i] = a[i]
  BY Concat
<1>7. ASSUME NEW i \in 1..n PROVE x[i] = y[i]
  <2>1. CASE i <= Len(a)
    <3>1. i \in 1..Len(a)
      BY <2>1
    <3> QED BY <1>2, <1>4, <1>6, <3>1
  <2>2. CASE i > Len(a)
    <3> DEFINE j == i - Len(a)
    <3>1. j \in 1..k /\ j \in 1..Len(b) /\ i = Len(a) + j
      BY <1>1, <2>2
    <3> HIDE DEF j
    <3>2. (a \o b)[Len(a) + j] = b[j]
      BY <3>1, Concat
    <3>3. y[Len(a) + j] = c[j]
      BY <1>3, <1>4, <3>1
    <3> QED BY <1>2, <1>3, <3>1, <3>2, <3>3
  <2> QED BY <2>1, <2>2
<1>8. x = y
  BY <1>2, <1>4, <1>7, <1>5, SeqEqual
<1> QED BY <1>1, <1>8 DEF x, y, c, k

\* A string field that ends too early is none.
LEMMA FieldCutOff ==
  ASSUME NEW tag \in Nat, tag % 8 = 2, NEW t \in Seq(Nat),
         NEW k \in 1..Len(StringField(tag, t)) - 1
  PROVE  FieldsIn(SubSeq(StringField(tag, t), 1, k)) = <<Broken>>
<1> DEFINE b == StringField(tag, t)
           w == SubSeq(b, 1, k)
<1>1. t # <<>>
  <2> SUFFICES ASSUME t = <<>> PROVE FALSE
    OBVIOUS
  <2>1. StringField(tag, t) = <<>>
    BY Zenon DEF StringField
  <2>2. Len(<<>>) = 0
    OBVIOUS
  <2>3. Len(StringField(tag, t)) = 0
    BY <2>1, <2>2, Zenon
  <2> QED BY <2>3
<1>2. b = <<tag, Len(t)>> \o t /\ Len(t) \in Nat
  BY <1>1 DEF StringField
<1>3. b \in Seq(Nat) /\ Len(b) = 2 + Len(t) /\ b[1] = tag /\ b[2] = Len(t)
  BY <1>2, TagLengthAndValue
<1> HIDE DEF b
<1>4. k \in Nat /\ 1 <= k /\ k < Len(b)
  BY <1>3 DEF b
<1>5. w \in Seq(Nat) /\ Len(w) = k /\ \A i \in 1..k : w[i] = b[i]
  BY <1>3, <1>4
<1> HIDE DEF w
<1>6. w[1] = tag
  BY <1>3, <1>4, <1>5
<1>7. BreaksAt(w, 1)
  <2>1. CASE k = 1
    BY <1>5, <2>1 DEF BreaksAt
  <2>2. CASE k # 1
    <3>1. 2 \in 1..k
      BY <1>4, <2>2
    <3>2. w[2] = Len(t) /\ 1 + 1 = 2
      BY <1>3, <1>5, <3>1
    <3>3. LastOf(w, 1) = 1 + 1 + w[1 + 1]
      BY <1>6, Zenon DEF LastOf
    <3>4. LastOf(w, 1) = 1 + 1 + Len(t)
      BY <3>2, <3>3, Zenon
    <3>5. LastOf(w, 1) >= Len(w) + 1
      BY <1>2, <1>3, <1>4, <1>5, <3>4
    <3> QED BY <3>5, Zenon DEF BreaksAt
  <2> QED BY <2>1, <2>2
<1>8. 1 \in 1..Len(w) + 1 /\ 1 # Len(w) + 1
  BY <1>4, <1>5
<1>9. From(w)[1] = FieldsAt(w, From(w), 1)
  BY <1>5, <1>8, FromIs
<1>10. FieldsIn(w) = <<Broken>>
  BY <1>7, <1>8, <1>9, FieldsInIsFrom, Zenon DEF FieldsAt
<1> QED BY <1>10 DEF w, b

\* A log message is read as it was written, if its strings are UTF-8.
LEMMA LogReadsWhole ==
  ASSUME NEW d \in Seq(Nat), NEW s \in Seq(Nat), NEW t \in Seq(Nat), IsUtf8(d), IsUtf8(s)
  PROVE  LET l == LogOf(d, s, t)
             r == ProtoLogReadAll(ProtoLogDefault, ProtoLogWrite(l))
         IN IF IsUtf8(t) THEN r.ok /\ r.msg = l ELSE ~r.ok
<1> DEFINE l == LogOf(d, s, t)
           w == ProtoLogWrite(l)
           r == ProtoLogReadAll(ProtoLogDefault, w)
           fs == LogFields(d, s, t)
           S == ({d} \cup {s}) \cup {t}
<1>1. ProtoLogDefault \in LogObjects /\ l \in LogObjects
  <2>1. <<>> \in Seq(Nat)
    OBVIOUS
  <2> QED BY <2>1, LogDefaultIs, LogOfIs, Zenon
<1>2. fs \in Seq(GoodFields) /\ w = BytesOf(fs)
  BY LogWritten
<1>3. fs \in Seq(Fields) /\ ProtoLogReads(ProtoLogDefault, fs, S, l)
  BY LogReads
<1> HIDE DEF fs, l
<1>4. FieldsIn(w) = fs
  BY <1>2, FieldsOfBytes
<1>5. r = ProtoLogFold(Reading(ProtoLogDefault), fs)
  BY <1>1, <1>3, <1>4, ProtoLogReading, ProtoLogFoldLeft DEF ProtoLogReadAll
<1> HIDE DEF r
<1>6. AllUtf8(S) <=> IsUtf8(t)
  BY Utf8Both, Utf8One
<1> HIDE DEF S
<1>7. (IsUtf8(t) => r = Reading(l)) /\ (~IsUtf8(t) => ~r.ok)
  BY <1>3, <1>5, <1>6, Zenon DEF ProtoLogReads
<1> QED BY <1>1, <1>7, ProtoLogReading DEF r, l

\* What recvBuffer cuts off within the text is not read.
LEMMA LogReadsCut ==
  ASSUME NEW d \in Seq(Nat), NEW s \in Seq(Nat), NEW t \in Seq(Nat), IsUtf8(d), IsUtf8(s),
         NEW n \in Nat, HeaderSize(d, s) < n, n < Len(ProtoLogWrite(LogOf(d, s, t)))
  PROVE  ~ProtoLogReadAll(ProtoLogDefault, SubSeq(ProtoLogWrite(LogOf(d, s, t)), 1, n)).ok
<1> DEFINE w == ProtoLogWrite(LogOf(d, s, t))
           h == Header(d, s)
           b == StringField(26, t)
           fs == HeaderFields(d, s)
           l == LogOf(d, s, <<>>)
           S == {d} \cup {s}
           x == SubSeq(w, 1, n)
           k == n - Len(h)
           c == SubSeq(b, 1, k)
           r == ProtoLogReadAll(ProtoLogDefault, x)
<1>1. /\ w = h \o b /\ h \in Seq(Nat) /\ h = BytesOf(fs) /\ Len(h) = HeaderSize(d, s)
      /\ fs \in Seq(GoodFields)
  BY LogWritten
<1>2. fs \in Seq(Fields) /\ ProtoLogReads(ProtoLogDefault, fs, S, l)
  BY LogReads
<1>3. b \in Seq(Nat)
  BY StringFieldIs
<1>4. AllUtf8(S)
  BY Utf8Both, Utf8One
<1>5. ProtoLogDefault \in LogObjects /\ l \in LogObjects
  <2>1. <<>> \in Seq(Nat)
    OBVIOUS
  <2> QED BY <2>1, LogDefaultIs, LogOfIs, Zenon
<1> HIDE DEF l, S, fs, h
<1>6. Len(h) < n /\ n < Len(h) + Len(b)
  <2>1. Len(h \o b) = Len(h) + Len(b)
    BY <1>1, <1>3, Lengths
  <2>2. Len(w) = Len(h) + Len(b) /\ n < Len(w)
    BY <1>1, <2>1, Zenon
  <2> QED BY <1>1, <2>2, Zenon
<1>7. k \in 1..Len(b) - 1 /\ x = h \o c
  <2>1. k \in 1..Len(b) - 1
    BY <1>1, <1>3, <1>6, PrefixOfConcat
  <2>2. SubSeq(h \o b, 1, n) = h \o c
    BY <1>1, <1>3, <1>6, PrefixOfConcat
  <2>3. x = h \o c
    BY <1>1, <2>2
  <2> QED BY <2>1, <2>3
<1>8. FieldsIn(c) = <<Broken>>
  <2>1. 26 \in Nat /\ 26 % 8 = 2
    OBVIOUS
  <2> HIDE DEF k
  <2> QED BY <1>7, <2>1, FieldCutOff
<1>9. c \in Seq(Nat)
  BY <1>3, <1>7
<1> HIDE DEF c, b, w, k
<1>10. FieldsIn(x) = fs \o <<Broken>>
  BY <1>1, <1>7, <1>8, <1>9, FieldsPrefix
<1> HIDE DEF x
<1> DEFINE q == Reading(ProtoLogDefault)
           e == <<Broken>>
<1>11. e \in Seq(Fields) /\ Broken \in Fields
  BY DEF Fields
<1>12. q \in ProtoLogReadings /\ Reading(l) \in ProtoLogReadings
  BY <1>5, ProtoLogReading
<1>13. ProtoLogFold(q, fs) = Reading(l)
  BY <1>2, <1>4, Zenon DEF ProtoLogReads
<1>14. ProtoLogFold(Reading(l), e) = Failed(l)
  <2>1. ProtoLogFold(Reading(l), e) = ProtoLogRead(Reading(l), Broken)
    BY <1>11, <1>12, ProtoLogFoldOne
  <2>2. ProtoLogRead(Reading(l), Broken) = Failed(Reading(l).msg)
    BY <1>12, ProtoLogReadCases
  <2>3. Reading(l).msg = l
    BY <1>5, ProtoLogReading
  <2> QED BY <2>1, <2>2, <2>3, Zenon
<1> HIDE DEF q, e
<1>15. r = ProtoLogFold(q, fs \o e)
  <2>1. fs \o e \in Seq(Fields)
    BY <1>2, <1>11, FieldsConcat
  <2>2. r = FoldLeft(ProtoLogRead, q, fs \o e)
    BY <1>10, Zenon DEF ProtoLogReadAll, q, e
  <2> QED BY <1>12, <2>1, <2>2, ProtoLogFoldLeft
<1> HIDE DEF r
<1>16. r = Failed(l)
  BY <1>2, <1>11, <1>12, <1>13, <1>14, <1>15, ProtoLogFoldConcat
<1>17. ~r.ok
  BY <1>5, <1>16, ProtoLogReading
<1> QED BY <1>17 DEF r, x, w

SameButUnknown(n, m) ==
  /\ n.word = m.word /\ n.synonyms = m.synonyms /\ n.macmillan_url = m.macmillan_url
  /\ n.youglish_url = m.youglish_url /\ n.reverso_url = m.reverso_url

\* The unknown fields are written last.
LEMMA UnknownIsLast ==
  ASSUME NEW m \in WellObjects
  PROVE  \E p \in Seq(Nat) : \A n \in WellObjects :
           SameButUnknown(n, m) => VocabularyBytes(n) = p \o n.unknown
<1> DEFINE a == Optional(10, m.word)
           b == ElementFields(m.synonyms)
           c == Optional(26, m.macmillan_url)
           d == Optional(34, m.youglish_url)
           e == Optional(42, m.reverso_url)
           k == (((a \o b) \o c) \o d) \o e
<1>1. /\ a \in Seq(GoodFields) /\ b \in Seq(GoodFields) /\ c \in Seq(GoodFields)
      /\ d \in Seq(GoodFields) /\ e \in Seq(GoodFields)
  BY VocabularyTyped, OptionalGood, ElementFieldsIs
<1>2. \A n, us : SameButUnknown(n, m) => VocabularyFields(n, us) = k \o us
  BY Zenon DEF SameButUnknown, VocabularyFields
<1> HIDE DEF a, b, c, d, e
<1>3. k \in Seq(GoodFields)
  <2>1. a \o b \in Seq(GoodFields)
    BY <1>1, GoodConcat
  <2>2. (a \o b) \o c \in Seq(GoodFields)
    BY <1>1, <2>1, GoodConcat
  <2>3. ((a \o b) \o c) \o d \in Seq(GoodFields)
    BY <1>1, <2>2, GoodConcat
  <2> QED BY <1>1, <2>3, GoodConcat
<1> HIDE DEF k
<1>4. BytesOf(k) \in Seq(Nat)
  BY <1>3, BytesTyped
<1>5. ASSUME NEW n \in WellObjects, SameButUnknown(n, m)
      PROVE  VocabularyBytes(n) = BytesOf(k) \o n.unknown
  <2>1. PICK us \in Seq(UnknownFields(VocabularyTags)) : n.unknown = BytesOf(us)
    BY VocabularyTyped DEF UnknownBytes
  <2>2. us \in Seq(GoodFields)
    BY UnknownAreGood
  <2>3. VocabularyBytes(n) = BytesOf(VocabularyFields(n, us))
    BY <2>1, <2>2, VocabularyWriteIs
  <2>4. VocabularyFields(n, us) = k \o us
    BY <1>2, <1>5
  <2> QED BY <1>3, <2>1, <2>2, <2>3, <2>4, BytesConcat
<1> QED BY <1>4, <1>5

\* What a newer program adds.
Extended(m) == [m EXCEPT !.unknown = @ \o <<56, 1>>]

\* What a newer program adds is a field this one does not know.
LEMMA AddedIsUnknown == <<56, 1>> \in UnknownBytes(VocabularyTags) /\ <<56, 1>> \in Seq(Nat)
<1> DEFINE v == <<1>>
           f == [tag |-> 56, value |-> v]
<1>1. v \in Seq(Nat) /\ Len(v) = 1
  OBVIOUS
<1>2. <<56>> \o <<1>> = <<56, 1>>
  BY TwoBytes
<1>3. 56 % 8 = 0 /\ 56 \in Nat /\ 56 \notin VocabularyTags
  BY DEF VocabularyTags
<1>4. f.tag = 56 /\ f.value = v
  OBVIOUS
<1>5. FieldBytes(f) = <<56, 1>>
  BY <1>2, <1>3, <1>4, Zenon DEF FieldBytes
<1> HIDE DEF v
<1>6. f \in GoodFields
  BY <1>1, <1>3 DEF GoodFields
<1> HIDE DEF f
<1>7. f \in UnknownFields(VocabularyTags)
  BY <1>3, <1>4, <1>6 DEF UnknownFields
<1>8. FieldBytes(f) \in UnknownBytes(VocabularyTags)
  BY <1>7, UnknownOne
<1>9. FieldBytes(f) \in Seq(Nat)
  BY <1>8, UnknownIsTyped
<1> QED BY <1>5, <1>8, <1>9

\* Setting the unknown fields leaves the others alone.
LEMMA UnknownSet ==
  ASSUME NEW A, NEW B, NEW C, NEW D, NEW m, IsRecord(A, B, C, D, m), NEW u
  PROVE  SetUnknown(m, u) = [word |-> m.word, synonyms |-> m.synonyms,
                             macmillan_url |-> m.macmillan_url,
                             youglish_url |-> m.youglish_url, reverso_url |-> m.reverso_url,
                             unknown |-> u, spare |-> m.spare]
BY DEF SetUnknown, IsRecord

\* It is written behind what was there.
LEMMA ExtendedWritten ==
  ASSUME NEW m \in WellObjects, VocabularyContent(m) = m
  PROVE  /\ Extended(m) \in WellObjects /\ VocabularyContent(Extended(m)) = Extended(m)
         /\ VocabularyBytes(Extended(m)) = VocabularyBytes(m) \o <<56, 1>>
<1> DEFINE x == <<56, 1>>
           u == m.unknown \o x
           n == SetUnknown(m, u)
<1>1. x \in UnknownBytes(VocabularyTags) /\ x \in Seq(Nat)
  BY AddedIsUnknown
<1>2. Extended(m) = n
  BY Zenon DEF Extended, SetUnknown
<1> HIDE DEF x
<1>3. m.unknown \in UnknownBytes(VocabularyTags) /\ m.unknown \in Seq(Nat)
  BY VocabularyTyped
<1>4. u \in UnknownBytes(VocabularyTags)
  BY <1>1, <1>3, UnknownBoth
<1> HIDE DEF u
<1>5. n \in WellObjects
  BY <1>4, VocabularyUnknownSet
<1>6. /\ SameButUnknown(n, m) /\ n.unknown = u /\ n.spare = m.spare
  <2>1. IsRecord(Seq(Nat), Seq(WellSynonyms), UnknownBytes(VocabularyTags), Seq(ClearSynonyms), m)
    BY Zenon DEF IsRecord, WellObjects
  <2>2. n = [word |-> m.word, synonyms |-> m.synonyms, macmillan_url |-> m.macmillan_url,
             youglish_url |-> m.youglish_url, reverso_url |-> m.reverso_url,
             unknown |-> u, spare |-> m.spare]
    BY <2>1, UnknownSet
  <2> HIDE DEF n
  <2> QED BY <2>2 DEF SameButUnknown
<1> HIDE DEF n
<1>7. VocabularyContent(n) = n
  <2>1. m = WithElements(m, Contents(m.synonyms), <<>>)
    BY VocabularyContentIs
  <2> DEFINE k == WithElements(m, Contents(m.synonyms), <<>>)
  <2>2. k.synonyms = Contents(m.synonyms) /\ k.spare = <<>>
    BY WithElementsIs
  <2>3. m.synonyms = Contents(m.synonyms) /\ m.spare = <<>>
    BY <2>1, <2>2, Zenon
  <2> DEFINE c == WithElements(n, Contents(n.synonyms), <<>>)
  <2>4. VocabularyContent(n) = c /\ c \in WellObjects
    BY <1>5, VocabularyContentIs, ContentWritten
  <2>5. /\ c.word = n.word /\ c.macmillan_url = n.macmillan_url
        /\ c.youglish_url = n.youglish_url /\ c.reverso_url = n.reverso_url
        /\ c.unknown = n.unknown
    BY <1>5, WithElementsIs
  <2>6. c.synonyms = Contents(n.synonyms) /\ c.spare = <<>>
    BY <1>5, WithElementsIs
  <2>7. c.synonyms = n.synonyms /\ c.spare = n.spare
    BY <1>6, <2>3, <2>6, Zenon DEF SameButUnknown
  <2> HIDE DEF c
  <2>8. c = n
    BY <1>5, <2>4, <2>5, <2>7, VocabularyEqual
  <2> QED BY <2>4, <2>8
<1>8. PICK p \in Seq(Nat) : \A k \in WellObjects :
        SameButUnknown(k, m) => VocabularyBytes(k) = p \o k.unknown
  BY UnknownIsLast
<1>9. VocabularyBytes(m) = p \o m.unknown
  BY <1>8, Zenon DEF SameButUnknown
<1>10. VocabularyBytes(n) = p \o (m.unknown \o x)
  BY <1>5, <1>6, <1>8, Zenon DEF u
<1>11. (p \o m.unknown) \o x = p \o (m.unknown \o x)
  BY <1>1, <1>3, BytesAssociate
<1> QED BY <1>2, <1>5, <1>7, <1>9, <1>10, <1>11, Zenon DEF x

\* The buffer takes all of the bytes.
LEMMA SerializedIs ==
  ASSUME NEW m \in WellObjects
  PROVE  /\ SubSeq(VocabularyWrite(VocabularySized(m)), 1, VocabularySize(m))
              = VocabularyBytes(VocabularyContent(m))
         /\ VocabularyBytes(VocabularyContent(m)) \in Seq(Nat)
<1> DEFINE w == VocabularyBytes(m)
<1>1. w \in Seq(Nat) /\ VocabularySize(m) = Len(w)
  BY VocabularySizeIs
<1>2. VocabularyWrite(VocabularySized(m)) = w
  BY DEF VocabularyBytes
<1>3. VocabularyBytes(VocabularyContent(m)) = w
  BY ContentWritten
<1> HIDE DEF w
<1>4. SubSeq(w, 1, Len(w)) = w
  BY <1>1
<1> QED BY <1>1, <1>2, <1>3, <1>4

\* Whatever the bytes, ParseFromArray leaves an object as it should be.
LEMMA ParsedTyped ==
  ASSUME NEW m \in WellObjects, NEW w \in Seq(Nat)
  PROVE  ParseFromArray(m, w) \in VocabularyReadings
<1> DEFINE n == VocabularyClear(m)
           fs == FieldsIn(w)
<1>1. n \in WellObjects /\ fs \in Seq(Fields)
  BY VocabularyClearIs, FieldsInTyped
<1> HIDE DEF n, fs
<1>2. Reading(n) \in VocabularyReadings
  BY <1>1, VocabularyReading
<1>3. FoldLeft(VocabularyRead, Reading(n), fs) \in VocabularyReadings
  BY <1>1, <1>2, VocabularyFoldLeft, VocabularyFoldTyped
<1> QED BY <1>3 DEF ParseFromArray, VocabularyReadAll, n, fs

\* CopyFrom gives the content.
LEMMA CopyFromIs ==
  ASSUME NEW m \in WellObjects, NEW x \in WellObjects
  PROVE  VocabularyCopyFrom(m, x) \in WellObjects /\ SameContent(VocabularyCopyFrom(m, x), x)
<1> DEFINE n == VocabularyClear(m)
<1>1. n \in WellObjects /\ IsClear(n)
  BY VocabularyClearIs
<1>2. VocabularyCopyFrom(m, x) = VocabularyMerge(n, x)
  BY DEF VocabularyCopyFrom
<1> HIDE DEF n
<1>3. Joins(VocabularyMerge(n, x), n, x) /\ VocabularyMerge(n, x) \in WellObjects
  BY <1>1, MergeJoins, VocabularyMergeIs
<1> QED BY <1>1, <1>2, <1>3, JoinsClear

\* A new object has nothing to write.
LEMMA DefaultWritten ==
  /\ VocabularyContent(VocabularyDefault) = VocabularyDefault
  /\ VocabularyBytes(VocabularyDefault) = <<>>
<1> DEFINE m == VocabularyDefault
           e == <<>>
<1>1. m \in WellObjects /\ IsClear(m)
  BY VocabularyDefaultIs
<1>2. m.spare = e
  BY DEF VocabularyDefault
<1>3. /\ m.word = e /\ m.macmillan_url = e /\ m.youglish_url = e /\ m.reverso_url = e
      /\ m.unknown = e /\ m.synonyms = e
  BY <1>1 DEF IsClear
<1> HIDE DEF m
<1>4. VocabularyContent(m) = m
  <2> DEFINE c == WithElements(m, Contents(m.synonyms), e)
  <2>1. VocabularyContent(m) = c /\ c \in WellObjects
    BY <1>1, VocabularyContentIs, ContentWritten
  <2>2. /\ c.word = m.word /\ c.macmillan_url = m.macmillan_url
        /\ c.youglish_url = m.youglish_url /\ c.reverso_url = m.reverso_url
        /\ c.unknown = m.unknown
    BY <1>1, WithElementsIs
  <2>3. c.synonyms = Contents(m.synonyms) /\ c.spare = e
    BY <1>1, WithElementsIs
  <2>4. c.synonyms = m.synonyms /\ c.spare = m.spare
    BY <1>2, <1>3, <2>3, ContentsNone, Zenon
  <2> HIDE DEF c
  <2>5. c = m
    BY <1>1, <2>1, <2>2, <2>4, VocabularyEqual
  <2> QED BY <2>1, <2>5
<1>5. VocabularyBytes(m) = e
  <2>1. e \in Seq(GoodFields) /\ e \o e = e
    OBVIOUS
  <2>2. BytesOf(e) = e
    BY BytesEmpty
  <2>3. ElementFields(e) = e
    BY FieldMaps, MappedNone DEF ElementFields
  <2>4. \A tag : Optional(tag, e) = e
    BY Zenon DEF Optional
  <2> HIDE DEF e
  <2>5. VocabularyFields(m, e) = e
    BY <1>3, <2>1, <2>3, <2>4, Zenon DEF VocabularyFields
  <2>6. VocabularyBytes(m) = BytesOf(VocabularyFields(m, e))
    BY <1>1, <1>3, <2>1, <2>2, VocabularyWriteIs
  <2> QED BY <2>2, <2>5, <2>6
<1> QED BY <1>4, <1>5 DEF m

\* Reading two messages that were written is merging the second into the first.
LEMMA MergedIsReadBoth ==
  ASSUME NEW m \in WellObjects, NEW x \in WellObjects
  PROVE  LET both == ParseFromArray(VocabularyDefault, VocabularyBytes(m) \o VocabularyBytes(x))
         IN both.ok => VocabularyContent(both.msg) = VocabularyContent(VocabularyMerge(m, x))
<1> DEFINE b == VocabularyBytes(m) \o VocabularyBytes(x)
           c == VocabularyClear(VocabularyDefault)
           both == VocabularyReadAll(c, b)
           n == VocabularyMerge(m, x)
<1>1. c \in WellObjects /\ IsClear(c)
  BY VocabularyDefaultIs, VocabularyClearIs
<1>2. ParseFromArray(VocabularyDefault, b) = both
  BY DEF ParseFromArray
<1>3. n \in WellObjects /\ Joins(n, m, x)
  BY VocabularyMergeIs, MergeJoins
<1> HIDE DEF c, n
<1>4. SUFFICES ASSUME both.ok PROVE VocabularyContent(both.msg) = VocabularyContent(n)
  BY <1>2, Zenon DEF n
<1>5. PICK k \in WellObjects : Joins(k, c, m) /\ Joins(both.msg, k, x)
  BY <1>1, <1>4, VocabularyReadsTwo
<1> HIDE DEF both
<1>6. SameContent(k, m)
  BY <1>1, <1>5, JoinsClear
<1>7. SameContent(x, x)
  BY DEF SameContent, SameButElements
<1>8. SameContent(both.msg, n)
  BY <1>3, <1>5, <1>6, <1>7, JoinsSame
<1>9. both.msg \in WellObjects
  BY <1>5 DEF Joins
<1> QED BY <1>3, <1>8, <1>9, ContentEqual

\* Reading a message that was written leaves nothing of what was there before.
LEMMA ParsedIsWritten ==
  ASSUME NEW m \in WellObjects, NEW x \in WellObjects
  PROVE  LET r == ParseFromArray(m, VocabularyBytes(x))
         IN IF VocabularyIsUtf8(x) THEN r.ok /\ VocabularyContent(r.msg) = VocabularyContent(x)
            ELSE ~r.ok
<1> DEFINE c == VocabularyClear(m)
           r == VocabularyReadAll(c, VocabularyBytes(x))
<1>1. c \in WellObjects /\ IsClear(c)
  BY VocabularyClearIs
<1>2. ParseFromArray(m, VocabularyBytes(x)) = r
  BY DEF ParseFromArray
<1> HIDE DEF c
<1>3. /\ VocabularyIsUtf8(x) => r.ok /\ Joins(r.msg, c, x)
      /\ ~VocabularyIsUtf8(x) => ~r.ok
  BY <1>1, VocabularyReadsWritten
<1> HIDE DEF r
<1>4. ASSUME VocabularyIsUtf8(x) PROVE r.ok /\ VocabularyContent(r.msg) = VocabularyContent(x)
  <2>1. Joins(r.msg, c, x) /\ r.ok
    BY <1>3, <1>4
  <2>2. SameContent(r.msg, x)
    BY <1>1, <2>1, JoinsClear
  <2>3. r.msg \in WellObjects
    BY <2>1 DEF Joins
  <2> QED BY <2>1, <2>2, <2>3, ContentEqual
<1> QED BY <1>2, <1>3, <1>4, Zenon

-----------------------------------------------------------------------------

\* The datagram of a log message.
IsDatagram(g, d, s, t) ==
  LET w == ProtoLogWrite(LogOf(d, s, t))
  IN /\ g.bytes = SubSeq(w, 1, IF Len(w) < RecvSize THEN Len(w) ELSE RecvSize)
     /\ g.cut <=> Len(w) > RecvSize

\* Whatever the bytes, reading gives a log message.
LEMMA LogReadTyped ==
  ASSUME NEW w \in Seq(Nat)
  PROVE  ProtoLogReadAll(ProtoLogDefault, w).msg \in LogObjects
<1>1. ProtoLogDefault \in LogObjects
  <2>1. <<>> \in Seq(Nat)
    OBVIOUS
  <2> QED BY <2>1, LogDefaultIs, LogOfIs, Zenon
<1> DEFINE fs == FieldsIn(w)
           r == FoldLeft(ProtoLogRead, Reading(ProtoLogDefault), fs)
<1>2. fs \in Seq(Fields)
  BY FieldsInTyped
<1> HIDE DEF fs
<1>3. r \in ProtoLogReadings
  BY <1>1, <1>2, ProtoLogReading, ProtoLogFoldLeft, ProtoLogFoldTyped
<1> HIDE DEF r
<1>4. r.msg \in LogObjects
  BY <1>3 DEF ProtoLogReadings
<1> QED BY <1>4 DEF ProtoLogReadAll, fs, r

\* The first n bytes, or all if there are fewer.
LEMMA PrefixIs ==
  ASSUME NEW w \in Seq(Nat), NEW n \in Nat
  PROVE  LET b == SubSeq(w, 1, IF Len(w) < n THEN Len(w) ELSE n)
         IN /\ b \in Seq(Nat) /\ Len(b) <= n
            /\ Len(w) > n => b = SubSeq(w, 1, n) /\ n < Len(w)
            /\ ~(Len(w) > n) => b = w
<1> DEFINE k == IF Len(w) < n THEN Len(w) ELSE n
           b == SubSeq(w, 1, k)
<1>1. k \in Nat /\ k <= n /\ k <= Len(w)
  OBVIOUS
<1>2. (Len(w) > n => k = n /\ n < Len(w)) /\ (~(Len(w) > n) => k = Len(w))
  OBVIOUS
<1> HIDE DEF k
<1>3. b \in Seq(Nat) /\ Len(b) = k
  BY <1>1
<1>4. SubSeq(w, 1, Len(w)) = w
  OBVIOUS
<1>5. Len(b) <= n
  BY <1>1, <1>3
<1> QED BY <1>2, <1>3, <1>4, <1>5, Zenon DEF k

\* What arrives of it.
LEMMA DatagramSent ==
  ASSUME NEW d \in Seq(Nat), NEW s \in Seq(Nat), NEW t \in Seq(Nat), NEW g,
         IsDatagram(g, d, s, t)
  PROVE  /\ g.bytes \in Seq(Nat) /\ Len(g.bytes) <= RecvSize
         /\ g.cut => /\ g.bytes = SubSeq(ProtoLogWrite(LogOf(d, s, t)), 1, RecvSize)
                     /\ RecvSize < Len(ProtoLogWrite(LogOf(d, s, t)))
         /\ ~g.cut => g.bytes = ProtoLogWrite(LogOf(d, s, t))
<1> DEFINE w == ProtoLogWrite(LogOf(d, s, t))
           b == SubSeq(w, 1, IF Len(w) < RecvSize THEN Len(w) ELSE RecvSize)
<1>1. w \in Seq(Nat) /\ RecvSize \in Nat
  BY LogWritten, CodecAssumption
<1>2. g.bytes = b /\ (g.cut <=> Len(w) > RecvSize)
  BY Zenon DEF IsDatagram
<1> HIDE DEF w
<1>3. /\ b \in Seq(Nat) /\ Len(b) <= RecvSize
      /\ Len(w) > RecvSize => b = SubSeq(w, 1, RecvSize) /\ RecvSize < Len(w)
      /\ ~(Len(w) > RecvSize) => b = w
  BY <1>1, PrefixIs
<1> HIDE DEF b
<1> QED BY <1>2, <1>3, Zenon DEF w

\* What the server makes of it.
LEMMA DatagramRead ==
  ASSUME NEW d \in Seq(Nat), NEW s \in Seq(Nat), NEW t \in Seq(Nat), NEW g,
         IsDatagram(g, d, s, t), IsUtf8(d), IsUtf8(s), HeaderSize(d, s) < RecvSize
  PROVE  LET r == ProtoLogReadAll(ProtoLogDefault, g.bytes)
         IN /\ r.msg \in LogObjects
            /\ IF g.cut \/ ~IsUtf8(t) THEN ~r.ok ELSE r.ok /\ r.msg = LogOf(d, s, t)
<1> DEFINE w == ProtoLogWrite(LogOf(d, s, t))
           r == ProtoLogReadAll(ProtoLogDefault, g.bytes)
<1>1. r.msg \in LogObjects
  BY DatagramSent, LogReadTyped
<1>2. ASSUME g.cut PROVE ~r.ok
  <2>1. g.bytes = SubSeq(w, 1, RecvSize) /\ RecvSize < Len(w) /\ RecvSize \in Nat
    BY <1>2, DatagramSent, CodecAssumption
  <2> DEFINE q == ProtoLogReadAll(ProtoLogDefault, SubSeq(w, 1, RecvSize))
  <2>2. ~q.ok
    BY <2>1, LogReadsCut
  <2>3. r = q
    BY <2>1, Zenon
  <2> HIDE DEF r, q
  <2> QED BY <2>2, <2>3
<1>3. ASSUME ~g.cut PROVE IF IsUtf8(t) THEN r.ok /\ r.msg = LogOf(d, s, t) ELSE ~r.ok
  <2>1. g.bytes = w
    BY <1>3, DatagramSent
  <2> DEFINE q == ProtoLogReadAll(ProtoLogDefault, w)
  <2>2. IF IsUtf8(t) THEN q.ok /\ q.msg = LogOf(d, s, t) ELSE ~q.ok
    BY LogReadsWhole
  <2>3. r = q
    BY <2>1, Zenon
  <2> HIDE DEF r, q
  <2> QED BY <2>2, <2>3, Zenon
<1> HIDE DEF r
<1> QED BY <1>1, <1>2, <1>3, Zenon DEF r

\* What the sink makes of its log.
LEMMA LogFilled ==
  ASSUME NEW m, NEW d \in Seq(Nat), NEW s \in Seq(Nat), NEW t \in Seq(Nat)
  PROVE  /\ SetLogMessage(SetLogSeverity(SetLogDate(ProtoLogClear(m), d), s), t) = LogOf(d, s, t)
         /\ LET w == ProtoLogWrite(LogOf(d, s, t))
            IN SubSeq(w, 1, ProtoLogSize(LogOf(d, s, t))) = w
<1> DEFINE e == <<>>
           w == ProtoLogWrite(LogOf(d, s, t))
<1>1. e \in Seq(Nat)
  OBVIOUS
<1>2. ProtoLogClear(m) = LogOf(e, e, e)
  BY LogDefaultIs, Zenon DEF ProtoLogClear
<1> HIDE DEF e
<1>3. SetLogDate(LogOf(e, e, e), d) = LogOf(d, e, e)
  BY <1>1, LogOfIs
<1>4. SetLogSeverity(LogOf(d, e, e), s) = LogOf(d, s, e)
  BY <1>1, LogOfIs
<1>5. SetLogMessage(LogOf(d, s, e), t) = LogOf(d, s, t)
  BY <1>1, LogOfIs
<1>6. w \in Seq(Nat) /\ Len(w) = ProtoLogSize(LogOf(d, s, t))
  BY LogWritten
<1> HIDE DEF w
<1>7. SubSeq(w, 1, Len(w)) = w
  BY <1>6
<1>8. SetLogMessage(SetLogSeverity(SetLogDate(ProtoLogClear(m), d), s), t) = LogOf(d, s, t)
  BY <1>2, <1>3, <1>4, <1>5, Zenon
<1> QED BY <1>6, <1>7, <1>8, Zenon DEF w

-----------------------------------------------------------------------------
(* The inductive invariant: the objects are as their operations leave them, *)
(* with clear spare elements and with unknown fields only that could be     *)
(* read; the bytes are those of their origin; the datagram is that of the   *)
(* log message the sink holds, and the line is what becomes of it.          *)

IsWritten(m, w) == m \in WellObjects /\ VocabularyContent(m) = m /\ w = VocabularyBytes(m)
IsSentOf(g, l) ==
  \E d \in Seq(Nat) : \E s \in Seq(Nat) : \E t \in Seq(Nat) :
    /\ l = LogOf(d, s, t) /\ IsUtf8(d) /\ IsUtf8(s) /\ HeaderSize(d, s) < RecvSize
    /\ IsDatagram(g, d, s, t)
IsShownWhole(p, l) ==
  /\ p.of \in LogObjects
  /\ IF p.cut \/ ~IsUtf8(l.log_message) THEN ~p.shown ELSE p.shown /\ p.of = l

ObjectsInv == vocabulary \in [Objects -> WellObjects]
WireInv ==
  /\ wire \in Seq(Nat) /\ parsed \in BOOLEAN
  /\ \A m \in origin : IsWritten(m, wire)
LogInv ==
  /\ log \in LogObjects
  /\ \A g \in datagram : IsSentOf(g, log)
  /\ \A p \in line : IsShownWhole(p, log)
CodecInv == ObjectsInv /\ WireInv /\ LogInv

\* It holds at first.
LEMMA InvInit == Init => CodecInv
<1> SUFFICES ASSUME Init PROVE CodecInv
  OBVIOUS
<1>1. ObjectsInv
  <2> DEFINE m == VocabularyDefault
  <2>1. m \in WellObjects
    BY VocabularyDefaultIs
  <2>2. vocabulary = [o \in Objects |-> m]
    BY DEF Init
  <2> HIDE DEF m
  <2> QED BY <2>1, <2>2 DEF ObjectsInv
<1>2. WireInv
  <2>1. wire \in Seq(Nat) /\ parsed \in BOOLEAN
    BY DEF Init
  <2>2. ASSUME NEW m \in origin PROVE IsWritten(m, wire)
    <3>1. m = VocabularyDefault /\ wire = <<>>
      BY DEF Init
    <3> QED BY <3>1, VocabularyDefaultIs, DefaultWritten, Zenon DEF IsWritten
  <2> QED BY <2>1, <2>2 DEF WireInv
<1>3. LogInv
  <2>1. log = ProtoLogDefault /\ datagram = {} /\ line = {}
    BY DEF Init, None
  <2>2. log \in LogObjects
    <3>1. <<>> \in Seq(Nat)
      OBVIOUS
    <3> QED BY <2>1, <3>1, LogDefaultIs, LogOfIs, Zenon
  <2> QED BY <2>1, <2>2, Zenon DEF LogInv
<1> QED BY <1>1, <1>2, <1>3 DEF CodecInv

\* One object changes.
LEMMA ObjectBecomes ==
  ASSUME ObjectsInv, NEW o \in Objects, NEW m \in WellObjects, Becomes(o, m)
  PROVE  ObjectsInv' /\ vocabulary'[o] = m
BY DEF ObjectsInv, Becomes

\* The objects are as they should be.
LEMMA ObjectIs ==
  ASSUME ObjectsInv
  PROVE  \A o \in Objects : vocabulary[o] \in WellObjects
BY DEF ObjectsInv

\* The log messages are left alone.
LEMMA LogUnchanged ==
  ASSUME LogInv, UNCHANGED logVars
  PROVE  LogInv'
<1>1. log' = log /\ datagram' = datagram /\ line' = line
  BY DEF logVars
<1> QED BY <1>1, Zenon DEF LogInv

\* The calls that change objects leave the rest alone.
LEMMA ObjectsOnlyKeeps ==
  ASSUME WireInv, LogInv, ObjectsOnly
  PROVE  WireInv' /\ LogInv'
<1>1. wire' = wire /\ origin' = origin /\ parsed' = parsed /\ UNCHANGED logVars
  BY DEF ObjectsOnly
<1>2. LogInv'
  BY <1>1, LogUnchanged
<1>3. WireInv'
  BY <1>1, Zenon DEF WireInv
<1> QED BY <1>2, <1>3

\* The calls that change objects and nothing else.
LEMMA CallsOnObjects ==
  ASSUME CodecInv, NEW o \in Objects, NEW from \in Objects,
         \/ GetVocabulary(o) \/ Edit(o) \/ Clear(o)
         \/ MergeFrom(o, from) \/ CopyFrom(o, from) \/ CopyConstruct(o, from) \/ Swap(o, from)
  PROVE  CodecInv'
<1>1. ObjectsInv /\ WireInv /\ LogInv
  BY DEF CodecInv
<1> DEFINE m == vocabulary[o]
           x == vocabulary[from]
<1>2. m \in WellObjects /\ x \in WellObjects
  BY <1>1, ObjectIs
<1>3. ObjectsOnly
  BY Zenon DEF GetVocabulary, Edit, Clear, MergeFrom, CopyFrom, CopyConstruct, Swap
<1>4. WireInv' /\ LogInv'
  BY <1>1, <1>3, ObjectsOnlyKeeps
<1>5. ASSUME NEW n \in WellObjects, Becomes(o, n) PROVE ObjectsInv'
  BY <1>1, <1>5, ObjectBecomes
<1>6. CASE GetVocabulary(o)
  <2>1. PICK w \in Words : Becomes(o, w)
    BY <1>6, Zenon DEF GetVocabulary
  <2>2. ObjectsInv'
    BY <1>5, <2>1, WordsTyped
  <2> QED BY <1>4, <2>2 DEF CodecInv
<1>7. CASE Edit(o)
  <2>1. PICK n \in VocabularyEdits(m) : Becomes(o, n)
    BY <1>7, Zenon DEF Edit
  <2> HIDE DEF m
  <2>2. n \in WellObjects
    BY <1>2, EditsTyped
  <2>3. ObjectsInv'
    BY <1>5, <2>1, <2>2
  <2> QED BY <1>4, <2>3 DEF CodecInv
<1>8. CASE Clear(o)
  <2>1. Becomes(o, VocabularyClear(m))
    BY <1>8, Zenon DEF Clear
  <2> HIDE DEF m
  <2>2. VocabularyClear(m) \in WellObjects
    BY <1>2, VocabularyClearIs
  <2>3. ObjectsInv'
    BY <1>5, <2>1, <2>2
  <2> QED BY <1>4, <2>3 DEF CodecInv
<1>9. CASE MergeFrom(o, from)
  <2>1. Becomes(o, VocabularyMerge(m, x))
    BY <1>9, Zenon DEF MergeFrom
  <2> HIDE DEF m, x
  <2>2. VocabularyMerge(m, x) \in WellObjects
    BY <1>2, VocabularyMergeIs
  <2>3. ObjectsInv'
    BY <1>5, <2>1, <2>2
  <2> QED BY <1>4, <2>3 DEF CodecInv
<1>10. CASE CopyFrom(o, from)
  <2>1. Becomes(o, VocabularyCopyFrom(m, x))
    BY <1>10, Zenon DEF CopyFrom
  <2> HIDE DEF m, x
  <2>2. VocabularyCopyFrom(m, x) \in WellObjects
    BY <1>2, CopyFromIs
  <2>3. ObjectsInv'
    BY <1>5, <2>1, <2>2
  <2> QED BY <1>4, <2>3 DEF CodecInv
<1>11. CASE CopyConstruct(o, from)
  <2>1. Becomes(o, VocabularyCopy(x))
    BY <1>11, Zenon DEF CopyConstruct
  <2> HIDE DEF x
  <2>2. VocabularyCopy(x) \in WellObjects
    BY <1>2, VocabularyCopyIs
  <2>3. ObjectsInv'
    BY <1>5, <2>1, <2>2
  <2> QED BY <1>4, <2>3 DEF CodecInv
<1>12. CASE Swap(o, from)
  <2>1. vocabulary' = [vocabulary EXCEPT ![o] = x, ![from] = m]
    BY <1>12, Zenon DEF Swap
  <2> HIDE DEF m, x
  <2>2. ObjectsInv'
    BY <1>1, <1>2, <2>1 DEF ObjectsInv
  <2> QED BY <1>4, <2>2 DEF CodecInv
<1> QED BY <1>6, <1>7, <1>8, <1>9, <1>10, <1>11, <1>12

\* SerializeToArray writes the content of the object.
LEMMA SerializeKeeps ==
  ASSUME CodecInv, NEW o \in Objects, SerializeToArray(o)
  PROVE  CodecInv'
<1>1. ObjectsInv /\ WireInv /\ LogInv
  BY DEF CodecInv
<1> DEFINE m == vocabulary[o]
           n == VocabularySized(m)
           c == VocabularyContent(m)
<1>2. m \in WellObjects
  BY <1>1, ObjectIs
<1>3. /\ Becomes(o, n)
      /\ wire' = SubSeq(VocabularyWrite(vocabulary'[o]), 1, VocabularySize(m))
      /\ origin' = {c} /\ parsed' = parsed /\ UNCHANGED logVars
  BY Zenon DEF SerializeToArray
<1> HIDE DEF m
<1>4. n \in WellObjects
  BY <1>2, VocabularySizedIs
<1>5. ObjectsInv' /\ vocabulary'[o] = n
  <2> HIDE DEF n
  <2> QED BY <1>1, <1>3, <1>4, ObjectBecomes
<1>6. wire' = VocabularyBytes(c) /\ VocabularyBytes(c) \in Seq(Nat)
  BY <1>2, <1>3, <1>5, SerializedIs
<1>7. c \in WellObjects /\ VocabularyContent(c) = c
  BY <1>2, ContentWritten
<1> HIDE DEF c, n
<1>8. \A x \in origin' : IsWritten(x, wire')
  BY <1>3, <1>6, <1>7 DEF IsWritten
<1>9. WireInv'
  BY <1>1, <1>3, <1>6, <1>8 DEF WireInv
<1>10. LogInv'
  BY <1>1, <1>3, LogUnchanged
<1> QED BY <1>5, <1>9, <1>10 DEF CodecInv

\* The bytes of a newer program are those of an extended content.
LEMMA ExtendKeeps ==
  ASSUME CodecInv, Extend
  PROVE  CodecInv'
<1>1. ObjectsInv /\ WireInv /\ LogInv
  BY DEF CodecInv
<1> DEFINE e == <<56, 1>>
<1>2. /\ wire' = wire \o e /\ origin' = {Extended(m) : m \in origin}
      /\ vocabulary' = vocabulary /\ parsed' = parsed /\ UNCHANGED logVars
  BY Zenon DEF Extend, Extended
<1>3. e \in Seq(Nat)
  BY AddedIsUnknown
<1>4. ASSUME NEW x \in origin' PROVE IsWritten(x, wire')
  <2>1. PICK m \in origin : x = Extended(m)
    BY <1>2, Zenon
  <2>2. m \in WellObjects /\ VocabularyContent(m) = m /\ wire = VocabularyBytes(m)
    BY <1>1, Zenon DEF WireInv, IsWritten
  <2>3. /\ Extended(m) \in WellObjects /\ VocabularyContent(Extended(m)) = Extended(m)
        /\ VocabularyBytes(Extended(m)) = VocabularyBytes(m) \o e
    BY <2>2, ExtendedWritten
  <2> HIDE DEF e
  <2> QED BY <1>2, <2>1, <2>2, <2>3, Zenon DEF IsWritten
<1> HIDE DEF e
<1>5. wire' \in Seq(Nat)
  BY <1>1, <1>2, <1>3 DEF WireInv
<1>6. WireInv'
  BY <1>1, <1>2, <1>4, <1>5 DEF WireInv
<1>7. ObjectsInv'
  BY <1>1, <1>2 DEF ObjectsInv
<1>8. LogInv'
  BY <1>1, <1>2, LogUnchanged
<1> QED BY <1>6, <1>7, <1>8 DEF CodecInv

\* Bytes that end too early have no origin.
LEMMA CutOffKeeps ==
  ASSUME CodecInv, CutOff
  PROVE  CodecInv'
<1>1. ObjectsInv /\ WireInv /\ LogInv
  BY DEF CodecInv
<1>2. PICK n \in 1..Len(wire) - 1 : wire' = SubSeq(wire, 1, n)
  BY DEF CutOff
<1>3. origin' = {} /\ vocabulary' = vocabulary /\ parsed' = parsed /\ UNCHANGED logVars
  BY DEF CutOff, None
<1>4. wire' \in Seq(Nat)
  BY <1>1, <1>2 DEF WireInv
<1>5. WireInv'
  BY <1>1, <1>3, <1>4 DEF WireInv
<1>6. ObjectsInv'
  BY <1>1, <1>3 DEF ObjectsInv
<1>7. LogInv'
  BY <1>1, <1>3, LogUnchanged
<1> QED BY <1>5, <1>6, <1>7 DEF CodecInv

\* What Parse does.
LEMMA ParseFacts ==
  ASSUME CodecInv, NEW o \in Objects, Parse(o)
  PROVE  LET r == ParseFromArray(vocabulary[o], wire)
         IN /\ Becomes(o, r.msg) /\ parsed' = r.ok
            /\ r.msg \in WellObjects /\ r.ok \in BOOLEAN
            /\ vocabulary[o] \in WellObjects /\ vocabulary'[o] = r.msg
            /\ UNCHANGED <<wire, origin, logVars>>
<1> DEFINE m == vocabulary[o]
           r == ParseFromArray(m, wire)
<1>1. m \in WellObjects /\ wire \in Seq(Nat) /\ ObjectsInv
  BY ObjectIs DEF CodecInv, WireInv
<1>2. Becomes(o, r.msg) /\ parsed' = r.ok /\ UNCHANGED <<wire, origin, logVars>>
  BY Zenon DEF Parse
<1> HIDE DEF m
<1>3. r \in VocabularyReadings
  BY <1>1, ParsedTyped
<1> HIDE DEF r
<1>4. r.msg \in WellObjects /\ r.ok \in BOOLEAN
  BY <1>3 DEF VocabularyReadings
<1>5. vocabulary'[o] = r.msg
  BY <1>1, <1>2, <1>4, ObjectBecomes
<1> QED BY <1>1, <1>2, <1>4, <1>5, Zenon DEF r, m

\* It leaves an object as it should be.
LEMMA ParseKeeps ==
  ASSUME CodecInv, NEW o \in Objects, Parse(o)
  PROVE  CodecInv'
<1>1. ObjectsInv /\ WireInv /\ LogInv
  BY DEF CodecInv
<1> DEFINE r == ParseFromArray(vocabulary[o], wire)
<1>2. /\ Becomes(o, r.msg) /\ parsed' = r.ok /\ r.msg \in WellObjects /\ r.ok \in BOOLEAN
      /\ wire' = wire /\ origin' = origin /\ UNCHANGED logVars
  BY ParseFacts, Zenon
<1> HIDE DEF r
<1>3. ObjectsInv'
  BY <1>1, <1>2, ObjectBecomes
<1>4. WireInv'
  <2>1. parsed' \in BOOLEAN
    BY <1>2
  <2> QED BY <1>1, <1>2, <2>1, Zenon DEF WireInv
<1>5. LogInv'
  BY <1>1, <1>2, LogUnchanged
<1> QED BY <1>3, <1>4, <1>5 DEF CodecInv

\* Dates, severities and texts are strings; what comes before the text fits.
LEMMA FieldsOfLogsTyped ==
  /\ \A s \in Dates \cup Severities : s \in Seq(Nat) /\ IsUtf8(s)
  /\ \A t \in Texts : t \in Seq(Nat)
  /\ \A d \in Dates, s \in Severities : HeaderSize(d, s) < RecvSize
<1>1. \A s \in Dates \cup Severities : s \in Seq(0..NotUtf8) /\ IsUtf8(s)
  BY CodecAssumption, Zenon
<1>2. \A t \in Texts : t \in Seq(0..NotUtf8)
  BY CodecAssumption, Zenon
<1>3. \A d \in Dates, s \in Severities : HeaderSize(d, s) < RecvSize
  BY CodecAssumption, Zenon
<1> QED BY <1>1, <1>2, <1>3, BytesAreNumbers

\* The datagram is that of the log message.
LEMMA SendKeeps ==
  ASSUME CodecInv, NEW d \in Dates, NEW s \in Severities, NEW t \in Texts, Send(d, s, t)
  PROVE  CodecInv'
<1>1. ObjectsInv /\ WireInv /\ LogInv
  BY DEF CodecInv
<1>2. /\ d \in Seq(Nat) /\ s \in Seq(Nat) /\ t \in Seq(Nat) /\ IsUtf8(d) /\ IsUtf8(s)
      /\ HeaderSize(d, s) < RecvSize
  BY FieldsOfLogsTyped
<1> DEFINE l == LogOf(d, s, t)
           w == ProtoLogWrite(l)
           g == [bytes |-> SubSeq(w, 1, IF Len(w) < RecvSize THEN Len(w) ELSE RecvSize),
                 cut |-> Len(w) > RecvSize]
<1>3. /\ log' = SetLogMessage(SetLogSeverity(SetLogDate(ProtoLogClear(log), d), s), t)
      /\ LET written == SubSeq(ProtoLogWrite(log'), 1, ProtoLogSize(log'))
         IN datagram' = {[bytes |-> SubSeq(written, 1, IF Len(written) < RecvSize
                                                       THEN Len(written) ELSE RecvSize),
                          cut |-> Len(written) > RecvSize]}
      /\ line' = {} /\ UNCHANGED vocabularyVars
  BY Zenon DEF Send, None
<1>4. log' = l /\ SubSeq(w, 1, ProtoLogSize(l)) = w
  BY <1>2, <1>3, LogFilled
<1>5. datagram' = {g}
  BY <1>3, <1>4, Zenon
<1>6. IsDatagram(g, d, s, t)
  BY Zenon DEF IsDatagram
<1>7. l \in LogObjects
  BY <1>2, LogOfIs
<1> HIDE DEF g
<1>8. IsSentOf(g, l)
  BY <1>2, <1>6, Zenon DEF IsSentOf
<1> HIDE DEF l
<1>9. LogInv'
  BY <1>3, <1>4, <1>5, <1>7, <1>8, Zenon DEF LogInv
<1>10. vocabulary' = vocabulary /\ wire' = wire /\ origin' = origin /\ parsed' = parsed
  BY <1>3, Zenon DEF vocabularyVars
<1>11. WireInv' /\ ObjectsInv'
  BY <1>1, <1>10, Zenon DEF WireInv, ObjectsInv
<1> QED BY <1>9, <1>11 DEF CodecInv

\* The line is what becomes of the datagram.
LEMMA HandleReceiveKeeps ==
  ASSUME CodecInv, HandleReceive
  PROVE  CodecInv'
<1>1. ObjectsInv /\ WireInv /\ LogInv
  BY DEF CodecInv
<1>2. PICK g \in datagram :
        LET r == ProtoLogReadAll(ProtoLogDefault, g.bytes)
        IN line' = {[shown |-> r.ok, of |-> r.msg, cut |-> g.cut]}
  BY Zenon DEF HandleReceive
<1>3. datagram' = {} /\ log' = log /\ UNCHANGED vocabularyVars
  BY DEF HandleReceive, None
<1>4. PICK d \in Seq(Nat) : \E s \in Seq(Nat) : \E t \in Seq(Nat) :
        /\ log = LogOf(d, s, t) /\ IsUtf8(d) /\ IsUtf8(s) /\ HeaderSize(d, s) < RecvSize
        /\ IsDatagram(g, d, s, t)
  BY <1>1, Zenon DEF LogInv, IsSentOf
<1>5. PICK s \in Seq(Nat) : \E t \in Seq(Nat) :
        /\ log = LogOf(d, s, t) /\ IsUtf8(d) /\ IsUtf8(s) /\ HeaderSize(d, s) < RecvSize
        /\ IsDatagram(g, d, s, t)
  BY <1>4
<1>6. PICK t \in Seq(Nat) :
        /\ log = LogOf(d, s, t) /\ IsUtf8(d) /\ IsUtf8(s) /\ HeaderSize(d, s) < RecvSize
        /\ IsDatagram(g, d, s, t)
  BY <1>5
<1> DEFINE r == ProtoLogReadAll(ProtoLogDefault, g.bytes)
           p == [shown |-> r.ok, of |-> r.msg, cut |-> g.cut]
<1>7. /\ r.msg \in LogObjects
      /\ IF g.cut \/ ~IsUtf8(t) THEN ~r.ok ELSE r.ok /\ r.msg = log
  BY <1>6, DatagramRead
<1>8. log.log_message = t
  BY <1>6, LogOfIs
<1>9. line' = {p}
  BY <1>2
<1> HIDE DEF r
<1>10. p.shown = r.ok /\ p.of = r.msg /\ p.cut = g.cut
  OBVIOUS
<1> HIDE DEF p
<1>11. IsShownWhole(p, log)
  BY <1>7, <1>8, <1>10, Zenon DEF IsShownWhole
<1>12. LogInv'
  BY <1>1, <1>3, <1>9, <1>11, Zenon DEF LogInv
<1>13. vocabulary' = vocabulary /\ wire' = wire /\ origin' = origin /\ parsed' = parsed
  BY <1>3, Zenon DEF vocabularyVars
<1>14. WireInv' /\ ObjectsInv'
  BY <1>1, <1>13, Zenon DEF WireInv, ObjectsInv
<1> QED BY <1>12, <1>14 DEF CodecInv

\* Each step keeps it.
LEMMA InvNext ==
  ASSUME CodecInv, [Next]_vars
  PROVE  CodecInv'
<1>1. CASE UNCHANGED vars
  <2>1. /\ vocabulary' = vocabulary /\ wire' = wire /\ origin' = origin /\ parsed' = parsed
        /\ UNCHANGED logVars
    BY <1>1, Zenon DEF vars, vocabularyVars
  <2>2. LogInv'
    BY <2>1, LogUnchanged DEF CodecInv
  <2>3. WireInv' /\ ObjectsInv'
    BY <2>1, Zenon DEF CodecInv, WireInv, ObjectsInv
  <2> QED BY <2>2, <2>3 DEF CodecInv
<1>2. ASSUME NEW o \in Objects,
             \/ GetVocabulary(o) \/ Edit(o) \/ Clear(o) \/ SerializeToArray(o) \/ Parse(o)
             \/ \E other \in Objects :
                  MergeFrom(o, other) \/ CopyFrom(o, other) \/ CopyConstruct(o, other)
                    \/ Swap(o, other)
      PROVE  CodecInv'
  BY <1>2, CallsOnObjects, SerializeKeeps, ParseKeeps
<1>3. CASE Next
  BY <1>2, <1>3, ExtendKeeps, CutOffKeeps, SendKeeps, HandleReceiveKeeps DEF Next
<1> QED BY <1>1, <1>3

\* It always holds.
LEMMA InvHolds == Spec => []CodecInv
<1>1. Init => CodecInv
  BY InvInit
<1>2. CodecInv /\ [Next]_vars => CodecInv'
  BY InvNext
<1> QED BY <1>1, <1>2, PTL DEF Spec

-----------------------------------------------------------------------------
(* What follows from it. *)

\* An object as it should be is of the type, and its spare elements are clear.
LEMMA WellObjectTyped ==
  ASSUME NEW m \in WellObjects
  PROVE  /\ m \in VocabularyObjects
         /\ \A i \in DOMAIN m.spare : SynonymContent(m.spare[i]) = SynonymDefault
<1>1. m.synonyms \in Seq(SynonymObjects)
  BY VocabularyTyped, WellAreSynonyms
<1>2. m.spare \in Seq(SynonymObjects)
  <2>1. ClearSynonyms \subseteq SynonymObjects /\ m.spare \in Seq(ClearSynonyms)
    BY VocabularyTyped DEF ClearSynonyms
  <2> QED BY <2>1, SeqOfMore
<1>3. m = [word |-> m.word, synonyms |-> m.synonyms, macmillan_url |-> m.macmillan_url,
           youglish_url |-> m.youglish_url, reverso_url |-> m.reverso_url,
           unknown |-> m.unknown, spare |-> m.spare]
  BY DEF WellObjects
<1>4. m \in VocabularyObjects
  BY <1>1, <1>2, <1>3, VocabularyTyped, Zenon DEF VocabularyObjects
<1>5. ASSUME NEW i \in DOMAIN m.spare PROVE SynonymContent(m.spare[i]) = SynonymDefault
  <2>1. m.spare \in Seq(ClearSynonyms)
    BY VocabularyTyped
  <2>2. m.spare[i] \in ClearSynonyms
    BY <2>1
  <2> QED BY <2>2 DEF ClearSynonyms
<1> QED BY <1>4, <1>5

\* The state is of its types, and every spare element of a repeated field is
\* clear, whatever was done to the object: the next element handed out starts
\* with nothing of another.
THEOREM TypeCorrect == Spec => []TypeOK
<1>1. ASSUME CodecInv PROVE TypeOK
  <2>1. ObjectsInv /\ WireInv /\ LogInv
    BY <1>1 DEF CodecInv
  <2>2. vocabulary \in [Objects -> VocabularyObjects]
    BY <2>1, ObjectIs, WellObjectTyped DEF ObjectsInv
  <2>3. \A o \in Objects : LET spare == vocabulary[o].spare
          IN \A i \in DOMAIN spare : SynonymContent(spare[i]) = SynonymDefault
    BY <2>1, ObjectIs, WellObjectTyped, Zenon
  <2>4. wire \in Seq(Nat) /\ parsed \in BOOLEAN
    BY <2>1 DEF WireInv
  <2>5. origin \subseteq VocabularyObjects
    BY <2>1, WellObjectTyped DEF WireInv, IsWritten
  <2>6. log \in LogObjects
    BY <2>1 DEF LogInv
  <2>7. \A g \in datagram : Len(g.bytes) <= RecvSize
    BY <2>1, DatagramSent DEF LogInv, IsSentOf
  <2>8. \A p \in line : p.of \in LogObjects
    BY <2>1, Zenon DEF LogInv, IsShownWhole
  <2> QED BY <2>2, <2>3, <2>4, <2>5, <2>6, <2>7, <2>8, Zenon DEF TypeOK
<1> QED BY <1>1, InvHolds, PTL

\* ByteSizeLong is the number of bytes that are written, so that the buffer
\* sendMessage makes is filled and not written beyond.
THEOREM SizeMatchesWrite == Spec => []SizeIsExact
<1>1. ASSUME CodecInv PROVE SizeIsExact
  <2>1. ASSUME NEW o \in Objects
        PROVE  VocabularySize(vocabulary[o]) = Len(VocabularyWrite(VocabularySized(vocabulary[o])))
    <3>1. vocabulary[o] \in WellObjects
      BY <1>1, ObjectIs DEF CodecInv
    <3> QED BY <3>1, VocabularySizeIs, Zenon DEF VocabularyBytes
  <2> QED BY <2>1, Zenon DEF SizeIsExact
<1> QED BY <1>1, InvHolds, PTL

\* Reading what was written of two objects, one behind the other, comes to the
\* same content as MergeFrom of the second into the first.
THEOREM MergingIsReading == Spec => []MergeIsReadingBoth
<1>1. ASSUME CodecInv PROVE MergeIsReadingBoth
  <2>1. ASSUME NEW o \in Objects, NEW from \in Objects
        PROVE  LET m == vocabulary[o]
                   x == vocabulary[from]
                   both == ParseFromArray(VocabularyDefault,
                                          VocabularyBytes(m) \o VocabularyBytes(x))
               IN both.ok
                    => VocabularyContent(both.msg) = VocabularyContent(VocabularyMerge(m, x))
    <3> DEFINE m == vocabulary[o]
               x == vocabulary[from]
    <3>1. m \in WellObjects /\ x \in WellObjects
      BY <1>1, ObjectIs DEF CodecInv
    <3> HIDE DEF m, x
    <3>2. LET both == ParseFromArray(VocabularyDefault,
                                     VocabularyBytes(m) \o VocabularyBytes(x))
          IN both.ok => VocabularyContent(both.msg) = VocabularyContent(VocabularyMerge(m, x))
      BY <3>1, MergedIsReadBoth
    <3> QED BY <3>2 DEF m, x
  <2> QED BY <2>1, Zenon DEF MergeIsReadingBoth, VocabularyBytes
<1> QED BY <1>1, InvHolds, PTL

\* What handleReceive prints is the whole log message CustomLogSink::send was
\* given: a message cut off by recvBuffer, or one that is not UTF-8, is not
\* printed.
THEOREM LogComesWhole == Spec => []LogIsShownWhole
<1>1. ASSUME CodecInv PROVE LogIsShownWhole
  BY <1>1, Zenon DEF CodecInv, LogInv, IsShownWhole, LogIsShownWhole
<1> QED BY <1>1, InvHolds, PTL

\* ParseFromArray of a message that was written gives this message, with
\* nothing of what processRecord's object held before, and fails exactly when
\* a string of it is not UTF-8.
THEOREM ReadingIsExact == Spec => ReadsWhatWasWritten
<1> DEFINE Reads(o, m) ==
      Parse(o) => IF VocabularyIsUtf8(m)
                  THEN parsed' /\ VocabularyContent(vocabulary'[o]) = m
                  ELSE ~parsed'
    Step == \A o \in Objects, m \in origin : Reads(o, m)
<1>1. ASSUME CodecInv PROVE Step
  <2>1. ASSUME NEW o \in Objects, NEW m \in origin, Parse(o)
        PROVE  IF VocabularyIsUtf8(m) THEN parsed' /\ VocabularyContent(vocabulary'[o]) = m
               ELSE ~parsed'
    <3> DEFINE n == vocabulary[o]
               r == ParseFromArray(n, wire)
    <3>1. parsed' = r.ok /\ n \in WellObjects /\ vocabulary'[o] = r.msg /\ r.ok \in BOOLEAN
      BY <1>1, <2>1, ParseFacts, Zenon
    <3>2. m \in WellObjects /\ VocabularyContent(m) = m /\ wire = VocabularyBytes(m)
      BY <1>1, Zenon DEF CodecInv, WireInv, IsWritten
    <3> HIDE DEF n
    <3>3. IF VocabularyIsUtf8(m) THEN r.ok /\ VocabularyContent(r.msg) = VocabularyContent(m)
          ELSE ~r.ok
      BY <3>1, <3>2, ParsedIsWritten
    <3> HIDE DEF r
    <3> QED BY <3>1, <3>2, <3>3, Zenon
  <2> QED BY <2>1, Zenon
<1>2. CodecInv => [Step]_vars
  BY <1>1
<1> QED BY <1>2, InvHolds, PTL DEF ReadsWhatWasWritten

\* CopyFrom and the copy constructor give the content of what is copied, for
\* any history of the object copied to.
THEOREM CopyingIsExact == Spec => CopiesAreEqual
<1> DEFINE Copies(o, from) ==
      CopyFrom(o, from) \/ CopyConstruct(o, from)
        => VocabularyContent(vocabulary'[o]) = VocabularyContent(vocabulary[from])
    Step == \A o, from \in Objects : Copies(o, from)
<1>1. ASSUME CodecInv PROVE Step
  <2>1. ASSUME NEW o \in Objects, NEW from \in Objects,
               CopyFrom(o, from) \/ CopyConstruct(o, from)
        PROVE  VocabularyContent(vocabulary'[o]) = VocabularyContent(vocabulary[from])
    <3> DEFINE m == vocabulary[o]
               x == vocabulary[from]
    <3>1. m \in WellObjects /\ x \in WellObjects /\ ObjectsInv
      BY <1>1, ObjectIs DEF CodecInv
    <3>2. CASE CopyFrom(o, from)
      <4>1. Becomes(o, VocabularyCopyFrom(m, x))
        BY <3>2, Zenon DEF CopyFrom
      <4> HIDE DEF m, x
      <4>2. VocabularyCopyFrom(m, x) \in WellObjects /\ SameContent(VocabularyCopyFrom(m, x), x)
        BY <3>1, CopyFromIs
      <4>3. vocabulary'[o] = VocabularyCopyFrom(m, x)
        BY <3>1, <4>1, <4>2, ObjectBecomes
      <4>4. VocabularyContent(vocabulary'[o]) = VocabularyContent(x)
        BY <3>1, <4>2, <4>3, ContentEqual
      <4> QED BY <4>4 DEF x
    <3>3. CASE CopyConstruct(o, from)
      <4>1. Becomes(o, VocabularyCopy(x))
        BY <3>3, Zenon DEF CopyConstruct
      <4> HIDE DEF x
      <4>2. VocabularyCopy(x) \in WellObjects /\ SameContent(VocabularyCopy(x), x)
        BY <3>1, VocabularyCopyIs
      <4>3. vocabulary'[o] = VocabularyCopy(x)
        BY <3>1, <4>1, <4>2, ObjectBecomes
      <4>4. VocabularyContent(vocabulary'[o]) = VocabularyContent(x)
        BY <3>1, <4>2, <4>3, ContentEqual
      <4> QED BY <4>4 DEF x
    <3> QED BY <2>1, <3>2, <3>3
  <2> QED BY <2>1, Zenon
<1>2. CodecInv => [Step]_vars
  BY <1>1
<1> QED BY <1>2, InvHolds, PTL DEF CopiesAreEqual

=============================================================================
