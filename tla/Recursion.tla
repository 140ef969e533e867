----------------------------- MODULE Recursion ------------------------------
(***************************************************************************)
(* What reasoning about recursive functions and sums rests on.  A function *)
(* f[n \in 0..L] == IF n = 0 THEN base ELSE ... f[n - 1] ... is a CHOOSE:  *)
(* that there is such a function has to be proved.  The step is given as a *)
(* function, as the provers cannot instantiate operators.                  *)
(***************************************************************************)
EXTENDS Integers, Sequences, FiniteSetTheorems, NaturalsInduction, WellFoundedInduction, TLAPS

\* A set of naturals has a least element.
LEMMA LeastNatural ==
  ASSUME NEW S \in SUBSET Nat, S # {}
  PROVE  \E n \in S : \A m \in S : n <= m
<1>. DEFINE R == OpToRel(<, Nat)
<1>1. IsWellFoundedOn(R, Nat) BY NatLessThanWellFounded
<1>2. \A x, y \in Nat : x < y => <<x, y>> \in R BY DEF OpToRel
<1>. HIDE DEF R
<1>3. PICK n \in S : \A m \in S : ~(<<m, n>> \in R) BY <1>1, WFMin
<1>4. n \in Nat /\ \A m \in S : m \in Nat BY <1>3
<1>5. \A m \in S : ~(m < n) BY <1>2, <1>3, <1>4
<1>. QED BY <1>4, <1>5

\* Induction up to a bound, over the set of numbers of which something holds.
LEMMA Upwards ==
  ASSUME NEW L \in Nat, NEW S, 0 \in S, \A n \in 1..L : n - 1 \in S => n \in S
  PROVE  0..L \subseteq S
<1>. DEFINE Rest == (0..L) \ S
<1>1. SUFFICES ASSUME Rest # {} PROVE FALSE OBVIOUS
<1>2. PICK n \in Rest : \A m \in Rest : n <= m
  <2>1. Rest \in SUBSET Nat OBVIOUS
  <2>. HIDE DEF Rest
  <2>. QED BY <1>1, <2>1, LeastNatural
<1>3. n \in 1..L BY <1>2
<1>4. n - 1 \in 0..L /\ n - 1 < n BY <1>3
<1>5. n - 1 \in S BY <1>2, <1>3, <1>4
<1>. QED BY <1>2, <1>3, <1>5

\* What the n-th step of a recursion makes of the value before it, and the functions
\* that take these steps.
StepsUpTo(L, State) == [State \X (1..L) -> State]

Follows(f, L, base, step) == f[0] = base /\ \A n \in 1..L : f[n] = step[<<f[n - 1], n>>]

\* A function defined by recursion up to a bound exists.
LEMMA RecursionExists ==
  ASSUME NEW L \in Nat, NEW State, NEW base \in State, NEW step \in StepsUpTo(L, State)
  PROVE  \E f : f \in [0..L -> State] /\ Follows(f, L, base, step)
<1>. DEFINE S == {n \in 0..L : \E f \in [0..n -> State] : Follows(f, n, base, step)}
<1>. USE DEF StepsUpTo, Follows
<1>1. 0 \in S
  <2>. DEFINE f == [k \in 0..0 |-> base]
  <2>1. f \in [0..0 -> State] /\ f[0] = base /\ \A k \in 1..0 : f[k] = step[<<f[k - 1], k>>]
    OBVIOUS
  <2>. HIDE DEF f
  <2>. QED BY <2>1
<1>2. ASSUME NEW n \in 1..L, n - 1 \in S PROVE n \in S
  <2>1. PICK f \in [0..(n - 1) -> State] : Follows(f, n - 1, base, step) BY <1>2
  <2>2. n \in Nat \ {0} /\ n - 1 \in 0..(n - 1) /\ n \in 0..L BY <1>2
  <2>3. f[n - 1] \in State BY <2>2
  <2>4. <<f[n - 1], n>> \in State \X (1..L) BY <2>3
  <2>5. PICK v \in State : v = step[<<f[n - 1], n>>] BY <2>4
  <2>. DEFINE g == [k \in 0..n |-> IF k = n THEN v ELSE f[k]]
  <2>6. g \in [0..n -> State]
    <3>1. \A k \in 0..n : k # n => k \in 0..(n - 1) OBVIOUS
    <3>. QED BY <3>1
  <2>7. g[n] = v /\ \A k \in 0..(n - 1) : g[k] = f[k]
    <3>1. \A k \in 0..(n - 1) : k \in 0..n /\ k # n OBVIOUS
    <3>. QED BY <2>2, <3>1
  <2>. HIDE DEF g
  <2>8. g[0] = base BY <2>1, <2>2, <2>7
  <2>9. ASSUME NEW k \in 1..n PROVE g[k] = step[<<g[k - 1], k>>]
    <3>1. k - 1 \in 0..(n - 1) /\ g[k - 1] = f[k - 1] BY <2>2, <2>7
    <3>2. CASE k = n BY <2>5, <2>7, <3>1, <3>2
    <3>3. CASE k # n
      <4>1. k \in 1..(n - 1) /\ k \in 0..(n - 1) BY <2>2, <3>3
      <4>2. f[k] = step[<<f[k - 1], k>>] BY <2>1, <4>1
      <4>. QED BY <2>7, <3>1, <4>1, <4>2
    <3>. QED BY <3>2, <3>3
  <2>. QED BY <2>2, <2>6, <2>8, <2>9
<1>3. 0..L \subseteq S
  <2>. HIDE DEF S
  <2>. QED BY <1>1, <1>2, Upwards
<1>4. L \in 0..L OBVIOUS
<1>5. L \in S BY <1>3, <1>4
<1>6. PICK f \in [0..L -> State] : Follows(f, L, base, step) BY <1>5
<1>. QED BY <1>6

\* What takes these steps as long as it stays in State stays in State.
LEMMA RecursionStays ==
  ASSUME NEW L \in Nat, NEW State, NEW base \in State, NEW step \in StepsUpTo(L, State),
         NEW f, f[0] = base,
         \A n \in 1..L : f[n - 1] \in State => f[n] = step[<<f[n - 1], n>>]
  PROVE  Follows(f, L, base, step) /\ \A n \in 0..L : f[n] \in State
<1>. DEFINE S == {n \in 0..L : f[n] \in State}
<1>1. 0 \in S OBVIOUS
<1>2. ASSUME NEW n \in 1..L, n - 1 \in S PROVE n \in S
  <2>1. n \in 0..L /\ f[n - 1] \in State BY <1>2
  <2>2. <<f[n - 1], n>> \in State \X (1..L) BY <2>1
  <2>3. step[<<f[n - 1], n>>] \in State BY <2>2 DEF StepsUpTo
  <2>. QED BY <2>1, <2>3
<1>3. 0..L \subseteq S
  <2>. HIDE DEF S
  <2>. QED BY <1>1, <1>2, Upwards
<1>4. \A n \in 0..L : f[n] \in State BY <1>3
<1>5. \A n \in 1..L : n - 1 \in 0..L OBVIOUS
<1>. QED BY <1>4, <1>5 DEF Follows
=============================================================================
