------------------------------ MODULE OnePass ------------------------------
(***************************************************************************)
(* A loop over a sequence that carries some state along: the form of the   *)
(* server's parsers.  Step is the body of the loop, from the state and the *)
(* current element to the next state.                                      *)
(***************************************************************************)
EXTENDS Integers, Sequences, WellFoundedInduction, TLAPS

CONSTANT Step(_, _)

\* The states of the loop, by the number of elements it has gone through.
States(start, seq) ==
    LET state[n \in Nat] == IF n = 0 THEN start ELSE Step(state[n - 1], seq[n])
    IN  state

Run(start, seq) == States(start, seq)[Len(seq)]

----------------------------------------------------------------------------
(* Induction, for a property that is given as a set of numbers.            *)
LEMMA Induction ==
  ASSUME NEW S, 0 \in S, \A n \in Nat : n \in S => n + 1 \in S
  PROVE  \A n \in Nat : n \in S
<1> DEFINE T == {n \in Nat : n \notin S}
<1> SUFFICES ASSUME T # {} PROVE FALSE
  OBVIOUS
<1>1. PICK x \in T : \A y \in T : ~ (<<y, x>> \in OpToRel(<, Nat))
  <2> HIDE DEF T
  <2>1. T \subseteq Nat
    BY DEF T
  <2> QED
    BY <2>1, NatLessThanWellFounded, WFMin
<1>2. \A y \in T : ~ (y < x)
  BY <1>1 DEF OpToRel
<1>3. x \in Nat /\ x # 0
  OBVIOUS
<1>4. x - 1 \in Nat /\ x - 1 \notin T
  BY <1>2, <1>3
<1>5. x - 1 + 1 \in S
  BY <1>4
<1> QED
  BY <1>3, <1>5

\* The first m + 1 states.
IsPart(h, m, start, seq) ==
    \A n \in 0 .. m : h[n] = IF n = 0 THEN start ELSE Step(h[n - 1], seq[n])

(* A loop can always go on.                                                *)
LEMMA PartsExist ==
  ASSUME NEW start, NEW seq
  PROVE  \A m \in Nat : \E h : IsPart(h, m, start, seq)
<1> DEFINE S == {m \in Nat : \E h : IsPart(h, m, start, seq)}
<1>1. 0 \in S
  <2>1. IsPart([n \in {0} |-> start], 0, start, seq)
    BY DEF IsPart
  <2> QED
    BY <2>1
<1>2. ASSUME NEW m \in Nat, m \in S PROVE m + 1 \in S
  <2>1. PICK h : IsPart(h, m, start, seq)
    BY <1>2
  <2> DEFINE k == [n \in 0 .. m + 1 |-> IF n = m + 1 THEN Step(h[m], seq[m + 1]) ELSE h[n]]
  <2>2. ASSUME NEW n \in 0 .. m + 1
        PROVE  k[n] = IF n = 0 THEN start ELSE Step(k[n - 1], seq[n])
    <3>1. CASE n = m + 1
      <4>1. k[n] = Step(h[m], seq[m + 1]) /\ k[n - 1] = h[m]
        BY <3>1
      <4> QED
        BY <3>1, <4>1
    <3>2. CASE n # m + 1
      <4>1. n \in 0 .. m /\ k[n] = h[n] /\ (n # 0 => n - 1 \in 0 .. m + 1 /\ n - 1 # m + 1)
        BY <3>2
      <4>2. n # 0 => k[n - 1] = h[n - 1]
        BY <4>1
      <4> QED
        BY <2>1, <4>1, <4>2 DEF IsPart
    <3> QED
      BY <3>1, <3>2
  <2>3. IsPart(k, m + 1, start, seq)
    BY <2>2 DEF IsPart
  <2> QED
    BY <2>3
<1> HIDE DEF S
<1>3. \A m \in Nat : m \in S
  BY <1>1, <1>2, Induction
<1> QED
  BY <1>3 DEF S

(* It goes one way only.                                                   *)
LEMMA PartsAgree ==
  ASSUME NEW start, NEW seq, NEW m \in Nat, NEW l \in Nat, NEW h, NEW k,
         IsPart(h, m, start, seq), IsPart(k, l, start, seq)
  PROVE  \A n \in Nat : n <= m /\ n <= l => h[n] = k[n]
<1> DEFINE S == {n \in Nat : n <= m /\ n <= l => h[n] = k[n]}
<1>1. 0 \in S
  BY DEF IsPart
<1>2. ASSUME NEW n \in Nat, n \in S PROVE n + 1 \in S
  <2> SUFFICES ASSUME n + 1 <= m, n + 1 <= l PROVE h[n + 1] = k[n + 1]
    OBVIOUS
  <2>1. h[n] = k[n]
    BY <1>2
  <2>2. n + 1 \in 0 .. m /\ n + 1 \in 0 .. l /\ n + 1 # 0 /\ (n + 1) - 1 = n
    OBVIOUS
  <2>3. h[n + 1] = Step(h[n], seq[n + 1]) /\ k[n + 1] = Step(k[n], seq[n + 1])
    BY <2>2 DEF IsPart
  <2> QED
    BY <2>1, <2>3
<1> HIDE DEF S
<1>3. \A n \in Nat : n \in S
  BY <1>1, <1>2, Induction
<1> QED
  BY <1>3 DEF S

(* The states are what the loop's body makes of them.                      *)
LEMMA StatesOf ==
  ASSUME NEW start, NEW seq
  PROVE  /\ States(start, seq)[0] = start
         /\ \A n \in Nat : States(start, seq)[n + 1] = Step(States(start, seq)[n], seq[n + 1])
<1> DEFINE Part(m) == CHOOSE h : IsPart(h, m, start, seq)
           state   == [n \in Nat |-> Part(n)[n]]
           Next(f) == [n \in Nat |-> IF n = 0 THEN start ELSE Step(f[n - 1], seq[n])]
<1>1. \A m \in Nat : IsPart(Part(m), m, start, seq)
  BY PartsExist
<1> HIDE DEF Part
<1>2. ASSUME NEW n \in Nat PROVE state[n] = IF n = 0 THEN start ELSE Step(state[n - 1], seq[n])
  <2>1. n \in 0 .. n /\ Part(n)[n] = IF n = 0 THEN start ELSE Step(Part(n)[n - 1], seq[n])
    BY <1>1 DEF IsPart
  <2>2. CASE n = 0
    BY <2>1, <2>2
  <2>3. CASE n # 0
    <3>1. n - 1 \in Nat /\ n - 1 <= n /\ n - 1 <= n - 1
      BY <2>3
    <3>2. Part(n)[n - 1] = Part(n - 1)[n - 1]
      BY <1>1, <3>1, PartsAgree
    <3> QED
      BY <2>1, <2>3, <3>1, <3>2
  <2> QED
    BY <2>2, <2>3
<1>3. state = Next(state)
  BY <1>2
<1> HIDE DEF state
<1>4. \E f : f = Next(f)
  BY <1>3
<1>5. States(start, seq) = CHOOSE f : f = Next(f)
  BY DEF States
<1>6. States(start, seq) = Next(States(start, seq))
  BY <1>4, <1>5
<1>7. \A n \in Nat : States(start, seq)[n] =
          IF n = 0 THEN start ELSE Step(States(start, seq)[n - 1], seq[n])
  BY <1>6
<1>8. ASSUME NEW n \in Nat
      PROVE  States(start, seq)[n + 1] = Step(States(start, seq)[n], seq[n + 1])
  <2>1. n + 1 \in Nat /\ n + 1 # 0 /\ (n + 1) - 1 = n
    OBVIOUS
  <2> QED
    BY <1>7, <2>1
<1> QED
  BY <1>7, <1>8

(* No element, no step.                                                    *)
THEOREM RunNothing == \A start : Run(start, << >>) = start
  BY StatesOf DEF Run

(* The loop over a few elements.                                           *)
THEOREM RunFew ==
  /\ \A s, a : Run(s, <<a>>) = Step(s, a)
  /\ \A s, a, b : Run(s, <<a, b>>) = Step(Step(s, a), b)
  /\ \A s, a, b, c : Run(s, <<a, b, c>>) = Step(Step(Step(s, a), b), c)
  /\ \A s, a, b, c, d : Run(s, <<a, b, c, d>>) = Step(Step(Step(Step(s, a), b), c), d)
<1>1. ASSUME NEW s, NEW seq
      PROVE  /\ States(s, seq)[1] = Step(s, seq[1])
             /\ States(s, seq)[2] = Step(Step(s, seq[1]), seq[2])
             /\ States(s, seq)[3] = Step(Step(Step(s, seq[1]), seq[2]), seq[3])
             /\ States(s, seq)[4] = Step(Step(Step(Step(s, seq[1]), seq[2]), seq[3]), seq[4])
  <2>1. /\ States(s, seq)[0] = s
        /\ States(s, seq)[0 + 1] = Step(States(s, seq)[0], seq[0 + 1])
        /\ States(s, seq)[1 + 1] = Step(States(s, seq)[1], seq[1 + 1])
        /\ States(s, seq)[2 + 1] = Step(States(s, seq)[2], seq[2 + 1])
        /\ States(s, seq)[3 + 1] = Step(States(s, seq)[3], seq[3 + 1])
    BY StatesOf
  <2> QED
    BY <2>1
<1> QED
  BY <1>1 DEF Run

(* The loop over six elements, with the states between them.               *)
THEOREM RunSix ==
  ASSUME NEW s, NEW a, NEW b, NEW c, NEW d, NEW e, NEW f,
         NEW s1, NEW s2, NEW s3, NEW s4, NEW s5, NEW s6,
         s1 = Step(s, a), s2 = Step(s1, b), s3 = Step(s2, c), s4 = Step(s3, d), s5 = Step(s4, e),
         s6 = Step(s5, f)
  PROVE  Run(s, <<a, b, c, d, e, f>>) = s6
<1> DEFINE seq  == <<a, b, c, d, e, f>>
           S(n) == States(s, seq)[n]
<1>1. /\ S(0) = s
      /\ S(0 + 1) = Step(S(0), seq[0 + 1]) /\ S(1 + 1) = Step(S(1), seq[1 + 1])
      /\ S(2 + 1) = Step(S(2), seq[2 + 1]) /\ S(3 + 1) = Step(S(3), seq[3 + 1])
      /\ S(4 + 1) = Step(S(4), seq[4 + 1]) /\ S(5 + 1) = Step(S(5), seq[5 + 1])
  BY StatesOf
<1>2. /\ seq[1] = a /\ seq[2] = b /\ seq[3] = c /\ seq[4] = d /\ seq[5] = e /\ seq[6] = f
      /\ Len(seq) = 6
  OBVIOUS
<1> HIDE DEF seq
<1>3. Run(s, seq) = S(6)
  BY <1>2 DEF Run
<1> HIDE DEF S
<1>4. S(1) = s1 /\ S(2) = s2 /\ S(3) = s3
  BY <1>1, <1>2
<1>5. S(4) = s4 /\ S(5) = s5 /\ S(6) = s6
  BY <1>1, <1>2, <1>4
<1> QED
  BY <1>3, <1>5 DEF seq

(* Sequences that agree give the same states.                              *)
LEMMA StatesAgree ==
  ASSUME NEW start, NEW p, NEW q, NEW m \in Nat, \A n \in 1 .. m : p[n] = q[n]
  PROVE  \A n \in 0 .. m : States(start, p)[n] = States(start, q)[n]
<1> DEFINE S == {n \in Nat : n <= m => States(start, p)[n] = States(start, q)[n]}
<1>1. 0 \in S
  BY StatesOf
<1>2. ASSUME NEW n \in Nat, n \in S PROVE n + 1 \in S
  <2> SUFFICES ASSUME n + 1 <= m PROVE States(start, p)[n + 1] = States(start, q)[n + 1]
    OBVIOUS
  <2>1. States(start, p)[n] = States(start, q)[n] /\ p[n + 1] = q[n + 1]
    BY <1>2
  <2> QED
    BY <2>1, StatesOf
<1> HIDE DEF S
<1>3. \A n \in Nat : n \in S
  BY <1>1, <1>2, Induction
<1> QED
  BY <1>3 DEF S

(* A loop over two sequences one after the other.                          *)
THEOREM RunConcat ==
  ASSUME NEW A, NEW B, NEW p \in Seq(A), NEW q \in Seq(B), NEW start
  PROVE  Run(start, p \o q) = Run(Run(start, p), q)
<1> DEFINE all  == p \o q
           then == Run(start, p)
           S    == {n \in Nat : n <= Len(q) =>
                                   States(start, all)[Len(p) + n] = States(then, q)[n]}
<1>0. p \in Seq(A \cup B) /\ q \in Seq(A \cup B) /\ Len(p) \in Nat /\ Len(q) \in Nat
  OBVIOUS
<1>1. /\ Len(all) = Len(p) + Len(q)
      /\ \A n \in 1 .. Len(p) : all[n] = p[n]
      /\ \A n \in 1 .. Len(q) : all[Len(p) + n] = q[n]
  BY <1>0
<1> HIDE DEF all
<1>2. 0 \in S
  <2>1. Len(p) \in 0 .. Len(p) /\ Len(p) + 0 = Len(p)
    BY <1>0
  <2>2. \A n \in 0 .. Len(p) : States(start, all)[n] = States(start, p)[n]
    <3> DEFINE m == Len(p)
    <3>1. m \in Nat
      BY <1>0
    <3>2. \A n \in 1 .. m : all[n] = p[n]
      BY <1>1
    <3> HIDE DEF m
    <3>3. \A n \in 0 .. m : States(start, all)[n] = States(start, p)[n]
      BY <3>1, <3>2, StatesAgree
    <3> QED
      BY <3>3 DEF m
  <2> QED
    BY <2>1, <2>2, StatesOf DEF Run
<1>3. ASSUME NEW n \in Nat, n \in S PROVE n + 1 \in S
  <2> SUFFICES ASSUME n + 1 <= Len(q)
               PROVE  States(start, all)[Len(p) + (n + 1)] = States(then, q)[n + 1]
    OBVIOUS
  <2>1. States(start, all)[Len(p) + n] = States(then, q)[n] /\ all[Len(p) + (n + 1)] = q[n + 1]
    BY <1>0, <1>1, <1>3
  <2>2. Len(p) + n \in Nat /\ Len(p) + (n + 1) = (Len(p) + n) + 1
    BY <1>0
  <2>3. States(start, all)[(Len(p) + n) + 1]
          = Step(States(start, all)[Len(p) + n], all[(Len(p) + n) + 1])
    BY <2>2, StatesOf
  <2>4. States(then, q)[n + 1] = Step(States(then, q)[n], q[n + 1])
    BY StatesOf
  <2> QED
    BY <2>1, <2>2, <2>3, <2>4
<1> HIDE DEF S, then
<1>4. Len(q) \in S
  BY <1>0, <1>2, <1>3, Induction
<1>5. States(start, all)[Len(all)] = States(then, q)[Len(q)]
  BY <1>0, <1>1, <1>4 DEF S
<1> QED
  BY <1>5 DEF Run, all, then

(* The loop over several pieces, one after the other.                      *)
THEOREM RunPieces ==
  ASSUME NEW A, NEW p \in Seq(A), NEW q \in Seq(A), NEW r \in Seq(A), NEW t \in Seq(A), NEW start
  PROVE  /\ Run(start, p \o q \o r) = Run(Run(Run(start, p), q), r)
         /\ Run(start, p \o q \o r \o t) = Run(Run(Run(Run(start, p), q), r), t)
<1> DEFINE pq == p \o q
           pqr == pq \o r
<1>1. pq \in Seq(A) /\ pqr \in Seq(A)
  OBVIOUS
<1>2. Run(start, pq) = Run(Run(start, p), q)
  BY RunConcat
<1> HIDE DEF pq
<1>3. Run(start, pqr) = Run(Run(start, pq), r)
  BY <1>1, RunConcat
<1> HIDE DEF pqr
<1>4. Run(start, pqr \o t) = Run(Run(start, pqr), t)
  BY <1>1, RunConcat
<1> QED
  BY <1>2, <1>3, <1>4 DEF pq, pqr

(* The loop over one element more.                                         *)
THEOREM RunAppend ==
  ASSUME NEW A, NEW p \in Seq(A), NEW a \in A, NEW start
  PROVE  Run(start, Append(p, a)) = Step(Run(start, p), a)
<1> DEFINE q == <<a>>
<1>1. q \in Seq(A) /\ Run(Run(start, p), q) = Step(Run(start, p), a)
  BY RunFew
<1>2. Append(p, a) = p \o q
  OBVIOUS
<1> HIDE DEF q
<1>3. Run(start, p \o q) = Run(Run(start, p), q)
  BY <1>1, RunConcat
<1> QED
  BY <1>1, <1>2, <1>3

(* Elements at which the state stays the same.                             *)
THEOREM RunIdle ==
  ASSUME NEW A, NEW q \in Seq(A), NEW s, \A n \in 1 .. Len(q) : Step(s, q[n]) = s
  PROVE  Run(s, q) = s
<1> DEFINE S == {n \in Nat : n <= Len(q) => States(s, q)[n] = s}
<1>0. Len(q) \in Nat
  OBVIOUS
<1>1. 0 \in S
  BY StatesOf
<1>2. ASSUME NEW n \in Nat, n \in S PROVE n + 1 \in S
  <2> SUFFICES ASSUME n + 1 <= Len(q) PROVE States(s, q)[n + 1] = s
    OBVIOUS
  <2>1. n + 1 \in 1 .. Len(q) /\ States(s, q)[n] = s
    BY <1>0, <1>2
  <2>2. States(s, q)[n + 1] = Step(States(s, q)[n], q[n + 1])
    BY StatesOf
  <2>3. Step(s, q[n + 1]) = s
    BY <2>1
  <2> QED
    BY <2>1, <2>2, <2>3
<1> HIDE DEF S
<1>3. Len(q) \in S
  BY <1>0, <1>1, <1>2, Induction
<1> QED
  BY <1>0, <1>3 DEF S, Run

=============================================================================
