------------------------ MODULE CameraDetectorProofs ------------------------
(***************************************************************************)
(* Theorems about CameraDetector, for every report of ffmpeg's and every   *)
(* preference of a client's.  The loop over the modes and the folds are    *)
(* recursive functions: that they exist, and what they return, is proved   *)
(* by induction over sets of numbers.                                      *)
(***************************************************************************)
EXTENDS CameraDetector, TLAPS, WellFoundedInduction

----------------------------------------------------------------------------
\* Induction.

\* A nonempty set of numbers has a least one.
LEMMA Least ==
  ASSUME NEW T, T \subseteq Nat, T # {}
  PROVE  \E x \in T : \A y \in T : x <= y
<1> DEFINE R == OpToRel(<, Nat)
<1>1. IsWellFoundedOn(R, Nat)
  BY NatLessThanWellFounded
<1>2. R = {ss \in Nat \X Nat : ss[1] < ss[2]}
  BY DEF OpToRel
<1> HIDE DEF R
<1>3. PICK x \in T : \A y \in T : <<y, x>> \notin R
  BY <1>1, WFMin
<1>4. ASSUME NEW y \in T PROVE x <= y
  <2>1. x \in Nat /\ y \in Nat /\ <<y, x>> \in Nat \X Nat
    OBVIOUS
  <2>2. ~(y < x)
    BY <1>2, <1>3, <2>1
  <2> QED BY <2>1, <2>2
<1> QED BY <1>4

\* Induction from 0 to n, for the numbers of a set.
LEMMA UpTo ==
  ASSUME NEW n \in Nat, NEW S, 0 \in S, \A k \in 0..n - 1 : k \in S => k + 1 \in S
  PROVE  \A k \in 0..n : k \in S
<1> DEFINE T == {k \in 0..n : k \notin S}
<1> SUFFICES ASSUME T # {} PROVE FALSE
  OBVIOUS
<1>1. PICK m \in T : \A y \in T : m <= y
  <2>1. T \subseteq Nat
    OBVIOUS
  <2> HIDE DEF T
  <2> QED BY <2>1, Least
<1>2. m \in 1..n /\ m - 1 \in 0..n - 1 /\ m - 1 \notin T
  BY <1>1
<1>3. m - 1 \in S
  BY <1>2
<1>4. (m - 1) + 1 = m
  BY <1>2
<1> QED BY <1>1, <1>2, <1>3, <1>4

\* A loop from 1 to n, from v on: g[k] is what is left after k rounds.
IsLoop(g, V, v, n, step) ==
    g \in [0..n -> V] /\ g[0] = v /\ \A k \in 1..n : g[k] = step[k][g[k - 1]]

LEMMA Loop ==
  ASSUME NEW V, NEW v \in V, NEW n \in Nat, NEW step \in [1..n -> [V -> V]]
  PROVE  \E g : IsLoop(g, V, v, n, step)
<1> DEFINE Rounds(m) == {g \in [0..m -> V] :
                           g[0] = v /\ \A k \in 1..m : g[k] = step[k][g[k - 1]]}
           S == {m \in 0..n : Rounds(m) # {}}
<1>1. 0 \in S
  <2> DEFINE g == [k \in 0..0 |-> v]
  <2>1. g \in Rounds(0)
    OBVIOUS
  <2> QED BY <2>1
<1>2. ASSUME NEW m \in 0..n - 1, m \in S PROVE m + 1 \in S
  <2>1. PICK g : g \in Rounds(m)
    BY <1>2
  <2> DEFINE h == [k \in 0..m + 1 |-> IF k = m + 1 THEN step[m + 1][g[m]] ELSE g[k]]
  <2>2. step[m + 1][g[m]] \in V
    <3>1. g[m] \in V /\ m + 1 \in 1..n
      BY <2>1
    <3> QED BY <3>1
  <2>3. h \in [0..m + 1 -> V] /\ h[0] = v
    BY <2>1, <2>2
  <2>4. ASSUME NEW k \in 1..m + 1 PROVE h[k] = step[k][h[k - 1]]
    <3>1. k - 1 \in 0..m /\ h[k - 1] = g[k - 1]
      OBVIOUS
    <3>2. CASE k = m + 1
      <4>1. k - 1 = m /\ h[k] = step[m + 1][g[m]]
        BY <3>2
      <4> HIDE DEF h
      <4> QED BY <3>1, <3>2, <4>1
    <3>3. CASE k # m + 1
      <4>1. k \in 1..m /\ h[k] = g[k]
        BY <3>3
      <4>2. g[k] = step[k][g[k - 1]]
        BY <2>1, <4>1
      <4> QED BY <3>1, <4>1, <4>2
    <3> QED BY <3>2, <3>3
  <2>5. h \in Rounds(m + 1)
    BY <2>3, <2>4
  <2>6. m + 1 \in 0..n
    OBVIOUS
  <2> QED BY <2>5, <2>6
<1> HIDE DEF Rounds, S
<1>3. \A k \in 0..n : k \in S
  BY <1>1, <1>2, UpTo
<1>4. n \in S
  BY <1>3
<1>5. \E g : g \in Rounds(n)
  BY <1>4 DEF S
<1> QED BY <1>5 DEF Rounds, IsLoop

\* The largest of some numbers up to n.
LEMMA Largest ==
  ASSUME NEW n \in Nat, NEW s, s \subseteq 1..n, s # {}
  PROVE  Max(s) \in s /\ \A y \in s : y <= Max(s)
<1> DEFINE T == {y \in 0..n : n - y \in s}
<1>1. T \subseteq Nat
  OBVIOUS
<1>2. \A x \in s : n - x \in T
  <2> SUFFICES ASSUME NEW x \in s PROVE n - x \in 0..n /\ n - (n - x) = x
    OBVIOUS
  <2>1. x \in 1..n
    OBVIOUS
  <2> QED BY <2>1
<1>3. PICK m \in T : \A y \in T : m <= y
  <2> HIDE DEF T
  <2> QED BY <1>1, <1>2, Least
<1>4. ASSUME NEW y \in s PROVE n - m >= y
  <2>1. m <= n - y /\ y \in 1..n /\ m \in 0..n
    BY <1>2, <1>3
  <2> QED BY <2>1
<1>5. Max(s) \in s /\ \A y \in s : Max(s) >= y
  BY <1>3, <1>4 DEF Max
<1>6. ASSUME NEW y \in s PROVE y <= Max(s)
  <2>1. y \in 1..n /\ Max(s) \in 1..n /\ Max(s) >= y
    BY <1>5
  <2> QED BY <2>1
<1> QED BY <1>5, <1>6

\* FoldLeft's function of the sets of places, ...
IsFold(g, V, v, n, step) ==
    /\ g \in [SUBSET (1..n) -> V] /\ g[{}] = v
    /\ \A s \in SUBSET (1..n) : s # {} => g[s] = step[Max(s)][g[s \ {Max(s)}]]

\* ... which exists, ...
LEMMA Fold ==
  ASSUME NEW V, NEW v \in V, NEW n \in Nat, NEW step \in [1..n -> [V -> V]]
  PROVE  \E g : IsFold(g, V, v, n, step)
<1> DEFINE Good(g, m) ==
             /\ g \in [SUBSET (1..m) -> V]
             /\ \A s \in SUBSET (1..m) :
                    g[s] = IF s = {} THEN v ELSE step[Max(s)][g[s \ {Max(s)}]]
           S == {m \in 0..n : \E g : Good(g, m)}
<1>1. 0 \in S
  <2> DEFINE g == [s \in SUBSET (1..0) |-> v]
  <2>1. \A s \in SUBSET (1..0) : s = {}
    OBVIOUS
  <2>2. g \in [SUBSET (1..0) -> V] /\ \A s \in SUBSET (1..0) : g[s] = v
    OBVIOUS
  <2>3. Good(g, 0)
    <3> HIDE DEF g
    <3> QED BY <2>1, <2>2
  <2> HIDE DEF Good
  <2> QED BY <2>3
<1>2. ASSUME NEW m \in 0..n - 1, m \in S PROVE m + 1 \in S
  <2>1. PICK g : Good(g, m)
    BY <1>2
  <2> DEFINE h == [s \in SUBSET (1..m + 1) |-> IF m + 1 \in s
                       THEN step[m + 1][g[s \ {m + 1}]] ELSE g[s]]
  <2>2. ASSUME NEW s \in SUBSET (1..m + 1), m + 1 \in s
        PROVE  /\ s \ {m + 1} \in SUBSET (1..m) /\ Max(s) = m + 1 /\ s # {}
               /\ step[m + 1][g[s \ {m + 1}]] \in V
               /\ h[s] = step[m + 1][g[s \ {m + 1}]] /\ h[s \ {m + 1}] = g[s \ {m + 1}]
    <3>1. s \ {m + 1} \in SUBSET (1..m)
      OBVIOUS
    <3>2. Max(s) = m + 1
      <4>1. m + 1 \in Nat /\ s \subseteq 1..m + 1 /\ s # {}
        BY <2>2
      <4>2. Max(s) \in s /\ \A y \in s : y <= Max(s)
        BY <4>1, Largest
      <4>3. Max(s) \in 1..m + 1 /\ m + 1 <= Max(s)
        BY <2>2, <4>2
      <4> QED BY <4>3
    <3>3. step[m + 1][g[s \ {m + 1}]] \in V
      <4>1. g[s \ {m + 1}] \in V /\ m + 1 \in 1..n
        BY <2>1, <3>1
      <4> QED BY <4>1
    <3> QED BY <2>2, <3>1, <3>2, <3>3
  <2>3. ASSUME NEW s \in SUBSET (1..m + 1), m + 1 \notin s
        PROVE  s \in SUBSET (1..m) /\ s \ {Max(s)} \in SUBSET (1..m)
               /\ h[s] = g[s] /\ h[s \ {Max(s)}] = g[s \ {Max(s)}] /\ g[s] \in V
    <3>1. \A x \in s : x \in 1..m
      BY <2>3
    <3> QED BY <2>1, <2>3, <3>1
  <2> HIDE DEF h
  <2>4. ASSUME NEW s \in SUBSET (1..m + 1)
        PROVE  h[s] \in V /\ h[s] = IF s = {} THEN v ELSE step[Max(s)][h[s \ {Max(s)}]]
    <3>1. CASE m + 1 \in s
      BY <2>2, <3>1
    <3>2. CASE m + 1 \notin s
      BY <2>1, <2>3, <3>2
    <3> QED BY <3>1, <3>2
  <2>5. h \in [SUBSET (1..m + 1) -> V]
    <3>1. \A s \in SUBSET (1..m + 1) : h[s] \in V
      BY <2>4
    <3> QED BY <3>1 DEF h
  <2>6. Good(h, m + 1)
    BY <2>4, <2>5
  <2> HIDE DEF Good
  <2> QED BY <2>6
<1> HIDE DEF Good, S
<1>3. \A k \in 0..n : k \in S
  BY <1>1, <1>2, UpTo
<1>4. PICK g : Good(g, n)
  BY <1>3 DEF S
<1>5. IsFold(g, V, v, n, step)
  <2>1. {} \in SUBSET (1..n)
    OBVIOUS
  <2> QED BY <1>4, <2>1 DEF Good, IsFold
<1> QED BY <1>5

\* ... and what its steps keep holds at the end.
LEMMA FoldKeeps ==
  ASSUME NEW V, NEW n \in Nat, NEW h, h[{}] \in V,
         \A s \in SUBSET (1..n) : s # {} /\ h[s \ {Max(s)}] \in V => h[s] \in V
  PROVE  h[1..n] \in V
<1> DEFINE S == {k \in 0..n : h[1..k] \in V}
<1>1. 0 \in S
  <2>1. 1..0 = {}
    OBVIOUS
  <2> QED BY <2>1
<1>2. ASSUME NEW k \in 0..n - 1, k \in S PROVE k + 1 \in S
  <2> DEFINE s == 1..k + 1
  <2>1. s \in SUBSET (1..n) /\ s # {} /\ k + 1 \in s
    OBVIOUS
  <2>2. Max(s) = k + 1
    <3>1. Max(s) \in s /\ \A y \in s : y <= Max(s)
      <4> HIDE DEF s
      <4> QED BY <2>1, Largest
    <3> QED BY <2>1, <3>1
  <2>3. s \ {k + 1} = 1..k
    OBVIOUS
  <2>4. h[1..k] \in V
    BY <1>2
  <2>5. h[s] \in V
    BY <2>1, <2>2, <2>3, <2>4
  <2> QED BY <2>5
<1> HIDE DEF S
<1>3. \A k \in 0..n : k \in S
  BY <1>1, <1>2, UpTo
<1> QED BY <1>3 DEF S
----------------------------------------------------------------------------

\* The strings; the prover is not told that the literals are among them.
Text == STRING \cup {Unset, "monob", "nv12", "uyvy422", "yuyv422", "bgr0", "0rgb"}
Mode == [format : Text, codec : Text, size : [width : Nat, height : Nat, fps : Nat]]

LEMMA AppendUniqueType ==
  ASSUME NEW T, NEW q \in Seq(T), NEW x \in T
  PROVE  /\ appendUnique(q, x) \in Seq(T) /\ appendUniqueString(q, x) \in Seq(T)
         /\ q # <<>> => appendUnique(q, x) # <<>> /\ appendUniqueString(q, x) # <<>>
<1>1. Append(q, x) \in Seq(T) /\ Append(q, x) # <<>>
  OBVIOUS
<1>2. appendUnique(q, x) \in Seq(T) /\ (q # <<>> => appendUnique(q, x) # <<>>)
  BY <1>1 DEF appendUnique
<1>3. appendUniqueString(q, x) \in {q, appendUnique(q, x)}
  BY Zenon DEF appendUniqueString
<1> QED BY <1>2, <1>3

LEMMA AppendAllType ==
  ASSUME NEW T, NEW values \in Seq(T), NEW more \in Seq(T)
  PROVE  appendAll(values, more) \in Seq(T)
         /\ (values # <<>> => appendAll(values, more) # <<>>)
<1> DEFINE V == {q \in Seq(T) : values # <<>> => q # <<>>}
           n == Len(more)
           step == [k \in 1..n |-> [q \in V |-> appendUniqueString(q, more[k])]]
<1>1. n \in Nat /\ DOMAIN more = 1..n /\ values \in V
  OBVIOUS
<1>2. ASSUME NEW q \in V, NEW k \in 1..n PROVE appendUniqueString(q, more[k]) \in V
  <2>1. more[k] \in T
    OBVIOUS
  <2> QED BY <2>1, AppendUniqueType
<1> HIDE DEF V, n
<1>3. step \in [1..n -> [V -> V]]
  BY <1>2
<1>4. \A k \in 1..n : \A q \in V : step[k][q] = appendUniqueString(q, more[k])
  OBVIOUS
<1> HIDE DEF step
<1>5. PICK g : IsFold(g, V, values, n, step)
  BY <1>1, <1>3, Fold
<1>6. ASSUME NEW s \in SUBSET (1..n), s # {}
      PROVE  Max(s) \in 1..n /\ s \ {Max(s)} \in SUBSET (1..n)
  BY <1>1, <1>6, Largest
<1>7. ASSUME NEW s \in SUBSET (1..n)
      PROVE  g[s] = IF s = {} THEN values
                    ELSE appendUniqueString(g[s \ {Max(s)}], more[Max(s)])
  <2>1. CASE s = {}
    BY <1>5, <2>1 DEF IsFold
  <2>2. CASE s # {}
    <3>1. g[s] = step[Max(s)][g[s \ {Max(s)}]] /\ g[s \ {Max(s)}] \in V
      BY <1>5, <1>6, <2>2 DEF IsFold
    <3> QED BY <1>4, <1>6, <2>2, <3>1
  <2> QED BY <2>1, <2>2
<1> DEFINE E(f) == [s \in SUBSET DOMAIN more |->
                      IF s = {} THEN values
                      ELSE appendUniqueString(f[s \ {Max(s)}], more[Max(s)])]
<1>8. g = E(g)
  <2>1. g = [s \in SUBSET DOMAIN more |-> g[s]]
    BY <1>1, <1>5 DEF IsFold
  <2> QED BY <1>1, <1>7, <2>1
<1>9. \E f : f = (CHOOSE h : h = E(h)) /\ appendAll(values, more) = f[DOMAIN more]
  BY DEF appendAll, FoldLeft, MapThenFoldSet
<1>10. PICK f : f = E(f) /\ appendAll(values, more) = f[DOMAIN more]
  <2> HIDE DEF E
  <2> QED BY <1>8, <1>9
<1>11. f[{}] = values
  BY <1>1, <1>10
<1>12. ASSUME NEW s \in SUBSET (1..n), s # {}, f[s \ {Max(s)}] \in V PROVE f[s] \in V
  <2>1. f[s] = appendUniqueString(f[s \ {Max(s)}], more[Max(s)])
    BY <1>1, <1>10, <1>12
  <2> QED BY <1>2, <1>6, <1>12, <2>1
<1>13. f[1..n] \in V
  BY <1>1, <1>11, <1>12, FoldKeeps
<1> QED BY <1>1, <1>10, <1>13 DEF V

\* The same, for the modes.
LEMMA AppendModesType ==
  ASSUME NEW T, NEW values \in Seq(T), NEW more \in Seq(T)
  PROVE  FoldLeft(appendUnique, values, more) \in Seq(T)
         /\ (values # <<>> => FoldLeft(appendUnique, values, more) # <<>>)
<1> DEFINE V == {q \in Seq(T) : values # <<>> => q # <<>>}
           n == Len(more)
           step == [k \in 1..n |-> [q \in V |-> appendUnique(q, more[k])]]
<1>1. n \in Nat /\ DOMAIN more = 1..n /\ values \in V
  OBVIOUS
<1>2. ASSUME NEW q \in V, NEW k \in 1..n PROVE appendUnique(q, more[k]) \in V
  <2>1. more[k] \in T
    OBVIOUS
  <2> QED BY <2>1, AppendUniqueType
<1> HIDE DEF V, n
<1>3. step \in [1..n -> [V -> V]]
  BY <1>2
<1>4. \A k \in 1..n : \A q \in V : step[k][q] = appendUnique(q, more[k])
  OBVIOUS
<1> HIDE DEF step
<1>5. PICK g : IsFold(g, V, values, n, step)
  BY <1>1, <1>3, Fold
<1>6. ASSUME NEW s \in SUBSET (1..n), s # {}
      PROVE  Max(s) \in 1..n /\ s \ {Max(s)} \in SUBSET (1..n)
  BY <1>1, <1>6, Largest
<1>7. ASSUME NEW s \in SUBSET (1..n)
      PROVE  g[s] = IF s = {} THEN values
                    ELSE appendUnique(g[s \ {Max(s)}], more[Max(s)])
  <2>1. CASE s = {}
    BY <1>5, <2>1 DEF IsFold
  <2>2. CASE s # {}
    <3>1. g[s] = step[Max(s)][g[s \ {Max(s)}]] /\ g[s \ {Max(s)}] \in V
      BY <1>5, <1>6, <2>2 DEF IsFold
    <3> QED BY <1>4, <1>6, <2>2, <3>1
  <2> QED BY <2>1, <2>2
<1> DEFINE E(f) == [s \in SUBSET DOMAIN more |->
                      IF s = {} THEN values
                      ELSE appendUnique(f[s \ {Max(s)}], more[Max(s)])]
<1>8. g = E(g)
  <2>1. g = [s \in SUBSET DOMAIN more |-> g[s]]
    BY <1>1, <1>5 DEF IsFold
  <2> QED BY <1>1, <1>7, <2>1
<1>9. \E f : f = (CHOOSE h : h = E(h)) /\ FoldLeft(appendUnique, values, more) = f[DOMAIN more]
  BY DEF FoldLeft, MapThenFoldSet
<1>10. PICK f : f = E(f) /\ FoldLeft(appendUnique, values, more) = f[DOMAIN more]
  <2> HIDE DEF E
  <2> QED BY <1>8, <1>9
<1>11. f[{}] = values
  BY <1>1, <1>10
<1>12. ASSUME NEW s \in SUBSET (1..n), s # {}, f[s \ {Max(s)}] \in V PROVE f[s] \in V
  <2>1. f[s] = appendUnique(f[s \ {Max(s)}], more[Max(s)])
    BY <1>1, <1>10, <1>12
  <2> QED BY <1>2, <1>6, <1>12, <2>1
<1>13. f[1..n] \in V
  BY <1>1, <1>11, <1>12, FoldKeeps
<1> QED BY <1>1, <1>10, <1>13 DEF V

----------------------------------------------------------------------------
\* The loop over the modes.

\* g[k] is the place of the best among the first k of those in W, or 0.
IsBest(g, n, W, sc) ==
    /\ g \in [0..n -> 0..n] /\ g[0] = 0
    /\ \A k \in 1..n :
        /\ k \in W /\ (g[k - 1] # 0 => sc[k] < sc[g[k - 1]]) => g[k] = k
        /\ ~(k \in W /\ (g[k - 1] # 0 => sc[k] < sc[g[k - 1]])) => g[k] = g[k - 1]

LEMMA BestExists ==
  ASSUME NEW n \in Nat, NEW W, W \subseteq 1..n, NEW sc
  PROVE  \E g : IsBest(g, n, W, sc)
<1> DEFINE V == 0..n
           step == [k \in 1..n |-> [b \in V |->
                       IF k \in W /\ (b # 0 => sc[k] < sc[b]) THEN k ELSE b]]
<1>1. step \in [1..n -> [V -> V]] /\ 0 \in V
  OBVIOUS
<1>2. \A k \in 1..n : \A b \in V :
        step[k][b] = IF k \in W /\ (b # 0 => sc[k] < sc[b]) THEN k ELSE b
  OBVIOUS
<1> HIDE DEF step
<1>3. PICK g : IsLoop(g, V, 0, n, step)
  <2> HIDE DEF V
  <2> QED BY <1>1, Loop
<1>4. g \in [0..n -> 0..n] /\ g[0] = 0 /\ \A k \in 1..n : g[k] = step[k][g[k - 1]]
  BY <1>3 DEF IsLoop
<1>5. ASSUME NEW k \in 1..n PROVE g[k - 1] \in 0..n
  BY <1>4
<1>6. ASSUME NEW k \in 1..n
      PROVE  g[k] = IF k \in W /\ (g[k - 1] # 0 => sc[k] < sc[g[k - 1]]) THEN k ELSE g[k - 1]
  BY <1>2, <1>4, <1>5
<1> QED BY <1>4, <1>6 DEF IsBest

LEMMA BestOf ==
  ASSUME NEW n \in Nat, NEW W, W \subseteq 1..n, NEW sc \in [1..n -> Int],
         NEW g, IsBest(g, n, W, sc)
  PROVE  /\ g[n] = 0 => W = {}
         /\ g[n] # 0 => /\ g[n] \in W
                        /\ \A j \in W : /\ sc[g[n]] <= sc[j]
                                        /\ j < g[n] => sc[g[n]] < sc[j]
<1> DEFINE Q(k) == /\ g[k] = 0 => \A j \in W : j > k
                   /\ g[k] # 0 => /\ g[k] \in W /\ g[k] <= k
                                  /\ \A j \in W : j <= k => /\ sc[g[k]] <= sc[j]
                                                            /\ j < g[k] => sc[g[k]] < sc[j]
           S == {k \in 0..n : Q(k)}
<1>1. 0 \in S
  BY DEF IsBest
<1>2. ASSUME NEW k \in 0..n - 1, k \in S PROVE k + 1 \in S
  <2>1. /\ k + 1 \in 1..n /\ (k + 1) - 1 = k /\ k \in 0..n /\ g[k] \in 0..n /\ Q(k)
        /\ \A j \in W : j \in 1..n /\ sc[j] \in Int
    BY <1>2 DEF IsBest
  <2>2. CASE k + 1 \in W /\ (g[k] # 0 => sc[k + 1] < sc[g[k]])
    <3>1. g[k + 1] = k + 1
      BY <2>1, <2>2 DEF IsBest
    <3>2. ASSUME NEW j \in W, j <= k PROVE sc[k + 1] < sc[j]
      BY <2>1, <2>2, <3>2
    <3>3. \A j \in W : j <= k + 1 => j <= k \/ j = k + 1
      BY <2>1
    <3>4. Q(k + 1)
      BY <2>1, <2>2, <3>1, <3>2, <3>3
    <3> QED BY <2>1, <3>4
  <2>3. CASE ~(k + 1 \in W /\ (g[k] # 0 => sc[k + 1] < sc[g[k]]))
    <3>1. g[k + 1] = g[k]
      BY <2>1, <2>3 DEF IsBest
    <3>2. \A j \in W : j <= k + 1 => j <= k \/ j = k + 1
      BY <2>1
    <3>3. k + 1 \in W => g[k] # 0 /\ sc[g[k]] <= sc[k + 1] /\ g[k] < k + 1
      BY <2>1, <2>3
    <3>4. Q(k + 1)
      BY <2>1, <3>1, <3>2, <3>3
    <3> QED BY <2>1, <3>4
  <2> QED BY <2>2, <2>3
<1>3. \A k \in 0..n : k \in S
  <2> HIDE DEF S
  <2> QED BY <1>1, <1>2, UpTo
<1>4. Q(n)
  BY <1>3
<1> QED BY <1>4

\* The modes with the input that is wanted.
Wanted(format, codec) ==
    {i \in DOMAIN modes :
        format \in {Unset, modes[i].format} /\ codec \in {Unset, modes[i].codec}}

\* What recommendCameraMode returns when no mode has it.
Unlisted(format, codec, someFormats, someCodecs) ==
    IF format # Unset \/ codec # Unset THEN mode(format, codec, NoMode.size)
    ELSE IF someCodecs # <<>> THEN mode(Unset, someCodecs[1], NoMode.size)
    ELSE mode(recommendedPixelFormat(someFormats), Unset, NoMode.size)

LEMMA ScoreType ==
  ASSUME NEW m \in Mode
  PROVE  score(m) \in Int
<1>1. m.size.width \in Nat /\ m.size.height \in Nat /\ m.size.fps \in Nat
  BY DEF Mode
<1>2. distance(m.size.width, 1280) \in Int /\ distance(m.size.height, 720) \in Int
      /\ distance(m.size.fps, 30) \in Int
  BY <1>1 DEF distance
<1> QED BY <1>2 DEF score

\* What the loop finds, or what is recommended without it.
LEMMA LoopFindsBest ==
  ASSUME modes \in Seq(Mode), NEW format, NEW codec, NEW someFormats, NEW someCodecs
  PROVE  \/ /\ Wanted(format, codec) = {}
            /\ recommendCameraMode(format, codec, someFormats, someCodecs)
                 = Unlisted(format, codec, someFormats, someCodecs)
         \/ \E i \in Wanted(format, codec) :
                /\ recommendCameraMode(format, codec, someFormats, someCodecs) = modes[i]
                /\ \A j \in Wanted(format, codec) :
                        /\ score(modes[i]) <= score(modes[j])
                        /\ j < i => score(modes[i]) < score(modes[j])
<1> DEFINE n == Len(modes)
           W == Wanted(format, codec)
           sc == [k \in 1..n |-> score(modes[k])]
           E(f) == [k \in 0..Len(modes) |->
                      IF k = 0 THEN 0
                      ELSE IF /\ format \in {Unset, modes[k].format}
                              /\ codec \in {Unset, modes[k].codec}
                              /\ f[k - 1] # 0 => better(modes[k], modes[f[k - 1]])
                           THEN k ELSE f[k - 1]]
           r == recommendCameraMode(format, codec, someFormats, someCodecs)
<1>1. n \in Nat /\ DOMAIN modes = 1..n /\ \A k \in 1..n : modes[k] \in Mode
  OBVIOUS
<1>2. W \subseteq 1..n /\ \A k \in 1..n :
        k \in W <=> format \in {Unset, modes[k].format} /\ codec \in {Unset, modes[k].codec}
  BY <1>1, Zenon DEF Wanted
<1>3. sc \in [1..n -> Int] /\ \A k \in 1..n : sc[k] = score(modes[k])
  BY <1>1, ScoreType
<1> HIDE DEF sc, W
<1>4. \A f : \A k \in 1..n :
        E(f)[k] = IF k \in W /\ (f[k - 1] # 0 => better(modes[k], modes[f[k - 1]]))
                  THEN k ELSE f[k - 1]
  <2> SUFFICES ASSUME NEW f, NEW k \in 1..n
               PROVE  E(f)[k] = IF /\ k \in W
                                   /\ f[k - 1] # 0 => better(modes[k], modes[f[k - 1]])
                                THEN k ELSE f[k - 1]
    OBVIOUS
  <2>1. k \in 0..Len(modes) /\ k # 0
    OBVIOUS
  <2> QED BY <1>2, <2>1, Zenon
<1>5. \A f : DOMAIN E(f) = 0..n /\ E(f)[0] = 0 /\ E(f) = [k \in 0..n |-> E(f)[k]]
  <2>1. 0 \in 0..Len(modes)
    BY <1>1
  <2>2. \A f : E(f)[0] = 0
    BY <2>1, Zenon
  <2>3. \A f : DOMAIN E(f) = 0..n /\ E(f) = [k \in 0..n |-> E(f)[k]]
    BY Zenon
  <2> QED BY <2>2, <2>3
<1>6. \E f : /\ f = (CHOOSE h : h = E(h))
             /\ r = IF f[n] # 0 THEN modes[f[n]]
                    ELSE Unlisted(format, codec, someFormats, someCodecs)
  BY Zenon DEF recommendCameraMode, Unlisted
<1> HIDE DEF E, n, r
<1>7. PICK g : IsBest(g, n, W, sc)
  BY <1>1, <1>2, BestExists
<1>8. g = E(g)
  <2>1. ASSUME NEW k \in 1..n PROVE g[k] = E(g)[k]
    <3>1. g[k - 1] \in 0..n /\ (g[k - 1] # 0 => g[k - 1] \in 1..n)
      BY <1>1, <1>7 DEF IsBest
    <3>2. g[k - 1] # 0 => (better(modes[k], modes[g[k - 1]]) <=> sc[k] < sc[g[k - 1]])
      BY <1>3, <3>1 DEF better
    <3> QED BY <1>4, <1>7, <3>2 DEF IsBest
  <2>2. g = [k \in 0..n |-> g[k]] /\ g[0] = 0
    BY <1>7 DEF IsBest
  <2>3. \A k \in 0..n : g[k] = E(g)[k]
    BY <1>1, <1>5, <2>1, <2>2
  <2> QED BY <1>5, <2>2, <2>3
<1>9. PICK f : /\ f = E(f)
               /\ r = IF f[n] # 0 THEN modes[f[n]]
                      ELSE Unlisted(format, codec, someFormats, someCodecs)
  BY <1>6, <1>8
<1>10. \A k \in 0..n : f[k] \in 0..n
  <2> DEFINE S == {k \in 0..n : f[k] \in 0..n}
  <2>1. 0 \in S
    BY <1>1, <1>5, <1>9
  <2>2. ASSUME NEW k \in 0..n - 1, k \in S PROVE k + 1 \in S
    <3>1. k + 1 \in 1..n /\ (k + 1) - 1 = k
      BY <1>1
    <3>2. f[k + 1] \in {k + 1, f[k]}
      BY <1>4, <1>9, <3>1
    <3> QED BY <2>2, <3>1, <3>2
  <2> HIDE DEF S
  <2>3. \A k \in 0..n : k \in S
    BY <1>1, <2>1, <2>2, UpTo
  <2> QED BY <2>3 DEF S
<1>11. IsBest(f, n, W, sc)
  <2>1. f \in [0..n -> 0..n] /\ f[0] = 0
    BY <1>5, <1>9, <1>10
  <2>2. ASSUME NEW k \in 1..n
        PROVE  f[k] = IF k \in W /\ (f[k - 1] # 0 => sc[k] < sc[f[k - 1]])
                      THEN k ELSE f[k - 1]
    <3>1. f[k - 1] \in 0..n /\ (f[k - 1] # 0 => f[k - 1] \in 1..n)
      BY <1>1, <1>10
    <3>2. f[k - 1] # 0 => (better(modes[k], modes[f[k - 1]]) <=> sc[k] < sc[f[k - 1]])
      BY <1>3, <3>1 DEF better
    <3> QED BY <1>4, <1>9, <3>2
  <2> QED BY <2>1, <2>2 DEF IsBest
<1>12. /\ f[n] = 0 => W = {}
       /\ f[n] # 0 => /\ f[n] \in W
                      /\ \A j \in W : /\ sc[f[n]] <= sc[j]
                                      /\ j < f[n] => sc[f[n]] < sc[j]
  BY <1>1, <1>2, <1>3, <1>11, BestOf
<1>13. CASE f[n] = 0
  BY <1>9, <1>12, <1>13 DEF W, r
<1>14. CASE f[n] # 0
  <2>1. f[n] \in W /\ r = modes[f[n]]
        /\ \A j \in W : /\ score(modes[f[n]]) <= score(modes[j])
                        /\ j < f[n] => score(modes[f[n]]) < score(modes[j])
    BY <1>2, <1>3, <1>9, <1>12, <1>14
  <2> QED BY <2>1 DEF W, r
<1> QED BY <1>13, <1>14

----------------------------------------------------------------------------
\* Types.

TypeInv ==
    /\ requested \in [format : Text, codec : Text]
    /\ formats \in Seq(Text) /\ codecs \in Seq(Text) /\ candidates \in Seq(Text)
    /\ modes \in Seq(Mode)
    /\ at = "probe" => candidates # <<>>

\* What ffmpeg reports, and what clients prefer.
LEMMA Inputs ==
  /\ FormatList \subseteq Seq(Text) /\ Format \subseteq Text /\ Codec \subseteq Text
  /\ Unset \in Text /\ Request \subseteq [format : Text, codec : Text]
  /\ Size \subseteq [width : Nat, height : Nat, fps : Nat]
<1>1. STRING \ {Unset} \subseteq Text /\ Unset \in Text /\ STRING \subseteq Text
  BY DEF Text
<1>2. FormatList \subseteq Seq(Text)
  <2> SUFFICES ASSUME NEW l \in FormatList PROVE l \in Seq(Text)
    OBVIOUS
  <2>1. l \in Seq(STRING \ {Unset})
    BY DetectorAssumption
  <2> QED BY <1>1, <2>1
<1>3. Format \subseteq Text
  <2> SUFFICES ASSUME NEW l \in FormatList PROVE ToSet(l) \subseteq Text
    BY DEF Format
  <2> QED BY <1>2 DEF ToSet
<1> QED BY <1>1, <1>2, <1>3, DetectorAssumption

LEMMA ModeType ==
  ASSUME NEW f \in Text, NEW c \in Text, NEW s \in [width : Nat, height : Nat, fps : Nat]
  PROVE  mode(f, c, s) \in Mode
BY DEF mode, Mode

LEMMA SizeListType ==
  ASSUME NEW sizes \in SizeList
  PROVE  /\ sizes \in Seq(Size) /\ Len(sizes) \in Nat /\ DOMAIN sizes = 1..Len(sizes)
         /\ \A k \in DOMAIN sizes : sizes[k] \in [width : Nat, height : Nat, fps : Nat]
<1>1. sizes \in Seq(Size)
  <2>1. CASE sizes = <<>>
    BY <2>1
  <2>2. ASSUME NEW s \in Size, sizes = <<s>> PROVE sizes \in Seq(Size)
    BY <2>2
  <2>3. ASSUME NEW s \in Size, NEW t \in Size, sizes = <<s, t>> PROVE sizes \in Seq(Size)
    BY <2>3
  <2>4. \/ sizes = <<>> \/ \E s \in Size : sizes = <<s>>
        \/ \E s \in Size, t \in Size : sizes = <<s, t>>
    BY DEF SizeList
  <2> QED BY <2>1, <2>2, <2>3, <2>4, Zenon
<1>2. Len(sizes) \in Nat /\ DOMAIN sizes = 1..Len(sizes)
      /\ \A k \in DOMAIN sizes : sizes[k] \in Size
  BY <1>1
<1> QED BY <1>1, <1>2, Inputs

LEMMA StreamType == Stream \subseteq Seq(Mode)
<1>1. \A f \in Format \cup {Unset}, s \in Size : mode(f, Unset, s) \in Mode
  BY Inputs, ModeType
<1>2. \A m \in Mode : <<m>> \in Seq(Mode)
  OBVIOUS
<1>3. <<>> \in Seq(Mode)
  OBVIOUS
<1>4. ASSUME NEW f \in Format \cup {Unset}, NEW s \in Size
      PROVE  <<mode(f, Unset, s)>> \in Seq(Mode)
  BY <1>1, <1>2
<1>5. \A m \in Stream : m = <<>>
            \/ \E f \in Format \cup {Unset}, s \in Size : m = <<mode(f, Unset, s)>>
  BY DEF Stream
<1> QED BY <1>3, <1>4, <1>5, Zenon

LEMMA FormatsOfType ==
  ASSUME NEW m \in Seq(Mode)
  PROVE  formatsOf(m) \in Seq(Text) /\ codecsOf(m) \in Seq(Text)
<1>1. Len(m) \in Nat /\ DOMAIN m = 1..Len(m) /\ \A k \in 1..Len(m) : m[k] \in Mode
  OBVIOUS
<1>2. \A k \in 1..Len(m) : m[k].format \in Text /\ m[k].codec \in Text
  BY <1>1 DEF Mode
<1> QED BY <1>1, <1>2 DEF formatsOf, codecsOf

LEMMA RecommendedFormat ==
  ASSUME NEW found \in Seq(Text)
  PROVE  /\ recommendedPixelFormat(found) \in ToSet(found) \cup {Unset}
         /\ recommendedPixelFormat(found) \in Text
<1> DEFINE I == {i \in 1..Len(Common) : Contains(found, Common[i])}
           i0 == SelectInSeq(Common, LAMBDA f : Contains(found, f))
<1>1. i0 = IF I # {} THEN Min(I) ELSE 0
  BY DEF SelectInSeq
<1>2. I # {} => Min(I) \in I
  <2> SUFFICES ASSUME I # {} PROVE Min(I) \in I
    OBVIOUS
  <2>1. I \subseteq Nat
    OBVIOUS
  <2> HIDE DEF I
  <2>2. PICK x \in I : \A y \in I : x <= y
    BY <2>1, Least
  <2> QED BY <2>2 DEF Min
<1>3. i0 # 0 => Contains(found, Common[i0])
  BY <1>1, <1>2
<1>4. recommendedPixelFormat(found)
        = IF i0 # 0 THEN Common[i0] ELSE IF found # <<>> THEN found[1] ELSE Unset
  BY DEF recommendedPixelFormat
<1> HIDE DEF i0
<1>5. ToSet(found) \subseteq Text /\ Unset \in Text
  BY Inputs DEF ToSet
<1>6. \A f : Contains(found, f) => f \in ToSet(found)
  BY DEF Contains, ToSet
<1>7. found # <<>> => found[1] \in ToSet(found)
  BY DEF ToSet
<1> QED BY <1>3, <1>4, <1>5, <1>6, <1>7

LEMMA ProbeFormatsType ==
  ASSUME NEW format \in Text, NEW detected \in Seq(Text)
  PROVE  avFoundationProbeFormats(format, detected) \in Seq(Text) \ {<<>>}
<1>1. CASE format # Unset
  BY <1>1 DEF avFoundationProbeFormats
<1>2. CASE format = Unset /\ detected = <<>>
  <2>1. <<"nv12", "uyvy422", "yuyv422", "bgr0", "0rgb">> \in Seq(Text) \ {<<>>}
    BY DEF Text
  <2> QED BY <1>2, <2>1 DEF avFoundationProbeFormats
<1>3. CASE format = Unset /\ detected # <<>>
  <2>1. <<recommendedPixelFormat(detected)>> \in Seq(Text) \ {<<>>}
    BY RecommendedFormat
  <2>2. appendAll(<<recommendedPixelFormat(detected)>>, detected) \in Seq(Text) \ {<<>>}
    BY <2>1, AppendAllType
  <2> QED BY <1>3, <2>2 DEF avFoundationProbeFormats
<1> QED BY <1>1, <1>2, <1>3

LEMMA InitType == DetectorInit => TypeInv
<1> SUFFICES ASSUME DetectorInit PROVE TypeInv
  OBVIOUS
<1>1. requested \in [format : Text, codec : Text] /\ at # "probe"
      /\ formats = <<>> /\ codecs = <<>> /\ candidates = <<>> /\ modes = <<>>
  BY Inputs DEF DetectorInit
<1> QED BY <1>1 DEF TypeInv

LEMMA ListFormatsType ==
  ASSUME TypeInv, ListFormats
  PROVE  TypeInv'
<1>1. PICK found \in FormatList : formats' = found \/ formats' = <<"monob">>
  BY DEF ListFormats
<1>2. formats' \in Seq(Text)
  <2>1. <<"monob">> \in Seq(Text)
    BY DEF Text
  <2>2. found \in Seq(Text)
    BY Inputs
  <2> QED BY <1>1, <2>1, <2>2
<1>3. requested.format \in Text
  BY DEF TypeInv
<1>4. candidates' \in Seq(Text) \ {<<>>}
  BY <1>2, <1>3, ProbeFormatsType DEF ListFormats
<1> QED BY <1>2, <1>4 DEF ListFormats, TypeInv

LEMMA ProbeFormatType ==
  ASSUME TypeInv, ProbeFormat
  PROVE  TypeInv'
<1>1. PICK found \in FormatList, sizes \in SizeList, stream \in Stream :
        LET listed == FoldLeft(appendUnique, <<>>,
                        [k \in DOMAIN sizes |-> mode(Head(candidates), Unset, sizes[k])])
            shown == IF listed = <<>> THEN stream ELSE <<>>
        IN  /\ stream = shown
            /\ modes' = listed \o shown
            /\ formats' = appendAll(formats, found \o formatsOf(shown))
  BY DEF ProbeFormat
<1> DEFINE seq == [k \in DOMAIN sizes |-> mode(Head(candidates), Unset, sizes[k])]
           listed == FoldLeft(appendUnique, <<>>, seq)
           shown == IF listed = <<>> THEN stream ELSE <<>>
<1>2. candidates \in Seq(Text) /\ candidates # <<>> /\ formats \in Seq(Text)
      /\ Head(candidates) \in Text
  BY DEF TypeInv, ProbeFormat
<1>3. seq \in Seq(Mode)
  <2>1. \A k \in DOMAIN sizes : mode(Head(candidates), Unset, sizes[k]) \in Mode
    BY <1>2, SizeListType, Inputs, ModeType
  <2>2. Len(sizes) \in Nat /\ DOMAIN sizes = 1..Len(sizes)
    BY SizeListType
  <2> QED BY <2>1, <2>2
<1> HIDE DEF seq
<1>4. listed \in Seq(Mode)
  <2>1. <<>> \in Seq(Mode)
    OBVIOUS
  <2> QED BY <1>3, <2>1, AppendModesType
<1> HIDE DEF listed
<1>5. shown \in Seq(Mode)
  BY StreamType
<1> HIDE DEF shown
<1>6. modes' = listed \o shown /\ formats' = appendAll(formats, found \o formatsOf(shown))
  BY <1>1, Zenon DEF seq, listed, shown
<1>7. modes' \in Seq(Mode)
  BY <1>4, <1>5, <1>6
<1>8. formats' \in Seq(Text)
  <2>1. formatsOf(shown) \in Seq(Text) /\ found \in Seq(Text)
    BY <1>5, FormatsOfType, Inputs
  <2>2. found \o formatsOf(shown) \in Seq(Text)
    BY <2>1
  <2> QED BY <1>2, <1>6, <2>2, AppendAllType
<1>9. candidates' = Tail(candidates) /\ requested' = requested /\ codecs' = codecs
      /\ at' = (IF modes' # <<>> THEN "recommend"
                ELSE IF candidates' # <<>> THEN "probe" ELSE "default")
  BY DEF ProbeFormat
<1>10. candidates' \in Seq(Text) /\ (at' = "probe" => candidates' # <<>>)
  BY <1>2, <1>9
<1> QED BY <1>7, <1>8, <1>9, <1>10 DEF TypeInv

LEMMA ProbeDefaultType ==
  ASSUME TypeInv, ProbeDefault
  PROVE  TypeInv'
<1>1. modes' \in Stream /\ formats' = appendAll(formats, formatsOf(modes')) /\ at' = "recommend"
      /\ UNCHANGED <<requested, codecs, candidates>>
  BY DEF ProbeDefault
<1>2. modes' \in Seq(Mode) /\ formatsOf(modes') \in Seq(Text)
  BY <1>1, StreamType, FormatsOfType
<1>3. formats' \in Seq(Text)
  BY <1>1, <1>2, AppendAllType DEF TypeInv
<1> QED BY <1>1, <1>2, <1>3 DEF TypeInv

LEMMA DirectShowLineType ==
  ASSUME TypeInv, DirectShowLine
  PROVE  TypeInv'
<1>1. PICK input \in {<<f, Unset>> : f \in Format} \cup {<<Unset, c>> : c \in Codec},
           least \in Size, most \in Size :
        /\ formats' = appendUniqueString(formats, input[1])
        /\ codecs' = appendUniqueString(codecs, input[2])
        /\ modes' = FoldLeft(appendUnique, modes,
                       [k \in 1..4 |-> mode(input[1], input[2],
                           [IF k \in {1, 2} THEN least ELSE most
                             EXCEPT !.fps = IF k \in {1, 3} THEN least.fps ELSE most.fps])])
  BY DEF DirectShowLine
<1> DEFINE size(k) == [IF k \in {1, 2} THEN least ELSE most
                        EXCEPT !.fps = IF k \in {1, 3} THEN least.fps ELSE most.fps]
           seq == [k \in 1..4 |-> mode(input[1], input[2], size(k))]
<1>2. input[1] \in Text /\ input[2] \in Text
  BY Inputs
<1>3. least \in [width : Nat, height : Nat, fps : Nat]
      /\ most \in [width : Nat, height : Nat, fps : Nat]
  BY Inputs
<1>4. \A k \in 1..4 : size(k) \in [width : Nat, height : Nat, fps : Nat]
  BY <1>3
<1> HIDE DEF size
<1>5. seq \in Seq(Mode)
  BY <1>2, <1>4, ModeType
<1> HIDE DEF seq
<1>6. modes' \in Seq(Mode)
  <2>1. modes' = FoldLeft(appendUnique, modes, seq)
    BY <1>1, Zenon DEF seq, size
  <2> QED BY <1>5, <2>1, AppendModesType DEF TypeInv
<1>7. formats' \in Seq(Text) /\ codecs' \in Seq(Text)
  BY <1>1, <1>2, AppendUniqueType DEF TypeInv
<1> QED BY <1>6, <1>7 DEF DirectShowLine, TypeInv

LEMMA V4L2LineType ==
  ASSUME TypeInv, V4L2Line
  PROVE  TypeInv'
<1>1. PICK f \in Format, sizes \in SizeList :
        /\ formats' = appendUniqueString(formats, f)
        /\ modes' = FoldLeft(appendUnique, modes,
                       [k \in DOMAIN sizes |-> mode(f, Unset, [sizes[k] EXCEPT !.fps = 0])])
  BY DEF V4L2Line
<1> DEFINE seq == [k \in DOMAIN sizes |-> mode(f, Unset, [sizes[k] EXCEPT !.fps = 0])]
<1>2. f \in Text /\ Unset \in Text
  BY Inputs
<1>3. seq \in Seq(Mode)
  <2>1. Len(sizes) \in Nat /\ DOMAIN sizes = 1..Len(sizes)
        /\ \A k \in DOMAIN sizes : sizes[k] \in [width : Nat, height : Nat, fps : Nat]
    BY SizeListType
  <2>2. \A k \in DOMAIN sizes :
            [sizes[k] EXCEPT !.fps = 0] \in [width : Nat, height : Nat, fps : Nat]
    BY <2>1
  <2>3. \A k \in DOMAIN sizes : mode(f, Unset, [sizes[k] EXCEPT !.fps = 0]) \in Mode
    BY <1>2, <2>2, ModeType
  <2> QED BY <2>1, <2>3
<1> HIDE DEF seq
<1>4. modes' \in Seq(Mode)
  <2>1. modes' = FoldLeft(appendUnique, modes, seq)
    BY <1>1, Zenon DEF seq
  <2> QED BY <1>3, <2>1, AppendModesType DEF TypeInv
<1>5. formats' \in Seq(Text)
  BY <1>1, <1>2, AppendUniqueType DEF TypeInv
<1> QED BY <1>4, <1>5 DEF V4L2Line, TypeInv

LEMMA RecommendType ==
  ASSUME TypeInv, Recommend
  PROVE  TypeInv'
<1>1. formatsOf(modes) \in Seq(Text) /\ codecsOf(modes) \in Seq(Text) /\ <<>> \in Seq(Text)
  BY FormatsOfType DEF TypeInv
<1>2. appendAll(<<>>, formatsOf(modes)) \in Seq(Text)
      /\ appendAll(<<>>, codecsOf(modes)) \in Seq(Text)
  BY <1>1, AppendAllType
<1>3. formats' \in Seq(Text) /\ codecs' \in Seq(Text)
  BY <1>2 DEF Recommend, TypeInv
<1> QED BY <1>3 DEF Recommend, TypeInv

LEMMA NextType == TypeInv /\ [DetectorStep]_detectorVars => TypeInv'
<1> SUFFICES ASSUME TypeInv, [DetectorStep]_detectorVars PROVE TypeInv'
  OBVIOUS
<1>1. CASE EndOfReport
  BY <1>1 DEF EndOfReport, TypeInv
<1>2. CASE GiveUp
  BY <1>2 DEF GiveUp, TypeInv
<1>3. CASE UNCHANGED detectorVars
  BY <1>3 DEF detectorVars, TypeInv
<1> QED BY <1>1, <1>2, <1>3, ListFormatsType, ProbeFormatType, ProbeDefaultType,
           DirectShowLineType, V4L2LineType, RecommendType DEF DetectorStep

----------------------------------------------------------------------------
\* The answer.

\* RecommendationIsBest, of the formats, the codecs and the mode that are answered.
IsBestAnswer(fs, cs, r) ==
    LET inputs == ToSet(fs \o formatsOf(modes)) \cup {Unset}
        coded == ToSet(cs \o codecsOf(modes)) \cup {Unset}
        asked == {f \in inputs : f = requested.format} \ {Unset}
        askedCodec == {c \in coded : c = requested.codec} \ {Unset}
        fits == {i \in DOMAIN modes : /\ asked \subseteq {modes[i].format}
                                      /\ askedCodec \subseteq {modes[i].codec}}
    IN  /\ r.format \in inputs /\ r.codec \in coded
        /\ asked \subseteq {r.format} /\ askedCodec \subseteq {r.codec}
        /\ fits # {} =>
             \E i \in fits :
                /\ r = modes[i]
                /\ \A j \in fits : /\ score(modes[i]) <= score(modes[j])
                                   /\ j < i => score(modes[i]) < score(modes[j])

\* What Recommend looks for: the input the client prefers, if it was reported.
offered(input, known) == IF Contains(known, input) THEN input ELSE Unset

\* It is the set of those in a report that the client asks for.
LEMMA OfferedIsAsked ==
  ASSUME NEW T, Unset \in T, NEW known \in Seq(T), NEW input \in T
  PROVE  LET inputs == ToSet(known) \cup {Unset}
             asked == {x \in inputs : x = input} \ {Unset}
             o == offered(input, known)
         IN  o \in inputs /\ asked = {o} \ {Unset}
<1>1. Contains(known, input) <=> input \in ToSet(known)
  BY DEF Contains, ToSet
<1> QED BY <1>1 DEF offered

LEMMA AnswerIsBest ==
  ASSUME TypeInv, NEW fs \in Seq(Text), NEW cs \in Seq(Text)
  PROVE  IsBestAnswer(fs, cs, recommendCameraMode(
            offered(requested.format, fs \o formatsOf(modes)),
            offered(requested.codec, cs \o codecsOf(modes)), fs, cs))
<1> DEFINE knownF == fs \o formatsOf(modes)
           knownC == cs \o codecsOf(modes)
           f == offered(requested.format, knownF)
           c == offered(requested.codec, knownC)
           r == recommendCameraMode(f, c, fs, cs)
           inputs == ToSet(knownF) \cup {Unset}
           coded == ToSet(knownC) \cup {Unset}
           asked == {x \in inputs : x = requested.format} \ {Unset}
           askedCodec == {x \in coded : x = requested.codec} \ {Unset}
           fits == {i \in DOMAIN modes : /\ asked \subseteq {modes[i].format}
                                         /\ askedCodec \subseteq {modes[i].codec}}
<1>1. /\ modes \in Seq(Mode) /\ formatsOf(modes) \in Seq(Text) /\ codecsOf(modes) \in Seq(Text)
      /\ requested.format \in Text /\ requested.codec \in Text /\ Unset \in Text
  BY Inputs, FormatsOfType DEF TypeInv
<1>2. knownF \in Seq(Text) /\ knownC \in Seq(Text)
  BY <1>1
<1>3. /\ ToSet(fs) \subseteq ToSet(knownF) /\ ToSet(cs) \subseteq ToSet(knownC)
      /\ ToSet(formatsOf(modes)) \subseteq ToSet(knownF)
      /\ ToSet(codecsOf(modes)) \subseteq ToSet(knownC)
  <2>1. ASSUME NEW q \in Seq(Text), NEW p \in Seq(Text)
        PROVE  ToSet(q) \subseteq ToSet(q \o p) /\ ToSet(p) \subseteq ToSet(q \o p)
    <3>1. \A k \in 1..Len(q) : k \in 1..Len(q \o p) /\ (q \o p)[k] = q[k]
      OBVIOUS
    <3>2. \A k \in 1..Len(p) : Len(q) + k \in 1..Len(q \o p) /\ (q \o p)[Len(q) + k] = p[k]
      OBVIOUS
    <3>3. DOMAIN q = 1..Len(q) /\ DOMAIN p = 1..Len(p) /\ DOMAIN (q \o p) = 1..Len(q \o p)
      OBVIOUS
    <3> QED BY <3>1, <3>2, <3>3 DEF ToSet
  <2> QED BY <1>1, <2>1
<1> HIDE DEF knownF, knownC
<1>4. f \in inputs /\ asked = {f} \ {Unset}
  BY <1>1, <1>2, OfferedIsAsked
<1>5. c \in coded /\ askedCodec = {c} \ {Unset}
  BY <1>1, <1>2, OfferedIsAsked
<1> HIDE DEF f, c, inputs, coded, asked, askedCodec
<1>6. fits = Wanted(f, c)
  BY <1>4, <1>5 DEF Wanted
<1>7. /\ fits = {} => r = Unlisted(f, c, fs, cs)
      /\ fits # {} => \E i \in fits :
            /\ r = modes[i]
            /\ \A j \in fits : /\ score(modes[i]) <= score(modes[j])
                               /\ j < i => score(modes[i]) < score(modes[j])
  <2>1. \/ Wanted(f, c) = {} /\ r = Unlisted(f, c, fs, cs)
        \/ \E i \in Wanted(f, c) :
                /\ r = modes[i]
                /\ \A j \in Wanted(f, c) :
                        /\ score(modes[i]) <= score(modes[j])
                        /\ j < i => score(modes[i]) < score(modes[j])
    BY <1>1, LoopFindsBest
  <2> HIDE DEF fits, r
  <2> QED BY <1>6, <2>1
<1> HIDE DEF r
<1>8. /\ r.format \in inputs /\ r.codec \in coded
      /\ asked \subseteq {r.format} /\ askedCodec \subseteq {r.codec}
  <2>1. CASE fits # {}
    <3>1. PICK i \in fits : r = modes[i]
      BY <1>7, <2>1
    <3>2. i \in DOMAIN modes /\ asked \subseteq {modes[i].format}
          /\ askedCodec \subseteq {modes[i].codec}
      OBVIOUS
    <3>3. modes[i].format \in ToSet(formatsOf(modes))
          /\ modes[i].codec \in ToSet(codecsOf(modes))
      BY <3>2 DEF ToSet, formatsOf, codecsOf
    <3> QED BY <1>3, <3>1, <3>2, <3>3 DEF inputs, coded
  <2>2. CASE fits = {} /\ (f # Unset \/ c # Unset)
    <3>1. r = mode(f, c, NoMode.size)
      BY <1>7, <2>2 DEF Unlisted
    <3>2. r.format = f /\ r.codec = c
      BY <3>1 DEF mode
    <3> QED BY <1>4, <1>5, <3>2
  <2>3. CASE fits = {} /\ f = Unset /\ c = Unset
    <3>1. asked = {} /\ askedCodec = {}
      BY <1>4, <1>5, <2>3
    <3>2. \/ cs # <<>> /\ r = mode(Unset, cs[1], NoMode.size)
          \/ r = mode(recommendedPixelFormat(fs), Unset, NoMode.size)
      BY <1>7, <2>3 DEF Unlisted
    <3>3. \/ cs # <<>> /\ r.format = Unset /\ r.codec = cs[1]
          \/ r.format = recommendedPixelFormat(fs) /\ r.codec = Unset
      BY <3>2 DEF mode
    <3>4. recommendedPixelFormat(fs) \in ToSet(fs) \cup {Unset}
      BY RecommendedFormat
    <3>5. cs # <<>> => cs[1] \in ToSet(cs)
      BY DEF ToSet
    <3> QED BY <1>3, <3>1, <3>3, <3>4, <3>5 DEF inputs, coded
  <2> QED BY <2>1, <2>2, <2>3
<1> HIDE DEF fits
<1>9. IsBestAnswer(fs, cs, r)
  <2> USE DEF fits, asked, askedCodec, inputs, coded, knownF, knownC
  <2> QED BY <1>7, <1>8, Zenon DEF IsBestAnswer
<1> QED BY <1>9 DEF r, f, c, knownF, knownC

LEMMA NextBest ==
  TypeInv /\ RecommendationIsBest /\ [DetectorStep]_detectorVars => RecommendationIsBest'
<1> SUFFICES ASSUME TypeInv, RecommendationIsBest, [DetectorStep]_detectorVars,
                    at' = "answered"
             PROVE  RecommendationIsBest'
  BY DEF RecommendationIsBest
<1>1. CASE Recommend
  <2>1. formats' \in Seq(Text) /\ codecs' \in Seq(Text)
    BY <1>1, RecommendType DEF TypeInv
  <2>2. UNCHANGED <<requested, modes>> /\ recommended' = recommendCameraMode(
            offered(requested.format, formats' \o formatsOf(modes)),
            offered(requested.codec, codecs' \o codecsOf(modes)), formats', codecs')
    BY <1>1, Zenon DEF Recommend, offered
  <2>3. IsBestAnswer(formats', codecs', recommended')
    BY <2>1, <2>2, AnswerIsBest
  <2>4. IsBestAnswer(formats', codecs', recommended') => RecommendationIsBest'
    BY <2>2 DEF IsBestAnswer, RecommendationIsBest, formatsOf, codecsOf, score, better
  <2> QED BY <2>3, <2>4
<1>2. CASE UNCHANGED detectorVars
  BY <1>2 DEF detectorVars, RecommendationIsBest, formatsOf, codecsOf
<1>3. CASE DetectorStep /\ ~Recommend
  BY <1>3 DEF DetectorStep, ListFormats, ProbeFormat, ProbeDefault, DirectShowLine, V4L2Line,
              EndOfReport, GiveUp
<1> QED BY <1>1, <1>2, <1>3

\* Whatever a camera's ffmpeg reports, in however many runs, the recommended mode is one it
\* reported, has the input the client asked for if that was reported, and among the modes
\* with this input is the first of the nearest to 1280x720 at 30 frames a second
\* (cameras.go:162-170, 336-377).
THEOREM BestModeIsRecommended == DetectorSpec => []RecommendationIsBest
<1>1. DetectorInit => TypeInv /\ RecommendationIsBest
  <2>1. DetectorInit => at # "answered"
    BY DEF DetectorInit
  <2> QED BY <2>1, InitType DEF RecommendationIsBest
<1> QED BY <1>1, NextType, NextBest, PTL DEF DetectorSpec
=============================================================================
