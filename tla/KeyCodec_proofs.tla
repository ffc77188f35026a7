---------------------------- MODULE KeyCodec_proofs ---------------------------
(***************************************************************************)
(* Proofs about KeyCodec, for texts of any length over any alphabet and    *)
(* for any limits.  The operators are loops over a text; what a loop       *)
(* computes is shown by induction on the text, and the induction rests on  *)
(* the least number of a set (WFMin), as no lemma with an operator for a   *)
(* parameter can be used.                                                  *)
(***************************************************************************)
EXTENDS KeyCodec, WellFoundedInduction, FiniteSetTheorems, SequenceTheorems, TLAPS

-----------------------------------------------------------------------------
(* Numbers. *)

\* A set of numbers that is not empty has a least one.
LEMMA Least ==
    ASSUME NEW T \in SUBSET Nat, T # {}
    PROVE  \E n \in T : \A m \in T : n <= m
<1> DEFINE R == {ss \in Nat \X Nat : ss[1] < ss[2]}
<1>1. IsWellFoundedOn(R, Nat)
  BY NatLessThanWellFounded DEF OpToRel
<1> HIDE DEF R
<1>2. \E n \in T : \A m \in T : ~(<<m, n>> \in R)
  BY <1>1, WFMin
<1>3. ASSUME NEW n \in T, NEW m \in T, <<m, n>> \notin R PROVE n <= m
  BY <1>3 DEF R
<1> QED BY <1>2, <1>3

\* Induction, on a set of numbers.
LEMMA Induction ==
    ASSUME NEW T, 0 \in T, \A n \in Nat : n \in T => n + 1 \in T
    PROVE  \A n \in Nat : n \in T
<1> SUFFICES ASSUME Nat \ T # {} PROVE FALSE
  OBVIOUS
<1>1. PICK n \in Nat \ T : \A m \in Nat \ T : n <= m
  BY Least
<1>2. n # 0 /\ n - 1 \in Nat /\ n - 1 \notin Nat \ T
  BY <1>1
<1> QED BY <1>2

\* A set of numbers with a bound has a greatest one.
LEMMA Greatest ==
    ASSUME NEW N \in Nat, NEW T \in SUBSET (0..N), T # {}
    PROVE  \E n \in T : \A m \in T : n >= m
<1> DEFINE U == {d \in Nat : N - d \in T}
<1>1. PICK d \in U : \A e \in U : d <= e
  <2>1. PICK n \in T : TRUE
    OBVIOUS
  <2>2. N - n \in U
    BY <2>1
  <2> QED BY <2>2, Least
<1>2. ASSUME NEW m \in T PROVE N - d >= m
  <2>1. N - m \in U
    OBVIOUS
  <2> QED BY <1>1, <2>1
<1> QED BY <1>1, <1>2

-----------------------------------------------------------------------------
(* Loops. *)

\* What f goes through when a loop starts with base and has n rounds.
Runs(f, base, n, step) == f[0] = base /\ \A i \in 1..n : f[i] = step[i][f[i - 1]]

\* A loop that has a step for each round has a value after each.
LEMMA LoopExists ==
    ASSUME NEW D, NEW base \in D, NEW n \in Nat, NEW step \in [1..n -> [D -> D]]
    PROVE  \E f \in [0..n -> D] : Runs(f, base, n, step)
<1> DEFINE Ok(m, f) == f[0] = base /\ \A i \in 1..m : f[i] = step[i][f[i - 1]]
           T == {m \in Nat : m <= n => \E f \in [0..m -> D] : Ok(m, f)}
<1>1. 0 \in T
  <2>1. [i \in 0..0 |-> base] \in [0..0 -> D] /\ Ok(0, [i \in 0..0 |-> base])
    OBVIOUS
  <2> QED BY <2>1
<1>2. ASSUME NEW m \in Nat, m \in T PROVE m + 1 \in T
  <2> SUFFICES ASSUME m + 1 <= n PROVE \E f \in [0..m + 1 -> D] : Ok(m + 1, f)
    OBVIOUS
  <2>1. PICK f \in [0..m -> D] : Ok(m, f)
    BY <1>2
  <2> DEFINE g == [i \in 0..m + 1 |-> IF i = m + 1 THEN step[m + 1][f[m]] ELSE f[i]]
  <2>2. step[m + 1] \in [D -> D] /\ f[m] \in D
    OBVIOUS
  <2>3. g \in [0..m + 1 -> D]
    BY <2>2
  <2>4. \A i \in 0..m : g[i] = f[i]
    OBVIOUS
  <2>5. g[m + 1] = step[m + 1][g[m]]
    BY <2>4
  <2>6. \A i \in 1..m : i - 1 \in 0..m /\ i \in 0..m
    OBVIOUS
  <2>7. \A i \in 1..m : g[i] = step[i][g[i - 1]]
    BY <2>1, <2>4, <2>6
  <2>8. g[0] = base
    BY <2>1, <2>4
  <2> HIDE DEF g
  <2>9. Ok(m + 1, g)
    BY <2>5, <2>7, <2>8
  <2> QED BY <2>3, <2>9
<1> HIDE DEF T
<1>3. n \in T
  BY <1>1, <1>2, Induction
<1> QED BY <1>3 DEF T, Runs

\* Two loops start alike, and from the same go on to the same.
Alike(f, g, n) == f[0] = g[0] /\ \A i \in 1..n : f[i - 1] = g[i - 1] => f[i] = g[i]

\* Then they go through the same.
LEMMA LoopsAgree ==
    ASSUME NEW n \in Nat, NEW f, NEW g, Alike(f, g, n)
    PROVE  \A m \in 0..n : f[m] = g[m]
<1>0. f[0] = g[0] /\ \A i \in 1..n : f[i - 1] = g[i - 1] => f[i] = g[i]
  BY DEF Alike
<1> DEFINE T == {m \in Nat : m <= n => f[m] = g[m]}
<1>1. 0 \in T
  BY <1>0
<1>2. ASSUME NEW m \in Nat, m \in T PROVE m + 1 \in T
  <2> SUFFICES ASSUME m + 1 <= n PROVE f[m + 1] = g[m + 1]
    OBVIOUS
  <2>1. m + 1 \in 1..n /\ (m + 1) - 1 = m /\ f[m] = g[m]
    BY <1>2
  <2> QED BY <1>0, <2>1
<1> HIDE DEF T
<1>3. \A m \in Nat : m \in T
  BY <1>1, <1>2, Induction
<1> QED BY <1>3 DEF T

\* What strings.Split's loop goes through.
LEMMA SplitRounds ==
    ASSUME NEW s \in Seq(Char)
    PROVE  \E f \in [0..Len(s) -> Seq(Seq(Char)) \ {<<>>}] :
               /\ f[0] = << <<>> >>
               /\ \A i \in 1..Len(s) : f[i] = SplitOn(f[i - 1], s[i])
               /\ Split(s) = f[Len(s)]
<1> DEFINE D == Seq(Seq(Char)) \ {<<>>}
           n == Len(s)
           base == << <<>> >>
           step == [i \in 1..n |-> [q \in D |-> SplitOn(q, s[i])]]
           Loop(f) == f = [i \in 0..n |-> IF i = 0 THEN << <<>> >> ELSE SplitOn(f[i - 1], s[i])]
<1>1. base \in D /\ n \in Nat
  OBVIOUS
<1>2. ASSUME NEW q \in D, NEW c \in Char PROVE SplitOn(q, c) \in D
  <2>1. Len(q) \in 1..Len(q) /\ q[Len(q)] \in Seq(Char) /\ Append(q[Len(q)], c) \in Seq(Char)
    OBVIOUS
  <2>2. [q EXCEPT ![Len(q)] = Append(@, c)] \in D
    BY <2>1, ExceptSeq, EmptySeq
  <2>3. Append(q, <<>>) \in D
    <3>1. q \in Seq(Seq(Char)) /\ <<>> \in Seq(Char)
      OBVIOUS
    <3> DEFINE T == Seq(Char)
               e == <<>>
    <3>2. q \in Seq(T) /\ e \in T
      BY <3>1
    <3> HIDE DEF T, e
    <3>3. Append(q, e) \in Seq(T) /\ Append(q, e) # <<>>
      BY <3>2, AppendProperties
    <3> QED BY <3>3 DEF T, e
  <2> QED BY <2>2, <2>3 DEF SplitOn
<1>3. Split(s) = (CHOOSE g : Loop(g))[n]
  BY DEF Split
<1>4. \A i \in 1..n : s[i] \in Char
  OBVIOUS
<1> HIDE DEF D, n, base
<1>5. step \in [1..n -> [D -> D]] /\ \A i \in 1..n : \A q \in D : step[i][q] = SplitOn(q, s[i])
  BY <1>2, <1>4
<1> HIDE DEF step
<1>6. PICK f \in [0..n -> D] : f[0] = base /\ \A i \in 1..n : f[i] = step[i][f[i - 1]]
  <2>1. \E f \in [0..n -> D] : Runs(f, base, n, step)
    BY <1>1, <1>5, LoopExists
  <2> QED BY <2>1 DEF Runs
<1>7. \A i \in 1..n : i - 1 \in 0..n /\ f[i] = SplitOn(f[i - 1], s[i])
  BY <1>1, <1>5, <1>6
<1>8. \A i \in 0..n : f[i] = IF i = 0 THEN << <<>> >> ELSE SplitOn(f[i - 1], s[i])
  BY <1>1, <1>6, <1>7 DEF base
<1>9. Loop(f)
  BY <1>8
<1>10. PICK h : Loop(h) /\ Split(s) = h[n]
  BY <1>3, <1>9
<1>11. h[0] = f[0] /\ \A i \in 1..n : h[i] = SplitOn(h[i - 1], s[i])
  <2>1. \A i \in 0..n : h[i] = IF i = 0 THEN << <<>> >> ELSE SplitOn(h[i - 1], s[i])
    BY <1>10
  <2> QED BY <2>1, <1>1, <1>6 DEF base
<1>12. \A i \in 1..n : h[i - 1] = f[i - 1] => h[i] = f[i]
  BY <1>7, <1>11
<1>13. \A i \in 0..n : h[i] = f[i]
  <2>1. Alike(h, f, n)
    BY <1>11, <1>12 DEF Alike
  <2> QED BY <1>1, <2>1, LoopsAgree
<1>14. f[0] = << <<>> >> /\ Split(s) = f[n]
  BY <1>1, <1>6, <1>10, <1>13 DEF base
<1> QED BY <1>7, <1>14 DEF D, n

\* Splitting a text, character after character.
LEMMA SplitSteps ==
    /\ Split(<<>>) = << <<>> >>
    /\ \A s \in Seq(Char) : Split(s) \in Seq(Seq(Char)) \ {<<>>}
    /\ \A s \in Seq(Char), c \in Char : Split(Append(s, c)) = SplitOn(Split(s), c)
<1>1. Split(<<>>) = << <<>> >>
  <2>1. <<>> \in Seq(Char) /\ Len(<<>>) = 0
    OBVIOUS
  <2> QED BY <2>1, SplitRounds
<1>2. ASSUME NEW s \in Seq(Char) PROVE Split(s) \in Seq(Seq(Char)) \ {<<>>}
  <2>1. Len(s) \in 0..Len(s)
    OBVIOUS
  <2> QED BY <2>1, SplitRounds
<1>3. ASSUME NEW s \in Seq(Char), NEW c \in Char
      PROVE  Split(Append(s, c)) = SplitOn(Split(s), c)
  <2> DEFINE t == Append(s, c)
             n == Len(s)
  <2>1. /\ t \in Seq(Char) /\ Len(t) = n + 1 /\ n \in Nat /\ t[n + 1] = c
        /\ \A i \in 1..n : t[i] = s[i] /\ i \in 1..n + 1
        /\ n + 1 \in 1..n + 1 /\ (n + 1) - 1 = n /\ n \in 0..n
    OBVIOUS
  <2> HIDE DEF t, n
  <2>2. PICK f : /\ f[0] = << <<>> >>
                 /\ \A i \in 1..n : f[i] = SplitOn(f[i - 1], s[i])
                 /\ Split(s) = f[n]
    BY SplitRounds DEF n
  <2>3. PICK g : /\ g[0] = << <<>> >>
                 /\ \A i \in 1..n + 1 : g[i] = SplitOn(g[i - 1], t[i])
                 /\ Split(t) = g[n + 1]
    BY <2>1, SplitRounds
  <2>4. \A i \in 1..n : g[i - 1] = f[i - 1] => g[i] = f[i]
    BY <2>1, <2>2, <2>3
  <2>5. g[n] = f[n]
    <3>1. g[0] = f[0] /\ n \in Nat
      BY <2>1, <2>2, <2>3
    <3>2. Alike(g, f, n)
      BY <2>4, <3>1 DEF Alike
    <3>3. \A m \in 0..n : g[m] = f[m]
      BY <3>1, <3>2, LoopsAgree
    <3> QED BY <2>1, <3>3
  <2>6. g[n + 1] = SplitOn(g[n], c)
    BY <2>1, <2>3
  <2> QED BY <2>2, <2>3, <2>5, <2>6 DEF t
<1> QED BY <1>1, <1>2, <1>3

\* What the loop of FlattenSeq goes through.
LEMMA FlattenRounds ==
    ASSUME NEW S, NEW q \in Seq(Seq(S)), q # <<>>
    PROVE  \E f \in [0..Len(q) -> Seq(S)] :
               /\ f[0] = <<>>
               /\ \A i \in 1..Len(q) : f[i] = f[i - 1] \o q[i]
               /\ Seqs!FlattenSeq(q) = f[Len(q)]
<1> DEFINE D == Seq(S)
           n == Len(q)
           base == <<>>
           step == [i \in 1..n |-> [s \in D |-> s \o q[i]]]
           Loop(f) == f = [i \in 1..n |-> IF i = 1 THEN q[i] ELSE f[i - 1] \o q[i]]
<1>1. base \in D /\ n \in Nat /\ n # 0
  OBVIOUS
<1>2. \A s \in D : \A r \in D : s \o r \in D /\ base \o r = r
  OBVIOUS
<1>3. Seqs!FlattenSeq(q) = (CHOOSE g : Loop(g))[n]
  BY <1>1 DEF Seqs!FlattenSeq
<1>4. \A i \in 1..n : q[i] \in D
  OBVIOUS
<1> HIDE DEF D, n, base
<1>5. /\ step \in [1..n -> [D -> D]]
      /\ \A i \in 1..n : \A s \in D : step[i][s] = s \o q[i]
  BY <1>2, <1>4
<1> HIDE DEF step
<1>6. PICK f \in [0..n -> D] : f[0] = base /\ \A i \in 1..n : f[i] = step[i][f[i - 1]]
  <2>1. base \in D
    BY <1>1
  <2>2. n \in Nat
    BY <1>1
  <2>3. step \in [1..n -> [D -> D]]
    BY <1>5
  <2>4. \E f \in [0..n -> D] : Runs(f, base, n, step)
    BY <2>1, <2>2, <2>3, LoopExists
  <2> QED BY <2>4 DEF Runs
<1>7. \A i \in 1..n : i - 1 \in 0..n /\ f[i] = f[i - 1] \o q[i]
  <2>1. \A i \in 1..n : i - 1 \in 0..n /\ f[i - 1] \in D
    BY <1>1
  <2> QED BY <2>1, <1>5, <1>6
<1> DEFINE e == [i \in 1..n |-> f[i]]
<1>8. \A i \in 1..n : e[i] = IF i = 1 THEN q[i] ELSE e[i - 1] \o q[i]
  <2>1. f[1] = q[1] /\ 1 \in 1..n
    <3>1. 1 \in 1..n /\ 1 - 1 = 0
      BY <1>1
    <3>2. f[1] = f[0] \o q[1] /\ q[1] \in D
      BY <3>1, <1>4, <1>7
    <3> QED BY <3>1, <3>2, <1>2, <1>6
  <2>2. \A i \in 1..n : i # 1 => i - 1 \in 1..n
    BY <1>1
  <2> QED BY <2>1, <2>2, <1>7
<1>9. Loop(e)
  BY <1>8
<1>10. PICK h : Loop(h) /\ Seqs!FlattenSeq(q) = h[n]
  BY <1>3, <1>9
<1> DEFINE hh == [i \in 0..n |-> IF i = 0 THEN base ELSE h[i]]
<1>11. \A i \in 1..n : h[i] = IF i = 1 THEN q[i] ELSE h[i - 1] \o q[i]
  BY <1>10
<1>12. hh[0] = f[0] /\ \A i \in 1..n : hh[i - 1] = f[i - 1] => hh[i] = f[i]
  <2>1. hh[0] = f[0] /\ \A i \in 1..n : hh[i] = h[i]
    BY <1>1, <1>6
  <2>2. ASSUME NEW i \in 1..n, hh[i - 1] = f[i - 1] PROVE hh[i] = f[i]
    <3>1. CASE i = 1
      <4>1. h[1] = q[1] /\ f[1] = q[1]
        BY <3>1, <1>8, <1>11
      <4> QED BY <4>1, <3>1, <2>1
    <3>2. CASE i # 1
      <4>1. i - 1 \in 1..n
        BY <3>2, <1>1
      <4>2. h[i - 1] = f[i - 1]
        BY <4>1, <2>1, <2>2
      <4>3. h[i] = h[i - 1] \o q[i] /\ f[i] = f[i - 1] \o q[i]
        BY <3>2, <1>7, <1>11
      <4> QED BY <4>2, <4>3, <2>1
    <3> QED BY <3>1, <3>2
  <2> QED BY <2>1, <2>2
<1>13. \A i \in 0..n : hh[i] = f[i]
  <2> HIDE DEF hh
  <2>1. Alike(hh, f, n)
    BY <1>12 DEF Alike
  <2> QED BY <1>1, <2>1, LoopsAgree
<1>14. f[0] = <<>> /\ Seqs!FlattenSeq(q) = f[n]
  <2>1. n \in 0..n /\ hh[n] = h[n]
    BY <1>1
  <2>2. h[n] = f[n]
    BY <2>1, <1>13
  <2> QED BY <2>2, <1>6, <1>10 DEF base
<1> QED BY <1>7, <1>14 DEF D, n

\* Putting sequences end to end, one after another.
LEMMA FlattenSteps ==
    ASSUME NEW S
    PROVE  /\ Seqs!FlattenSeq(<<>>) = <<>>
           /\ \A q \in Seq(Seq(S)) : Seqs!FlattenSeq(q) \in Seq(S)
           /\ \A q \in Seq(Seq(S)), e \in Seq(S) :
                  Seqs!FlattenSeq(Append(q, e)) = Seqs!FlattenSeq(q) \o e
<1>1. Seqs!FlattenSeq(<<>>) = <<>>
  BY DEF Seqs!FlattenSeq
<1>2. ASSUME NEW q \in Seq(Seq(S)) PROVE Seqs!FlattenSeq(q) \in Seq(S)
  <2>1. Len(q) \in 0..Len(q) /\ <<>> \in Seq(S)
    OBVIOUS
  <2>2. CASE q # <<>>
    <3>1. PICK f \in [0..Len(q) -> Seq(S)] : Seqs!FlattenSeq(q) = f[Len(q)]
      BY <2>2, FlattenRounds
    <3> QED BY <2>1, <3>1
  <2> QED BY <1>1, <2>1, <2>2
<1>3. ASSUME NEW q \in Seq(Seq(S)), NEW e \in Seq(S)
      PROVE  Seqs!FlattenSeq(Append(q, e)) = Seqs!FlattenSeq(q) \o e
  <2> DEFINE r == Append(q, e)
             n == Len(q)
  <2>1. /\ r \in Seq(Seq(S)) /\ r # <<>> /\ Len(r) = n + 1 /\ n \in Nat /\ r[n + 1] = e
        /\ \A i \in 1..n : r[i] = q[i] /\ i \in 1..n + 1
        /\ n + 1 \in 1..n + 1 /\ (n + 1) - 1 = n /\ n \in 0..n
        /\ n = 0 => q = <<>>
    OBVIOUS
  <2> HIDE DEF r, n
  <2>2. PICK f : /\ f[0] = <<>>
                 /\ \A i \in 1..n : f[i] = f[i - 1] \o q[i]
                 /\ Seqs!FlattenSeq(q) = f[n]
    <3>1. CASE q = <<>>
      <4> DEFINE b == [i \in 0..0 |-> <<>>]
      <4>1. n = 0 /\ Seqs!FlattenSeq(q) = <<>>
        BY <1>1, <3>1 DEF n
      <4>2. b[0] = <<>> /\ b[n] = <<>> /\ 1..n = {}
        BY <4>1
      <4> HIDE DEF b
      <4> QED BY <4>1, <4>2
    <3>2. CASE q # <<>>
      BY <3>2, FlattenRounds DEF n
    <3> QED BY <3>1, <3>2
  <2>3. PICK g : /\ g[0] = <<>>
                 /\ \A i \in 1..n + 1 : g[i] = g[i - 1] \o r[i]
                 /\ Seqs!FlattenSeq(r) = g[n + 1]
    <3>1. \E g \in [0..Len(r) -> Seq(S)] :
             /\ g[0] = <<>>
             /\ \A i \in 1..Len(r) : g[i] = g[i - 1] \o r[i]
             /\ Seqs!FlattenSeq(r) = g[Len(r)]
      BY <2>1, FlattenRounds
    <3> QED BY <2>1, <3>1
  <2>4. \A i \in 1..n : g[i - 1] = f[i - 1] => g[i] = f[i]
    BY <2>1, <2>2, <2>3
  <2>5. g[n] = f[n]
    <3>1. g[0] = f[0] /\ n \in Nat
      BY <2>1, <2>2, <2>3
    <3>2. Alike(g, f, n)
      BY <2>4, <3>1 DEF Alike
    <3>3. \A m \in 0..n : g[m] = f[m]
      BY <3>1, <3>2, LoopsAgree
    <3> QED BY <2>1, <3>3
  <2>6. g[n + 1] = g[n] \o e
    BY <2>1, <2>3
  <2> QED BY <2>2, <2>3, <2>5, <2>6 DEF r
<1> QED BY <1>1, <1>2, <1>3

\* Induction, on a set of sequences.
LEMMA SeqInduction ==
    ASSUME NEW S, NEW T, <<>> \in T,
           \A s \in Seq(S), c \in S : s \in T => Append(s, c) \in T
    PROVE  \A s \in Seq(S) : s \in T
<1> DEFINE U == {n \in Nat : \A s \in Seq(S) : Len(s) = n => s \in T}
<1>1. 0 \in U
  OBVIOUS
<1>2. ASSUME NEW n \in Nat, n \in U PROVE n + 1 \in U
  <2> SUFFICES ASSUME NEW s \in Seq(S), Len(s) = n + 1 PROVE s \in T
    OBVIOUS
  <2>1. PICK r \in Seq(S), c \in S : s = Append(r, c)
    BY SequenceEmptyOrAppend
  <2>2. Len(r) = n
    BY <2>1
  <2> QED BY <1>2, <2>1, <2>2
<1> HIDE DEF U
<1>3. \A n \in Nat : n \in U
  BY <1>1, <1>2, Induction
<1> QED BY <1>3 DEF U

\* A sequence is one over any set that has all its elements.
LEMMA SeqOver ==
    ASSUME NEW S, NEW s \in Seq(S), NEW T, \A i \in 1..Len(s) : s[i] \in T
    PROVE  s \in Seq(T)
<1>1. s \in [1..Len(s) -> S] /\ Len(s) \in Nat
  OBVIOUS
<1>2. s \in [1..Len(s) -> T]
  BY <1>1
<1> QED BY <1>1, <1>2, SeqDef

\* A sequence that goes on over a set has been over that set.
LEMMA AppendOver ==
    ASSUME NEW S, NEW s \in Seq(S), NEW c \in S, NEW T, Append(s, c) \in Seq(T)
    PROVE  s \in Seq(T) /\ c \in T
<1> DEFINE r == Append(s, c)
<1>1. /\ Len(r) = Len(s) + 1 /\ Len(s) \in Nat /\ r[Len(s) + 1] = c
      /\ \A i \in 1..Len(s) : r[i] = s[i]
  OBVIOUS
<1>2. \A i \in 1..Len(r) : r[i] \in T
  BY ElementOfSeq
<1> HIDE DEF r
<1>3. Len(s) + 1 \in 1..Len(r) /\ \A i \in 1..Len(s) : i \in 1..Len(r)
  BY <1>1
<1>4. c \in T /\ \A i \in 1..Len(s) : s[i] \in T
  BY <1>1, <1>2, <1>3
<1> QED BY <1>4, SeqOver

-----------------------------------------------------------------------------
(* The codecs. *)

\* What a table of escapes must be for its names to be read back.
IsCodec(code) ==
    /\ code \in [DOMAIN code -> Lower \cup Digit]
    /\ "-" \in DOMAIN code /\ DOMAIN code \subseteq Char
    /\ \A c, d \in DOMAIN code : code[c] = code[d] => c = d

\* Both tables are.
LEMMA Codecs == IsCodec(IDCode) /\ IsCodec(VaultCode)
<1>1. IsCodec(IDCode)
  BY CodecAssumption DEF IsCodec, IDCode, Char
<1>2. IsCodec(VaultCode)
  <2> DEFINE M == {"-", "/", "_", "."}
  <2>1. DOMAIN VaultCode = Upper \cup M
    BY DEF VaultCode
  <2>2. /\ VaultCode["-"] = "0" /\ VaultCode["/"] = "1"
        /\ VaultCode["_"] = "2" /\ VaultCode["."] = "3"
    BY DEF VaultCode
  <2>3. \A c \in Upper : c \notin M
    BY CodecAssumption
  <2>4. ASSUME NEW c \in Upper
        PROVE  VaultCode[c] \in Lower /\ Capital[VaultCode[c]] = c
    <3>1. VaultCode[c] = ToLower(c)
      BY <2>3 DEF VaultCode
    <3>2. \E l \in Lower : Capital[l] = c
      BY DEF Upper
    <3> QED BY <3>1, <3>2 DEF ToLower
  <2>5. VaultCode \in [DOMAIN VaultCode -> Lower \cup Digit]
    <3>1. VaultCode = [c \in DOMAIN VaultCode |-> VaultCode[c]]
      BY DEF VaultCode
    <3>2. {"0", "1", "2", "3"} \subseteq Digit
      BY CodecAssumption
    <3>3. ASSUME NEW c \in DOMAIN VaultCode PROVE VaultCode[c] \in Lower \cup Digit
      <4>1. CASE c \in Upper
        BY <2>4, <4>1
      <4>2. CASE c \in M
        BY <2>2, <3>2, <4>2
      <4> QED BY <2>1, <4>1, <4>2
    <3> QED BY ONLY <3>1, <3>3, Zenon
  <2>6. \A l \in Lower : l \notin {"0", "1", "2", "3"}
    BY CodecAssumption
  <2>7. ASSUME NEW c \in DOMAIN VaultCode, NEW d \in DOMAIN VaultCode,
               VaultCode[c] = VaultCode[d]
        PROVE  c = d
    <3>1. CASE c \in M /\ d \in M
      BY <2>2, <2>7, <3>1
    <3>2. CASE c \in Upper /\ d \in Upper
      BY <2>4, <2>7, <3>2
    <3>3. ASSUME NEW m \in M, NEW u \in Upper PROVE VaultCode[m] # VaultCode[u]
      BY <2>2, <2>4, <2>6
    <3> QED BY <2>1, <2>7, <3>1, <3>2, <3>3
  <2>8. DOMAIN VaultCode \subseteq Char
    BY <2>1 DEF Char, Alnum
  <2> QED BY <2>1, <2>5, <2>7, <2>8 DEF IsCodec
<1> QED BY <1>1, <1>2

\* What stands for one character of a key.
Piece(code, c) == IF c \in DOMAIN code THEN <<"-", code[c]>> ELSE <<c>>

\* Escaping a text, character after character.
LEMMA EscapeSteps ==
    ASSUME NEW code, IsCodec(code)
    PROVE  /\ Escape(code, <<>>) = <<>>
           /\ \A c \in Char : Piece(code, c) \in Seq(Char)
           /\ \A s \in Seq(Char) : Escape(code, s) \in Seq(Char)
           /\ \A s \in Seq(Char), c \in Char :
                  Escape(code, Append(s, c)) = Escape(code, s) \o Piece(code, c)
<1> DEFINE pieces(s) == [i \in DOMAIN s |-> Piece(code, s[i])]
<1>1. \A s : Escape(code, s) = Seqs!FlattenSeq(pieces(s))
  BY DEF Escape, Piece
<1>2. ASSUME NEW c \in Char PROVE Piece(code, c) \in Seq(Char)
  <2>1. "-" \in Char /\ (c \in DOMAIN code => code[c] \in Char)
    BY DEF IsCodec, Char, Alnum
  <2> QED BY <2>1 DEF Piece
<1>3. ASSUME NEW s \in Seq(Char) PROVE pieces(s) \in Seq(Seq(Char))
  <2>1. DOMAIN s = 1..Len(s) /\ Len(s) \in Nat /\ \A i \in 1..Len(s) : s[i] \in Char
    OBVIOUS
  <2>2. pieces(s) \in [1..Len(s) -> Seq(Char)]
    BY <1>2, <2>1
  <2> QED BY <2>1, <2>2, SeqDef
<1>4. ASSUME NEW s \in Seq(Char), NEW c \in Char
      PROVE  pieces(Append(s, c)) = Append(pieces(s), Piece(code, c))
  <2> DEFINE n == Len(s)
             t == Append(s, c)
  <2>1. /\ t \in Seq(Char) /\ Len(t) = n + 1 /\ n \in Nat /\ t[n + 1] = c
        /\ \A i \in 1..n : t[i] = s[i]
        /\ DOMAIN s = 1..n /\ DOMAIN t = 1..n + 1
    OBVIOUS
  <2> HIDE DEF t, n
  <2>2. pieces(s) \in Seq(Seq(Char)) /\ pieces(t) \in Seq(Seq(Char)) /\ Piece(code, c) \in Seq(Char)
    BY <1>2, <1>3, <2>1
  <2>3. Len(pieces(s)) = n /\ Len(pieces(t)) = n + 1
    BY <2>1, <2>2
  <2>4. \A i \in 1..n : pieces(s)[i] = Piece(code, s[i]) /\ pieces(t)[i] = pieces(s)[i]
    BY <2>1
  <2>5. pieces(t)[n + 1] = Piece(code, c)
    BY <2>1
  <2> DEFINE q == pieces(s)
             r == pieces(t)
  <2> HIDE DEF q, r
  <2>6. r = Append(q, Piece(code, c))
    BY <2>1, <2>2, <2>3, <2>4, <2>5 DEF q, r
  <2> QED BY <2>6 DEF q, r, t
<1> HIDE DEF pieces
<1>5. pieces(<<>>) = <<>>
  BY DEF pieces
<1>6. Escape(code, <<>>) = <<>>
  BY <1>1, <1>5, FlattenSteps
<1>7. \A s \in Seq(Char) : Escape(code, s) \in Seq(Char)
  BY <1>1, <1>3, FlattenSteps
<1>8. ASSUME NEW s \in Seq(Char), NEW c \in Char
      PROVE  Escape(code, Append(s, c)) = Escape(code, s) \o Piece(code, c)
  <2>1. Seqs!FlattenSeq(Append(pieces(s), Piece(code, c)))
          = Seqs!FlattenSeq(pieces(s)) \o Piece(code, c)
    BY <1>2, <1>3, FlattenSteps
  <2> QED BY <1>1, <1>4, <2>1
<1> QED BY <1>2, <1>6, <1>7, <1>8

\* What the decoders' loop is in: what it has written, and whether it is to escape.
Written == Char \cup {Bad}
Reading == [out : Seq(Written), escaped : BOOLEAN]
Unread  == [out |-> <<>>, escaped |-> FALSE]

\* One character on, the loop is in such a state again.
LEMMA DecodeOnType ==
    ASSUME NEW code, IsCodec(code), NEW was \in Reading, NEW c \in Char
    PROVE  DecodeOn(code, was, c) \in Reading
<1>1. Meaning(code, c) \in Written
  BY DEF Meaning, IsCodec, Written
<1>2. c \in Written /\ was.out \in Seq(Written)
  BY DEF Written, Reading
<1>3. Append(was.out, c) \in Seq(Written) /\ Append(was.out, Meaning(code, c)) \in Seq(Written)
  BY <1>1, <1>2
<1> QED BY <1>2, <1>3 DEF DecodeOn, Reading

\* What the loop of the decoders goes through.
LEMMA ReadRounds ==
    ASSUME NEW code, IsCodec(code), NEW s \in Seq(Char)
    PROVE  \E f \in [0..Len(s) -> Reading] :
               /\ f[0] = Unread
               /\ \A i \in 1..Len(s) : f[i] = DecodeOn(code, f[i - 1], s[i])
               /\ Read(code, s) = f[Len(s)]
<1> DEFINE n == Len(s)
           step == [i \in 1..n |-> [q \in Reading |-> DecodeOn(code, q, s[i])]]
           Loop(f) == f = [i \in 0..n |-> IF i = 0 THEN Unread ELSE DecodeOn(code, f[i - 1], s[i])]
<1>1. Unread \in Reading /\ n \in Nat
  BY DEF Unread, Reading
<1>2. Read(code, s) = (CHOOSE g : Loop(g))[n]
  BY DEF Read, Unread
<1>3. \A i \in 1..n : s[i] \in Char
  OBVIOUS
<1> HIDE DEF n
<1>4. /\ step \in [1..n -> [Reading -> Reading]]
      /\ \A i \in 1..n : \A q \in Reading : step[i][q] = DecodeOn(code, q, s[i])
  BY <1>3, DecodeOnType
<1> HIDE DEF step
<1>5. PICK f \in [0..n -> Reading] :
          f[0] = Unread /\ \A i \in 1..n : f[i] = step[i][f[i - 1]]
  <2>1. \E f \in [0..n -> Reading] : Runs(f, Unread, n, step)
    BY <1>1, <1>4, LoopExists
  <2> QED BY <2>1 DEF Runs
<1>6. \A i \in 1..n : i - 1 \in 0..n /\ f[i] = DecodeOn(code, f[i - 1], s[i])
  <2>1. \A i \in 1..n : i - 1 \in 0..n /\ f[i - 1] \in Reading
    BY <1>1
  <2> QED BY <2>1, <1>4, <1>5
<1>7. \A i \in 0..n : f[i] = IF i = 0 THEN Unread ELSE DecodeOn(code, f[i - 1], s[i])
  BY <1>1, <1>5, <1>6
<1>8. Loop(f)
  BY <1>7
<1>9. PICK h : Loop(h) /\ Read(code, s) = h[n]
  BY <1>2, <1>8
<1>10. h[0] = f[0] /\ \A i \in 1..n : h[i] = DecodeOn(code, h[i - 1], s[i])
  <2>1. \A i \in 0..n : h[i] = IF i = 0 THEN Unread ELSE DecodeOn(code, h[i - 1], s[i])
    BY <1>9
  <2> QED BY <2>1, <1>1, <1>5
<1>11. \A i \in 1..n : h[i - 1] = f[i - 1] => h[i] = f[i]
  BY <1>6, <1>10
<1>12. \A i \in 0..n : h[i] = f[i]
  <2>1. Alike(h, f, n)
    BY <1>10, <1>11 DEF Alike
  <2> QED BY <1>1, <2>1, LoopsAgree
<1>13. Read(code, s) = f[n]
  BY <1>1, <1>9, <1>12
<1> QED BY <1>5, <1>6, <1>13 DEF n

\* Decoding a name, character after character.
LEMMA ReadSteps ==
    ASSUME NEW code, IsCodec(code)
    PROVE  /\ Read(code, <<>>) = Unread
           /\ \A s \in Seq(Char) : Read(code, s) \in Reading
           /\ \A s \in Seq(Char), c \in Char :
                  Read(code, Append(s, c)) = DecodeOn(code, Read(code, s), c)
<1>1. Read(code, <<>>) = Unread
  <2> DEFINE e == <<>>
  <2>1. e \in Seq(Char) /\ Len(e) = 0
    OBVIOUS
  <2> HIDE DEF e
  <2>2. PICK f \in [0..Len(e) -> Reading] : f[0] = Unread /\ Read(code, e) = f[Len(e)]
    BY <2>1, ReadRounds
  <2> QED BY <2>1, <2>2 DEF e
<1>2. ASSUME NEW s \in Seq(Char) PROVE Read(code, s) \in Reading
  <2>1. PICK f \in [0..Len(s) -> Reading] : Read(code, s) = f[Len(s)]
    BY ReadRounds
  <2>2. Len(s) \in 0..Len(s)
    OBVIOUS
  <2> QED BY <2>1, <2>2
<1>3. ASSUME NEW s \in Seq(Char), NEW c \in Char
      PROVE  Read(code, Append(s, c)) = DecodeOn(code, Read(code, s), c)
  <2> DEFINE t == Append(s, c)
             n == Len(s)
  <2>1. /\ t \in Seq(Char) /\ Len(t) = n + 1 /\ n \in Nat /\ t[n + 1] = c
        /\ \A i \in 1..n : t[i] = s[i] /\ i \in 1..n + 1
        /\ n + 1 \in 1..n + 1 /\ (n + 1) - 1 = n /\ n \in 0..n
    OBVIOUS
  <2> HIDE DEF t, n
  <2>2. PICK f : /\ f[0] = Unread
                 /\ \A i \in 1..n : f[i] = DecodeOn(code, f[i - 1], s[i])
                 /\ Read(code, s) = f[n]
    BY ReadRounds DEF n
  <2>3. PICK g : /\ g[0] = Unread
                 /\ \A i \in 1..n + 1 : g[i] = DecodeOn(code, g[i - 1], t[i])
                 /\ Read(code, t) = g[n + 1]
    <3>1. \E g \in [0..Len(t) -> Reading] :
             /\ g[0] = Unread
             /\ \A i \in 1..Len(t) : g[i] = DecodeOn(code, g[i - 1], t[i])
             /\ Read(code, t) = g[Len(t)]
      BY <2>1, ReadRounds
    <3> QED BY <2>1, <3>1
  <2>4. \A i \in 1..n : g[i - 1] = f[i - 1] => g[i] = f[i]
    BY <2>1, <2>2, <2>3
  <2>5. g[n] = f[n]
    <3>1. g[0] = f[0] /\ n \in Nat
      BY <2>1, <2>2, <2>3
    <3>2. Alike(g, f, n)
      BY <2>4, <3>1 DEF Alike
    <3>3. \A m \in 0..n : g[m] = f[m]
      BY <3>1, <3>2, LoopsAgree
    <3> QED BY <2>1, <3>3
  <2>6. g[n + 1] = DecodeOn(code, g[n], c)
    BY <2>1, <2>3
  <2> QED BY <2>2, <2>3, <2>5, <2>6 DEF t
<1> QED BY <1>1, <1>2, <1>3

\* Whatever is escaped is read back as it was.
LEMMA ReadEscape ==
    ASSUME NEW code, IsCodec(code)
    PROVE  \A s \in Seq(Char) : Read(code, Escape(code, s)) = [out |-> s, escaped |-> FALSE]
<1> DEFINE T == {s \in Seq(Char) : Read(code, Escape(code, s)) = [out |-> s, escaped |-> FALSE]}
<1>1. <<>> \in T
  BY EscapeSteps, ReadSteps DEF Unread
<1>2. ASSUME NEW s \in Seq(Char), NEW c \in Char, s \in T PROVE Append(s, c) \in T
  <2> DEFINE e == Escape(code, s)
  <2>1. e \in Seq(Char) /\ Read(code, e) = [out |-> s, escaped |-> FALSE]
    BY <1>2, EscapeSteps
  <2>2. Escape(code, Append(s, c)) = e \o Piece(code, c)
    BY EscapeSteps
  <2> HIDE DEF e
  <2>3. CASE c \in DOMAIN code
    <3>1. code[c] \in Char /\ "-" \in Char
      BY <2>3 DEF IsCodec, Char, Alnum
    <3>2. e \o Piece(code, c) = Append(Append(e, "-"), code[c])
      BY <2>1, <2>3, <3>1 DEF Piece
    <3>3. Read(code, Append(e, "-")) = [out |-> s, escaped |-> TRUE]
      BY <2>1, <3>1, ReadSteps DEF DecodeOn
    <3>4. Append(e, "-") \in Seq(Char)
      BY <2>1, <3>1
    <3>5. Read(code, Append(Append(e, "-"), code[c]))
            = [out |-> Append(s, Meaning(code, code[c])), escaped |-> FALSE]
      <4>1. Read(code, Append(Append(e, "-"), code[c]))
              = DecodeOn(code, Read(code, Append(e, "-")), code[c])
        BY <3>1, <3>4, ReadSteps
      <4> DEFINE w == [out |-> s, escaped |-> TRUE]
      <4>2. w.escaped /\ w.out = s
        OBVIOUS
      <4>3. Read(code, Append(Append(e, "-"), code[c])) = DecodeOn(code, w, code[c])
        BY <3>3, <4>1
      <4> HIDE DEF w
      <4> QED BY <4>2, <4>3 DEF DecodeOn
    <3>6. Meaning(code, code[c]) = c
      BY <2>3 DEF Meaning, IsCodec
    <3>7. Read(code, Escape(code, Append(s, c))) = [out |-> Append(s, c), escaped |-> FALSE]
      BY <2>2, <3>2, <3>5, <3>6
    <3> QED BY <3>7
  <2>4. CASE c \notin DOMAIN code
    <3>1. c # "-"
      BY <2>4 DEF IsCodec
    <3>2. e \o Piece(code, c) = Append(e, c)
      BY <2>1, <2>4 DEF Piece
    <3>3. Read(code, Append(e, c)) = [out |-> Append(s, c), escaped |-> FALSE]
      BY <2>1, <3>1, ReadSteps DEF DecodeOn
    <3>4. Read(code, Escape(code, Append(s, c))) = [out |-> Append(s, c), escaped |-> FALSE]
      BY <2>2, <3>2, <3>3
    <3> QED BY <3>4
  <2> QED BY <2>3, <2>4
<1> HIDE DEF T
<1>3. \A s \in Seq(Char) : s \in T
  BY <1>1, <1>2, SeqInduction
<1> QED BY <1>3 DEF T

\* A name is what its decoding is escaped to, unless it has a character that
\* would have been escaped, an escape that means nothing, or half an escape.
LEMMA EscapeRead ==
    ASSUME NEW code, IsCodec(code), NEW s \in Seq(Char),
           \A i \in 1..Len(s) : s[i] \in DOMAIN code => s[i] = "-",
           Read(code, s).out \in Seq(Char)
    PROVE  s = Escape(code, Read(code, s).out)
                 \o (IF Read(code, s).escaped THEN <<"-">> ELSE <<>>)
<1> DEFINE Plain(t) == \A i \in 1..Len(t) : t[i] \in DOMAIN code => t[i] = "-"
           out(t) == Read(code, t).out
           rest(t) == IF Read(code, t).escaped THEN <<"-">> ELSE <<>>
           T == {t \in Seq(Char) :
                    Plain(t) /\ out(t) \in Seq(Char) => t = Escape(code, out(t)) \o rest(t)}
<1>1. <<>> \in T
  BY EscapeSteps, ReadSteps DEF Unread
<1>2. ASSUME NEW t \in Seq(Char), NEW c \in Char, t \in T PROVE Append(t, c) \in T
  <2> DEFINE r == Append(t, c)
             n == Len(t)
  <2>1. /\ r \in Seq(Char) /\ Len(r) = n + 1 /\ n \in Nat /\ r[n + 1] = c
        /\ \A i \in 1..n : r[i] = t[i] /\ i \in 1..n + 1
        /\ n + 1 \in 1..n + 1
    OBVIOUS
  <2> HIDE DEF n
  <2> SUFFICES ASSUME Plain(r), out(r) \in Seq(Char)
               PROVE  r = Escape(code, out(r)) \o rest(r)
    BY <2>1
  <2> DEFINE was == Read(code, t)
  <2>2. Read(code, r) = DecodeOn(code, was, c) /\ was \in Reading
    BY ReadSteps
  <2>3. Plain(t) /\ (c \in DOMAIN code => c = "-")
    BY <2>1
  <2> HIDE DEF r, was
  <2>4. was.out \in Seq(Written) /\ was.escaped \in BOOLEAN
    BY <2>2 DEF Reading
  <2>5. ASSUME was.out \in Seq(Char)
        PROVE  /\ t = Escape(code, was.out) \o (IF was.escaped THEN <<"-">> ELSE <<>>)
               /\ Escape(code, was.out) \in Seq(Char)
    BY <1>2, <2>3, <2>5, EscapeSteps DEF was
  <2>6. CASE was.escaped
    <3> DEFINE m == Meaning(code, c)
    <3>1. out(r) = Append(was.out, m) /\ rest(r) = <<>>
      BY <2>2, <2>6 DEF DecodeOn
    <3>2. m \in Written
      BY DEF Meaning, IsCodec, Written
    <3> HIDE DEF m
    <3>3. was.out \in Seq(Char) /\ m \in Char
      BY <2>4, <3>1, <3>2, AppendOver
    <3>4. m \in DOMAIN code /\ code[m] = c
      BY <3>3, CodecAssumption DEF m, Meaning, Bad
    <3>5. Escape(code, out(r)) = Escape(code, was.out) \o <<"-", c>>
      BY <3>1, <3>3, <3>4, EscapeSteps DEF Piece
    <3>6. t = Escape(code, was.out) \o <<"-">> /\ Escape(code, was.out) \in Seq(Char)
      BY <2>5, <2>6, <3>3
    <3>7. "-" \in Char
      BY DEF IsCodec
    <3>8. r = Escape(code, was.out) \o <<"-", c>>
      BY <3>6, <3>7 DEF r
    <3>9. Escape(code, out(r)) \o <<>> = Escape(code, out(r))
      BY <2>1, <3>5, <3>8
    <3> QED BY <3>1, <3>5, <3>8, <3>9
  <2>7. CASE ~was.escaped /\ c = "-"
    <3>1. out(r) = was.out /\ rest(r) = <<"-">>
      BY <2>2, <2>7 DEF DecodeOn
    <3>2. t = Escape(code, was.out) \o <<>> /\ Escape(code, was.out) \in Seq(Char)
      BY <2>5, <2>7, <3>1
    <3>3. r = Escape(code, was.out) \o <<"-">>
      BY <2>7, <3>2 DEF r
    <3> QED BY <3>1, <3>3
  <2>8. CASE ~was.escaped /\ c # "-"
    <3>1. out(r) = Append(was.out, c) /\ rest(r) = <<>>
      BY <2>2, <2>8 DEF DecodeOn
    <3>2. was.out \in Seq(Char)
      BY <2>4, <3>1, AppendOver DEF Written
    <3>3. c \notin DOMAIN code
      BY <2>3, <2>8
    <3>4. Escape(code, out(r)) = Escape(code, was.out) \o <<c>>
      <4>1. Escape(code, Append(was.out, c)) = Escape(code, was.out) \o Piece(code, c)
        BY <3>2, EscapeSteps
      <4> QED BY <3>1, <3>3, <4>1 DEF Piece
    <3>5. t = Escape(code, was.out) \o <<>> /\ Escape(code, was.out) \in Seq(Char)
      BY <2>5, <2>8, <3>2
    <3>6. r = Escape(code, was.out) \o <<c>>
      BY <3>5 DEF r
    <3>7. Escape(code, out(r)) \o <<>> = Escape(code, out(r))
      BY <2>1, <3>4, <3>6
    <3> QED BY <3>1, <3>4, <3>6, <3>7
  <2> QED BY <2>4, <2>6, <2>7, <2>8
<1> HIDE DEF T
<1>3. s \in T
  BY <1>1, <1>2, SeqInduction
<1> QED BY <1>3 DEF T

\* A name has the characters of its codes and those that need none.
LEMMA EscapeAlphabet ==
    ASSUME NEW code, IsCodec(code)
    PROVE  \A s \in Seq(Char) :
               Escape(code, s) \in Seq({"-"} \cup Lower \cup Digit \cup (Char \ DOMAIN code))
<1> DEFINE A == {"-"} \cup Lower \cup Digit \cup (Char \ DOMAIN code)
           T == {s \in Seq(Char) : Escape(code, s) \in Seq(A)}
<1>1. ASSUME NEW c \in Char PROVE Piece(code, c) \in Seq(A)
  <2>1. CASE c \in DOMAIN code
    <3>1. "-" \in A /\ code[c] \in A
      BY <2>1 DEF IsCodec
    <3> HIDE DEF A
    <3> QED BY <2>1, <3>1 DEF Piece
  <2>2. CASE c \notin DOMAIN code
    <3>1. c \in A
      BY <2>2
    <3> HIDE DEF A
    <3> QED BY <2>2, <3>1 DEF Piece
  <2> QED BY <2>1, <2>2
<1> HIDE DEF A
<1>2. <<>> \in T
  <2>1. Escape(code, <<>>) \in Seq(A) /\ <<>> \in Seq(Char)
    BY EscapeSteps, EmptySeq
  <2> QED BY <2>1
<1>3. ASSUME NEW s \in Seq(Char), NEW c \in Char, s \in T PROVE Append(s, c) \in T
  <2>1. Escape(code, Append(s, c)) = Escape(code, s) \o Piece(code, c)
    BY EscapeSteps
  <2>2. Escape(code, s) \o Piece(code, c) \in Seq(A)
    BY <1>1, <1>3, ConcatProperties
  <2>3. Escape(code, Append(s, c)) \in Seq(A) /\ Append(s, c) \in Seq(Char)
    BY <2>1, <2>2
  <2> QED BY <2>3
<1> HIDE DEF T
<1>4. \A s \in Seq(Char) : s \in T
  BY <1>2, <1>3, SeqInduction
<1> QED BY <1>4 DEF T, A

\* The places of s with a character of set.
Places(s, set) == {i \in DOMAIN s : s[i] \in set}

\* A sequence that goes on has the places it had, and perhaps one more.
LEMMA PlacesAppend ==
    ASSUME NEW S, NEW s \in Seq(S), NEW c \in S, NEW set
    PROVE  /\ IsFiniteSet(Places(s, set)) /\ Cardinality(Places(s, set)) \in Nat
           /\ Cardinality(Places(Append(s, c), set))
                = Cardinality(Places(s, set)) + (IF c \in set THEN 1 ELSE 0)
           /\ Places(Append(s, c), set)
                = IF c \in set THEN Places(s, set) \cup {Len(s) + 1} ELSE Places(s, set)
<1> DEFINE r == Append(s, c)
           n == Len(s)
<1>1. /\ n \in Nat /\ DOMAIN s = 1..n /\ DOMAIN r = 1..n + 1 /\ r[n + 1] = c
      /\ \A i \in 1..n : r[i] = s[i]
  OBVIOUS
<1> HIDE DEF r, n
<1>2. IsFiniteSet(Places(s, set)) /\ Cardinality(Places(s, set)) \in Nat
  <2>1. IsFiniteSet(1..n) /\ Places(s, set) \in SUBSET (1..n)
    BY <1>1, FS_Interval DEF Places
  <2>2. IsFiniteSet(Places(s, set))
    BY <2>1, FS_Subset
  <2> QED BY <2>2, FS_CardinalityType
<1>3. Places(r, set) = IF c \in set THEN Places(s, set) \cup {n + 1} ELSE Places(s, set)
  <2>1. \A i \in 1..n + 1 : i \in 1..n \/ i = n + 1
    BY <1>1
  <2>2. n + 1 \in 1..n + 1 /\ \A i \in 1..n : i \in 1..n + 1
    BY <1>1
  <2> QED BY <1>1, <2>1, <2>2 DEF Places
<1>4. n + 1 \notin Places(s, set)
  BY <1>1 DEF Places
<1>5. Cardinality(Places(r, set)) = Cardinality(Places(s, set)) + (IF c \in set THEN 1 ELSE 0)
  <2>1. Cardinality(Places(s, set) \cup {n + 1}) = Cardinality(Places(s, set)) + 1
    BY <1>2, <1>4, FS_AddElement
  <2>2. CASE c \in set
    BY <1>3, <2>1, <2>2
  <2>3. CASE c \notin set
    BY <1>2, <1>3, <2>3
  <2> QED BY <2>2, <2>3
<1> QED BY <1>2, <1>3, <1>5 DEF r, n

\* A name is as much longer than the text as the text has characters to escape.
LEMMA EscapeLen ==
    ASSUME NEW code, IsCodec(code)
    PROVE  \A s \in Seq(Char) :
               Len(Escape(code, s)) = Len(s) + Cardinality(Places(s, DOMAIN code))
<1> DEFINE E(s) == Places(s, DOMAIN code)
           T == {s \in Seq(Char) : Len(Escape(code, s)) = Len(s) + Cardinality(E(s))}
<1>1. <<>> \in T
  <2>1. E(<<>>) = {}
    BY DEF Places
  <2>2. Cardinality(E(<<>>)) = 0
    BY <2>1, FS_EmptySet
  <2>3. Len(Escape(code, <<>>)) = 0 /\ Len(<<>>) = 0 /\ <<>> \in Seq(Char)
    BY EscapeSteps
  <2> QED BY <2>2, <2>3
<1>2. ASSUME NEW s \in Seq(Char), NEW c \in Char, s \in T PROVE Append(s, c) \in T
  <2>1. Escape(code, Append(s, c)) = Escape(code, s) \o Piece(code, c)
    BY EscapeSteps
  <2>2. Escape(code, s) \in Seq(Char) /\ Piece(code, c) \in Seq(Char)
    BY EscapeSteps
  <2>3. Len(Escape(code, Append(s, c))) = Len(Escape(code, s)) + Len(Piece(code, c))
    BY <2>1, <2>2
  <2>4. Len(Piece(code, c)) = IF c \in DOMAIN code THEN 2 ELSE 1
    BY DEF Piece
  <2>5. /\ Cardinality(E(s)) \in Nat
        /\ Cardinality(E(Append(s, c))) = Cardinality(E(s)) + (IF c \in DOMAIN code THEN 1 ELSE 0)
    BY PlacesAppend
  <2>6. Len(Append(s, c)) = Len(s) + 1 /\ Len(s) \in Nat
    OBVIOUS
  <2>7. Len(Escape(code, s)) = Len(s) + Cardinality(E(s))
    BY <1>2
  <2> HIDE DEF E
  <2>8. Len(Escape(code, Append(s, c))) = Len(Append(s, c)) + Cardinality(E(Append(s, c)))
    BY <2>3, <2>4, <2>5, <2>6, <2>7
  <2> QED BY <2>8
<1> HIDE DEF T
<1>3. \A s \in Seq(Char) : s \in T
  BY <1>1, <1>2, SeqInduction
<1> QED BY <1>3 DEF T

-----------------------------------------------------------------------------
(* Splitting and joining. *)

\* The separators of a text.
Seps(s) == Places(s, {"/"})

\* Its segments, each with a separator before it, end to end.
Led(segs) == Seqs!FlattenSeq([n \in DOMAIN segs |-> <<"/">> \o segs[n]])

\* One segment on.
LEMMA LedSteps ==
    /\ Led(<<>>) = <<>>
    /\ \A q \in Seq(Seq(Char)) : Led(q) \in Seq(Char)
    /\ \A q \in Seq(Seq(Char)), e \in Seq(Char) : Led(Append(q, e)) = Led(q) \o (<<"/">> \o e)
<1> DEFINE pieces(q) == [n \in DOMAIN q |-> <<"/">> \o q[n]]
<1>1. \A q : Led(q) = Seqs!FlattenSeq(pieces(q))
  BY DEF Led
<1>2. ASSUME NEW e \in Seq(Char) PROVE <<"/">> \o e \in Seq(Char)
  <2>1. <<"/">> \in Seq(Char)
    <3>1. "/" \in Char
      BY DEF Char
    <3> QED BY <3>1
  <2> QED BY <2>1, ConcatProperties
<1>3. ASSUME NEW q \in Seq(Seq(Char)) PROVE pieces(q) \in Seq(Seq(Char)) /\ Len(pieces(q)) = Len(q)
  <2>1. DOMAIN q = 1..Len(q) /\ Len(q) \in Nat /\ \A n \in 1..Len(q) : q[n] \in Seq(Char)
    OBVIOUS
  <2>2. pieces(q) \in [1..Len(q) -> Seq(Char)]
    BY <1>2, <2>1
  <2> QED BY <2>1, <2>2, SeqDef
<1>4. ASSUME NEW q \in Seq(Seq(Char)), NEW e \in Seq(Char)
      PROVE  pieces(Append(q, e)) = Append(pieces(q), <<"/">> \o e)
  <2> DEFINE n == Len(q)
             r == Append(q, e)
             l == <<"/">> \o e
  <2>1. /\ r \in Seq(Seq(Char)) /\ Len(r) = n + 1 /\ n \in Nat /\ r[n + 1] = e
        /\ \A i \in 1..n : r[i] = q[i]
        /\ DOMAIN q = 1..n /\ DOMAIN r = 1..n + 1
    OBVIOUS
  <2> HIDE DEF r, n
  <2>2. pieces(q) \in Seq(Seq(Char)) /\ pieces(r) \in Seq(Seq(Char)) /\ l \in Seq(Char)
    BY <1>2, <1>3, <2>1
  <2>3. Len(pieces(q)) = n /\ Len(pieces(r)) = n + 1
    BY <1>3, <2>1 DEF n
  <2>4. \A i \in 1..n : pieces(q)[i] = <<"/">> \o q[i] /\ pieces(r)[i] = pieces(q)[i]
    BY <2>1
  <2>5. pieces(r)[n + 1] = l
    BY <2>1
  <2> DEFINE p == pieces(q)
             o == pieces(r)
  <2> HIDE DEF p, o, l
  <2>6. o = Append(p, l)
    BY <2>1, <2>2, <2>3, <2>4, <2>5 DEF p, o
  <2> QED BY <2>6 DEF p, o, r, l
<1> HIDE DEF pieces
<1>5. pieces(<<>>) = <<>>
  BY DEF pieces
<1>6. Led(<<>>) = <<>>
  BY <1>1, <1>5, FlattenSteps
<1>7. \A q \in Seq(Seq(Char)) : Led(q) \in Seq(Char)
  BY <1>1, <1>3, FlattenSteps
<1>8. ASSUME NEW q \in Seq(Seq(Char)), NEW e \in Seq(Char)
      PROVE  Led(Append(q, e)) = Led(q) \o (<<"/">> \o e)
  <2> DEFINE l == <<"/">> \o e
  <2>1. Seqs!FlattenSeq(Append(pieces(q), l)) = Seqs!FlattenSeq(pieces(q)) \o l
    BY <1>2, <1>3, FlattenSteps
  <2> QED BY <1>1, <1>4, <2>1
<1> QED BY <1>6, <1>7, <1>8

\* What a split goes on with: a segment, or the last of them.
LEMMA SplitLast ==
    ASSUME NEW s \in Seq(Char), NEW c \in Char
    PROVE  \E q \in Seq(Seq(Char)), e \in Seq(Char) :
               /\ Split(s) = Append(q, e)
               /\ Split(Append(s, c)) = IF c = "/" THEN Append(Append(q, e), <<>>)
                                        ELSE Append(q, Append(e, c))
<1>1. Split(s) \in Seq(Seq(Char)) /\ Split(s) # <<>>
  BY SplitSteps
<1>2. PICK q \in Seq(Seq(Char)), e \in Seq(Char) : Split(s) = Append(q, e)
  BY <1>1, SequenceEmptyOrAppend
<1> DEFINE n == Len(q)
           r == Append(q, e)
           x == [r EXCEPT ![n + 1] = Append(e, c)]
           y == Append(q, Append(e, c))
<1>3. Len(r) = n + 1 /\ r \in Seq(Seq(Char)) /\ r[n + 1] = e /\ n \in Nat
  OBVIOUS
<1>4. Append(e, c) \in Seq(Char) /\ n + 1 \in 1..n + 1
  OBVIOUS
<1>5. x \in Seq(Seq(Char)) /\ Len(x) = n + 1
      /\ \A j \in 1..n + 1 : x[j] = IF j = n + 1 THEN Append(e, c) ELSE r[j]
  <2> HIDE DEF r, n
  <2>1. n + 1 \in 1..Len(r)
    BY <1>3, <1>4
  <2> QED BY <1>3, <1>4, <2>1, ExceptSeq
<1>6. y \in Seq(Seq(Char)) /\ Len(y) = n + 1
      /\ y[n + 1] = Append(e, c) /\ \A j \in 1..n : y[j] = q[j] /\ r[j] = q[j]
  BY <1>4, AppendProperties
<1>7. \A j \in 1..n + 1 : x[j] = y[j]
  <2> HIDE DEF x, y, r, n
  <2>1. \A j \in 1..n + 1 : j = n + 1 \/ j \in 1..n
    BY <1>3
  <2> QED BY <1>5, <1>6, <2>1
<1>8. x = y
  <2> HIDE DEF x, y
  <2> QED BY <1>5, <1>6, <1>7, SeqEqual
<1>9. Split(Append(s, c)) = SplitOn(r, c)
  BY <1>2, SplitSteps
<1>10. SplitOn(r, c) = IF c = "/" THEN Append(r, <<>>) ELSE x
  BY <1>3 DEF SplitOn
<1> QED BY <1>2, <1>8, <1>9, <1>10

\* A text is its segments with the separators between them.
LEMMA JoinSplit ==
    \A s \in Seq(Char) : Led(Split(s)) = <<"/">> \o s /\ Join(Split(s)) = s
<1> DEFINE T == {s \in Seq(Char) : Led(Split(s)) = <<"/">> \o s}
<1>0. <<"/">> \in Seq(Char) /\ <<>> \in Seq(Char)
  <2>1. "/" \in Char
    BY DEF Char
  <2> QED BY <2>1
<1>1. <<>> \in T
  <2>1. Split(<<>>) = Append(<<>>, <<>>) /\ <<>> \in Seq(Seq(Char)) /\ <<>> \in Seq(Char)
    BY SplitSteps
  <2>2. Led(Append(<<>>, <<>>)) = <<>> \o (<<"/">> \o <<>>)
    BY <2>1, LedSteps
  <2>3. <<>> \o (<<"/">> \o <<>>) = <<"/">> \o <<>>
    OBVIOUS
  <2> QED BY <2>1, <2>2, <2>3
<1>2. ASSUME NEW s \in Seq(Char), NEW c \in Char, s \in T PROVE Append(s, c) \in T
  <2>1. PICK q \in Seq(Seq(Char)), e \in Seq(Char) :
            /\ Split(s) = Append(q, e)
            /\ Split(Append(s, c)) = IF c = "/" THEN Append(Append(q, e), <<>>)
                                     ELSE Append(q, Append(e, c))
    BY SplitLast
  <2>2. Led(Append(q, e)) = <<"/">> \o s
    BY <1>2, <2>1
  <2>3. Led(q) \in Seq(Char) /\ Led(Append(q, e)) = Led(q) \o (<<"/">> \o e)
    BY LedSteps
  <2>4. CASE c = "/"
    <3>1. Led(Append(Append(q, e), <<>>)) = (<<"/">> \o s) \o (<<"/">> \o <<>>)
      <4>1. Append(q, e) \in Seq(Seq(Char))
        OBVIOUS
      <4> QED BY <1>0, <2>2, <4>1, LedSteps
    <3>2. (<<"/">> \o s) \o (<<"/">> \o <<>>) = <<"/">> \o Append(s, "/")
      <4>1. <<"/">> \o <<>> = <<"/">>
        OBVIOUS
      <4>2. (<<"/">> \o s) \o <<"/">> = <<"/">> \o (s \o <<"/">>)
        BY <1>0, ConcatAssociative
      <4>3. s \o <<"/">> = Append(s, "/")
        OBVIOUS
      <4> QED BY <4>1, <4>2, <4>3
    <3>3. Led(Split(Append(s, c))) = <<"/">> \o Append(s, c)
      BY <2>1, <2>4, <3>1, <3>2
    <3>4. Append(s, c) \in Seq(Char)
      OBVIOUS
    <3> QED BY <3>3, <3>4
  <2>5. CASE c # "/"
    <3>1. Led(Append(q, Append(e, c))) = Led(q) \o (<<"/">> \o Append(e, c))
      <4>1. Append(e, c) \in Seq(Char)
        OBVIOUS
      <4> QED BY <4>1, LedSteps
    <3>2. Led(q) \o (<<"/">> \o Append(e, c)) = Append(Led(q) \o (<<"/">> \o e), c)
      <4>1. <<c>> \in Seq(Char) /\ Append(e, c) = e \o <<c>>
        BY AppendIsConcat
      <4>2. <<"/">> \o e \in Seq(Char) /\ <<"/">> \o (e \o <<c>>) = (<<"/">> \o e) \o <<c>>
        BY <1>0, <4>1, ConcatAssociative
      <4>3. Led(q) \o ((<<"/">> \o e) \o <<c>>) = (Led(q) \o (<<"/">> \o e)) \o <<c>>
        BY <2>3, <4>1, <4>2, ConcatAssociative
      <4>4. Led(q) \o (<<"/">> \o e) \in Seq(Char)
        BY <2>3, <4>2
      <4>5. (Led(q) \o (<<"/">> \o e)) \o <<c>> = Append(Led(q) \o (<<"/">> \o e), c)
        BY <4>4, AppendIsConcat
      <4> QED BY <4>1, <4>2, <4>3, <4>5
    <3>3. Append(<<"/">> \o s, c) = <<"/">> \o Append(s, c)
      OBVIOUS
    <3>4. Led(Split(Append(s, c))) = <<"/">> \o Append(s, c)
      BY <2>1, <2>2, <2>3, <2>5, <3>1, <3>2, <3>3
    <3>5. Append(s, c) \in Seq(Char)
      OBVIOUS
    <3> QED BY <3>4, <3>5
  <2> QED BY <2>4, <2>5
<1> HIDE DEF T
<1>3. \A s \in Seq(Char) : s \in T
  BY <1>1, <1>2, SeqInduction
<1>4. \A s \in Seq(Char) : Led(Split(s)) = <<"/">> \o s
  BY <1>3 DEF T
<1>5. ASSUME NEW s \in Seq(Char) PROVE Join(Split(s)) = s
  <2>1. Join(Split(s)) = Tail(<<"/">> \o s)
    BY <1>4 DEF Join, Led
  <2>2. Tail(<<"/">> \o s) = s
    OBVIOUS
  <2> QED BY <2>1, <2>2
<1> QED BY <1>4, <1>5

\* Two places of a text with a segment between them: separators, or one
\* before and one after it.
Ends(s, a, b) ==
    /\ a \in {0} \cup Seps(s) /\ b \in Seps(s) \cup {Len(s) + 1} /\ a < b
    /\ \A i \in a + 1..b - 1 : s[i] # "/"

\* What stands between them.
Between(s, a, b) == SubSeq(s, a + 1, b - 1)

\* The segments that have a separator after them, and the last.
SplitsAt(s) ==
    LET segs == Split(s)
        n    == Len(segs)
    IN  /\ \A m \in 1..n - 1 : \E a, b \in 0..Len(s) :
               Ends(s, a, b) /\ segs[m] = Between(s, a, b)
        /\ \A a, b \in 0..Len(s) : Ends(s, a, b) => \E m \in 1..n - 1 : segs[m] = Between(s, a, b)
        /\ \E a \in 0..Len(s) : Ends(s, a, Len(s) + 1) /\ segs[n] = Between(s, a, Len(s) + 1)

\* What stands between two places stays, and what stands after the last grows.
LEMMA BetweenAppend ==
    ASSUME NEW s \in Seq(Char), NEW c \in Char, NEW a \in 0..Len(s)
    PROVE  /\ \A b \in 0..Len(s) + 1 : Between(Append(s, c), a, b) = Between(s, a, b)
           /\ Between(Append(s, c), a, Len(s) + 2) = Append(Between(s, a, Len(s) + 1), c)
<1> DEFINE r == Append(s, c)
           n == Len(s)
<1>1. /\ n \in Nat /\ r \in Seq(Char) /\ Len(r) = n + 1 /\ r[n + 1] = c
      /\ \A i \in 1..n : r[i] = s[i] /\ s[i] \in Char
  OBVIOUS
<1> HIDE DEF r
<1>2. ASSUME NEW b \in 0..n + 1 PROVE Between(r, a, b) = Between(s, a, b)
  <2> DEFINE u == SubSeq(r, a + 1, b - 1)
             v == SubSeq(s, a + 1, b - 1)
  <2>1. a + 1 \in Int /\ b - 1 \in Int /\ \A i \in a + 1..b - 1 : i \in 1..n
    BY <1>1
  <2>2. \A i \in a + 1..b - 1 : s[i] \in Char /\ r[i] \in Char
    BY <1>1, <2>1
  <2>3. /\ u \in Seq(Char) /\ Len(u) = IF a + 1 <= b - 1 THEN (b - 1) - (a + 1) + 1 ELSE 0
        /\ \A i \in 1..(b - 1) - (a + 1) + 1 : u[i] = r[(a + 1) + i - 1]
    BY <2>1, <2>2, SubSeqProperties
  <2>4. /\ v \in Seq(Char) /\ Len(v) = IF a + 1 <= b - 1 THEN (b - 1) - (a + 1) + 1 ELSE 0
        /\ \A i \in 1..(b - 1) - (a + 1) + 1 : v[i] = s[(a + 1) + i - 1]
    BY <2>1, <2>2, SubSeqProperties
  <2> HIDE DEF u, v
  <2>5. ASSUME NEW i \in 1..Len(u) PROVE u[i] = v[i]
    <3>1. i \in 1..(b - 1) - (a + 1) + 1
      BY <1>1, <2>3
    <3>2. (a + 1) + i - 1 \in 1..n
      BY <1>1, <3>1
    <3> QED BY <1>1, <2>3, <2>4, <3>1, <3>2
  <2>6. u = v
    BY <2>3, <2>4, <2>5, SeqEqual
  <2> QED BY <2>6 DEF u, v, Between
<1>3. Between(r, a, n + 2) = Append(Between(s, a, n + 1), c)
  <2>1. a + 1 \in 1..n + 1 /\ n + 1 \in a + 1..n + 1 /\ (n + 2) - 1 = n + 1 /\ (n + 1) - 1 = n
    BY <1>1
  <2>2. SubSeq(r, a + 1, n + 1) = SubSeq(r, a + 1, n) \o <<r[n + 1]>>
    <3>1. r \in Seq(Char) /\ a + 1 \in 1..Len(r) /\ n + 1 \in a + 1..Len(r) /\ (n + 1) - 1 = n
      BY <1>1, <2>1
    <3> QED BY ONLY <3>1, SubSeqRecursiveSecond
  <2>3. n + 1 \in 0..n + 1
    BY <1>1
  <2>4. SubSeq(r, a + 1, n) = SubSeq(s, a + 1, n)
    BY <1>2, <2>1, <2>3 DEF Between
  <2>5. SubSeq(s, a + 1, n) \in Seq(Char)
    <3>1. \A i \in a + 1..n : s[i] \in Char
      BY <1>1
    <3> QED BY <1>1, <3>1, SubSeqProperties
  <2>6. SubSeq(s, a + 1, n) \o <<c>> = Append(SubSeq(s, a + 1, n), c)
    BY <2>5, AppendIsConcat
  <2> QED BY <1>1, <2>1, <2>2, <2>4, <2>6 DEF Between
<1> QED BY <1>2, <1>3 DEF r

\* The segments of a text are what stands between its separators.
LEMMA SplitPlaces == \A s \in Seq(Char) : SplitsAt(s)
<1> DEFINE T == {s \in Seq(Char) : SplitsAt(s)}
<1>1. <<>> \in T
  <2>1. Split(<<>>) = << <<>> >> /\ Len(<<>>) = 0 /\ Seps(<<>>) = {}
    BY SplitSteps DEF Seps, Places
  <2>2. Len(<< <<>> >>) = 1 /\ << <<>> >>[1] = <<>>
    OBVIOUS
  <2>3. \A a, b \in 0..0 : ~Ends(<<>>, a, b)
    BY <2>1 DEF Ends
  <2>4. Ends(<<>>, 0, 1)
    BY <2>1 DEF Ends
  <2>5. Between(<<>>, 0, 1) = <<>>
    BY SubSeqEmpty DEF Between
  <2>6. SplitsAt(<<>>)
    <3> DEFINE p == Split(<<>>)
    <3>1. Len(p) = 1 /\ p[1] = <<>> /\ 1 - 1 = 0 /\ 0 \in 0..0 /\ 0 + 1 = 1
      BY <2>1, <2>2
    <3>2. 1..0 = {}
      OBVIOUS
    <3> HIDE DEF p
    <3>3. /\ \A m \in 1..Len(p) - 1 : \E a, b \in 0..0 :
                 Ends(<<>>, a, b) /\ p[m] = Between(<<>>, a, b)
          /\ \A a, b \in 0..0 :
                 Ends(<<>>, a, b) => \E m \in 1..Len(p) - 1 : p[m] = Between(<<>>, a, b)
      BY <2>3, <3>1, <3>2
    <3>4. Ends(<<>>, 0, 0 + 1) /\ p[Len(p)] = Between(<<>>, 0, 0 + 1)
      BY <2>4, <2>5, <3>1
    <3> QED BY <2>1, <3>1, <3>3, <3>4 DEF SplitsAt, p
  <2>7. <<>> \in Seq(Char)
    OBVIOUS
  <2> QED BY <2>6, <2>7
<1>2. ASSUME NEW s \in Seq(Char), NEW c \in Char, s \in T PROVE Append(s, c) \in T
  <2> DEFINE r == Append(s, c)
             n == Len(s)
  <2>1. /\ n \in Nat /\ r \in Seq(Char) /\ Len(r) = n + 1 /\ r[n + 1] = c
        /\ \A i \in 1..n : r[i] = s[i]
    OBVIOUS
  <2>2. /\ Seps(s) \subseteq 1..n
        /\ Seps(r) = IF c = "/" THEN Seps(s) \cup {n + 1} ELSE Seps(s)
    <3>1. Seps(s) \subseteq 1..n
      BY DEF Seps, Places
    <3>2. Seps(r) = IF c \in {"/"} THEN Seps(s) \cup {n + 1} ELSE Seps(s)
      BY PlacesAppend DEF Seps
    <3> QED BY <3>1, <3>2
  <2>3. \A a \in 0..n :
            /\ \A b \in 0..n + 1 : Between(r, a, b) = Between(s, a, b)
            /\ Between(r, a, n + 2) = Append(Between(s, a, n + 1), c)
    BY BetweenAppend
  <2>4. PICK q \in Seq(Seq(Char)), e \in Seq(Char) :
            /\ Split(s) = Append(q, e)
            /\ Split(r) = IF c = "/" THEN Append(Append(q, e), <<>>) ELSE Append(q, Append(e, c))
    BY SplitLast
  <2> DEFINE l == Len(q)
  <2>5. /\ l \in Nat /\ Len(Split(s)) = l + 1 /\ Split(s)[l + 1] = e
        /\ \A m \in 1..l : Split(s)[m] = q[m]
    BY <2>4
  <2> HIDE DEF r, n, l
  <2>6. /\ \A m \in 1..l : \E a, b \in 0..n : Ends(s, a, b) /\ q[m] = Between(s, a, b)
        /\ \A a, b \in 0..n : Ends(s, a, b) => \E m \in 1..l : q[m] = Between(s, a, b)
    <3>1. (l + 1) - 1 = l
      BY <2>5
    <3> DEFINE p == Split(s)
    <3>2. /\ \A m \in 1..Len(p) - 1 : \E a, b \in 0..n : Ends(s, a, b) /\ p[m] = Between(s, a, b)
          /\ \A a, b \in 0..n : Ends(s, a, b) => \E m \in 1..Len(p) - 1 : p[m] = Between(s, a, b)
      BY <1>2 DEF SplitsAt, n
    <3>3. Len(p) - 1 = l /\ \A m \in 1..l : p[m] = q[m]
      BY <2>5, <3>1
    <3> HIDE DEF p
    <3>4. /\ \A m \in 1..l : \E a, b \in 0..n : Ends(s, a, b) /\ p[m] = Between(s, a, b)
          /\ \A a, b \in 0..n : Ends(s, a, b) => \E m \in 1..l : p[m] = Between(s, a, b)
      BY <3>2, <3>3
    <3>5. ASSUME NEW m \in 1..l PROVE \E a, b \in 0..n : Ends(s, a, b) /\ q[m] = Between(s, a, b)
      <4>1. p[m] = q[m]
        BY <3>3
      <4>2. PICK a \in 0..n, b \in 0..n : Ends(s, a, b) /\ p[m] = Between(s, a, b)
        BY <3>4
      <4> QED BY <4>1, <4>2
    <3>6. ASSUME NEW a \in 0..n, NEW b \in 0..n, Ends(s, a, b)
          PROVE  \E m \in 1..l : q[m] = Between(s, a, b)
      BY SMTT(20), <3>3, <3>4, <3>6
    <3> QED BY <3>5, <3>6
  <2>7. PICK z \in 0..n : Ends(s, z, n + 1) /\ e = Between(s, z, n + 1)
    BY <1>2, <2>5 DEF SplitsAt, n
  <2>8. \A a, b \in 0..n : Ends(r, a, b) <=> Ends(s, a, b)
    <3>1. ASSUME NEW a \in 0..n, NEW b \in 0..n
          PROVE  Ends(r, a, b) <=> Ends(s, a, b)
      <4>1. /\ a \in {0} \cup Seps(r) <=> a \in {0} \cup Seps(s)
            /\ b \in Seps(r) \cup {Len(r) + 1} <=> b \in Seps(s) \cup {Len(s) + 1}
        BY <2>1, <2>2 DEF n
      <4>2. \A i \in a + 1..b - 1 : i \in 1..n
        BY <2>1
      <4> QED BY <2>1, <4>1, <4>2 DEF Ends
    <3> QED BY <3>1
  <2>9. CASE c # "/"
    <3>1. Split(r) = Append(q, Append(e, c)) /\ Append(e, c) \in Seq(Char) /\ Seps(r) = Seps(s)
      BY <2>2, <2>4, <2>9
    <3>2. /\ Len(Split(r)) = l + 1 /\ Split(r)[l + 1] = Append(e, c)
          /\ \A m \in 1..l : Split(r)[m] = q[m]
      BY <3>1 DEF l
    <3>3. ASSUME NEW m \in 1..l PROVE \E a, b \in 0..n + 1 : Ends(r, a, b) /\ Split(r)[m] = Between(r, a, b)
      <4>1. PICK a \in 0..n, b \in 0..n : Ends(s, a, b) /\ q[m] = Between(s, a, b)
        BY <2>6
      <4>2. a \in 0..n + 1 /\ b \in 0..n + 1
        BY <2>1
      <4> QED BY <4>1, <4>2, <3>2, <2>3, <2>8
    <3>4. ASSUME NEW a \in 0..n + 1, NEW b \in 0..n + 1, Ends(r, a, b)
          PROVE  \E m \in 1..l : Split(r)[m] = Between(r, a, b)
      <4>1. b \in Seps(s) /\ a < b
        BY <2>1, <3>1, <3>4 DEF Ends
      <4>2. a \in 0..n /\ b \in 0..n /\ b \in 0..n + 1
        BY <2>1, <2>2, <4>1
      <4>3. PICK m \in 1..l : q[m] = Between(s, a, b)
        BY <2>6, <2>8, <3>4, <4>2
      <4> QED BY <2>3, <3>2, <4>2, <4>3
    <3>5. Ends(r, z, n + 2) /\ Split(r)[l + 1] = Between(r, z, n + 2) /\ z \in 0..n + 1
      <4>1. \A i \in z + 1..(n + 2) - 1 : r[i] # "/"
        <5>1. \A i \in z + 1..(n + 2) - 1 : i = n + 1 \/ (i \in z + 1..(n + 1) - 1 /\ i \in 1..n)
          BY <2>1
        <5> QED BY <2>1, <2>7, <2>9, <5>1 DEF Ends
      <4>2. Ends(r, z, n + 2)
        BY <2>1, <2>7, <3>1, <4>1 DEF Ends
      <4> QED BY <2>1, <2>3, <2>7, <3>2, <4>2
    <3>6. SplitsAt(r)
      <4>1. Len(r) = n + 1 /\ Len(r) + 1 = n + 2 /\ Len(Split(r)) - 1 = l /\ Len(Split(r)) = l + 1
        BY SMTT(20), <2>1, <2>5, <3>2
      <4> QED BY <3>3, <3>4, <3>5, <4>1 DEF SplitsAt
    <3> QED BY <2>1, <3>6 DEF r
  <2>10. CASE c = "/"
    <3>1. Split(r) = Append(Append(q, e), <<>>) /\ <<>> \in Seq(Char) /\ Seps(r) = Seps(s) \cup {n + 1}
      BY <2>2, <2>4, <2>10
    <3>2. /\ Len(Split(r)) = l + 2 /\ Split(r)[l + 2] = <<>> /\ Split(r)[l + 1] = e
          /\ \A m \in 1..l : Split(r)[m] = q[m]
      <4>1. /\ Append(q, e) \in Seq(Seq(Char)) /\ Len(Append(q, e)) = l + 1
            /\ \A m \in 1..l : Append(q, e)[m] = q[m] /\ m \in 1..l + 1
            /\ Append(q, e)[l + 1] = e /\ l + 1 \in 1..l + 1
        BY <2>5 DEF l
      <4> DEFINE o == Append(q, e)
      <4> HIDE DEF o
      <4>2. /\ Len(Append(o, <<>>)) = Len(o) + 1 /\ Append(o, <<>>)[Len(o) + 1] = <<>>
            /\ \A m \in 1..Len(o) : Append(o, <<>>)[m] = o[m]
        BY <4>1, <3>1, AppendProperties DEF o
      <4>3. Split(r) = Append(o, <<>>) /\ (l + 1) + 1 = l + 2
        BY <2>5, <3>1 DEF o
      <4> QED BY <4>1, <4>2, <4>3 DEF o
    <3>3. Ends(r, z, n + 1) /\ e = Between(r, z, n + 1) /\ z \in 0..n + 1
      <4>1. \A i \in z + 1..(n + 1) - 1 : i \in 1..n
        BY <2>1
      <4>2. z \in {0} \cup Seps(r) /\ n + 1 \in Seps(r) /\ z < n + 1
        BY <2>1, <2>7, <3>1 DEF Ends
      <4>3. Ends(r, z, n + 1)
        BY <2>1, <2>7, <4>1, <4>2 DEF Ends
      <4>4. n + 1 \in 0..n + 1 /\ z \in 0..n + 1
        BY <2>1
      <4> QED BY <2>3, <2>7, <4>3, <4>4
    <3>4. ASSUME NEW m \in 1..l + 1
          PROVE  \E a, b \in 0..n + 1 : Ends(r, a, b) /\ Split(r)[m] = Between(r, a, b)
      <4>1. CASE m = l + 1
        <5>1. n + 1 \in 0..n + 1
          BY <2>1
        <5> QED BY <3>2, <3>3, <4>1, <5>1
      <4>2. CASE m # l + 1
        <5>1. m \in 1..l
          BY SMTT(20), <2>5, <4>2
        <5>2. PICK a \in 0..n, b \in 0..n : Ends(s, a, b) /\ q[m] = Between(s, a, b)
          BY <2>6, <5>1
        <5>3. a \in 0..n + 1 /\ b \in 0..n + 1
          BY <2>1
        <5> QED BY <5>1, <5>2, <5>3, <3>2, <2>3, <2>8
      <4> QED BY <4>1, <4>2
    <3>5. ASSUME NEW a \in 0..n + 1, NEW b \in 0..n + 1, Ends(r, a, b)
          PROVE  \E m \in 1..l + 1 : Split(r)[m] = Between(r, a, b)
      <4>1. CASE b # n + 1
        <5>1. a \in 0..n /\ b \in 0..n
          BY <2>1, <3>5, <4>1 DEF Ends
        <5>2. PICK m \in 1..l : q[m] = Between(s, a, b)
          BY <2>6, <2>8, <3>5, <5>1
        <5>3. m \in 1..l + 1
          BY <2>5
        <5> QED BY <2>3, <3>2, <5>1, <5>2, <5>3
      <4>2. CASE b = n + 1
        <5>1. a \in 0..n /\ a \in {0} \cup Seps(r) /\ \A i \in a + 1..n : r[i] # "/"
          BY <2>1, <3>5, <4>2 DEF Ends
        <5>2. z \in {0} \cup Seps(r) /\ \A i \in z + 1..n : r[i] # "/"
          BY <2>1, <3>3 DEF Ends
        <5>3. \A i \in Seps(r) : r[i] = "/"
          BY DEF Seps, Places
        <5>4. ~(a < z) /\ ~(z < a)
          BY <2>1, <5>1, <5>2, <5>3
        <5>5. a = z
          BY <2>1, <5>1, <5>4
        <5>6. l + 1 \in 1..l + 1
          BY <2>5
        <5> QED BY <3>2, <3>3, <4>2, <5>5, <5>6
      <4> QED BY <4>1, <4>2
    <3>6. Ends(r, n + 1, n + 2) /\ Split(r)[l + 2] = Between(r, n + 1, n + 2) /\ n + 1 \in 0..n + 1
      <4>1. (n + 1) + 1 = n + 2 /\ (n + 2) - 1 = n + 1 /\ n + 1 < n + 2 /\ n + 1 \in 0..n + 1
        BY <2>1
      <4>2. Ends(r, n + 1, n + 2)
        BY <2>1, <3>1, <4>1 DEF Ends
      <4>3. SubSeq(r, n + 2, n + 1) = <<>>
        BY <2>1, <4>1, SubSeqEmpty
      <4> QED BY <3>2, <4>1, <4>2, <4>3 DEF Between
    <3>7. SplitsAt(r)
      <4>1. Len(r) = n + 1 /\ Len(r) + 1 = n + 2 /\ Len(Split(r)) - 1 = l + 1 /\ Len(Split(r)) = l + 2
        BY <2>1, <2>5, <3>2
      <4> QED BY <3>4, <3>5, <3>6, <4>1 DEF SplitsAt
    <3> QED BY <2>1, <3>7 DEF r
  <2> QED BY <2>9, <2>10
<1> HIDE DEF T
<1>3. \A s \in Seq(Char) : s \in T
  BY <1>1, <1>2, SeqInduction
<1> QED BY <1>3 DEF T

\* There is one segment more than there are separators.
LEMMA SplitCount == \A s \in Seq(Char) : Len(Split(s)) = Cardinality(Seps(s)) + 1
<1> DEFINE T == {s \in Seq(Char) : Len(Split(s)) = Cardinality(Seps(s)) + 1}
<1>1. <<>> \in T
  <2>1. Split(<<>>) = << <<>> >> /\ Seps(<<>>) = {}
    BY SplitSteps DEF Seps, Places
  <2>2. Cardinality(Seps(<<>>)) = 0
    BY <2>1, FS_EmptySet
  <2>3. Len(Split(<<>>)) = 1 /\ <<>> \in Seq(Char)
    BY <2>1
  <2> DEFINE e == <<>>
             c == Cardinality(Seps(e))
  <2>4. c = 0 /\ Len(Split(e)) = 1
    BY <2>2, <2>3
  <2> HIDE DEF c
  <2>5. Len(Split(e)) = c + 1
    BY <2>4
  <2> QED BY <2>3, <2>5 DEF c
<1>2. ASSUME NEW s \in Seq(Char), NEW c \in Char, s \in T PROVE Append(s, c) \in T
  <2>1. PICK q \in Seq(Seq(Char)), e \in Seq(Char) :
            /\ Split(s) = Append(q, e)
            /\ Split(Append(s, c)) = IF c = "/" THEN Append(Append(q, e), <<>>)
                                     ELSE Append(q, Append(e, c))
    BY SplitLast
  <2>2. /\ Cardinality(Seps(s)) \in Nat
        /\ Cardinality(Seps(Append(s, c))) = Cardinality(Seps(s)) + (IF c \in {"/"} THEN 1 ELSE 0)
    BY PlacesAppend DEF Seps
  <2>3. /\ Len(Append(q, e)) = Len(q) + 1 /\ Len(q) \in Nat
        /\ Len(Append(Append(q, e), <<>>)) = Len(q) + 2
        /\ Len(Append(q, Append(e, c))) = Len(q) + 1
    OBVIOUS
  <2>4. Len(Split(s)) = Cardinality(Seps(s)) + 1
    BY <1>2
  <2>5. Len(Split(Append(s, c))) = Cardinality(Seps(Append(s, c))) + 1
    BY <2>1, <2>2, <2>3, <2>4
  <2>6. Append(s, c) \in Seq(Char)
    OBVIOUS
  <2> QED BY <2>5, <2>6
<1> HIDE DEF T
<1>3. \A s \in Seq(Char) : s \in T
  BY <1>1, <1>2, SeqInduction
<1> QED BY <1>3 DEF T

-----------------------------------------------------------------------------
(* Reading and writing a key. *)

\* The least and the greatest of a set of numbers with a bound.
LEMMA MinMax ==
    ASSUME NEW N \in Nat, NEW T \in SUBSET (0..N), T # {}
    PROVE  /\ Sets!Min(T) \in T /\ \A y \in T : Sets!Min(T) <= y
           /\ Sets!Max(T) \in T /\ \A y \in T : Sets!Max(T) >= y
<1>1. \E x \in T : \A y \in T : x <= y
  BY Least
<1>2. \E x \in T : \A y \in T : x >= y
  BY Greatest
<1> QED BY <1>1, <1>2 DEF Sets!Min, Sets!Max

\* Neither empty nor with a separator at an end.
Bare(s) == s # <<>> /\ s[1] # "/" /\ s[Len(s)] # "/"

\* Trimmed, a text is bare if anything is left of it.
LEMMA TrimIsBare ==
    ASSUME NEW s \in Seq(Char)
    PROVE  Trim(s) \in Seq(Char) /\ (Trim(s) # <<>> => Bare(Trim(s)))
<1> DEFINE kept == {i \in DOMAIN s : s[i] # "/"}
           n == Len(s)
<1>1. n \in Nat /\ DOMAIN s = 1..n /\ kept \in SUBSET (0..n) /\ \A i \in 1..n : s[i] \in Char
  OBVIOUS
<1>2. CASE kept = {}
  <2>1. Trim(s) = <<>>
    BY <1>2 DEF Trim
  <2> QED BY <2>1
<1>3. CASE kept # {}
  <2> DEFINE a == Sets!Min(kept)
             b == Sets!Max(kept)
             t == SubSeq(s, a, b)
  <2>1. Trim(s) = t
    BY <1>3 DEF Trim
  <2>2. a \in kept /\ b \in kept /\ b >= a
    BY <1>1, <1>3, MinMax
  <2> HIDE DEF a, b
  <2>3. a \in 1..n /\ b \in 1..n /\ a <= b /\ s[a] # "/" /\ s[b] # "/"
    BY <2>2, <1>1
  <2> HIDE DEF kept, n
  <2>4. \A i \in a..b : s[i] \in Char
    BY <1>1, <2>3
  <2>5. /\ t \in Seq(Char) /\ Len(t) = b - a + 1
        /\ \A i \in 1..b - a + 1 : t[i] = s[a + i - 1]
    BY <1>1, <2>3, <2>4, SubSeqProperties
  <2>6. 1 \in 1..b - a + 1 /\ b - a + 1 \in 1..b - a + 1 /\ a + 1 - 1 = a /\ a + (b - a + 1) - 1 = b
    BY <1>1, <2>3
  <2> HIDE DEF t
  <2>7. t # <<>> /\ t[1] = s[a] /\ t[Len(t)] = s[b]
    BY <2>5, <2>6
  <2> QED BY <2>1, <2>3, <2>5, <2>7 DEF Bare
<1> QED BY <1>2, <1>3

\* A bare text is left as it is.
LEMMA TrimKeepsBare ==
    ASSUME NEW s \in Seq(Char), Bare(s)
    PROVE  Trim(s) = s
<1> DEFINE kept == {i \in DOMAIN s : s[i] # "/"}
           n == Len(s)
<1>1. n \in Nat /\ n >= 1 /\ DOMAIN s = 1..n /\ kept \in SUBSET (0..n)
  BY DEF Bare
<1>2. 1 \in kept /\ n \in kept
  BY <1>1 DEF Bare
<1>3. /\ Sets!Min(kept) \in kept /\ Sets!Max(kept) \in kept
      /\ Sets!Min(kept) <= 1 /\ Sets!Max(kept) >= n
  BY <1>1, <1>2, MinMax
<1>4. Sets!Min(kept) = 1 /\ Sets!Max(kept) = n
  <2>1. \A i \in kept : i \in Int /\ 1 <= i /\ i <= n
    BY <1>1
  <2> DEFINE a == Sets!Min(kept)
             b == Sets!Max(kept)
  <2>2. a \in Int /\ b \in Int /\ 1 <= a /\ b <= n /\ a <= 1 /\ b >= n
    BY <1>3, <2>1
  <2> HIDE DEF a, b, n
  <2>3. a = 1 /\ b = n
    BY <1>1, <2>2
  <2> QED BY <2>3 DEF a, b
<1>5. Trim(s) = SubSeq(s, 1, n)
  BY <1>2, <1>4 DEF Trim
<1> QED BY <1>5, SubSeqFull

\* IsSegment, of what stands between two places.
SegmentAt(s, a, b) ==
    /\ b - a - 1 \in 1..MaxSegmentLen
    /\ \A i \in a + 1..b - 1 : s[i] \in Lower \cup Digit \cup {"-"}
    /\ s[a + 1] # "-" /\ s[b - 1] # "-"

\* It is that.
LEMMA SegmentPlaces ==
    ASSUME NEW s \in Seq(Char), NEW a \in 0..Len(s), NEW b \in a + 1..Len(s) + 1
    PROVE  IsSegment(Between(s, a, b)) <=> SegmentAt(s, a, b)
<1> DEFINE n == Len(s)
           t == SubSeq(s, a + 1, b - 1)
           l == b - a - 1
           A == Lower \cup Digit \cup {"-"}
<1>1. n \in Nat /\ \A i \in 1..n : s[i] \in Char
  OBVIOUS
<1> HIDE DEF n
<1>2. a \in 0..n /\ b \in a + 1..n + 1 /\ a \in Nat /\ b \in Nat /\ l \in Nat
  BY <1>1 DEF n
<1>3. \A i \in a + 1..b - 1 : s[i] \in Char
  BY <1>1, <1>2
<1>4. /\ t \in Seq(Char) /\ Len(t) = l /\ DOMAIN t = 1..l
      /\ \A i \in 1..l : t[i] = s[a + i]
  <2>1. /\ t \in Seq(Char) /\ Len(t) = IF a + 1 <= b - 1 THEN (b - 1) - (a + 1) + 1 ELSE 0
        /\ \A i \in 1..(b - 1) - (a + 1) + 1 : t[i] = s[(a + 1) + i - 1]
    BY <1>2, <1>3, SubSeqProperties
  <2>2. (b - 1) - (a + 1) + 1 = l /\ Len(t) = l
    BY <1>2, <2>1
  <2>3. \A i \in 1..l : (a + 1) + i - 1 = a + i
    BY <1>2
  <2> HIDE DEF t, l
  <2> QED BY <2>1, <2>2, <2>3
<1> HIDE DEF t
<1>5. Seqs!ToSet(t) \subseteq A <=> \A i \in a + 1..b - 1 : s[i] \in A
  <2>1. Seqs!ToSet(t) = {t[i] : i \in 1..l}
    BY <1>4 DEF Seqs!ToSet
  <2>2. \A i \in a + 1..b - 1 : i - a \in 1..l /\ a + (i - a) = i
    BY <1>2
  <2>3. \A i \in 1..l : a + i \in a + 1..b - 1
    BY <1>2
  <2> HIDE DEF l, A
  <2>4. ASSUME Seqs!ToSet(t) \subseteq A, NEW i \in a + 1..b - 1 PROVE s[i] \in A
    <3>1. i - a \in 1..l /\ a + (i - a) = i
      BY <2>2
    <3>2. t[i - a] = s[a + (i - a)]
      BY <1>4, <3>1
    <3>3. t[i - a] \in A
      BY <2>1, <2>4, <3>1
    <3> QED BY <3>1, <3>2, <3>3
  <2>5. ASSUME \A i \in a + 1..b - 1 : s[i] \in A, NEW i \in 1..l PROVE t[i] \in A
    BY <1>4, <2>3, <2>5
  <2> QED BY <2>1, <2>4, <2>5
<1>6. l \in 1..MaxSegmentLen => t[1] = s[a + 1] /\ t[Len(t)] = s[b - 1]
  <2>1. l \in 1..MaxSegmentLen => 1 \in 1..l /\ l \in 1..l
    BY <1>2
  <2>2. a + l = b - 1
    BY <1>2
  <2> HIDE DEF l
  <2> QED BY <1>4, <2>1, <2>2
<1>7. IsSegment(t) <=> SegmentAt(s, a, b)
  BY <1>4, <1>5, <1>6 DEF IsSegment, SegmentAt
<1> QED BY <1>7 DEF t, Between

\* What ParseNamespace asks of a text it has trimmed.
IsNamespace(s) ==
    /\ Bare(s)
    /\ Cardinality(Seps(s)) < MaxNamespaceDepth
    /\ \A a \in 0..Len(s), b \in 0..Len(s) + 1 : Ends(s, a, b) => SegmentAt(s, a, b)

\* Every segment of a text is one of a namespace if what stands between its
\* separators is.
LEMMA SegmentsPlaces ==
    ASSUME NEW s \in Seq(Char)
    PROVE  (\A m \in DOMAIN Split(s) : IsSegment(Split(s)[m]))
             <=> \A a \in 0..Len(s), b \in 0..Len(s) + 1 : Ends(s, a, b) => SegmentAt(s, a, b)
<1> DEFINE segs == Split(s)
           l == Len(segs)
           n == Len(s)
<1>1. segs \in Seq(Seq(Char)) /\ l \in Nat /\ l >= 1 /\ DOMAIN segs = 1..l /\ n \in Nat
  BY SplitSteps
<1> HIDE DEF segs, l, n
<1>2. /\ \A m \in 1..l - 1 : \E a, b \in 0..n : Ends(s, a, b) /\ segs[m] = Between(s, a, b)
      /\ \A a, b \in 0..n : Ends(s, a, b) => \E m \in 1..l - 1 : segs[m] = Between(s, a, b)
      /\ \E a \in 0..n : Ends(s, a, n + 1) /\ segs[l] = Between(s, a, n + 1)
  BY SplitPlaces DEF SplitsAt, segs, l, n
<1>3. ASSUME NEW a \in 0..n, NEW b \in 0..n + 1, Ends(s, a, b)
      PROVE  IsSegment(Between(s, a, b)) <=> SegmentAt(s, a, b)
  <2>1. b \in a + 1..n + 1
    BY <1>1, <1>3 DEF Ends
  <2> QED BY <2>1, SegmentPlaces DEF n
<1>4. ASSUME \A m \in DOMAIN segs : IsSegment(segs[m]),
             NEW a \in 0..n, NEW b \in 0..n + 1, Ends(s, a, b)
      PROVE  SegmentAt(s, a, b)
  <2>1. CASE b = n + 1
    <3>1. PICK z \in 0..n : Ends(s, z, n + 1) /\ segs[l] = Between(s, z, n + 1)
      BY <1>2
    <3>2. /\ a \in {0} \cup Seps(s) /\ z \in {0} \cup Seps(s)
          /\ \A i \in a + 1..n : s[i] # "/"
          /\ \A i \in z + 1..n : s[i] # "/"
      BY <1>1, <1>4, <2>1, <3>1 DEF Ends
    <3>3. \A i \in Seps(s) : s[i] = "/" /\ i \in 1..n
      BY DEF Seps, Places, n
    <3>4. ~(a < z) /\ ~(z < a)
      <4>1. ASSUME NEW x \in 0..n, NEW y \in 0..n, x < y, y \in {0} \cup Seps(s),
                   \A i \in x + 1..n : s[i] # "/"
            PROVE  FALSE
        <5>1. y \in x + 1..n /\ y # 0
          BY <1>1, <4>1
        <5>2. s[y] = "/"
          BY <3>3, <4>1, <5>1
        <5> QED BY <4>1, <5>1, <5>2
      <4> QED BY <3>2, <4>1
    <3>5. a = z
      BY <1>1, <3>4
    <3>6. IsSegment(segs[l])
      BY <1>1, <1>4
    <3> QED BY <1>3, <1>4, <2>1, <3>1, <3>5, <3>6
  <2>2. CASE b # n + 1
    <3>1. b \in 0..n
      BY <1>1, <2>2
    <3>2. PICK m \in 1..l - 1 : segs[m] = Between(s, a, b)
      BY <1>2, <1>4, <3>1
    <3>3. m \in DOMAIN segs
      BY <1>1
    <3> QED BY <1>3, <1>4, <3>2, <3>3
  <2> QED BY <2>1, <2>2
<1>5. ASSUME \A a \in 0..n, b \in 0..n + 1 : Ends(s, a, b) => SegmentAt(s, a, b),
             NEW m \in DOMAIN segs
      PROVE  IsSegment(segs[m])
  <2>1. CASE m = l
    <3>1. PICK z \in 0..n : Ends(s, z, n + 1) /\ segs[l] = Between(s, z, n + 1)
      BY <1>2
    <3>2. n + 1 \in 0..n + 1
      BY <1>1
    <3> QED BY <1>3, <1>5, <2>1, <3>1, <3>2
  <2>2. CASE m # l
    <3>1. m \in 1..l - 1
      BY <1>1, <2>2
    <3>2. PICK a \in 0..n, b \in 0..n : Ends(s, a, b) /\ segs[m] = Between(s, a, b)
      BY <1>2, <3>1
    <3>3. b \in 0..n + 1
      BY <1>1
    <3> QED BY <1>3, <1>5, <3>2, <3>3
  <2> QED BY <2>1, <2>2
<1> QED BY <1>4, <1>5 DEF segs, n

\* A parsed namespace or key is none that failed.
LEMMA Parsed ==
    /\ \A x : [segments |-> x] # Invalid
    /\ \A x, y : [ns |-> x, name |-> y] # Invalid
<1>1. \A x : DOMAIN [segments |-> x] = {"segments"}
  OBVIOUS
<1>2. \A x, y : DOMAIN [ns |-> x, name |-> y] = {"ns", "name"}
  OBVIOUS
<1>3. DOMAIN Invalid = {"error"}
  BY DEF Invalid
<1>4. {"segments"} # {"error"} /\ {"ns", "name"} # {"error"}
  OBVIOUS
<1> QED BY <1>1, <1>2, <1>3, <1>4

\* What a bare text is as a namespace.
LEMMA BareNamespace ==
    ASSUME NEW s \in Seq(Char), Bare(s)
    PROVE  ParseNamespace(s) = IF IsNamespace(s) THEN [segments |-> Split(s)] ELSE Invalid
<1>1. Trim(s) = s /\ s # <<>>
  BY TrimKeepsBare DEF Bare
<1>2. Len(Split(s)) <= MaxNamespaceDepth <=> Cardinality(Seps(s)) < MaxNamespaceDepth
  <2>1. Len(Split(s)) = Cardinality(Seps(s)) + 1
    BY SplitCount
  <2>2. Cardinality(Seps(s)) \in Nat
    <3>1. IsFiniteSet(1..Len(s)) /\ Seps(s) \in SUBSET (1..Len(s))
      BY FS_Interval DEF Seps, Places
    <3>2. IsFiniteSet(Seps(s))
      BY <3>1, FS_Subset
    <3> QED BY <3>2, FS_CardinalityType
  <2>3. MaxNamespaceDepth \in Nat
    BY CodecAssumption
  <2> QED BY <2>1, <2>2, <2>3
<1>3. ParseNamespace(s) =
          IF /\ s # <<>>
             /\ Len(Split(s)) <= MaxNamespaceDepth
             /\ \A n \in DOMAIN Split(s) : IsSegment(Split(s)[n])
          THEN [segments |-> Split(s)] ELSE Invalid
  BY <1>1 DEF ParseNamespace
<1> QED BY <1>1, <1>2, <1>3, SegmentsPlaces DEF IsNamespace

\* A text that is a namespace is it trimmed.
LEMMA NamespaceIsTrimmed ==
    ASSUME NEW s \in Seq(Char), ParseNamespace(s) # Invalid
    PROVE  /\ Trim(s) \in Seq(Char) /\ IsNamespace(Trim(s))
           /\ ParseNamespace(s) = [segments |-> Split(Trim(s))]
<1>1. Trim(s) # <<>>
  BY DEF ParseNamespace
<1>2. Trim(s) \in Seq(Char) /\ Bare(Trim(s))
  BY <1>1, TrimIsBare
<1>3. Trim(Trim(s)) = Trim(s)
  BY <1>2, TrimKeepsBare
<1>4. ParseNamespace(s) = ParseNamespace(Trim(s))
  BY <1>3 DEF ParseNamespace
<1> QED BY <1>2, <1>4, BareNamespace

\* A name has no separator, and a character.
LEMMA NameShape ==
    ASSUME NEW name \in Seq(Char), IsName(name)
    PROVE  /\ Len(name) \in 1..MaxNameLen
           /\ \A i \in 1..Len(name) : name[i] \in Alnum \cup {"_", "-", "."} /\ name[i] # "/"
           /\ name[1] \in Alnum
<1>1. "/" \notin Alnum \cup {"_", ".", "-"}
  <2>1. "/" \notin Lower \cup Upper /\ "/" \notin Digit
    BY CodecAssumption
  <2> QED BY <2>1 DEF Alnum
<1>2. \A i \in 1..Len(name) : name[i] \in Alnum \cup {"_", ".", "-"}
  <2>1. DOMAIN name = 1..Len(name)
    OBVIOUS
  <2>2. {name[i] : i \in DOMAIN name} \subseteq Alnum \cup {"_", ".", "-"}
    BY DEF IsName, Seqs!ToSet
  <2> QED BY <2>1, <2>2
<1> QED BY <1>1, <1>2 DEF IsName

\* Where things are in a written key.
LEMMA WrittenShape ==
    ASSUME NEW x \in Seq(Char), NEW name \in Seq(Char)
    PROVE  LET w == x \o <<"/">> \o name
               n == Len(x)
               m == Len(name)
           IN  /\ w \in Seq(Char) /\ Len(w) = n + 1 + m /\ n \in Nat /\ m \in Nat
               /\ \A i \in 1..n : w[i] = x[i]
               /\ w[n + 1] = "/"
               /\ \A i \in 1..m : w[n + 1 + i] = name[i]
               /\ SubSeq(w, 1, n) = x
               /\ SubSeq(w, n + 2, n + 1 + m) = name
<1> DEFINE y == x \o <<"/">>
           w == x \o <<"/">> \o name
           n == Len(x)
           m == Len(name)
<1>1. "/" \in Char
  BY DEF Char
<1>2. /\ y \in Seq(Char) /\ Len(y) = n + 1 /\ n \in Nat /\ m \in Nat
      /\ y[n + 1] = "/" /\ \A i \in 1..n : y[i] = x[i]
  BY <1>1
<1>3. w = y \o name
  OBVIOUS
<1> HIDE DEF y
<1>4. /\ w \in Seq(Char) /\ Len(w) = (n + 1) + m
      /\ \A i \in 1..(n + 1) + m : w[i] = IF i <= n + 1 THEN y[i] ELSE name[i - (n + 1)]
  BY <1>2, <1>3, ConcatProperties
<1> HIDE DEF w, n, m
<1>5. /\ \A i \in 1..n : w[i] = x[i]
      /\ w[n + 1] = "/"
      /\ \A i \in 1..m : w[n + 1 + i] = name[i]
  <2>1. \A i \in 1..n : i \in 1..(n + 1) + m /\ i <= n + 1
    BY <1>2
  <2>2. n + 1 \in 1..(n + 1) + m /\ n + 1 <= n + 1
    BY <1>2
  <2>3. \A i \in 1..m : /\ n + 1 + i \in 1..(n + 1) + m /\ ~(n + 1 + i <= n + 1)
                        /\ (n + 1 + i) - (n + 1) = i
    BY <1>2
  <2> QED BY <1>2, <1>4, <2>1, <2>2, <2>3
<1>6. SubSeq(w, 1, n) = x
  <2> DEFINE u == SubSeq(w, 1, n)
  <2>1. \A i \in 1..n : w[i] \in Char
    BY <1>5 DEF n
  <2>2. /\ u \in Seq(Char) /\ Len(u) = IF 1 <= n THEN n - 1 + 1 ELSE 0
        /\ \A i \in 1..n - 1 + 1 : u[i] = w[1 + i - 1]
    BY <1>2, <2>1, SubSeqProperties
  <2>3. Len(u) = n /\ \A i \in 1..n : i \in 1..n - 1 + 1 /\ 1 + i - 1 = i
    BY <1>2, <2>2
  <2> HIDE DEF u
  <2>4. \A i \in 1..Len(u) : u[i] = x[i]
    BY <1>5, <2>2, <2>3
  <2>5. u = x
    BY <2>2, <2>3, <2>4, SeqEqual DEF n
  <2> QED BY <2>5 DEF u
<1>7. SubSeq(w, n + 2, n + 1 + m) = name
  <2> DEFINE u == SubSeq(w, n + 2, n + 1 + m)
  <2>1. \A i \in n + 2..n + 1 + m : w[i] \in Char
    <3>1. \A i \in n + 2..n + 1 + m : i \in 1..(n + 1) + m
      BY <1>2
    <3>2. \A i \in 1..(n + 1) + m : w[i] \in Char
      BY <1>4, ElementOfSeq
    <3> QED BY <3>1, <3>2
  <2>2. /\ u \in Seq(Char) /\ Len(u) = IF n + 2 <= n + 1 + m THEN (n + 1 + m) - (n + 2) + 1 ELSE 0
        /\ \A i \in 1..(n + 1 + m) - (n + 2) + 1 : u[i] = w[(n + 2) + i - 1]
    BY <1>2, <2>1, SubSeqProperties
  <2>3. /\ Len(u) = m
        /\ \A i \in 1..m : i \in 1..(n + 1 + m) - (n + 2) + 1 /\ (n + 2) + i - 1 = n + 1 + i
    BY <1>2, <2>2
  <2> HIDE DEF u
  <2>4. \A i \in 1..Len(u) : u[i] = name[i]
    BY <1>5, <2>2, <2>3
  <2>5. u = name
    BY <2>2, <2>3, <2>4, SeqEqual DEF m
  <2> QED BY <2>5 DEF u
<1>8. Len(w) = n + 1 + m
  BY <1>2, <1>4
<1> QED BY <1>2, <1>4, <1>5, <1>6, <1>7, <1>8 DEF w, n, m

\* A namespace and a name, written with a separator between them, are read as
\* the key they are.
LEMMA KeyParses ==
    ASSUME NEW x \in Seq(Char), IsNamespace(x), NEW name \in Seq(Char), IsName(name)
    PROVE  LET w == x \o <<"/">> \o name
               k == [ns |-> [segments |-> Split(x)], name |-> name]
           IN  ParseKey(w) = k /\ String(k) = w /\ NewKey(k.ns, k.name) = k /\ k # Invalid
<1> DEFINE w == x \o <<"/">> \o name
           n == Len(x)
           m == Len(name)
           k == [ns |-> [segments |-> Split(x)], name |-> name]
           at == {i \in DOMAIN w : w[i] = "/"}
<1>1. /\ w \in Seq(Char) /\ Len(w) = n + 1 + m /\ n \in Nat /\ m \in Nat
      /\ \A i \in 1..n : w[i] = x[i]
      /\ w[n + 1] = "/"
      /\ \A i \in 1..m : w[n + 1 + i] = name[i]
      /\ SubSeq(w, 1, n) = x
      /\ SubSeq(w, n + 2, n + 1 + m) = name
  BY WrittenShape
<1>2. m >= 1 /\ \A i \in 1..m : name[i] # "/"
  <2>1. m \in 1..MaxNameLen /\ \A i \in 1..m : name[i] # "/"
    BY NameShape
  <2>2. MaxNameLen \in Nat
    BY CodecAssumption
  <2> HIDE DEF m
  <2>3. m >= 1
    BY <2>1, <2>2
  <2> QED BY <2>1, <2>3
<1>3. Bare(x) /\ n >= 1 /\ x[1] # "/"
  BY <1>1 DEF IsNamespace, Bare
<1> HIDE DEF n, m, w
<1>4. Bare(w)
  <2>1. 1 \in 1..n /\ m \in 1..m /\ Len(w) = n + 1 + m
    BY <1>1, <1>2, <1>3
  <2>2. w[1] = x[1] /\ w[Len(w)] = name[m] /\ w # <<>>
    BY <1>1, <2>1
  <2> QED BY <1>2, <1>3, <2>1, <2>2 DEF Bare
<1>5. Trim(w) = w
  BY <1>1, <1>4, TrimKeepsBare
<1>6. at # {} /\ Sets!Max(at) = n + 1
  <2>1. DOMAIN w = 1..n + 1 + m /\ at \in SUBSET (0..n + 1 + m) /\ n + 1 \in at
    BY <1>1
  <2>2. Sets!Max(at) \in at /\ Sets!Max(at) >= n + 1
    <3>1. n + 1 + m \in Nat /\ at # {}
      BY <1>1, <2>1
    <3> HIDE DEF at
    <3> QED BY <2>1, <3>1, MinMax
  <2>3. ASSUME NEW j \in at, j > n + 1 PROVE FALSE
    <3>1. j \in 1..n + 1 + m /\ w[j] = "/"
      BY <2>1
    <3> DEFINE i == j - (n + 1)
    <3>2. i \in 1..m /\ n + 1 + i = j
      <4>1. n \in Nat /\ m \in Nat /\ j \in Nat /\ j <= n + 1 + m /\ j > n + 1
        BY <1>1, <2>3, <3>1
      <4> QED BY <4>1
    <3> HIDE DEF i
    <3>3. w[j] = name[i] /\ name[i] # "/"
      BY <1>1, <1>2, <3>2
    <3> QED BY <3>1, <3>3
  <2> DEFINE j == Sets!Max(at)
  <2>4. j \in Int
    BY <2>1, <2>2
  <2> HIDE DEF j, at
  <2>5. j = n + 1
    BY <1>1, <2>2, <2>3, <2>4 DEF j
  <2> QED BY <2>1, <2>5 DEF j
<1>7. ParseNamespace(x) = [segments |-> Split(x)] /\ [segments |-> Split(x)] # Invalid
  BY <1>3, BareNamespace, Parsed
<1>8. ParseKey(w) = k
  <2>1. n + 1 > 1 /\ ~(n + 1 <= 1) /\ n + 1 # Len(w) /\ (n + 1) - 1 = n /\ (n + 1) + 1 = n + 2
    BY <1>1, <1>2, <1>3
  <2> DEFINE i == IF at = {} THEN 0 ELSE Sets!Max(at)
  <2>2. ParseKey(w) =
          IF i <= 1 \/ i = Len(w) \/ ParseNamespace(SubSeq(w, 1, i - 1)) = Invalid
             \/ ~IsName(SubSeq(w, i + 1, Len(w))) THEN Invalid
          ELSE [ns |-> ParseNamespace(SubSeq(w, 1, i - 1)), name |-> SubSeq(w, i + 1, Len(w))]
    BY <1>5 DEF ParseKey
  <2>3. i = n + 1
    BY <1>6
  <2> HIDE DEF i, at
  <2> QED BY <1>1, <1>7, <2>1, <2>2, <2>3
<1>9. String(k) = w /\ NewKey(k.ns, k.name) = ParseKey(w)
  <2>1. Join(Split(x)) = x
    BY JoinSplit
  <2> QED BY <2>1 DEF String, NewKey, w
<1> QED BY <1>8, <1>9, Parsed DEF w

\* Whatever is read as a key has a namespace and a name.
LEMMA KeyShape ==
    ASSUME NEW s \in Seq(Char), ParseKey(s) # Invalid
    PROVE  \E x, name \in Seq(Char) :
               /\ IsNamespace(x) /\ IsName(name)
               /\ ParseKey(s) = [ns |-> [segments |-> Split(x)], name |-> name]
<1> DEFINE t == Trim(s)
           at == {n \in DOMAIN t : t[n] = "/"}
           i == IF at = {} THEN 0 ELSE Sets!Max(at)
           y == SubSeq(t, 1, i - 1)
           name == SubSeq(t, i + 1, Len(t))
<1>1. t \in Seq(Char) /\ Len(t) \in Nat /\ \A j \in 1..Len(t) : t[j] \in Char
  BY TrimIsBare
<1>2. ParseKey(s) = IF i <= 1 \/ i = Len(t) \/ ParseNamespace(y) = Invalid \/ ~IsName(name)
                    THEN Invalid ELSE [ns |-> ParseNamespace(y), name |-> name]
  BY DEF ParseKey
<1>3. i \in 0..Len(t)
  <2>1. CASE at # {}
    <3>1. at \in SUBSET (0..Len(t))
      BY <1>1
    <3>2. Sets!Max(at) \in at
      BY <1>1, <2>1, <3>1, MinMax
    <3> QED BY <2>1, <3>1, <3>2
  <2>2. CASE at = {}
    BY <1>1, <2>2
  <2> QED BY <2>1, <2>2
<1> HIDE DEF i, at, t
<1>4. y \in Seq(Char) /\ name \in Seq(Char)
  <2>1. /\ \A j \in 1..i - 1 : t[j] \in Char
        /\ \A j \in i + 1..Len(t) : t[j] \in Char
    BY <1>1, <1>3
  <2> QED BY <1>1, <1>3, <2>1, SubSeqProperties
<1> HIDE DEF y, name
<1>5. /\ ParseNamespace(y) # Invalid /\ IsName(name)
      /\ ParseKey(s) = [ns |-> ParseNamespace(y), name |-> name]
  BY <1>2
<1>6. /\ Trim(y) \in Seq(Char) /\ IsNamespace(Trim(y))
      /\ ParseNamespace(y) = [segments |-> Split(Trim(y))]
  BY <1>4, <1>5, NamespaceIsTrimmed
<1> QED BY <1>4, <1>5, <1>6

-----------------------------------------------------------------------------
(* The written form. *)

\* A character that is no separator stands between two places of separators.
LEMMA Around ==
    ASSUME NEW s \in Seq(Char), NEW i \in 1..Len(s), s[i] # "/"
    PROVE  \E a \in 0..Len(s), b \in 0..Len(s) + 1 : a < i /\ i < b /\ Ends(s, a, b)
<1> DEFINE n == Len(s)
           before == {j \in {0} \cup Seps(s) : j < i}
           after == {j \in Seps(s) \cup {n + 1} : j > i}
           a == Sets!Max(before)
           b == Sets!Min(after)
<1>1. n \in Nat /\ n + 1 \in Nat /\ i \in 1..n
  OBVIOUS
<1>2. \A j \in Seps(s) : j \in 1..n
  BY DEF Seps, Places
<1>3. \A j \in 1..n : s[j] = "/" => j \in Seps(s)
  BY DEF Seps, Places
<1> HIDE DEF n
<1>4. /\ before \in SUBSET (0..n) /\ 0 \in before
      /\ after \in SUBSET (0..n + 1) /\ n + 1 \in after
  BY <1>1, <1>2
<1>5. a \in before /\ \A j \in before : a >= j
  <2> HIDE DEF before
  <2> QED BY <1>1, <1>4, MinMax
<1>6. b \in after /\ \A j \in after : b <= j
  <2> HIDE DEF after
  <2> QED BY <1>1, <1>4, MinMax
<1> HIDE DEF a, b
<1>7. /\ a \in 0..n /\ b \in 0..n + 1 /\ a < i /\ i < b
      /\ a \in {0} \cup Seps(s) /\ b \in Seps(s) \cup {n + 1}
  BY <1>4, <1>5, <1>6
<1>8. ASSUME NEW j \in a + 1..b - 1 PROVE s[j] # "/"
  <2>1. j \in 1..n /\ j \in Int /\ a < j /\ j < b
    BY <1>1, <1>7
  <2>2. CASE j = i
    BY <2>2
  <2>3. CASE j < i
    <3>1. j \notin before
      BY <1>1, <1>5, <1>7, <2>1
    <3> QED BY <1>3, <2>1, <2>3, <3>1
  <2>4. CASE j > i
    <3>1. j \notin after
      BY <1>1, <1>6, <1>7, <2>1
    <3> QED BY <1>3, <2>1, <2>4, <3>1
  <2> QED BY <1>1, <2>1, <2>2, <2>3, <2>4
<1>9. Ends(s, a, b)
  <2>1. a < b
    BY <1>1, <1>7
  <2> QED BY <1>7, <1>8, <2>1 DEF Ends, n
<1> QED BY <1>7, <1>9 DEF n

\* The form of a namespace, said without taking it apart.
WellFormedNamespace(s) ==
    /\ Len(s) >= 1 /\ s[1] # "/"
    /\ Cardinality(Seps(s)) < MaxNamespaceDepth
    /\ \A i \in 1..Len(s) :
          /\ s[i] \in Lower \cup Digit \cup {"-", "/"}
          /\ s[i] = "-" => 1 < i /\ i < Len(s) /\ s[i - 1] # "/" /\ s[i + 1] # "/"
          /\ s[i] = "/" => i < Len(s) /\ s[i + 1] # "/"
    /\ \A i \in 1..Len(s) + 1 - MaxSegmentLen :
          \E j \in i..i + MaxSegmentLen : j = Len(s) + 1 \/ (j \in 1..Len(s) /\ s[j] = "/")

\* What is well formed is a namespace: its segments are neither empty nor too long,
\* and no hyphen is at an end of one.
LEMMA WellFormedIsNamespace ==
    ASSUME NEW s \in Seq(Char), WellFormedNamespace(s)
    PROVE  IsNamespace(s)
<1> DEFINE n == Len(s)
           M == MaxSegmentLen
<1>1. n \in Nat /\ M \in Nat /\ n >= 1
  <2>1. MaxSegmentLen \in Nat
    BY CodecAssumption
  <2> QED BY <2>1 DEF WellFormedNamespace
<1>2. /\ \A j \in Seps(s) : j \in 1..n /\ s[j] = "/"
      /\ \A j \in 1..n : s[j] = "/" => j \in Seps(s)
  BY DEF Seps, Places
<1>3. s[1] # "/" /\ Cardinality(Seps(s)) < MaxNamespaceDepth
  BY DEF WellFormedNamespace
<1>4. /\ \A i \in 1..n : s[i] \in Lower \cup Digit \cup {"-", "/"}
      /\ \A i \in 1..n : s[i] = "-" => 1 < i /\ i < n /\ s[i - 1] # "/" /\ s[i + 1] # "/"
      /\ \A i \in 1..n : s[i] = "/" => i < n /\ s[i + 1] # "/"
  BY DEF WellFormedNamespace
<1>5. \A i \in 1..n + 1 - M : \E j \in i..i + M : j = n + 1 \/ (j \in 1..n /\ s[j] = "/")
  BY DEF WellFormedNamespace
<1>6. Bare(s)
  <2>1. n \in 1..n /\ ~(n < n)
    BY <1>1
  <2>2. s[n] # "/"
    BY <1>4, <2>1
  <2>3. s # <<>>
    BY <1>1
  <2> QED BY <1>3, <2>2, <2>3 DEF Bare
<1>7. ASSUME NEW a \in 0..n, NEW b \in 0..n + 1, Ends(s, a, b)
      PROVE  SegmentAt(s, a, b)
  <2>1. /\ a \in {0} \cup Seps(s) /\ b \in Seps(s) \cup {n + 1} /\ a < b
        /\ \A i \in a + 1..b - 1 : s[i] # "/"
    BY <1>7 DEF Ends
  <2> HIDE DEF n, M
  <2>2. a \in Nat /\ b \in Nat /\ a <= n /\ b <= n + 1
    BY <1>1
  <2>3. b # a + 1
    <3> SUFFICES ASSUME b = a + 1 PROVE FALSE
      OBVIOUS
    <3>1. CASE a = 0
      BY <1>1, <1>2, <1>3, <2>1, <3>1
    <3>2. CASE a # 0
      <4>1. a \in 1..n /\ s[a] = "/"
        BY <1>2, <2>1, <3>2
      <4>2. a < n /\ s[a + 1] # "/"
        BY <1>4, <4>1
      <4>3. b # n + 1
        BY <1>1, <2>2, <4>2
      <4> QED BY <1>2, <2>1, <4>2, <4>3
    <3> QED BY <3>1, <3>2
  <2>4. b - a - 1 <= M
    <3> SUFFICES ASSUME b - a - 1 > M PROVE FALSE
      BY <1>1, <2>2
    <3>1. a + 1 \in 1..n + 1 - M
      BY <1>1, <2>2
    <3>2. PICK j \in a + 1..a + 1 + M : j = n + 1 \/ (j \in 1..n /\ s[j] = "/")
      BY <1>5, <3>1
    <3>3. j \in a + 1..b - 1 /\ j # n + 1
      BY <1>1, <2>2, <3>2
    <3> QED BY <2>1, <3>2, <3>3
  <2>5. b - a - 1 \in 1..M
    BY <1>1, <2>1, <2>2, <2>3, <2>4
  <2>6. ASSUME NEW i \in a + 1..b - 1 PROVE s[i] \in Lower \cup Digit \cup {"-"}
    <3>1. i \in 1..n
      BY <1>1, <2>2
    <3> QED BY <1>4, <2>1, <3>1
  <2>7. a + 1 \in 1..n /\ b - 1 \in 1..n /\ (a + 1) - 1 = a /\ (b - 1) + 1 = b
    BY <1>1, <2>2, <2>5
  <2>8. s[a + 1] # "-"
    <3> SUFFICES ASSUME s[a + 1] = "-" PROVE FALSE
      OBVIOUS
    <3>1. 1 < a + 1 /\ s[a] # "/"
      BY <1>4, <2>7
    <3>2. a # 0
      BY <3>1
    <3> QED BY <1>2, <2>1, <3>1, <3>2
  <2>9. s[b - 1] # "-"
    <3> SUFFICES ASSUME s[b - 1] = "-" PROVE FALSE
      OBVIOUS
    <3>1. b - 1 < n /\ s[b] # "/"
      BY <1>4, <2>7
    <3>2. b # n + 1
      BY <1>1, <2>2, <3>1
    <3> QED BY <1>2, <2>1, <3>1, <3>2
  <2> QED BY <2>5, <2>6, <2>8, <2>9 DEF SegmentAt, M
<1> QED BY <1>3, <1>6, <1>7 DEF IsNamespace

\* A namespace is well formed.
LEMMA NamespaceIsWellFormed ==
    ASSUME NEW s \in Seq(Char), IsNamespace(s)
    PROVE  WellFormedNamespace(s)
<1> DEFINE n == Len(s)
           M == MaxSegmentLen
<1>1. n \in Nat /\ M \in Nat
  <2>1. MaxSegmentLen \in Nat
    BY CodecAssumption
  <2> QED BY <2>1
<1>2. s # <<>> /\ s[1] # "/" /\ s[n] # "/" /\ Cardinality(Seps(s)) < MaxNamespaceDepth
  BY DEF IsNamespace, Bare
<1>3. n >= 1
  BY <1>2
<1>4. \A j \in 1..n : s[j] = "/" <=> j \in Seps(s)
  BY DEF Seps, Places
<1>5. \A a \in 0..n, b \in 0..n + 1 : Ends(s, a, b) => SegmentAt(s, a, b)
  BY DEF IsNamespace
<1>6. ASSUME NEW i \in 1..n, s[i] # "/"
      PROVE  \E a \in 0..n, b \in 0..n + 1 :
                /\ a < i /\ i < b /\ b - a - 1 <= M
                /\ b \in Seps(s) \cup {n + 1}
                /\ \A j \in a + 1..b - 1 : s[j] # "/" /\ s[j] \in Lower \cup Digit \cup {"-"}
                /\ s[a + 1] # "-" /\ s[b - 1] # "-"
  <2>1. PICK a \in 0..n, b \in 0..n + 1 : a < i /\ i < b /\ Ends(s, a, b)
    BY <1>6, Around
  <2>2. SegmentAt(s, a, b)
    BY <1>5, <2>1
  <2>3. b - a - 1 <= M
    <3>1. b - a - 1 \in 1..M
      BY <2>2 DEF SegmentAt
    <3> QED BY <1>1, <3>1
  <2>4. \A j \in a + 1..b - 1 : s[j] # "/"
    BY <2>1 DEF Ends
  <2>5. b \in Seps(s) \cup {n + 1}
    BY <2>1 DEF Ends
  <2> QED BY <2>1, <2>2, <2>3, <2>4, <2>5 DEF SegmentAt
<1> HIDE DEF n, M
<1>7. ASSUME NEW i \in 1..n PROVE s[i] \in Lower \cup Digit \cup {"-", "/"}
  <2>1. CASE s[i] # "/"
    <3>1. PICK a \in 0..n, b \in 0..n + 1 :
              a < i /\ i < b /\ \A j \in a + 1..b - 1 : s[j] \in Lower \cup Digit \cup {"-"}
      BY <1>6, <2>1
    <3>2. i \in a + 1..b - 1
      BY <1>1, <3>1
    <3> QED BY <3>1, <3>2
  <2> QED BY <2>1
<1>8. ASSUME NEW i \in 1..n, s[i] = "-"
      PROVE  1 < i /\ i < n /\ s[i - 1] # "/" /\ s[i + 1] # "/"
  <2>1. PICK a \in 0..n, b \in 0..n + 1 :
            /\ a < i /\ i < b /\ \A j \in a + 1..b - 1 : s[j] # "/"
            /\ s[a + 1] # "-" /\ s[b - 1] # "-"
    BY <1>6, <1>8
  <2>2. i # a + 1 /\ i # b - 1
    BY <1>8, <2>1
  <2>3. i - 1 \in a + 1..b - 1 /\ i + 1 \in a + 1..b - 1 /\ 1 < i /\ i < n
    BY <1>1, <2>1, <2>2
  <2> QED BY <2>1, <2>3
<1>9. ASSUME NEW i \in 1..n, s[i] = "/" PROVE i < n /\ s[i + 1] # "/"
  <2>1. i # n
    BY <1>2, <1>9
  <2>2. i < n /\ i + 1 \in 1..n /\ i \in 0..n /\ i + 1 \in 0..n + 1
    BY <1>1, <2>1
  <2>3. ASSUME s[i + 1] = "/" PROVE FALSE
    <3>1. i \in Seps(s) /\ i + 1 \in Seps(s) /\ i < i + 1
      BY <1>4, <1>9, <2>2, <2>3
    <3>2. i + 1..(i + 1) - 1 = i + 1..i /\ \A j \in i + 1..(i + 1) - 1 : FALSE
      BY <1>1
    <3>3. Ends(s, i, i + 1)
      BY <3>1, <3>2 DEF Ends
    <3>4. i + 1 - i - 1 \in 1..M
      BY <1>5, <2>2, <3>3 DEF SegmentAt, M
    <3> QED BY <1>1, <3>4
  <2> QED BY <2>2, <2>3
<1>10. ASSUME NEW i \in 1..n + 1 - M
       PROVE  \E j \in i..i + M : j = n + 1 \/ (j \in 1..n /\ s[j] = "/")
  <2> SUFFICES ASSUME \A j \in i..i + M : j # n + 1 /\ (j \in 1..n => s[j] # "/")
               PROVE  FALSE
    OBVIOUS
  <2>1. i + M # n + 1 /\ i \in Nat /\ i <= n /\ i \in 1..n /\ i \in i..i + M
    <3>1. i + M \in i..i + M
      BY <1>1
    <3>2. i + M # n + 1 /\ i + M <= n + 1
      BY <1>1, <3>1
    <3> QED BY <1>1, <3>2
  <2>2. s[i] # "/"
    BY <2>1
  <2>3. PICK a \in 0..n, b \in 0..n + 1 :
            a < i /\ i < b /\ b - a - 1 <= M /\ b \in Seps(s) \cup {n + 1}
    BY <1>6, <2>1, <2>2
  <2>4. b \in i..i + M
    BY <1>1, <2>1, <2>3
  <2>5. b # n + 1 /\ b \in 1..n
    BY <1>1, <2>1, <2>3, <2>4
  <2> QED BY <1>4, <2>3, <2>4, <2>5
<1> QED BY <1>2, <1>3, <1>7, <1>8, <1>9, <1>10 DEF WellFormedNamespace, n, M

\* The separators of a namespace, a separator and a name without one: the last
\* is the one between them.
LEMMA WrittenSeps ==
    ASSUME NEW x \in Seq(Char), NEW name \in Seq(Char),
           \A i \in 1..Len(name) : name[i] # "/"
    PROVE  LET w == x \o <<"/">> \o name
           IN  /\ Seps(w) = Seps(x) \cup {Len(x) + 1}
               /\ Sets!Max(Seps(w)) = Len(x) + 1
               /\ Cardinality(Seps(w)) = Cardinality(Seps(x)) + 1
               /\ Cardinality(Seps(x)) \in Nat
<1> DEFINE w == x \o <<"/">> \o name
           n == Len(x)
           m == Len(name)
<1>1. /\ w \in Seq(Char) /\ Len(w) = n + 1 + m /\ n \in Nat /\ m \in Nat
      /\ \A i \in 1..n : w[i] = x[i]
      /\ w[n + 1] = "/"
      /\ \A i \in 1..m : w[n + 1 + i] = name[i]
  BY WrittenShape
<1>2. \A i \in 1..m : name[i] # "/"
  OBVIOUS
<1>3. Seps(x) = {i \in 1..n : x[i] = "/"}
  BY DEF Seps, Places
<1> HIDE DEF w, n, m
<1>4. Seps(w) = {i \in 1..n + 1 + m : w[i] = "/"}
  BY <1>1 DEF Seps, Places
<1>5. ASSUME NEW i \in 1..n + 1 + m PROVE w[i] = "/" <=> i \in Seps(x) \cup {n + 1}
  <2>1. CASE i \in 1..n
    BY <1>1, <1>3, <2>1
  <2>2. CASE i = n + 1
    BY <1>1, <2>2
  <2>3. CASE i > n + 1
    <3> DEFINE j == i - (n + 1)
    <3>1. j \in 1..m /\ n + 1 + j = i
      BY <1>1, <2>3
    <3> HIDE DEF j
    <3>2. w[i] # "/"
      BY <1>1, <1>2, <3>1
    <3>3. i \notin 1..n /\ i # n + 1
      BY <1>1, <2>3
    <3> QED BY <1>3, <3>2, <3>3
  <2> QED BY <1>1, <2>1, <2>2, <2>3
<1>6. Seps(w) = Seps(x) \cup {n + 1} /\ n + 1 \notin Seps(x)
  <2>1. \A i \in Seps(x) \cup {n + 1} : i \in 1..n + 1 + m
    BY <1>1, <1>3
  <2>2. n + 1 \notin 1..n
    BY <1>1
  <2> QED BY <1>3, <1>4, <1>5, <2>1, <2>2
<1>7. Sets!Max(Seps(w)) = n + 1
  <2> DEFINE j == Sets!Max(Seps(w))
  <2>1. Seps(w) \in SUBSET (0..n + 1) /\ n + 1 \in Seps(w) /\ Seps(w) # {} /\ n + 1 \in Nat
    BY <1>1, <1>3, <1>6
  <2>2. j \in Seps(w) /\ j >= n + 1
    BY <2>1, MinMax
  <2> HIDE DEF j
  <2>3. j = n + 1
    BY <1>1, <2>1, <2>2
  <2> QED BY <2>3 DEF j
<1>8. IsFiniteSet(Seps(x)) /\ Cardinality(Seps(x)) \in Nat
  <2>1. n \in Int /\ 1 \in Int
    BY <1>1
  <2>2. IsFiniteSet(1..n)
    BY <2>1, FS_Interval
  <2>3. Seps(x) \in SUBSET (1..n)
    BY <1>3
  <2>4. IsFiniteSet(Seps(x))
    BY <2>2, <2>3, FS_Subset
  <2> QED BY <2>4, FS_CardinalityType
<1>9. Cardinality(Seps(w)) = Cardinality(Seps(x)) + 1
  <2>1. Cardinality(Seps(x) \cup {n + 1}) = Cardinality(Seps(x)) + 1
    BY <1>6, <1>8, FS_AddElement
  <2> QED BY <1>6, <2>1
<1> QED BY <1>6, <1>7, <1>8, <1>9 DEF w, n

\* A key is well formed when written.
LEMMA WrittenIsWellFormed ==
    ASSUME NEW x \in Seq(Char), IsNamespace(x), NEW name \in Seq(Char), IsName(name)
    PROVE  WellFormed(x \o <<"/">> \o name)
<1> DEFINE w == x \o <<"/">> \o name
           n == Len(x)
           m == Len(name)
           M == MaxSegmentLen
<1>1. /\ w \in Seq(Char) /\ Len(w) = n + 1 + m /\ n \in Nat /\ m \in Nat
      /\ \A i \in 1..n : w[i] = x[i]
      /\ w[n + 1] = "/"
      /\ \A i \in 1..m : w[n + 1 + i] = name[i]
  BY WrittenShape
<1>2. /\ m \in 1..MaxNameLen /\ name[1] \in Alnum
      /\ \A i \in 1..m : name[i] \in Alnum \cup {"_", "-", "."} /\ name[i] # "/"
  BY NameShape
<1>3. /\ Seps(w) = Seps(x) \cup {n + 1} /\ Sets!Max(Seps(w)) = n + 1
      /\ Cardinality(Seps(w)) = Cardinality(Seps(x)) + 1 /\ Cardinality(Seps(x)) \in Nat
  BY <1>2, WrittenSeps
<1>4. WellFormedNamespace(x)
  BY NamespaceIsWellFormed
<1>5. /\ n >= 1 /\ x[1] # "/" /\ Cardinality(Seps(x)) < MaxNamespaceDepth
      /\ \A i \in 1..n : x[i] \in Lower \cup Digit \cup {"-", "/"}
      /\ \A i \in 1..n : x[i] = "-" => 1 < i /\ i < n /\ x[i - 1] # "/" /\ x[i + 1] # "/"
      /\ \A i \in 1..n : x[i] = "/" => i < n /\ x[i + 1] # "/"
  BY <1>4 DEF WellFormedNamespace
<1>6. {i \in DOMAIN w : w[i] = "/"} = Seps(w)
  BY DEF Seps, Places
<1>7. M \in Nat /\ MaxNamespaceDepth \in Nat /\ MaxNameLen \in Nat
  <2>1. MaxSegmentLen \in Nat /\ MaxNamespaceDepth \in Nat /\ MaxNameLen \in Nat
    BY CodecAssumption
  <2> QED BY <2>1
<1>8. \A j \in Seps(x) : j \in 1..n /\ x[j] = "/"
  BY DEF Seps, Places
<1>9. \A i \in 1..n + 1 - M : \E j \in i..i + M : j = n + 1 \/ (j \in 1..n /\ x[j] = "/")
  BY <1>4 DEF WellFormedNamespace
<1> HIDE DEF w, n, m, M
<1>10. m >= 1 /\ m <= MaxNameLen /\ m \in Nat
  <2>1. m \in 1..MaxNameLen
    BY <1>2
  <2> QED BY <1>7, <2>1
<1>11. Seps(w) # {} /\ Cardinality(Seps(w)) <= MaxNamespaceDepth
  BY <1>3, <1>5, <1>7
<1>12. 1 \notin Seps(w) /\ Len(w) \notin Seps(w)
  <2>1. 1 # n + 1 /\ Len(w) # n + 1 /\ Len(w) \notin 1..n
    BY <1>1, <1>5, <1>10
  <2> QED BY <1>3, <1>5, <1>8, <2>1
<1>13. ASSUME NEW i \in 1..(n + 1) - 1
       PROVE  /\ w[i] \in Lower \cup Digit \cup {"-", "/"}
              /\ w[i] = "-" => i > 1 /\ {w[i - 1], w[i + 1]} \cap {"/"} = {}
              /\ w[i] = "/" => w[i + 1] # "/"
  <2>1. i \in 1..n /\ w[i] = x[i]
    BY <1>1
  <2>2. i < n => i + 1 \in 1..n /\ w[i + 1] = x[i + 1]
    <3>1. i < n => i + 1 \in 1..n
      BY <1>1
    <3> QED BY <1>1, <3>1
  <2>3. 1 < i => i - 1 \in 1..n /\ w[i - 1] = x[i - 1]
    <3>1. 1 < i => i - 1 \in 1..n
      BY <1>1
    <3> QED BY <1>1, <3>1
  <2>4. w[i] = "-" => 1 < i /\ w[i - 1] # "/" /\ w[i + 1] # "/"
    BY <1>5, <2>1, <2>2, <2>3
  <2>5. w[i] = "/" => w[i + 1] # "/"
    BY <1>5, <2>1, <2>2
  <2>6. w[i] = "-" => i > 1 /\ {w[i - 1], w[i + 1]} \cap {"/"} = {}
    BY <2>1, <2>4
  <2>7. w[i] \in Lower \cup Digit \cup {"-", "/"}
    BY <1>5, <2>1
  <2> QED BY <2>5, <2>6, <2>7
<1>14. \A i \in 1..(n + 1) - M : \E j \in i..i + M : w[j] = "/"
  <2> SUFFICES ASSUME NEW i \in 1..(n + 1) - M PROVE \E j \in i..i + M : w[j] = "/"
    OBVIOUS
  <2>1. PICK j \in i..i + M : j = n + 1 \/ (j \in 1..n /\ x[j] = "/")
    <3>1. i \in 1..n + 1 - M
      BY <1>1, <1>7
    <3> QED BY <1>9, <3>1
  <2>2. w[j] = "/"
    BY <1>1, <2>1
  <2> QED BY <2>2
<1>15. w[(n + 1) + 1] \in Alnum
  <2>1. 1 \in 1..m
    BY <1>10
  <2> QED BY <1>1, <1>2, <2>1
<1>16. \A i \in (n + 1) + 1..Len(w) : w[i] \in Alnum \cup {"_", "-", "."}
  <2> SUFFICES ASSUME NEW i \in (n + 1) + 1..Len(w) PROVE w[i] \in Alnum \cup {"_", "-", "."}
    OBVIOUS
  <2> DEFINE j == i - (n + 1)
  <2>1. j \in 1..m /\ n + 1 + j = i
    BY <1>1
  <2> HIDE DEF j
  <2> QED BY <1>1, <1>2, <2>1
<1>17. Len(w) - (n + 1) <= MaxNameLen
  <2>1. Len(w) - (n + 1) = m
    BY <1>1
  <2> QED BY <1>10, <2>1
<1>18. WellFormed(w)
  <2> DEFINE last == Sets!Max(Seps(w))
  <2>1. last = n + 1
    BY <1>3
  <2> HIDE DEF last
  <2>2. /\ Seps(w) # {} /\ Cardinality(Seps(w)) <= MaxNamespaceDepth
        /\ 1 \notin Seps(w) /\ Len(w) \notin Seps(w)
        /\ \A i \in 1..last - 1 :
              /\ w[i] \in Lower \cup Digit \cup {"-", "/"}
              /\ w[i] = "-" => i > 1 /\ {w[i - 1], w[i + 1]} \cap {"/"} = {}
              /\ w[i] = "/" => w[i + 1] # "/"
        /\ \A i \in 1..last - M : \E j \in i..i + M : w[j] = "/"
        /\ w[last + 1] \in Alnum
        /\ \A i \in last + 1..Len(w) : w[i] \in Alnum \cup {"_", "-", "."}
        /\ Len(w) - last <= MaxNameLen
    BY <1>11, <1>12, <1>13, <1>14, <1>15, <1>16, <1>17, <2>1
  <2> QED BY <1>6, <2>2 DEF WellFormed, Grammatical, WellEdged, last, M
<1> QED BY <1>18 DEF w

\* Cut at a separator, a text is what comes before it, the separator and what follows.
LEMMA Cut ==
    ASSUME NEW t \in Seq(Char), NEW last \in 2..Len(t) - 1, t[last] = "/"
    PROVE  LET n == last - 1
               m == Len(t) - last
               x == SubSeq(t, 1, n)
               name == SubSeq(t, last + 1, Len(t))
           IN  /\ n \in Nat /\ m \in Nat /\ n >= 1 /\ m >= 1 /\ n + 1 = last
               /\ x \in Seq(Char) /\ Len(x) = n /\ \A i \in 1..n : x[i] = t[i]
               /\ name \in Seq(Char) /\ Len(name) = m /\ \A i \in 1..m : name[i] = t[last + i]
               /\ t = x \o <<"/">> \o name
<1> DEFINE l == Len(t)
           n == last - 1
           m == l - last
           x == SubSeq(t, 1, n)
           name == SubSeq(t, last + 1, l)
           w == x \o <<"/">> \o name
<1>1. l \in Nat /\ \A i \in 1..l : t[i] \in Char
  OBVIOUS
<1> HIDE DEF l
<1>6. last \in 2..l - 1 /\ t[last] = "/" /\ l \in Nat
  BY <1>1 DEF l
<1>7. n \in Nat /\ m \in Nat /\ n >= 1 /\ m >= 1 /\ n + 1 = last /\ l = last + m
  BY <1>1, <1>6
<1>8. /\ x \in Seq(Char) /\ Len(x) = n
      /\ \A i \in 1..n : x[i] = t[i]
  <2>1. \A i \in 1..n : t[i] \in Char
    BY <1>1, <1>7
  <2> HIDE DEF n
  <2>2. /\ x \in Seq(Char) /\ Len(x) = IF 1 <= n THEN n - 1 + 1 ELSE 0
        /\ \A i \in 1..n - 1 + 1 : x[i] = t[1 + i - 1]
    BY <1>7, <2>1, SubSeqProperties
  <2>3. n - 1 + 1 = n /\ \A i \in 1..n : 1 + i - 1 = i
    BY <1>7
  <2> HIDE DEF x
  <2> QED BY <1>7, <2>2, <2>3
<1>9. /\ name \in Seq(Char) /\ Len(name) = m
      /\ \A i \in 1..m : name[i] = t[last + i]
  <2>1. \A i \in last + 1..l : t[i] \in Char
    BY <1>1, <1>6
  <2>2. last + 1 \in Int /\ l \in Int
    BY <1>6
  <2>3. /\ name \in Seq(Char) /\ Len(name) = IF last + 1 <= l THEN l - (last + 1) + 1 ELSE 0
        /\ \A i \in 1..l - (last + 1) + 1 : name[i] = t[(last + 1) + i - 1]
    BY <2>1, <2>2, SubSeqProperties
  <2>4. l - (last + 1) + 1 = m /\ last + 1 <= l /\ \A i \in 1..m : (last + 1) + i - 1 = last + i
    BY <1>6, <1>7
  <2> HIDE DEF name, m
  <2> QED BY <2>3, <2>4
<1>10. /\ w \in Seq(Char) /\ Len(w) = n + 1 + m
       /\ \A i \in 1..n : w[i] = x[i]
       /\ w[n + 1] = "/"
       /\ \A i \in 1..m : w[n + 1 + i] = name[i]
  <2> HIDE DEF n, m, x, name
  <2> QED BY <1>8, <1>9, WrittenShape
<1> HIDE DEF n, m, x, name, w
<1>11. t = w
  <2>1. Len(w) = l
    BY <1>7, <1>10
  <2>2. ASSUME NEW i \in 1..Len(w) PROVE w[i] = t[i]
    <3>1. CASE i \in 1..n
      BY <1>8, <1>10, <3>1
    <3>2. CASE i = n + 1
      BY <1>6, <1>7, <1>10, <3>2
    <3>3. CASE i > n + 1
      <4> DEFINE j == i - (n + 1)
      <4>1. j \in 1..m /\ n + 1 + j = i /\ last + j = i
        BY <1>7, <1>10, <3>3
      <4> HIDE DEF j
      <4> QED BY <1>9, <1>10, <4>1
    <3> QED BY <1>7, <1>10, <3>1, <3>2, <3>3
  <2> QED BY <1>10, <2>1, <2>2, SeqEqual DEF l
<1> QED BY <1>7, <1>8, <1>9, <1>11 DEF l, n, m, x, name, w

\* Whatever is well formed is a namespace, a separator and a name.
LEMMA WellFormedParts ==
    ASSUME NEW t \in Seq(Char), WellFormed(t)
    PROVE  \E x, name \in Seq(Char) :
               IsNamespace(x) /\ IsName(name) /\ t = x \o <<"/">> \o name
<1> DEFINE l == Len(t)
           last == Sets!Max(Seps(t))
           M == MaxSegmentLen
           n == last - 1
           m == l - last
           x == SubSeq(t, 1, n)
           name == SubSeq(t, last + 1, l)
           w == x \o <<"/">> \o name
<1>1. l \in Nat /\ \A i \in 1..l : t[i] \in Char
  OBVIOUS
<1>2. Seps(t) = {i \in DOMAIN t : t[i] = "/"} /\ Seps(t) = {i \in 1..l : t[i] = "/"}
  BY DEF Seps, Places
<1>3. /\ Seps(t) # {} /\ Cardinality(Seps(t)) <= MaxNamespaceDepth
      /\ 1 \notin Seps(t) /\ l \notin Seps(t)
      /\ \A i \in 1..last - 1 :
            /\ t[i] \in Lower \cup Digit \cup {"-", "/"}
            /\ t[i] = "-" => i > 1 /\ {t[i - 1], t[i + 1]} \cap {"/"} = {}
            /\ t[i] = "/" => t[i + 1] # "/"
      /\ \A i \in 1..last - M : \E j \in i..i + M : t[j] = "/"
      /\ t[last + 1] \in Alnum
      /\ \A i \in last + 1..l : t[i] \in Alnum \cup {"_", "-", "."}
      /\ l - last <= MaxNameLen
  BY <1>2 DEF WellFormed, Grammatical, WellEdged
<1>4. last \in Seps(t) /\ \A i \in Seps(t) : last >= i
  <2>1. Seps(t) \in SUBSET (0..l)
    BY <1>1, <1>2
  <2> QED BY <1>1, <1>3, <2>1, MinMax
<1>5. M \in Nat /\ MaxNamespaceDepth \in Nat /\ MaxNameLen \in Nat
  <2>1. MaxSegmentLen \in Nat /\ MaxNamespaceDepth \in Nat /\ MaxNameLen \in Nat
    BY CodecAssumption
  <2> QED BY <2>1
<1> HIDE DEF l, last, M
<1>6. last \in 2..l - 1 /\ t[last] = "/" /\ l \in Nat
  <2>1. last \in 1..l /\ t[last] = "/"
    BY <1>2, <1>4
  <2>2. last # 1 /\ last # l
    BY <1>3, <1>4
  <2> QED BY <1>1, <2>1, <2>2
<1>7. n \in Nat /\ m \in Nat /\ n >= 1 /\ m >= 1 /\ n + 1 = last /\ l = last + m
  BY <1>1, <1>6
<1> HIDE DEF n, m, x, name, w
<1>8. /\ x \in Seq(Char) /\ Len(x) = n
      /\ \A i \in 1..n : x[i] = t[i]
  BY <1>6, Cut DEF l, n, x
<1>9. /\ name \in Seq(Char) /\ Len(name) = m
      /\ \A i \in 1..m : name[i] = t[last + i]
  BY <1>6, Cut DEF l, m, name
<1>11. t = w
  BY <1>6, Cut DEF l, n, x, name, w
<1>12. IsName(name)
  <2>1. m \in 1..MaxNameLen
    <3>1. l - last <= MaxNameLen
      BY <1>3
    <3> QED BY <1>5, <1>6, <1>7, <3>1
  <2>2. ASSUME NEW i \in 1..m PROVE name[i] \in Alnum \cup {"_", ".", "-"}
    <3>1. last + i \in last + 1..l
      BY <1>6, <1>7
    <3> QED BY <1>3, <1>9, <3>1
  <2>3. name[1] \in Alnum
    <3>1. 1 \in 1..m
      BY <1>7
    <3> QED BY <1>3, <1>9, <3>1
  <2>4. Seqs!ToSet(name) \subseteq Alnum \cup {"_", ".", "-"}
    <3>1. DOMAIN name = 1..m
      BY <1>9
    <3> QED BY <2>2, <3>1 DEF Seqs!ToSet
  <2> QED BY <1>9, <2>1, <2>3, <2>4 DEF IsName
<1>13. /\ Seps(t) = Seps(x) \cup {n + 1}
       /\ Cardinality(Seps(t)) = Cardinality(Seps(x)) + 1
       /\ Cardinality(Seps(x)) \in Nat
  <2>1. \A i \in 1..Len(name) : name[i] # "/"
    BY <1>9, <1>12, NameShape
  <2> QED BY <1>8, <1>9, <1>11, <2>1, WrittenSeps DEF w
<1>14. WellFormedNamespace(x)
  <2>1. x[1] # "/"
    <3>1. 1 \in 1..n /\ 1 \in 1..l
      BY <1>6, <1>7
    <3> QED BY <1>2, <1>3, <1>8, <3>1
  <2>2. Cardinality(Seps(x)) < MaxNamespaceDepth
    <3>1. Cardinality(Seps(t)) <= MaxNamespaceDepth
      BY <1>3
    <3> QED BY <1>5, <1>13, <3>1
  <2>3. ASSUME NEW i \in 1..n
        PROVE  /\ x[i] \in Lower \cup Digit \cup {"-", "/"}
               /\ x[i] = "-" => 1 < i /\ i < n /\ x[i - 1] # "/" /\ x[i + 1] # "/"
               /\ x[i] = "/" => i < n /\ x[i + 1] # "/"
    <3>1. i \in 1..last - 1 /\ i \in Nat
      BY <1>6, <1>7
    <3>2. /\ x[i] \in Lower \cup Digit \cup {"-", "/"}
          /\ x[i] = "-" => i > 1 /\ {t[i - 1], t[i + 1]} \cap {"/"} = {}
          /\ x[i] = "/" => t[i + 1] # "/"
      BY <1>3, <1>8, <3>1
    <3>3. i = n => t[i + 1] = "/"
      BY <1>6, <1>7
    <3>4. i < n => x[i + 1] = t[i + 1]
      <4>1. i < n => i + 1 \in 1..n
        BY <1>7, <3>1
      <4> QED BY <1>8, <4>1
    <3>5. 1 < i => x[i - 1] = t[i - 1]
      <4>1. 1 < i => i - 1 \in 1..n
        BY <1>7, <3>1
      <4> QED BY <1>8, <4>1
    <3>6. i = n \/ i < n
      BY <1>7
    <3>7. x[i] = "-" => i > 1 /\ t[i - 1] # "/" /\ t[i + 1] # "/"
      BY <3>2
    <3>8. i > 1 <=> 1 < i
      BY <3>1
    <3> QED BY <3>2, <3>3, <3>4, <3>5, <3>6, <3>7, <3>8
  <2>4. ASSUME NEW i \in 1..n + 1 - M
        PROVE  \E j \in i..i + M : j = n + 1 \/ (j \in 1..n /\ x[j] = "/")
    <3>1. i \in 1..last - M
      BY <1>5, <1>6, <1>7
    <3>2. PICK j \in i..i + M : t[j] = "/"
      BY <1>3, <3>1
    <3>3. j \in 1..n + 1
      BY <1>5, <1>6, <1>7, <3>1
    <3> QED BY <1>7, <1>8, <3>2, <3>3
  <2> QED BY <1>7, <1>8, <2>1, <2>2, <2>3, <2>4 DEF WellFormedNamespace, M
<1>15. IsNamespace(x)
  BY <1>8, <1>14, WellFormedIsNamespace
<1> QED BY <1>8, <1>9, <1>11, <1>12, <1>15 DEF w

-----------------------------------------------------------------------------
(* The properties. *)

\* What is read as a key is written in one way, and that is read as the same key.
LEMMA KeyIsWritten ==
    ASSUME NEW s \in Seq(Char), ParseKey(s) # Invalid
    PROVE  LET k == ParseKey(s)
           IN  /\ String(k) \in Seq(Char) /\ WellFormed(String(k))
               /\ ParseKey(String(k)) = k /\ NewKey(k.ns, k.name) = k
<1>1. PICK x \in Seq(Char), name \in Seq(Char) :
          /\ IsNamespace(x) /\ IsName(name)
          /\ ParseKey(s) = [ns |-> [segments |-> Split(x)], name |-> name]
  BY KeyShape
<1> DEFINE w == x \o <<"/">> \o name
           k == [ns |-> [segments |-> Split(x)], name |-> name]
<1>2. ParseKey(w) = k /\ String(k) = w /\ NewKey(k.ns, k.name) = k
  BY <1>1, KeyParses
<1>3. WellFormed(w)
  BY <1>1, WrittenIsWellFormed
<1>4. w \in Seq(Char)
  BY WrittenShape
<1>5. ParseKey(s) = k
  BY <1>1
<1> HIDE DEF w, k
<1> QED BY <1>2, <1>3, <1>4, <1>5

\* A text in which there is no separator to trim is written as it was read, if it
\* is a key at all.
LEMMA ReadAsWritten ==
    ASSUME NEW t \in Seq(Char), Grammatical(t), ParseKey(t) # Invalid
    PROVE  String(ParseKey(t)) = t
<1> DEFINE at == {n \in DOMAIN t : t[n] = "/"}
           last == Sets!Max(at)
           x == SubSeq(t, 1, last - 1)
           name == SubSeq(t, last + 1, Len(t))
<1>1. /\ at # {} /\ 1 \notin at /\ Len(t) \notin at
      /\ \A i \in 1..last - 1 : t[i] = "/" => t[i + 1] # "/"
  BY DEF Grammatical
<1>2. last \in 2..Len(t) - 1 /\ t[last] = "/"
  <2>1. at \in SUBSET (0..Len(t)) /\ Len(t) \in Nat
    OBVIOUS
  <2>2. last \in at
    BY <1>1, <2>1, MinMax
  <2>3. last # 1 /\ last # Len(t) /\ last \in 1..Len(t) /\ t[last] = "/"
    BY <1>1, <2>2
  <2> QED BY <2>1, <2>3
<1>3. Trim(t) = t
  <2>1. 1 \in DOMAIN t /\ Len(t) \in DOMAIN t /\ t # <<>>
    BY <1>2
  <2>2. Bare(t)
    BY <1>1, <2>1 DEF Bare
  <2> QED BY <2>2, TrimKeepsBare
<1>4. /\ x \in Seq(Char) /\ Len(x) = last - 1 /\ \A i \in 1..last - 1 : x[i] = t[i]
      /\ t = x \o <<"/">> \o name
  BY <1>2, Cut
<1>5. ParseNamespace(x) # Invalid /\ ParseKey(t) = [ns |-> ParseNamespace(x), name |-> name]
  BY <1>1, <1>3 DEF ParseKey
<1>6. Trim(x) = x
  <2>1. 1 \in 1..last - 1 /\ last - 1 \in 1..last - 1 /\ (last - 1) + 1 = last
    BY <1>2
  <2>2. t[1] # "/" /\ t[last - 1] # "/"
    BY <1>1, <1>2, <2>1
  <2>3. x[1] # "/" /\ x[Len(x)] # "/" /\ x # <<>>
    BY <1>4, <2>1, <2>2
  <2> QED BY <1>4, <2>3, TrimKeepsBare DEF Bare
<1>7. ParseNamespace(x) = [segments |-> Split(x)]
  BY <1>4, <1>5, <1>6, NamespaceIsTrimmed
<1>8. Join(Split(x)) = x
  BY <1>4, JoinSplit
<1> DEFINE k == [ns |-> [segments |-> Split(x)], name |-> name]
<1> HIDE DEF x, name
<1>9. ParseKey(t) = k
  BY <1>5, <1>7
<1>10. String(k) = x \o <<"/">> \o name
  BY <1>8 DEF String
<1> HIDE DEF k
<1> QED BY <1>4, <1>9, <1>10

\* Canonical, of any text: what is well formed is a key and is written as it was
\* read, what only the grammar admits is none, and every key is written in the form.
LEMMA CanonicalText == ASSUME text \in Seq(Char) PROVE Canonical
<1>1. ASSUME WellFormed(text) PROVE ParseKey(text) # Invalid /\ String(ParseKey(text)) = text
  <2>1. PICK x \in Seq(Char), name \in Seq(Char) :
            IsNamespace(x) /\ IsName(name) /\ text = x \o <<"/">> \o name
    BY <1>1, WellFormedParts
  <2> DEFINE k == [ns |-> [segments |-> Split(x)], name |-> name]
  <2>2. ParseKey(text) = k /\ String(k) = text /\ k # Invalid
    BY <2>1, KeyParses
  <2> QED BY <2>2
<1>2. ASSUME Grammatical(text), ParseKey(text) # Invalid PROVE WellEdged(text)
  <2>1. String(ParseKey(text)) = text /\ WellFormed(String(ParseKey(text)))
    BY <1>2, ReadAsWritten, KeyIsWritten
  <2> QED BY <2>1 DEF WellFormed
<1> QED BY <1>1, <1>2, KeyIsWritten DEF Canonical, WellFormed

\* What a decoded name is written from is the text it was escaped from, and it
\* is only cut off by the limit.
LEMMA EncodeDecode ==
    ASSUME NEW code, IsCodec(code), NEW max, NEW k,
           String(k) \in Seq(Char), ParseKey(String(k)) = k
    PROVE  /\ encode(code, max, k) =
                IF Len(String(k)) + Cardinality(Places(String(k), DOMAIN code)) <= max
                THEN Escape(code, String(k)) ELSE TooLong
           /\ decode(code, Escape(code, String(k))) = k
<1> DEFINE s == String(k)
           e == Escape(code, s)
<1>1. Len(e) = Len(s) + Cardinality(Places(s, DOMAIN code))
  BY EscapeLen
<1>2. encode(code, max, k) = IF Len(e) <= max THEN e ELSE TooLong
  BY DEF encode
<1>3. Unescape(code, e) = s
  BY ReadEscape DEF Unescape
<1>4. ~Seqs!Contains(s, Bad)
  <2>1. \A i \in 1..Len(s) : s[i] \in Char
    OBVIOUS
  <2>2. Bad \notin Char
    BY CodecAssumption DEF Bad
  <2> QED BY <2>1, <2>2 DEF Seqs!Contains
<1>5. decode(code, e) = ParseKey(s)
  BY <1>3, <1>4 DEF decode
<1> QED BY <1>1, <1>2, <1>5

\* No code is a letter or a digit that a backend takes as it is.
LEMMA CodesApart ==
    /\ DOMAIN IDCode = {"-", "/", "."} /\ DOMAIN VaultCode = Upper \cup {"-", "/", ".", "_"}
    /\ (DOMAIN IDCode \cup DOMAIN VaultCode) \cap (Lower \cup Digit) = {}
<1>1. DOMAIN IDCode = {"-", "/", "."} /\ DOMAIN VaultCode = Upper \cup {"-", "/", ".", "_"}
  BY DEF IDCode, VaultCode
<1>2. /\ Upper \cap Lower = {} /\ Upper \cap Digit = {}
      /\ {"-", "/", ".", "_"} \cap (Lower \cup Digit) = {}
  BY CodecAssumption
<1> QED BY <1>1, <1>2

\* RoundTrip, of any text.
LEMMA RoundTripText == ASSUME text \in Seq(Char) PROVE RoundTrip
<1> DEFINE k == ParseKey(text)
           s == String(k)
<1> SUFFICES ASSUME k # Invalid PROVE RoundTrip
  BY DEF RoundTrip
<1>1. s \in Seq(Char) /\ ParseKey(s) = k
  BY KeyIsWritten
<1> HIDE DEF k
<1>2. Len(s) \in Nat /\ \A set : IsFiniteSet(Places(s, set)) /\ Cardinality(Places(s, set)) \in Nat
  <2>1. Len(s) \in Nat
    BY <1>1
  <2>2. \A set : Places(s, set) \in SUBSET (1..Len(s))
    BY <1>1 DEF Places
  <2>3. IsFiniteSet(1..Len(s))
    BY <2>1, FS_Interval
  <2>4. \A set : IsFiniteSet(Places(s, set))
    BY <2>2, <2>3, FS_Subset
  <2> QED BY <2>1, <2>4, FS_CardinalityType
<1>3. MaxIDLen \in Nat /\ MaxVaultNameLen \in Nat
  BY CodecAssumption
<1>4. /\ DOMAIN IDCode = {"-", "/", "."}
      /\ DOMAIN VaultCode = Upper \cup {"-", "/", ".", "_"}
  BY CodesApart
<1> DEFINE E(set) == Cardinality({i \in DOMAIN s : s[i] \in set})
<1>5. IF Len(s) + E({"-", "/", "."}) > MaxIDLen THEN encodeID(k) = TooLong
      ELSE encodeID(k) = Escape(IDCode, s)
  <2>1. encodeID(k) = IF Len(s) + Cardinality(Places(s, DOMAIN IDCode)) <= MaxIDLen
                      THEN Escape(IDCode, s) ELSE TooLong
    BY <1>1, Codecs, EncodeDecode DEF encodeID
  <2>2. E({"-", "/", "."}) = Cardinality(Places(s, DOMAIN IDCode))
    BY <1>4 DEF Places
  <2> DEFINE p == Cardinality(Places(s, DOMAIN IDCode))
             l == Len(s)
  <2>3. p \in Nat /\ l \in Nat
    BY <1>2
  <2> HIDE DEF p, l
  <2>4. l + p <= MaxIDLen <=> ~(l + p > MaxIDLen)
    BY <1>3, <2>3
  <2> QED BY <2>1, <2>2, <2>4 DEF p, l
<1>6. IF Len(s) + E(Upper \cup {"-", "/", ".", "_"}) > MaxVaultNameLen THEN encodeName(k) = TooLong
      ELSE encodeName(k) = Escape(VaultCode, s)
  <2>1. encodeName(k) = IF Len(s) + Cardinality(Places(s, DOMAIN VaultCode)) <= MaxVaultNameLen
                        THEN Escape(VaultCode, s) ELSE TooLong
    BY <1>1, Codecs, EncodeDecode DEF encodeName
  <2>2. E(Upper \cup {"-", "/", ".", "_"}) = Cardinality(Places(s, DOMAIN VaultCode))
    BY <1>4 DEF Places
  <2> DEFINE p == Cardinality(Places(s, DOMAIN VaultCode))
             l == Len(s)
  <2>3. p \in Nat /\ l \in Nat
    BY <1>2
  <2> HIDE DEF p, l
  <2>4. l + p <= MaxVaultNameLen <=> ~(l + p > MaxVaultNameLen)
    BY <1>3, <2>3
  <2> QED BY <2>1, <2>2, <2>4 DEF p, l
<1>7. decodeID(Escape(IDCode, s)) = k /\ decodeName(Escape(VaultCode, s)) = k
  BY <1>1, Codecs, EncodeDecode DEF decodeID, decodeName
<1>8. Seqs!ToSet(Escape(IDCode, s)) \subseteq Alnum \cup {"-", "_"}
  <2>1. Escape(IDCode, s) \in Seq({"-"} \cup Lower \cup Digit \cup (Char \ DOMAIN IDCode))
    BY <1>1, Codecs, EscapeAlphabet
  <2>2. {"-"} \cup Lower \cup Digit \cup (Char \ DOMAIN IDCode) \subseteq Alnum \cup {"-", "_"}
    BY <1>4 DEF Char, Alnum
  <2> DEFINE A == {"-"} \cup Lower \cup Digit \cup (Char \ DOMAIN IDCode)
             e == Escape(IDCode, s)
  <2>3. e \in Seq(A) /\ A \subseteq Alnum \cup {"-", "_"}
    BY <2>1, <2>2
  <2> HIDE DEF A, e
  <2>4. DOMAIN e = 1..Len(e) /\ \A i \in 1..Len(e) : e[i] \in A
    <3>1. e \in Seq(A)
      BY <2>3
    <3>2. DOMAIN e = 1..Len(e)
      BY <3>1
    <3> QED BY <3>1, <3>2, ElementOfSeq
  <2>5. Seqs!ToSet(e) \subseteq A
    BY <2>4 DEF Seqs!ToSet
  <2> QED BY <2>3, <2>5 DEF e
<1>9. Seqs!ToSet(Escape(VaultCode, s)) \subseteq Lower \cup Digit \cup {"-"}
  <2>1. Escape(VaultCode, s) \in Seq({"-"} \cup Lower \cup Digit \cup (Char \ DOMAIN VaultCode))
    BY <1>1, Codecs, EscapeAlphabet
  <2>2. {"-"} \cup Lower \cup Digit \cup (Char \ DOMAIN VaultCode) \subseteq Lower \cup Digit \cup {"-"}
    BY <1>4 DEF Char, Alnum
  <2> DEFINE A == {"-"} \cup Lower \cup Digit \cup (Char \ DOMAIN VaultCode)
             e == Escape(VaultCode, s)
  <2>3. e \in Seq(A) /\ A \subseteq Lower \cup Digit \cup {"-"}
    BY <2>1, <2>2
  <2> HIDE DEF A, e
  <2>4. DOMAIN e = 1..Len(e) /\ \A i \in 1..Len(e) : e[i] \in A
    <3>1. e \in Seq(A)
      BY <2>3
    <3>2. DOMAIN e = 1..Len(e)
      BY <3>1
    <3> QED BY <3>1, <3>2, ElementOfSeq
  <2>5. Seqs!ToSet(e) \subseteq A
    BY <2>4 DEF Seqs!ToSet
  <2> QED BY <2>3, <2>5 DEF e
<1> QED BY <1>5, <1>6, <1>7, <1>8, <1>9 DEF RoundTrip, k

\* A decoded name is the one its text is escaped to if no character of it
\* should have been escaped, but for the hyphens that begin an escape.
LEMMA EscapedOrNot ==
    ASSUME NEW code, IsCodec(code), DOMAIN code \cap (Lower \cup Digit) = {},
           NEW t \in Seq(Char), NEW s \in Seq(Char)
    PROVE  t = Escape(code, s)
             <=> /\ Unescape(code, t) = s
                 /\ \A i \in 1..Len(t) : t[i] \in DOMAIN code => t[i] = "-"
<1>1. ASSUME t = Escape(code, s)
      PROVE  /\ Unescape(code, t) = s
             /\ \A i \in 1..Len(t) : t[i] \in DOMAIN code => t[i] = "-"
  <2>1. Unescape(code, t) = s
    BY <1>1, ReadEscape DEF Unescape
  <2> DEFINE A == {"-"} \cup Lower \cup Digit \cup (Char \ DOMAIN code)
  <2>2. t \in Seq(A)
    BY <1>1, EscapeAlphabet
  <2>3. \A i \in 1..Len(t) : t[i] \in A
    BY <2>2, ElementOfSeq
  <2> QED BY <2>1, <2>3
<1>2. ASSUME Unescape(code, t) = s,
             \A i \in 1..Len(t) : t[i] \in DOMAIN code => t[i] = "-"
      PROVE  t = Escape(code, s)
  <2> DEFINE r == Read(code, t)
  <2>1. r \in Reading
    BY ReadSteps
  <2>2. r.out \in Seq(Written) /\ r.escaped \in BOOLEAN
    BY <2>1 DEF Reading
  <2>3. s = IF r.escaped THEN Append(r.out, Bad) ELSE r.out
    BY <1>2 DEF Unescape
  <2>4. Bad \notin Char
    BY CodecAssumption DEF Bad
  <2> HIDE DEF r
  <2>5. ~r.escaped
    <3> SUFFICES ASSUME r.escaped PROVE FALSE
      BY <2>2
    <3>1. s = Append(r.out, Bad) /\ Bad \in Written
      BY <2>3 DEF Written
    <3>2. Len(s) = Len(r.out) + 1 /\ s[Len(r.out) + 1] = Bad /\ Len(r.out) \in Nat
      BY <2>2, <3>1
    <3>3. Len(r.out) + 1 \in 1..Len(s)
      BY <3>2
    <3> QED BY <2>4, <3>2, <3>3
  <2>6. r.out = s /\ r.out \in Seq(Char)
    BY <2>3, <2>5
  <2>7. t = Escape(code, s) \o <<>>
    BY <1>2, <2>5, <2>6, EscapeRead DEF r
  <2>8. Escape(code, s) \in Seq(Char)
    BY EscapeSteps
  <2> QED BY <2>7, <2>8
<1> QED BY <1>1, <1>2

\* A name that decodes to a key decodes to a text.
LEMMA DecodedIsText ==
    ASSUME NEW code, IsCodec(code), NEW t \in Seq(Char), decode(code, t) # Invalid
    PROVE  String(decode(code, t)) \in Seq(Char)
<1> DEFINE u == Unescape(code, t)
<1>1. ~Seqs!Contains(u, Bad) /\ decode(code, t) = ParseKey(u)
  BY DEF decode
<1>2. u \in Seq(Written)
  <2>1. Read(code, t) \in Reading /\ Bad \in Written
    BY ReadSteps DEF Written
  <2> QED BY <2>1 DEF Unescape, Reading
<1> HIDE DEF u
<1>3. u \in Seq(Char)
  <2>1. \A i \in 1..Len(u) : u[i] \in Written /\ u[i] # Bad
    BY <1>1, <1>2 DEF Seqs!Contains
  <2>2. \A i \in 1..Len(u) : u[i] \in Char
    BY <2>1 DEF Written
  <2> QED BY <1>2, <2>2, SeqOver
<1> QED BY <1>1, <1>3, KeyIsWritten

\* Skipped, of any text.
LEMMA SkippedText == ASSUME text \in Seq(Char) PROVE Skipped
<1>1. Seqs!ToSet(text) = {text[i] : i \in 1..Len(text)}
  BY DEF Seqs!ToSet
<1>2. /\ DOMAIN IDCode = {"-", "/", "."}
      /\ DOMAIN VaultCode = Upper \cup {"-", "/", ".", "_"}
      /\ DOMAIN IDCode \cap (Lower \cup Digit) = {}
      /\ DOMAIN VaultCode \cap (Lower \cup Digit) = {}
  BY CodesApart
<1>3. {"/", ".", "_"} \cap Alnum = {}
  BY CodecAssumption DEF Alnum
<1>4. ASSUME Seqs!ToSet(text) \subseteq Alnum \cup {"-", "_"}, decodeID(text) # Invalid
      PROVE  text = Escape(IDCode, String(decodeID(text)))
               <=> Unescape(IDCode, text) = String(decodeID(text))
  <2> DEFINE s == String(decodeID(text))
  <2>1. s \in Seq(Char)
    BY <1>4, Codecs, DecodedIsText DEF decodeID
  <2>2. \A i \in 1..Len(text) : text[i] \in DOMAIN IDCode => text[i] = "-"
    BY <1>1, <1>2, <1>3, <1>4
  <2> HIDE DEF s
  <2>3. text = Escape(IDCode, s)
          <=> /\ Unescape(IDCode, text) = s
              /\ \A i \in 1..Len(text) : text[i] \in DOMAIN IDCode => text[i] = "-"
    BY <1>2, <2>1, Codecs, EscapedOrNot
  <2> QED BY <2>2, <2>3 DEF s
<1>5. ASSUME Seqs!ToSet(text) \subseteq Alnum \cup {"-"}, decodeName(text) # Invalid
      PROVE  text = Escape(VaultCode, String(decodeName(text)))
               <=> /\ Unescape(VaultCode, text) = String(decodeName(text))
                   /\ Seqs!ToSet(text) \cap Upper = {}
  <2> DEFINE s == String(decodeName(text))
  <2>1. s \in Seq(Char)
    BY <1>5, Codecs, DecodedIsText DEF decodeName
  <2>2. (\A i \in 1..Len(text) : text[i] \in DOMAIN VaultCode => text[i] = "-")
          <=> Seqs!ToSet(text) \cap Upper = {}
    <3>1. "-" \notin Upper
      BY CodecAssumption
    <3>2. ASSUME NEW i \in 1..Len(text) PROVE text[i] \in DOMAIN VaultCode <=> text[i] \in Upper \cup {"-"}
      <4>1. text[i] \in Alnum \cup {"-"}
        BY <1>1, <1>5
      <4> QED BY <1>2, <1>3, <4>1
    <3> QED BY <1>1, <3>1, <3>2
  <2> HIDE DEF s
  <2>3. text = Escape(VaultCode, s)
          <=> /\ Unescape(VaultCode, text) = s
              /\ \A i \in 1..Len(text) : text[i] \in DOMAIN VaultCode => text[i] = "-"
    BY <1>2, <2>1, Codecs, EscapedOrNot
  <2> QED BY <2>2, <2>3 DEF s
<1> QED BY <1>4, <1>5 DEF Skipped

\* The text a behaviour spells out is one.
IsText == text \in Seq(Char)

\* It stays one.
LEMMA SpellsText == Spec => []IsText
<1>1. Init => IsText
  BY DEF Init, IsText
<1>2. IsText /\ [Next]_text => IsText'
  <2>1. TextChar \subseteq Char
    BY CodecAssumption
  <2> QED BY <2>1 DEF Next, IsText
<1> QED BY <1>1, <1>2, PTL DEF Spec

(* Every key has one written form, that of the regular expressions: what     *)
(* ParseKey accepts it puts into that form, and reading it again gives the   *)
(* same key; what the comment's grammar admits beyond that form is no key    *)
(* (key.go:12-29 and 76-124).                                                *)
THEOREM KeysAreCanonical == Spec => []Canonical
<1>1. IsText => Canonical
  BY CanonicalText DEF IsText
<1> QED BY <1>1, SpellsText, PTL

\* A key that is not too long for a backend has a name there, in characters
\* the backend takes, and that name decodes to it.
THEOREM NamesRoundTrip == Spec => []RoundTrip
<1>1. IsText => RoundTrip
  BY RoundTripText DEF IsText
<1> QED BY <1>1, SpellsText, PTL

\* A name in a backend that decodes to a key is the one encodeID or encodeName
\* gives that key, but for trimmed separators and capitals left unescaped.
THEOREM ForeignNamesAreSkipped == Spec => []Skipped
<1>1. IsText => Skipped
  BY SkippedText DEF IsText
<1> QED BY <1>1, SpellsText, PTL
================================================================================
