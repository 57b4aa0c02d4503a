------------------------------ MODULE Web_proofs ------------------------------
(***************************************************************************)
(* The two programs that take the text of HTTP requests: the parser of the *)
(* web server, for any configuration files and any requests, and the web   *)
(* proxy, for any clients, hosts and addresses.  They share no state.      *)
(***************************************************************************)
EXTENDS HttpRequest, Proxy, WellFoundedInduction, TLAPS
-----------------------------------------------------------------------------
(* HttpRequest: what an induction over the numbers needs.                  *)

\* Induction over the natural numbers, for a set instead of a formula.
Below == {p \in Nat \X Nat : p[1] < p[2]}

LEMMA BelowWF == IsWellFoundedOn(Below, Nat)
<1>1. IsWellFoundedOn(OpToRel(<, Nat), Nat)
  BY NatLessThanWellFounded
<1>2. OpToRel(<, Nat) = Below
  BY DEF OpToRel, Below
<1>. QED BY <1>1, <1>2

LEMMA NatHasLeast ==
  ASSUME NEW T, T \subseteq Nat, T # {}
  PROVE  \E m \in T : \A e \in T : m <= e
<1>1. PICK m \in T : \A e \in T : ~ (<<e, m>> \in Below)
  BY BelowWF, WFMin
<1>2. \A e \in T : ~ (e < m)
  BY <1>1 DEF Below
<1>. QED BY <1>2

LEMMA NatByInduction ==
  ASSUME NEW S, 0 \in S, \A n \in Nat : n \in S => n + 1 \in S
  PROVE  Nat \subseteq S
<1> DEFINE T == Nat \ S
<1>1. SUFFICES ASSUME T # {} PROVE FALSE
  OBVIOUS
<1>2. PICK m \in T : \A e \in T : m <= e
  BY <1>1, NatHasLeast
<1>3. m - 1 \in Nat /\ m - 1 \notin T
  BY <1>2
<1>. QED BY <1>3

LEMMA MaxIsLast ==
  ASSUME NEW n \in Nat, NEW s \in SUBSET (1 .. n), n \in s
  PROVE  Max(s) = n
<1>1. \A x \in s : (\A y \in s : x >= y) => x = n
  OBVIOUS
<1>2. n \in s /\ \A y \in s : n >= y
  OBVIOUS
<1>. QED BY <1>1, <1>2, Zenon DEF Max

-----------------------------------------------------------------------------
(* HttpRequest: split.                                                     *)

\* What defines the fold of the words of a text into its lines.
WordFold(t, g, s) ==
    IF s = {} THEN << <<>> >> ELSE NextWord(g[s \ {Max(s)}], t[Max(s)])

LEMMA SplitSolved ==
  ASSUME NEW t
  PROVE  \A n \in Nat : \E g : g = [s \in SUBSET (1 .. n) |-> WordFold(t, g, s)]
<1> DEFINE S == {n \in Nat : \E g : g = [s \in SUBSET (1 .. n) |-> WordFold(t, g, s)]}
<1>1. 0 \in S
  <2> DEFINE g == [s \in SUBSET (1 .. 0) |-> << <<>> >>]
  <2>1. \A s \in SUBSET (1 .. 0) : s = {}
    OBVIOUS
  <2>2. g = [s \in SUBSET (1 .. 0) |-> WordFold(t, g, s)]
    BY <2>1, Zenon DEF WordFold
  <2>. QED BY <2>2
<1>2. ASSUME NEW n \in Nat, n \in S PROVE n + 1 \in S
  <2>1. PICK g : g = [s \in SUBSET (1 .. n) |-> WordFold(t, g, s)]
    BY <1>2
  <2> DEFINE h == [s \in SUBSET (1 .. n + 1) |->
                      IF n + 1 \in s THEN NextWord(g[s \ {n + 1}], t[n + 1]) ELSE g[s]]
  <2>2. ASSUME NEW s \in SUBSET (1 .. n + 1), n + 1 \notin s PROVE s \in SUBSET (1 .. n)
    BY <2>2
  <2>3. ASSUME NEW s \in SUBSET (1 .. n) PROVE h[s] = g[s] /\ n + 1 \notin s
    <3>1. s \in SUBSET (1 .. n + 1) /\ n + 1 \notin s
      OBVIOUS
    <3>. QED BY <3>1
  <2>4. ASSUME NEW s \in SUBSET (1 .. n + 1) PROVE h[s] = WordFold(t, h, s)
    <3>1. CASE n + 1 \in s
      <4>1. Max(s) = n + 1 /\ s # {}
        BY <3>1, MaxIsLast, n + 1 \in Nat
      <4>2. s \ {n + 1} \in SUBSET (1 .. n)
        BY <2>2
      <4>3. h[s \ {n + 1}] = g[s \ {n + 1}]
        BY <2>3, <4>2
      <4>4. h[s] = NextWord(g[s \ {n + 1}], t[n + 1])
        BY <3>1
      <4> HIDE DEF h
      <4>. QED BY <4>1, <4>3, <4>4 DEF WordFold
    <3>2. CASE n + 1 \notin s
      <4>1. s \in SUBSET (1 .. n) /\ s \ {Max(s)} \in SUBSET (1 .. n)
        BY <2>2, <3>2
      <4>2. h[s] = g[s] /\ h[s \ {Max(s)}] = g[s \ {Max(s)}]
        BY <2>3, <4>1
      <4>3. g[s] = WordFold(t, g, s)
        BY <2>1, <4>1
      <4> HIDE DEF h
      <4>. QED BY <4>2, <4>3 DEF WordFold
    <3>. QED BY <3>1, <3>2
  <2>5. h = [s \in SUBSET (1 .. n + 1) |-> WordFold(t, h, s)]
    <3>1. h = [s \in SUBSET (1 .. n + 1) |-> h[s]]
      OBVIOUS
    <3> HIDE DEF h
    <3>. QED BY <2>4, <3>1
  <2> HIDE DEF h
  <2>6. \E f : f = [s \in SUBSET (1 .. n + 1) |-> WordFold(t, f, s)]
    BY <2>5
  <2>. QED BY <2>6
<1> HIDE DEF S
<1>3. Nat \subseteq S
  BY <1>1, <1>2, NatByInduction
<1>. QED BY <1>3 DEF S

\* split takes one word after the other.
LEMMA WordByWord ==
  ASSUME NEW t, IsSequence(t)
  PROVE  \E f : /\ f[0] = << <<>> >> /\ f[Len(t)] = split(t)
                /\ \A n \in 0 .. Len(t) - 1 : f[n + 1] = NextWord(f[n], t[n + 1])
<1> DEFINE g == CHOOSE g : g = [s \in SUBSET DOMAIN t |-> WordFold(t, g, s)]
           f == [n \in 0 .. Len(t) |-> g[1 .. n]]
<1>1. Len(t) \in Nat /\ DOMAIN t = 1 .. Len(t)
  BY DEF IsSequence
<1>2. split(t) = g[DOMAIN t]
  BY DEF split, FoldLeft, MapThenFoldSet, WordFold
<1>3. g = [s \in SUBSET (1 .. Len(t)) |-> WordFold(t, g, s)]
  BY <1>1, SplitSolved
<1> HIDE DEF g
<1>4. ASSUME NEW n \in 0 .. Len(t) PROVE 1 .. n \in SUBSET (1 .. Len(t))
  BY <1>1
<1>5. ASSUME NEW n \in 0 .. Len(t) - 1 PROVE f[n + 1] = NextWord(f[n], t[n + 1])
  <2>1. n + 1 \in Nat /\ n + 1 \in 1 .. n + 1 /\ n + 1 \in 0 .. Len(t) /\ n \in 0 .. Len(t)
    BY <1>1
  <2>2. Max(1 .. n + 1) = n + 1
    BY <2>1, MaxIsLast
  <2>3. (1 .. n + 1) \ {n + 1} = 1 .. n
    BY <1>1
  <2>4. g[1 .. n + 1] = WordFold(t, g, 1 .. n + 1)
    BY <1>3, <1>4, <2>1
  <2>5. g[1 .. n + 1] = NextWord(g[1 .. n], t[n + 1])
    BY <2>1, <2>2, <2>3, <2>4 DEF WordFold
  <2>. QED BY <2>1, <2>5
<1>6. f[0] = << <<>> >>
  <2>1. 1 .. 0 = {} /\ 0 \in 0 .. Len(t)
    BY <1>1
  <2>2. g[1 .. 0] = WordFold(t, g, 1 .. 0)
    BY <1>3, <1>4, <2>1
  <2>. QED BY <2>1, <2>2 DEF WordFold
<1>7. split(t) = f[Len(t)]
  BY <1>1, <1>2
<1> HIDE DEF f
<1>. QED BY <1>5, <1>6, <1>7

\* The lines ls are what lies between the "\n" of t from its place from + 1 to
\* its place to; the line i begins at b[i].
Cuts(t, from, to, ls, b) ==
    /\ b \in [1 .. Len(ls) + 1 -> Nat]
    /\ b[1] = from + 1 /\ b[Len(ls) + 1] = to + 2
    /\ \A i \in 1 .. Len(ls) :
           /\ Len(ls[i]) = b[i + 1] - b[i] - 1
           /\ \A x \in 1 .. Len(ls[i]) : ls[i][x] = t[b[i] + x - 1]
    /\ \A i \in 2 .. Len(ls) : b[i] <= to + 1 /\ t[b[i] - 1] = "\n"

CutsText(t, n, ls) ==
    /\ ls \in Seq(Seq(ToSet(t))) /\ Len(ls) >= 1
    /\ \E b : Cuts(t, 0, n, ls, b)

LEMMA NextWordCuts ==
  ASSUME NEW t, IsSequence(t), NEW n \in 0 .. Len(t) - 1, NEW ls, CutsText(t, n, ls)
  PROVE  CutsText(t, n + 1, NextWord(ls, t[n + 1]))
<1> DEFINE new == NextWord(ls, t[n + 1])
           m   == Len(ls)
           W   == ToSet(t)
<1> SUFFICES CutsText(t, n + 1, new)
  OBVIOUS
<1>1. PICK b : Cuts(t, 0, n, ls, b)
  BY DEF CutsText
<1>2. /\ n \in Nat /\ m \in Nat /\ m >= 1 /\ t[n + 1] \in W
      /\ ls \in Seq(Seq(W)) /\ ls[m] \in Seq(W)
  BY DEF CutsText, IsSequence, ToSet
<1>3. /\ b \in [1 .. m + 1 -> Nat] /\ b[1] = 1 /\ b[m + 1] = n + 2
      /\ \A i \in 1 .. m : /\ Len(ls[i]) = b[i + 1] - b[i] - 1
                           /\ \A x \in 1 .. Len(ls[i]) : ls[i][x] = t[b[i] + x - 1]
      /\ \A i \in 2 .. m : b[i] <= n + 1 /\ t[b[i] - 1] = "\n"
  BY <1>1 DEF Cuts
<1> HIDE DEF W
<1>4. CASE t[n + 1] = "\n"
  <2>1. new = Append(ls, <<>>)
    BY <1>4 DEF NextWord
  <2> HIDE DEF new
  <2>2. /\ new \in Seq(Seq(W)) /\ Len(new) = m + 1 /\ new[m + 1] = <<>>
        /\ \A i \in 1 .. m : new[i] = ls[i]
    BY <1>2, <2>1
  <2> DEFINE to == [i \in 1 .. m + 2 |-> IF i <= m + 1 THEN b[i] ELSE n + 3]
  <2>3. /\ to \in [1 .. m + 2 -> Nat] /\ to[m + 2] = n + 3
        /\ \A i \in 1 .. m + 1 : to[i] = b[i]
    BY <1>2, <1>3
  <2> HIDE DEF to, m
  <2>4. ASSUME NEW i \in 1 .. m + 1
        PROVE  /\ Len(new[i]) = to[i + 1] - to[i] - 1
               /\ \A x \in 1 .. Len(new[i]) : new[i][x] = t[to[i] + x - 1]
    <3>1. CASE i \in 1 .. m
      <4>1. new[i] = ls[i] /\ to[i] = b[i] /\ to[i + 1] = b[i + 1]
        <5>1. i \in 1 .. m + 1 /\ i + 1 \in 1 .. m + 1
          BY <1>2, <3>1
        <5>. QED BY <2>2, <2>3, <3>1, <5>1
      <4>. QED BY <1>3, <3>1, <4>1
    <3>2. CASE i = m + 1
      <4>1. to[i] = n + 2 /\ to[i + 1] = n + 3 /\ new[i] = <<>>
        BY <1>2, <1>3, <2>2, <2>3, <3>2
      <4>2. Len(new[i]) = 0
        BY <4>1
      <4>. QED BY <1>2, <4>1, <4>2
    <3>. QED BY <1>2, <3>1, <3>2
  <2>5. ASSUME NEW i \in 2 .. m + 1 PROVE to[i] <= n + 2 /\ t[to[i] - 1] = "\n"
    <3>1. CASE i \in 2 .. m
      <4>1. i \in 1 .. m + 1
        BY <1>2, <3>1
      <4>2. to[i] = b[i] /\ b[i] \in Nat /\ b[i] <= n + 1 /\ t[b[i] - 1] = "\n"
        BY <1>3, <2>3, <3>1, <4>1
      <4>. QED BY <1>2, <4>2
    <3>2. CASE i = m + 1
      <4>1. to[i] = n + 2
        BY <1>2, <1>3, <2>3, <3>2
      <4>2. to[i] - 1 = n + 1 /\ to[i] <= n + 2
        BY <1>2, <4>1
      <4>. QED BY <1>4, <4>2
    <3>. QED BY <1>2, <3>1, <3>2
  <2>6. to[1] = 1
    BY <1>2, <1>3, <2>3
  <2>7. Cuts(t, 0, n + 1, new, to)
    <3>1. Len(new) + 1 = m + 2 /\ n + 1 + 2 = n + 3
      BY <1>2, <2>2
    <3>2. n + 1 + 1 = n + 2
      BY <1>2
    <3>. QED BY <2>2, <2>3, <2>4, <2>5, <2>6, <3>1, <3>2 DEF Cuts
  <2>. QED BY <1>2, <2>2, <2>7 DEF CutsText, W
<1>5. CASE t[n + 1] # "\n"
  <2> DEFINE line == Append(ls[m], t[n + 1])
  <2>1. new = [ls EXCEPT ![m] = line]
    BY <1>5 DEF NextWord
  <2>2. /\ line \in Seq(W) /\ Len(line) = Len(ls[m]) + 1 /\ line[Len(ls[m]) + 1] = t[n + 1]
        /\ \A x \in 1 .. Len(ls[m]) : line[x] = ls[m][x]
        /\ Len(ls[m]) \in Nat
    BY <1>2
  <2> HIDE DEF new, line, m
  <2>3. /\ new \in Seq(Seq(W)) /\ Len(new) = m /\ new[m] = line
        /\ \A i \in 1 .. m - 1 : new[i] = ls[i]
    <3>1. m \in 1 .. Len(ls) /\ Len(ls) = m
      BY <1>2 DEF m
    <3>. QED BY <1>2, <2>1, <2>2, <3>1
  <2> DEFINE to == [i \in 1 .. m + 1 |-> IF i <= m THEN b[i] ELSE n + 3]
  <2>4. /\ to \in [1 .. m + 1 -> Nat] /\ to[m + 1] = n + 3
        /\ \A i \in 1 .. m : to[i] = b[i]
    <3>1. to[m + 1] = n + 3 /\ \A i \in 1 .. m : to[i] = b[i]
      BY <1>2
    <3>2. \A i \in 1 .. m : b[i] \in Nat
      <4>1. b \in [1 .. m + 1 -> Nat]
        BY <1>3
      <4>. QED BY <1>2, <4>1
    <3>. QED BY <1>2, <3>1, <3>2
  <2> HIDE DEF to
  <2>5. ASSUME NEW i \in 1 .. m
        PROVE  /\ Len(new[i]) = to[i + 1] - to[i] - 1
               /\ \A x \in 1 .. Len(new[i]) : new[i][x] = t[to[i] + x - 1]
    <3>1. CASE i \in 1 .. m - 1
      <4>1. new[i] = ls[i] /\ to[i] = b[i] /\ to[i + 1] = b[i + 1]
        <5>1. i \in 1 .. m /\ i + 1 \in 1 .. m
          BY <1>2, <3>1
        <5>. QED BY <2>3, <2>4, <3>1, <5>1
      <4>. QED BY <1>3, <4>1
    <3>2. CASE i = m
      <4>1. to[i] = b[m] /\ to[i + 1] = n + 3 /\ new[i] = line /\ b[m] \in Nat
        BY <1>2, <1>3, <2>3, <2>4, <3>2
      <4>2. /\ Len(ls[m]) = n + 2 - b[m] - 1
            /\ \A x \in 1 .. Len(ls[m]) : ls[m][x] = t[b[m] + x - 1]
        <5>1. m \in 1 .. m
          BY <1>2
        <5>2. Len(ls[m]) = b[m + 1] - b[m] - 1 /\ b[m + 1] = n + 2
          BY <1>3, <5>1
        <5>3. Len(ls[m]) = n + 2 - b[m] - 1
          <6> DEFINE B == b[m + 1]
                     L == Len(ls[m])
                     c == b[m]
          <6>1. L = B - c - 1 /\ B = n + 2 /\ c \in Nat /\ n \in Nat
            BY <1>2, <4>1, <5>2
          <6> HIDE DEF B, L, c
          <6>2. L = n + 2 - c - 1
            BY <6>1
          <6>. QED BY <6>2 DEF L, c
        <5>4. \A x \in 1 .. Len(ls[m]) : ls[m][x] = t[b[m] + x - 1]
          BY <1>3, <5>1
        <5>. QED BY <5>3, <5>4
      <4>3. ASSUME NEW x \in 1 .. Len(line) PROVE line[x] = t[b[m] + x - 1]
        <5>1. CASE x \in 1 .. Len(ls[m])
          BY <2>2, <4>2, <5>1
        <5>2. CASE x = Len(ls[m]) + 1
          <6>1. b[m] + x - 1 = n + 1
            <7> DEFINE B == b[m]
                       L == Len(ls[m])
            <7>1. x = L + 1 /\ L = n + 2 - B - 1 /\ B \in Nat /\ n \in Nat
              BY <1>2, <4>1, <4>2, <5>2
            <7> HIDE DEF B, L
            <7>2. B + x - 1 = n + 1
              BY <7>1
            <7>. QED BY <7>2 DEF B
          <6>. QED BY <2>2, <5>2, <6>1
        <5>. QED BY <2>2, <5>1, <5>2
      <4>4. Len(line) = n + 3 - b[m] - 1
        <5>1. Len(line) = Len(ls[m]) + 1 /\ Len(ls[m]) = n + 2 - b[m] - 1
          BY <2>2, <4>2
        <5> DEFINE B == b[m]
                   L == Len(line)
                   K == Len(ls[m])
        <5>2. L = K + 1 /\ K = n + 2 - B - 1 /\ B \in Nat /\ n \in Nat
          BY <1>2, <4>1, <5>1
        <5> HIDE DEF B, K, L
        <5>3. L = n + 3 - B - 1
          BY <5>2
        <5>. QED BY <5>3 DEF B, L
      <4>. QED BY <4>1, <4>3, <4>4
    <3>. QED BY <1>2, <3>1, <3>2
  <2>6. ASSUME NEW i \in 2 .. m PROVE to[i] <= n + 2 /\ t[to[i] - 1] = "\n"
    <3>1. i \in 1 .. m
      BY <1>2
    <3>2. to[i] = b[i] /\ b[i] \in Nat /\ b[i] <= n + 1 /\ t[b[i] - 1] = "\n"
      <4>1. b \in [1 .. m + 1 -> Nat]
        BY <1>3
      <4>2. b[i] \in Nat
        BY <1>2, <3>1, <4>1
      <4>. QED BY <1>3, <2>4, <3>1, <4>2
    <3>. QED BY <1>2, <3>2
  <2>7. to[1] = 1
    BY <1>2, <1>3, <2>4
  <2>8. Cuts(t, 0, n + 1, new, to)
    <3>1. n + 1 + 2 = n + 3 /\ n + 1 + 1 = n + 2
      BY <1>2
    <3>. QED BY <2>3, <2>4, <2>5, <2>6, <2>7, <3>1 DEF Cuts
  <2>. QED BY <1>2, <2>3, <2>8 DEF CutsText, W
<1>. QED BY <1>4, <1>5

\* However the data is cut into lines, the lines are stretches of it with one
\* "\n" between two.
LEMMA SplitCuts ==
  ASSUME NEW t, IsSequence(t)
  PROVE  CutsText(t, Len(t), split(t))
<1>1. PICK f : /\ f[0] = << <<>> >> /\ f[Len(t)] = split(t)
               /\ \A n \in 0 .. Len(t) - 1 : f[n + 1] = NextWord(f[n], t[n + 1])
  BY WordByWord
<1> DEFINE S == {n \in Nat : n <= Len(t) => CutsText(t, n, f[n])}
<1>2. Len(t) \in Nat
  BY DEF IsSequence
<1>3. 0 \in S
  <2> DEFINE ls == << <<>> >>
             b  == [i \in 1 .. 2 |-> i]
  <2>1. Len(ls) = 1 /\ ls[1] = <<>> /\ ls \in Seq(Seq(ToSet(t))) /\ Len(ls[1]) = 0
    OBVIOUS
  <2>2. b \in [1 .. 2 -> Nat] /\ b[1] = 1 /\ b[2] = 2
    OBVIOUS
  <2> HIDE DEF ls, b
  <2>3. Cuts(t, 0, 0, ls, b)
    BY <2>1, <2>2 DEF Cuts
  <2>4. CutsText(t, 0, ls)
    BY <2>1, <2>3 DEF CutsText
  <2>. QED BY <1>1, <2>4 DEF ls
<1>4. ASSUME NEW n \in Nat, n \in S PROVE n + 1 \in S
  <2>1. CASE n + 1 <= Len(t)
    <3>1. n \in 0 .. Len(t) - 1 /\ CutsText(t, n, f[n])
      BY <1>2, <1>4, <2>1
    <3>2. CutsText(t, n + 1, f[n + 1])
      BY <1>1, <3>1, NextWordCuts
    <3>. QED BY <3>2
  <2>. QED BY <1>2, <2>1
<1> HIDE DEF S
<1>5. Nat \subseteq S
  BY <1>3, <1>4, NatByInduction
<1>. QED BY <1>1, <1>2, <1>5 DEF S
-----------------------------------------------------------------------------
(* HttpRequest: what the first n lines of a configuration file say.        *)

SaidBy(lines, n, key) ==
    {m \in 1 .. n : lines[m].key.word = key /\ lines[m].args # <<>>}
TypedBy(lines, n) == {m \in SaidBy(lines, n, "contenttype") : Len(lines[m].args) > 1}

IsLast(m, T) == m \in T /\ \A j \in T : j <= m

PortRead(lines, n, port) ==
    \/ SaidBy(lines, n, "listen") = {} /\ port = 80
    \/ \E m : IsLast(m, SaidBy(lines, n, "listen")) /\ port = lines[m].args[1] % 2^16

WordRead(lines, n, key, word) ==
    \/ SaidBy(lines, n, key) = {}
    \/ \E m : IsLast(m, SaidBy(lines, n, key)) /\ word = lines[m].args[1]

\* The slots of the complete ContentType lines: at says which of them each slot
\* has been written by.
Slots(lines, n, count, exts, types, at) ==
    /\ at \in [1 .. count -> TypedBy(lines, n)]
    /\ \A i, j \in 1 .. count : i < j => at[i] < at[j]
    /\ \A m \in TypedBy(lines, n) : \E i \in 1 .. count : at[i] = m
    /\ \A i \in 1 .. count : exts[i] = lines[at[i]].args[1] /\ types[i] = lines[at[i]].args[2]

Words(lines) ==
    {"html", "text/html"} \cup UNION {ToSet(lines[m].args) : m \in 1 .. Len(lines)}

TypesRead(lines, n, count, exts, types) ==
    /\ exts \in Seq(Words(lines)) /\ types \in Seq(Words(lines))
    /\ count \in Nat /\ count <= Len(exts) /\ count <= Len(types)
    /\ \E at : Slots(lines, n, count, exts, types, at)

SaysThis(d, key) == d.key.word = key /\ d.args # <<>>

LEMMA SaidMore ==
  ASSUME NEW lines, NEW n \in Nat, NEW key
  PROVE  /\ SaysThis(lines[n + 1], key) =>
                /\ SaidBy(lines, n + 1, key) = SaidBy(lines, n, key) \cup {n + 1}
                /\ IsLast(n + 1, SaidBy(lines, n + 1, key))
         /\ ~ SaysThis(lines[n + 1], key) => SaidBy(lines, n + 1, key) = SaidBy(lines, n, key)
BY DEF SaidBy, SaysThis, IsLast

LEMMA PortMore ==
  ASSUME NEW lines, NEW n \in Nat, NEW port, PortRead(lines, n, port)
  PROVE  /\ ~ SaysThis(lines[n + 1], "listen") => PortRead(lines, n + 1, port)
         /\ SaysThis(lines[n + 1], "listen") =>
                PortRead(lines, n + 1, lines[n + 1].args[1] % 2^16)
BY SaidMore DEF PortRead

LEMMA WordMore ==
  ASSUME NEW lines, NEW n \in Nat, NEW key, NEW word, WordRead(lines, n, key, word)
  PROVE  /\ ~ SaysThis(lines[n + 1], key) => WordRead(lines, n + 1, key, word)
         /\ SaysThis(lines[n + 1], key) =>
                WordRead(lines, n + 1, key, lines[n + 1].args[1])
BY SaidMore DEF WordRead

LEMMA PutSlot ==
  ASSUME NEW W, NEW a \in Seq(W), NEW w \in W, NEW j \in Nat, j <= Len(a)
  PROVE  /\ Put(a, j, w) \in Seq(W) /\ Len(Put(a, j, w)) >= j + 1
         /\ Put(a, j, w)[j + 1] = w /\ Len(Put(a, j, w)) >= Len(a)
         /\ \A i \in 1 .. j : Put(a, j, w)[i] = a[i]
<1>1. CASE j < Len(a)
  <2>1. Put(a, j, w) = [a EXCEPT ![j + 1] = w] /\ j + 1 \in 1 .. Len(a)
    BY <1>1 DEF Put
  <2>. QED BY <2>1
<1>2. CASE j = Len(a)
  <2>1. Put(a, j, w) = Append(a, w)
    BY <1>2 DEF Put
  <2>. QED BY <1>2, <2>1
<1>. QED BY <1>1, <1>2

\* An incomplete line writes at most the slot that the next one overwrites.
LEMMA TypesKept ==
  ASSUME NEW lines, NEW n \in Nat, NEW count, NEW exts, NEW types,
         TypesRead(lines, n, count, exts, types),
         ~ (SaysThis(lines[n + 1], "contenttype") /\ Len(lines[n + 1].args) > 1)
  PROVE  /\ TypesRead(lines, n + 1, count, exts, types)
         /\ \A w \in Words(lines) : TypesRead(lines, n + 1, count, Put(exts, count, w), types)
<1>1. TypedBy(lines, n + 1) = TypedBy(lines, n)
  <2>1. CASE SaysThis(lines[n + 1], "contenttype")
    <3>1. SaidBy(lines, n + 1, "contenttype") = SaidBy(lines, n, "contenttype") \cup {n + 1}
      BY <2>1, SaidMore
    <3>2. ~ (Len(lines[n + 1].args) > 1)
      BY <2>1
    <3>. QED BY <3>1, <3>2 DEF TypedBy
  <2>2. CASE ~ SaysThis(lines[n + 1], "contenttype")
    BY <2>2, SaidMore DEF TypedBy
  <2>. QED BY <2>1, <2>2
<1>2. PICK at : Slots(lines, n, count, exts, types, at)
  BY DEF TypesRead
<1>3. TypesRead(lines, n + 1, count, exts, types)
  <2>1. Slots(lines, n + 1, count, exts, types, at)
    BY <1>1, <1>2 DEF Slots
  <2>. QED BY <2>1 DEF TypesRead
<1>4. ASSUME NEW w \in Words(lines)
      PROVE  TypesRead(lines, n + 1, count, Put(exts, count, w), types)
  <2> DEFINE new == Put(exts, count, w)
  <2>1. /\ exts \in Seq(Words(lines)) /\ count \in Nat /\ count <= Len(exts)
        /\ Len(exts) \in Nat
    BY DEF TypesRead
  <2>2. /\ new \in Seq(Words(lines)) /\ Len(new) >= count + 1 /\ Len(new) \in Nat
        /\ \A i \in 1 .. count : new[i] = exts[i]
    BY <2>1, PutSlot
  <2> HIDE DEF new
  <2>3. count <= Len(new)
    BY <2>1, <2>2
  <2>4. Slots(lines, n + 1, count, new, types, at)
    BY <1>1, <1>2, <2>2 DEF Slots
  <2>5. TypesRead(lines, n + 1, count, new, types)
    BY <2>2, <2>3, <2>4 DEF TypesRead
  <2>. QED BY <2>5 DEF new
<1>. QED BY <1>3, <1>4

\* A complete line takes the slot count.
LEMMA TypesMore ==
  ASSUME NEW lines, NEW n \in Nat, NEW count, NEW exts, NEW types,
         TypesRead(lines, n, count, exts, types),
         SaysThis(lines[n + 1], "contenttype"), Len(lines[n + 1].args) > 1,
         NEW w \in Words(lines), NEW v \in Words(lines),
         w = lines[n + 1].args[1], v = lines[n + 1].args[2]
  PROVE  TypesRead(lines, n + 1, count + 1, Put(exts, count, w), Put(types, count, v))
<1> DEFINE a == Put(exts, count, w)
           b == Put(types, count, v)
           W == Words(lines)
<1>1. /\ exts \in Seq(W) /\ types \in Seq(W) /\ count \in Nat
      /\ count <= Len(exts) /\ count <= Len(types)
  BY DEF TypesRead
<1>2. PICK at : Slots(lines, n, count, exts, types, at)
  BY DEF TypesRead
<1>3. /\ a \in Seq(W) /\ Len(a) >= count + 1 /\ a[count + 1] = w
      /\ \A i \in 1 .. count : a[i] = exts[i]
  BY <1>1, PutSlot
<1>4. /\ b \in Seq(W) /\ Len(b) >= count + 1 /\ b[count + 1] = v
      /\ \A i \in 1 .. count : b[i] = types[i]
  BY <1>1, PutSlot
<1> HIDE DEF a, b, W
<1>5. /\ TypedBy(lines, n + 1) = TypedBy(lines, n) \cup {n + 1}
      /\ \A m \in TypedBy(lines, n) : m < n + 1
  <2>1. SaidBy(lines, n + 1, "contenttype") = SaidBy(lines, n, "contenttype") \cup {n + 1}
    BY SaidMore
  <2>2. TypedBy(lines, n + 1) = TypedBy(lines, n) \cup {n + 1}
    BY <2>1 DEF TypedBy
  <2>3. \A m \in TypedBy(lines, n) : m \in 1 .. n
    BY DEF TypedBy, SaidBy
  <2>. QED BY <2>2, <2>3
<1> DEFINE to == [i \in 1 .. count + 1 |-> IF i <= count THEN at[i] ELSE n + 1]
<1>6. \A i \in 1 .. count : at[i] \in TypedBy(lines, n)
  BY <1>2 DEF Slots
<1>7. /\ to[count + 1] = n + 1 /\ \A i \in 1 .. count : to[i] = at[i]
      /\ to = [i \in 1 .. count + 1 |-> to[i]]
  BY <1>1
<1> HIDE DEF to
<1>8. \A i \in 1 .. count + 1 : i \in 1 .. count \/ i = count + 1
  BY <1>1
<1>9. to \in [1 .. count + 1 -> TypedBy(lines, n + 1)]
  <2>1. \A i \in 1 .. count + 1 : to[i] \in TypedBy(lines, n + 1)
    BY <1>5, <1>6, <1>7, <1>8
  <2>. QED BY <1>7, <2>1
<1>10. ASSUME NEW i \in 1 .. count + 1, NEW j \in 1 .. count + 1, i < j
       PROVE  to[i] < to[j]
  <2>1. i \in 1 .. count
    BY <1>1, <1>10
  <2>2. CASE j \in 1 .. count
    BY <1>2, <1>7, <1>10, <2>1, <2>2 DEF Slots
  <2>3. CASE j = count + 1
    BY <1>5, <1>6, <1>7, <2>1, <2>3
  <2>. QED BY <1>8, <2>2, <2>3
<1>11. ASSUME NEW m \in TypedBy(lines, n + 1) PROVE \E i \in 1 .. count + 1 : to[i] = m
  <2>1. CASE m \in TypedBy(lines, n)
    <3>1. PICK i \in 1 .. count : at[i] = m
      BY <1>2, <2>1 DEF Slots
    <3>2. i \in 1 .. count + 1
      BY <1>1
    <3>3. to[i] = m
      BY <1>7, <3>1
    <3>. QED BY <3>2, <3>3
  <2>2. CASE m = n + 1
    <3>1. count + 1 \in 1 .. count + 1
      BY <1>1
    <3>. QED BY <1>7, <2>2, <3>1
  <2>. QED BY <1>5, <2>1, <2>2
<1>12. ASSUME NEW i \in 1 .. count + 1
       PROVE  a[i] = lines[to[i]].args[1] /\ b[i] = lines[to[i]].args[2]
  <2>1. CASE i \in 1 .. count
    BY <1>2, <1>3, <1>4, <1>7, <2>1 DEF Slots
  <2>2. CASE i = count + 1
    BY <1>3, <1>4, <1>7, <2>2
  <2>. QED BY <1>8, <2>1, <2>2
<1>13. Slots(lines, n + 1, count + 1, a, b, to)
  BY <1>9, <1>10, <1>11, <1>12 DEF Slots
<1>14. /\ a \in Seq(Words(lines)) /\ b \in Seq(Words(lines))
       /\ count + 1 \in Nat /\ count + 1 <= Len(a) /\ count + 1 <= Len(b)
  <2>1. Len(a) \in Nat /\ Len(b) \in Nat
    BY <1>3, <1>4
  <2>. QED BY <1>1, <1>3, <1>4, <2>1 DEF W
<1>15. TypesRead(lines, n + 1, count + 1, a, b)
  BY <1>13, <1>14 DEF TypesRead
<1>. QED BY <1>15 DEF a, b

\* The first slot with an extension is that of the first complete line with it.
LEMMA TypeFound ==
  ASSUME NEW lines, NEW n \in Nat, NEW c, NEW uri, uri.ext # NoWord,
         TypesRead(lines, n, c.count_content_types, c.file_extensions, c.content_types)
  PROVE  LET named == {m \in TypedBy(lines, n) : lines[m].args[1] = uri.ext}
             type  == get_content_type(c, uri)
         IN  IF named = {} THEN type = NoWord
             ELSE Min(named) \in named /\ type = lines[Min(named)].args[2]
<1> DEFINE count == c.count_content_types
           exts  == c.file_extensions
           types == c.content_types
           ext   == uri.ext
           first == FirstSlot(c, ext)
           named == {m \in TypedBy(lines, n) : lines[m].args[1] = ext}
           T     == {j \in 1 .. count : exts[j] = ext}
<1>1. PICK at : Slots(lines, n, count, exts, types, at)
  BY DEF TypesRead
<1>2. count \in Nat
  BY DEF TypesRead
<1>4. first = {j \in T : \A i \in T : j <= i}
  BY <1>2 DEF FirstSlot
<1>5. \A j \in T : at[j] \in named
  BY <1>1 DEF Slots
<1>6. \A m \in named : \E j \in T : at[j] = m
  BY <1>1 DEF Slots
<1>7. CASE named = {}
  <2>1. T = {}
    BY <1>5, <1>7
  <2>2. first = {}
    BY <1>4, <2>1
  <2>3. get_content_type(c, uri) = NoWord
    BY <2>2 DEF get_content_type
  <2>. QED BY <1>7, <2>3
<1>8. CASE named # {}
  <2>1. T # {} /\ T \subseteq Nat
    BY <1>2, <1>6, <1>8
  <2>2. PICK j \in T : \A i \in T : j <= i
    BY <2>1, NatHasLeast
  <2>3. first = {j}
    BY <1>4, <2>1, <2>2
  <2>4. \A i \in T : i = j \/ j < i
    BY <2>1, <2>2
  <2>5. at[j] \in named /\ \A m \in named : at[j] <= m
    <3>1. ASSUME NEW m \in named PROVE at[j] <= m
      <4>1. PICK i \in T : at[i] = m
        BY <1>6
      <4>2. at[j] \in Nat /\ at[i] \in Nat
        <5>1. at[j] \in TypedBy(lines, n) /\ at[i] \in TypedBy(lines, n)
          BY <1>1 DEF Slots
        <5>. QED BY <5>1 DEF TypedBy, SaidBy
      <4>3. i = j \/ at[j] < at[i]
        BY <1>1, <2>4 DEF Slots
      <4>. QED BY <4>1, <4>2, <4>3
    <3>. QED BY <1>5, <3>1
  <2>6. \A m \in named : m \in Nat
    BY DEF TypedBy, SaidBy
  <2> HIDE DEF named, T, first
  <2>7. Min(named) = at[j]
    <3>1. \A x \in named : (\A y \in named : x <= y) => x = at[j]
      BY <2>5, <2>6
    <3>. QED BY <2>5, <3>1, Zenon DEF Min
  <2>8. get_content_type(c, uri) = types[j]
    BY <2>3 DEF get_content_type, first
  <2>9. types[j] = lines[at[j]].args[2]
    BY <1>1 DEF Slots, T
  <2>. QED BY <1>8, <2>5, <2>7, <2>8, <2>9 DEF named
<1>. QED BY <1>7, <1>8
-----------------------------------------------------------------------------
(* HttpRequest: the invariant.                                             *)

\* The lines of the configuration file that have been read.
LinesRead == Len(config) - Len(directives)

SettingsRead(lines, n, c, count) ==
    /\ PortRead(lines, n, c.port)
    /\ WordRead(lines, n, "documentroot", c.root)
    /\ WordRead(lines, n, "directoryindex", c.index)
    /\ TypesRead(lines, n, count, c.file_extensions, c.content_types)

IsConf(c) ==
    c = [port |-> c.port, root |-> c.root, index |-> c.index,
         file_extensions |-> c.file_extensions, content_types |-> c.content_types,
         count_content_types |-> c.count_content_types]

\* While the file is read conf holds what its lines so far say, and afterwards
\* what all of them say.
ConfigInv ==
    /\ config \in Configs /\ IsConf(conf)
    /\ stage = "config" =>
           /\ directives \in Seq(ToSet(config)) /\ LinesRead \in 0 .. Len(config)
           /\ \A i \in 1 .. Len(directives) : directives[i] = config[LinesRead + i]
           /\ SettingsRead(config, LinesRead, conf, k)
    /\ stage \notin {"config", "exit"} =>
           /\ SettingsRead(config, Len(config), conf, k)
           /\ conf.count_content_types = k /\ ~ (conf.port < 1024)

-----------------------------------------------------------------------------
(* HttpRequest: reading the file.                                          *)

LEMMA LineWords ==
  ASSUME NEW c \in Configs, NEW n \in 1 .. Len(c)
  PROVE  /\ \A s : strcmp(lower(c[n].key), s) <=> c[n].key.word = s
         /\ Len(c[n].args) \in Nat /\ (c[n].args # <<>> => Len(c[n].args) >= 1)
         /\ (c[n].args = <<>> => Len(c[n].args) = 0)
         /\ \A i \in 1 .. Len(c[n].args) : c[n].args[i] \in Words(c)
<1> DEFINE w == c[n].key
           r == lower(w)
           args == c[n].args
<1>1. IsWord(w) /\ w.blanks = FALSE /\ IsSequence(args)
  BY RequestAssumption
<1>2. w \in [word : {w.word}, caps : {w.caps}, blanks : {FALSE}]
  BY <1>1 DEF IsWord
<1> HIDE DEF w
<1>3. r \in [word : {w.word}, caps : {FALSE}, blanks : {FALSE}]
  BY <1>2 DEF lower
<1> HIDE DEF r
<1>4. r.word = w.word /\ r.caps = FALSE /\ r.blanks = FALSE
  BY <1>3
<1>5. r = [word |-> w.word, caps |-> FALSE, blanks |-> FALSE]
  BY <1>3, <1>4
<1>6. \A s : strcmp(r, s) <=> w.word = s
  BY <1>5 DEF strcmp, Written
<1>7. /\ Len(args) \in Nat /\ args \in Seq(ToSet(args))
      /\ \A i \in 1 .. Len(args) : args[i] \in ToSet(args)
  BY <1>1 DEF IsSequence, ToSet
<1>8. (args # <<>> => Len(args) >= 1) /\ (args = <<>> => Len(args) = 0)
  BY <1>7
<1>9. ToSet(args) \subseteq Words(c)
  BY DEF Words
<1> HIDE DEF args
<1>. QED BY <1>6, <1>7, <1>8, <1>9 DEF r, w, args

LEMMA DirectiveRead ==
  ASSUME ConfigInv, ReadDirective
  PROVE  ConfigInv'
<1> DEFINE n     == LinesRead
           d     == Head(directives)
           lines == config
<1>1. /\ stage = "config" /\ directives # <<>> /\ config \in Configs /\ IsConf(conf)
      /\ directives \in Seq(ToSet(config)) /\ LinesRead \in 0 .. Len(config)
      /\ SettingsRead(lines, n, conf, k)
      /\ stage' = "config" /\ config' = config /\ directives' = Tail(directives)
  BY DEF ConfigInv, ReadDirective
<1>2. \A i \in 1 .. Len(directives) : directives[i] = config[LinesRead + i]
  BY <1>1 DEF ConfigInv
<1>3. Len(config) \in Nat
  BY <1>1, RequestAssumption DEF IsSequence
<1>4. /\ n \in Nat /\ n + 1 \in 1 .. Len(config) /\ LinesRead' = n + 1
      /\ Len(directives') = Len(directives) - 1
      /\ directives' \in Seq(ToSet(config))
      /\ Len(directives) \in Nat /\ Len(directives) >= 1
      /\ \A i \in 1 .. Len(directives') : directives'[i] = directives[i + 1]
  BY <1>1, <1>3 DEF LinesRead
<1>5. d = config[n + 1]
  BY <1>1, <1>2, <1>4
<1>6. ASSUME NEW i \in 1 .. Len(directives') PROVE directives'[i] = config'[LinesRead' + i]
  <2>1. i + 1 \in 1 .. Len(directives) /\ LinesRead + (i + 1) = LinesRead' + i
    BY <1>1, <1>4
  <2>. QED BY <1>1, <1>2, <1>4, <2>1
<1> HIDE DEF n, d
<1>7. /\ \A s : strcmp(lower(d.key), s) <=> d.key.word = s
      /\ Len(d.args) \in Nat /\ (d.args # <<>> => Len(d.args) >= 1)
      /\ (d.args = <<>> => Len(d.args) = 0)
      /\ \A i \in 1 .. Len(d.args) : d.args[i] \in Words(lines)
  BY <1>1, <1>4, <1>5, LineWords
<1>8. /\ PortRead(lines, n, conf.port)
      /\ WordRead(lines, n, "documentroot", conf.root)
      /\ WordRead(lines, n, "directoryindex", conf.index)
      /\ TypesRead(lines, n, k, conf.file_extensions, conf.content_types)
  BY <1>1 DEF SettingsRead
<1>9. CASE \/ d.key.word = "listen" /\ Set(d, "port")
           \/ d.key.word = "documentroot" /\ Set(d, "root")
           \/ d.key.word = "directoryindex" /\ Set(d, "index")
           \/ d.key.word = "contenttype" /\ ContentType(d)
           \/ /\ d.key.word \notin {"listen", "documentroot", "directoryindex", "contenttype"}
              /\ UNCHANGED <<conf, k>>
  <2>1. SettingsRead(lines, n + 1, conf', k') /\ IsConf(conf')
    <3>1. CASE conf' = conf /\ k' = k /\ d.args = <<>>
      <4>1. \A key : ~ SaysThis(d, key)
        BY <3>1 DEF SaysThis
      <4>2. TypesRead(lines, n + 1, k, conf.file_extensions, conf.content_types)
        BY <1>4, <1>5, <1>8, <4>1, TypesKept
      <4>. QED BY <1>1, <1>4, <1>5, <1>8, <3>1, <4>1, <4>2, PortMore, WordMore DEF SettingsRead
    <3>2. CASE d.key.word = "listen" /\ Set(d, "port") /\ d.args # <<>>
      <4>1. conf' = [conf EXCEPT !.port = d.args[1] % 2^16] /\ k' = k
        BY <3>2 DEF Set
      <4>2. /\ SaysThis(d, "listen") /\ ~ SaysThis(d, "documentroot")
            /\ ~ SaysThis(d, "directoryindex") /\ ~ SaysThis(d, "contenttype")
        BY <3>2 DEF SaysThis
      <4>3. /\ conf'.port = d.args[1] % 2^16 /\ conf'.root = conf.root /\ conf'.index = conf.index
            /\ conf'.file_extensions = conf.file_extensions
            /\ conf'.content_types = conf.content_types /\ IsConf(conf')
        BY <1>1, <4>1 DEF IsConf
      <4>4. /\ PortRead(lines, n + 1, conf'.port)
            /\ WordRead(lines, n + 1, "documentroot", conf'.root)
            /\ WordRead(lines, n + 1, "directoryindex", conf'.index)
        BY <1>4, <1>5, <1>8, <4>2, <4>3, PortMore, WordMore
      <4>5. TypesRead(lines, n + 1, k', conf'.file_extensions, conf'.content_types)
        BY <1>4, <1>5, <1>8, <4>1, <4>2, <4>3, TypesKept
      <4>. QED BY <4>3, <4>4, <4>5 DEF SettingsRead
    <3>3. CASE d.key.word = "documentroot" /\ Set(d, "root") /\ d.args # <<>>
      <4>1. conf' = [conf EXCEPT !.root = d.args[1]] /\ k' = k
        BY <3>3 DEF Set
      <4>2. /\ SaysThis(d, "documentroot") /\ ~ SaysThis(d, "listen")
            /\ ~ SaysThis(d, "directoryindex") /\ ~ SaysThis(d, "contenttype")
        BY <3>3 DEF SaysThis
      <4>3. /\ conf'.root = d.args[1] /\ conf'.port = conf.port /\ conf'.index = conf.index
            /\ conf'.file_extensions = conf.file_extensions
            /\ conf'.content_types = conf.content_types /\ IsConf(conf')
        BY <1>1, <4>1 DEF IsConf
      <4>4. /\ PortRead(lines, n + 1, conf'.port)
            /\ WordRead(lines, n + 1, "documentroot", conf'.root)
            /\ WordRead(lines, n + 1, "directoryindex", conf'.index)
        BY <1>4, <1>5, <1>8, <4>2, <4>3, PortMore, WordMore
      <4>5. TypesRead(lines, n + 1, k', conf'.file_extensions, conf'.content_types)
        BY <1>4, <1>5, <1>8, <4>1, <4>2, <4>3, TypesKept
      <4>. QED BY <4>3, <4>4, <4>5 DEF SettingsRead
    <3>4. CASE d.key.word = "directoryindex" /\ Set(d, "index") /\ d.args # <<>>
      <4>1. conf' = [conf EXCEPT !.index = d.args[1]] /\ k' = k
        BY <3>4 DEF Set
      <4>2. /\ SaysThis(d, "directoryindex") /\ ~ SaysThis(d, "listen")
            /\ ~ SaysThis(d, "documentroot") /\ ~ SaysThis(d, "contenttype")
        BY <3>4 DEF SaysThis
      <4>3. /\ conf'.index = d.args[1] /\ conf'.port = conf.port /\ conf'.root = conf.root
            /\ conf'.file_extensions = conf.file_extensions
            /\ conf'.content_types = conf.content_types /\ IsConf(conf')
        BY <1>1, <4>1 DEF IsConf
      <4>4. /\ PortRead(lines, n + 1, conf'.port)
            /\ WordRead(lines, n + 1, "documentroot", conf'.root)
            /\ WordRead(lines, n + 1, "directoryindex", conf'.index)
        BY <1>4, <1>5, <1>8, <4>2, <4>3, PortMore, WordMore
      <4>5. TypesRead(lines, n + 1, k', conf'.file_extensions, conf'.content_types)
        BY <1>4, <1>5, <1>8, <4>1, <4>2, <4>3, TypesKept
      <4>. QED BY <4>3, <4>4, <4>5 DEF SettingsRead
    <3>5. CASE d.key.word = "contenttype" /\ ContentType(d) /\ d.args # <<>>
      <4> DEFINE exts  == Put(conf.file_extensions, k, d.args[1])
                 types == IF Len(d.args) > 1 THEN Put(conf.content_types, k, d.args[2])
                          ELSE conf.content_types
      <4>1. /\ conf' = [conf EXCEPT !.file_extensions = exts, !.content_types = types]
            /\ k' = IF Len(d.args) > 1 THEN k + 1 ELSE k
        BY <1>1, <3>5 DEF ContentType, Completes, IsConf
      <4>2. /\ ~ SaysThis(d, "listen") /\ ~ SaysThis(d, "documentroot")
            /\ ~ SaysThis(d, "directoryindex") /\ SaysThis(d, "contenttype")
        BY <3>5 DEF SaysThis
      <4>3. d.args[1] \in Words(lines) /\ (Len(d.args) > 1 => d.args[2] \in Words(lines))
        BY <1>7, <3>5
      <4>4. TypesRead(lines, n + 1, k', exts, types)
        <5>1. CASE Len(d.args) > 1
          BY <1>4, <1>5, <1>8, <4>1, <4>2, <4>3, <5>1, TypesMore
        <5>2. CASE ~ (Len(d.args) > 1)
          BY <1>4, <1>5, <1>8, <4>1, <4>2, <4>3, <5>2, TypesKept
        <5>. QED BY <5>1, <5>2
      <4> HIDE DEF exts, types
      <4>5. /\ conf'.port = conf.port /\ conf'.root = conf.root /\ conf'.index = conf.index
            /\ conf'.file_extensions = exts /\ conf'.content_types = types /\ IsConf(conf')
        BY <1>1, <4>1 DEF IsConf
      <4>6. /\ PortRead(lines, n + 1, conf'.port)
            /\ WordRead(lines, n + 1, "documentroot", conf'.root)
            /\ WordRead(lines, n + 1, "directoryindex", conf'.index)
        BY <1>4, <1>5, <1>8, <4>2, <4>5, PortMore, WordMore
      <4>. QED BY <4>4, <4>5, <4>6 DEF SettingsRead
    <3>6. CASE d.args = <<>>
      <4>1. conf' = conf /\ k' = k
        BY <1>9, <3>6 DEF Set, ContentType
      <4>. QED BY <3>1, <3>6, <4>1 DEF SaysThis
    <3>7. CASE d.key.word \notin {"listen", "documentroot", "directoryindex", "contenttype"}
      <4>1. /\ ~ SaysThis(d, "listen") /\ ~ SaysThis(d, "documentroot")
            /\ ~ SaysThis(d, "directoryindex") /\ ~ SaysThis(d, "contenttype")
        BY <3>7 DEF SaysThis
      <4>2. conf' = conf /\ k' = k
        BY <1>9, <3>7
      <4>3. TypesRead(lines, n + 1, k, conf.file_extensions, conf.content_types)
        BY <1>4, <1>5, <1>8, <4>1, TypesKept
      <4>. QED BY <1>1, <1>4, <1>5, <1>8, <4>1, <4>2, <4>3, PortMore, WordMore DEF SettingsRead
    <3>. QED BY <1>9, <3>2, <3>3, <3>4, <3>5, <3>6, <3>7
  <2>. QED BY <1>1, <1>4, <1>6, <2>1 DEF ConfigInv
<1>. QED BY <1>7, <1>9 DEF ReadDirective, d

LEMMA ConfigInit ==
  ASSUME ParserInit
  PROVE  ConfigInv
<1>1. /\ config \in Configs /\ directives = config /\ stage = "config" /\ k = 0
      /\ conf = [port |-> 80, root |-> ".", index |-> Html,
                 file_extensions |-> <<"html">>, content_types |-> <<"text/html">>,
                 count_content_types |-> 0]
  BY DEF ParserInit
<1>2. config \in Seq(ToSet(config)) /\ Len(config) \in Nat
  BY <1>1, RequestAssumption DEF IsSequence
<1>3. LinesRead = 0 /\ \A i \in 1 .. Len(directives) : directives[i] = config[0 + i]
  BY <1>1, <1>2 DEF LinesRead
<1>4. IsConf(conf) /\ conf.port = 80 /\ conf.file_extensions = <<"html">>
      /\ conf.content_types = <<"text/html">>
  BY <1>1 DEF IsConf
<1>5. \A key : SaidBy(config, 0, key) = {}
  BY DEF SaidBy
<1>6. TypesRead(config, 0, 0, <<"html">>, <<"text/html">>)
  <2>1. TypedBy(config, 0) = {}
    BY <1>5 DEF TypedBy
  <2>2. Slots(config, 0, 0, <<"html">>, <<"text/html">>, [i \in 1 .. 0 |-> i])
    BY <2>1 DEF Slots
  <2>3. /\ <<"html">> \in Seq(Words(config)) /\ <<"text/html">> \in Seq(Words(config))
        /\ Len(<<"html">>) = 1 /\ Len(<<"text/html">>) = 1
    BY DEF Words
  <2>. QED BY <2>2, <2>3 DEF TypesRead
<1>7. SettingsRead(config, 0, conf, k)
  BY <1>1, <1>4, <1>5, <1>6 DEF SettingsRead, PortRead, WordRead
<1>. QED BY <1>1, <1>2, <1>3, <1>4, <1>7 DEF ConfigInv

LEMMA FileRead ==
  ASSUME ConfigInv, ConfigRead
  PROVE  ConfigInv'
<1>1. /\ stage = "config" /\ directives = <<>> /\ config \in Configs /\ IsConf(conf)
      /\ conf' = [conf EXCEPT !.count_content_types = k]
      /\ stage' = IF conf.port < 1024 THEN "exit" ELSE "ready"
      /\ UNCHANGED <<directives, config, k>>
  BY DEF ConfigInv, ConfigRead
<1>2. SettingsRead(config, Len(config), conf, k)
  <2>1. Len(config) \in Nat
    BY <1>1, RequestAssumption DEF IsSequence
  <2>2. LinesRead = Len(config)
    BY <1>1, <2>1 DEF LinesRead
  <2>. QED BY <1>1, <2>2 DEF ConfigInv
<1>3. /\ conf'.port = conf.port /\ conf'.root = conf.root /\ conf'.index = conf.index
      /\ conf'.file_extensions = conf.file_extensions
      /\ conf'.content_types = conf.content_types
      /\ conf'.count_content_types = k /\ IsConf(conf')
  BY <1>1 DEF IsConf
<1>4. SettingsRead(config, Len(config), conf', k)
  BY <1>2, <1>3 DEF SettingsRead
<1>. QED BY <1>1, <1>3, <1>4 DEF ConfigInv

LEMMA ConfigStays ==
  ASSUME ConfigInv, UNCHANGED <<directives, config, conf, k>>,
         \/ stage' = stage
         \/ stage \notin {"config", "exit"} /\ stage' \notin {"config", "exit"}
  PROVE  ConfigInv'
BY DEF ConfigInv, LinesRead

LEMMA ConfigStep ==
  ASSUME ConfigInv, [ParserNext]_parserVars
  PROVE  ConfigInv'
BY DirectiveRead, FileRead, ConfigStays
   DEF ParserNext, RequestLine, HeaderLine, HeadersEnd, DataLine,
       Respond, Reset, parserVars

\* What the lines say altogether.
LEMMA WholeFile ==
  ASSUME ConfigInv, stage \notin {"config", "exit"}
  PROVE  /\ Len(config) \in Nat /\ config \in Configs
         /\ \A key : Said(key) = SaidBy(config, Len(config), key)
         /\ Typed = TypedBy(config, Len(config))
         /\ TypesRead(config, Len(config), conf.count_content_types, conf.file_extensions,
                      conf.content_types)
         /\ \A n \in Typed : config[n].args[1] # NoWord /\ config[n].args[2] # NoWord
<1>1. config \in Configs /\ Len(config) \in Nat
  BY RequestAssumption DEF ConfigInv, IsSequence
<1>2. \A key : Said(key) = SaidBy(config, Len(config), key)
  BY DEF Said, SaidBy
<1>3. Typed = TypedBy(config, Len(config))
  BY <1>2 DEF Typed, TypedBy
<1>4. ASSUME NEW n \in Typed
      PROVE  config[n].args[1] # NoWord /\ config[n].args[2] # NoWord
  <2> DEFINE args == config[n].args
  <2>1. n \in 1 .. Len(config) /\ config[n].key.word = "contenttype" /\ Len(args) > 1
    BY DEF Typed, Said
  <2>2. NoWord \notin ToSet(args) /\ args \in Seq(ToSet(args))
    BY <1>1, <2>1, RequestAssumption DEF IsSequence
  <2>. QED BY <2>1, <2>2 DEF ToSet
<1>. QED BY <1>1, <1>2, <1>3, <1>4 DEF ConfigInv, SettingsRead

LEMMA LastIsMax ==
  ASSUME NEW n \in Nat, NEW T \in SUBSET (1 .. n), NEW m, IsLast(m, T)
  PROVE  Max(T) = m /\ T # {}
<1>1. m \in Nat /\ T \in SUBSET (1 .. m) /\ m \in T
  BY DEF IsLast
<1>. QED BY <1>1, MaxIsLast

\* For every configuration file the settings are those of the last directives, and
\* an extension has the type of the first complete ContentType line that names
\* it, during every request (init_config and get_content_type of
\* http_server/config.c).
THEOREM ConfigAlwaysHonoured == ParserSpec => []ConfigHonoured
<1>1. ConfigInv => ConfigHonoured
  <2> SUFFICES ASSUME ConfigInv, stage \notin {"config", "exit"}
               PROVE  /\ Said("listen") # {} /\ conf.port = LastSaid("listen") % 2^16
                      /\ Said("documentroot") # {} => conf.root = LastSaid("documentroot")
                      /\ Said("directoryindex") # {} => conf.index = LastSaid("directoryindex")
                      /\ \A n \in Typed :
                             get_content_type(conf, [name |-> "x", ext |-> Extension(n)]) =
                             config[Min({m \in Typed : Extension(m) = Extension(n)})].args[2]
    BY DEF ConfigHonoured
  <2>1. /\ PortRead(config, Len(config), conf.port) /\ ~ (conf.port < 1024)
        /\ WordRead(config, Len(config), "documentroot", conf.root)
        /\ WordRead(config, Len(config), "directoryindex", conf.index)
    BY DEF ConfigInv, SettingsRead
  <2>2. Len(config) \in Nat /\ \A key : Said(key) = SaidBy(config, Len(config), key)
    BY WholeFile
  <2>3. \A key : Said(key) \in SUBSET (1 .. Len(config))
    BY DEF Said
  <2>4. \A key, m : IsLast(m, Said(key)) => Max(Said(key)) = m /\ Said(key) # {}
    BY <2>2, <2>3, LastIsMax
  <2>5. Said("listen") # {} /\ conf.port = LastSaid("listen") % 2^16
    BY <2>1, <2>2, <2>4 DEF PortRead, LastSaid
  <2>6. Said("documentroot") # {} => conf.root = LastSaid("documentroot")
    BY <2>1, <2>2, <2>4 DEF WordRead, LastSaid
  <2>7. Said("directoryindex") # {} => conf.index = LastSaid("directoryindex")
    BY <2>1, <2>2, <2>4 DEF WordRead, LastSaid
  <2>8. ASSUME NEW n \in Typed
        PROVE  get_content_type(conf, [name |-> "x", ext |-> Extension(n)]) =
                   config[Min({m \in Typed : Extension(m) = Extension(n)})].args[2]
    <3> DEFINE uri   == [name |-> "x", ext |-> Extension(n)]
               named == {m \in Typed : config[m].args[1] = uri.ext}
    <3>1. uri.ext = config[n].args[1] /\ uri.ext # NoWord
      BY WholeFile DEF Extension
    <3>2. named # {}
      BY <3>1
    <3>3. named = {m \in Typed : Extension(m) = Extension(n)}
      BY <3>1 DEF Extension
    <3> HIDE DEF uri
    <3>4. get_content_type(conf, uri) = config[Min(named)].args[2]
      BY <2>2, <3>1, <3>2, WholeFile, TypeFound
    <3>. QED BY <3>3, <3>4 DEF uri
  <2>. QED BY <2>5, <2>6, <2>7, <2>8
<1>2. ParserSpec => []ConfigInv
  BY ConfigInit, ConfigStep, PTL DEF ParserSpec
<1>. QED BY <1>1, <1>2, PTL
-----------------------------------------------------------------------------
(* HttpRequest: the request at hand.                                       *)

ConnectionsBy(t, n) == {m \in 1 .. n : t.headers[m].name.word = "connection"}

\* What the first n headers of t say of the connection.
KeptAlive(t, n, keep_alive) ==
    \/ ConnectionsBy(t, n) = {} /\ keep_alive = FALSE
    \/ \E m : /\ IsLast(m, ConnectionsBy(t, n))
              /\ keep_alive = (t.headers[m].value.word = "keep-alive")

HeadersRead == Len(text.headers) - Len(left)

IsReq(r) ==
    r = [method |-> r.method, version |-> r.version, keep_alive |-> r.keep_alive,
         error_code |-> r.error_code, uri |-> r.uri, content_type |-> r.content_type,
         post_data |-> r.post_data]

\* The first places of t.
Begins(d, t) ==
    d \in Seq(ToSet(t)) /\ Len(d) <= Len(t) /\ \A x \in 1 .. Len(d) : d[x] = t[x]

Error(t) ==
    IF t.line.words < 3 THEN ERR_BAD_REQUEST
    ELSE ErrorCode(t.line, get_content_type(conf, Target(t.line.uri)))

InHeaders ==
    /\ left \in Seq(ToSet(text.headers)) /\ HeadersRead \in 0 .. Len(text.headers)
    /\ \A i \in 1 .. Len(left) : left[i] = text.headers[HeadersRead + i]
    /\ KeptAlive(text, HeadersRead, req.keep_alive) /\ req.post_data = <<>>

\* What has been put together is the beginning of the data, and the lines that are
\* left are the rest of it.
InData ==
    /\ text.blank /\ left \in Seq(Seq(ToSet(text.data))) /\ left # <<>>
    /\ Begins(req.post_data, text.data)
    /\ \E b : Cuts(text.data, Len(req.post_data), Len(text.data), left, b)

RequestInv ==
    /\ IsReq(req)
    /\ stage \in {"config", "exit", "ready", "headers", "data", "parsed", "answered"}
    /\ stage \in {"headers", "data", "parsed", "answered"} => text \in Texts
    /\ stage \in {"headers", "data"} => ~ (text.line.words < 3)
    /\ stage \in {"headers", "data", "parsed"} => req.error_code = Error(text)
    /\ stage = "headers" => InHeaders
    /\ stage = "data" => InData
    /\ stage \in {"data", "parsed"} /\ ~ (text.line.words < 3) =>
           KeptAlive(text, Len(text.headers), req.keep_alive)
    /\ stage = "parsed" /\ ~ (text.line.words < 3) =>
           req.post_data = IF text.blank THEN text.data ELSE <<>>
    /\ stage = "answered" =>
           \/ Error(text) = 0 /\ resp.status_code \in {200, 404}
           \/ Error(text) # 0 /\ resp.status_code = err_status_code[Error(text)]

LEMMA SameError ==
  ASSUME conf' = conf, NEW t
  PROVE  Error(t)' = Error(t)
BY DEF Error, Target

LEMMA HeaderWords ==
  ASSUME NEW w, IsWord(w), NEW s
  PROVE  /\ strcmp(strip(lower(w)), s) <=> w.word = s
         /\ strcmp(strip(lower(w)), s) \in BOOLEAN
<1> DEFINE r == strip(lower(w))
<1>1. w \in [word : {w.word}, caps : {w.caps}, blanks : {w.blanks}]
  BY DEF IsWord
<1>2. r \in [word : {w.word}, caps : {FALSE}, blanks : {FALSE}]
  BY <1>1 DEF lower, strip
<1> HIDE DEF r
<1>3. r.word = w.word /\ r.caps = FALSE /\ r.blanks = FALSE
  BY <1>2
<1>4. r = [word |-> w.word, caps |-> FALSE, blanks |-> FALSE]
  BY <1>2, <1>3
<1>5. strcmp(r, s) <=> w.word = s
  BY <1>4 DEF strcmp, Written
<1>6. strcmp(r, s) \in BOOLEAN
  BY DEF strcmp
<1>. QED BY <1>5, <1>6 DEF r

LEMMA RequestInit ==
  ASSUME ParserInit
  PROVE  RequestInv
<1>1. stage = "config" /\ req = NoReq
  BY DEF ParserInit
<1>. QED BY <1>1 DEF RequestInv, IsReq, NoReq

\* The steps that leave the request alone, in any stage without a request.
LEMMA NoRequestStep ==
  ASSUME RequestInv, ReadDirective \/ ConfigRead \/ Reset
  PROVE  RequestInv'
<1>1. stage' \in {"config", "exit", "ready"} /\ (req' = req \/ req' = NoReq)
  BY DEF ReadDirective, ConfigRead, Reset, RequestInv
<1>2. IsReq(req')
  BY <1>1 DEF RequestInv, IsReq, NoReq
<1>. QED BY <1>1, <1>2 DEF RequestInv

LEMMA RequestLineStep ==
  ASSUME RequestInv, RequestLine
  PROVE  RequestInv'
<1>1. PICK t \in Texts :
         /\ text' = t
         /\ LET type == get_content_type(conf, Target(t.line.uri))
            IN  IF t.line.words < 3
                THEN /\ req' = [NoReq EXCEPT !.error_code = ERR_BAD_REQUEST]
                     /\ stage' = "parsed" /\ left' = <<>>
                ELSE /\ req' = [NoReq EXCEPT
                            !.method = Method(t.line.method),
                            !.uri = Target(t.line.uri), !.content_type = type,
                            !.version = Version(t.line.version),
                            !.error_code = ErrorCode(t.line, type)]
                     /\ stage' = "headers" /\ left' = t.headers
  BY DEF RequestLine
<1>2. conf' = conf
  BY DEF RequestLine
<1>3. CASE t.line.words < 3
  <2>1. req' = [NoReq EXCEPT !.error_code = ERR_BAD_REQUEST] /\ stage' = "parsed"
    BY <1>1, <1>3
  <2>2. IsReq(req') /\ req'.error_code = ERR_BAD_REQUEST
    BY <2>1 DEF IsReq, NoReq
  <2>3. Error(t)' = ERR_BAD_REQUEST
    BY <1>2, <1>3, SameError DEF Error
  <2>. QED BY <1>1, <1>3, <2>1, <2>2, <2>3 DEF RequestInv, Error, Target
<1>4. CASE ~ (t.line.words < 3)
  <2> DEFINE type == get_content_type(conf, Target(t.line.uri))
  <2>1. /\ req' = [NoReq EXCEPT !.method = Method(t.line.method),
                      !.uri = Target(t.line.uri), !.content_type = type,
                      !.version = Version(t.line.version),
                      !.error_code = ErrorCode(t.line, type)]
        /\ stage' = "headers" /\ left' = t.headers
    BY <1>1, <1>4
  <2>2. Error(t) = ErrorCode(t.line, type)
    BY <1>4 DEF Error
  <2> HIDE DEF type
  <2>3. /\ IsReq(req') /\ req'.error_code = ErrorCode(t.line, type)
        /\ req'.keep_alive = FALSE /\ req'.post_data = <<>>
    BY <2>1 DEF IsReq, NoReq
  <2>4. t.headers \in Seq(ToSet(t.headers)) /\ Len(t.headers) \in Nat
    BY RequestAssumption DEF IsSequence
  <2>5. HeadersRead' = 0
    BY <1>1, <2>1, <2>4 DEF HeadersRead
  <2>6. KeptAlive(t, 0, FALSE)
    BY DEF KeptAlive, ConnectionsBy
  <2>7. \A i \in 1 .. Len(t.headers) : t.headers[i] = t.headers[0 + i]
    BY <2>4
  <2>8. InHeaders'
    <3>1. text'.headers = t.headers /\ Len(left') \in Nat
      BY <1>1, <2>1, <2>4
    <3>2. /\ left' \in Seq(ToSet(text'.headers)) /\ HeadersRead' \in 0 .. Len(text'.headers)
          /\ \A i \in 1 .. Len(left') : left'[i] = text'.headers[HeadersRead' + i]
      BY <2>1, <2>4, <2>5, <2>7, <3>1
    <3>3. KeptAlive(text', HeadersRead', req'.keep_alive)
      BY <1>1, <2>3, <2>5, <2>6
    <3>. QED BY <2>3, <3>2, <3>3 DEF InHeaders
  <2>9. req'.error_code = Error(text)'
    BY <1>1, <1>2, <2>2, <2>3, SameError
  <2>. QED BY <1>1, <1>4, <2>1, <2>3, <2>8, <2>9 DEF RequestInv
<1>. QED BY <1>3, <1>4

LEMMA HeaderLineStep ==
  ASSUME RequestInv, HeaderLine
  PROVE  RequestInv'
<1> DEFINE n == HeadersRead
           h == Head(left)
<1>1. /\ stage = "headers" /\ left # <<>> /\ text \in Texts /\ InHeaders /\ IsReq(req)
      /\ ~ (text.line.words < 3) /\ req.error_code = Error(text)
      /\ left' = Tail(left) /\ UNCHANGED <<config, conf, stage, text>>
  BY DEF RequestInv, HeaderLine
<1>2. /\ left \in Seq(ToSet(text.headers)) /\ n \in 0 .. Len(text.headers)
      /\ KeptAlive(text, n, req.keep_alive) /\ req.post_data = <<>>
  BY <1>1 DEF InHeaders
<1>3. \A i \in 1 .. Len(left) : left[i] = text.headers[HeadersRead + i]
  BY <1>1 DEF InHeaders
<1>4. Len(text.headers) \in Nat
  BY <1>1, RequestAssumption DEF IsSequence
<1>5. /\ n \in Nat /\ n + 1 \in 1 .. Len(text.headers) /\ HeadersRead' = n + 1
      /\ left' \in Seq(ToSet(text.headers)) /\ Len(left) \in Nat /\ Len(left) >= 1
      /\ Len(left') = Len(left) - 1
      /\ \A i \in 1 .. Len(left') : left'[i] = left[i + 1]
  BY <1>1, <1>2, <1>4 DEF HeadersRead
<1>6. h = text.headers[n + 1]
  BY <1>1, <1>2, <1>3, <1>5
<1>7. ASSUME NEW i \in 1 .. Len(left') PROVE left'[i] = text'.headers[HeadersRead' + i]
  <2>1. i + 1 \in 1 .. Len(left) /\ HeadersRead + (i + 1) = HeadersRead' + i
    BY <1>2, <1>4, <1>5
  <2>. QED BY <1>1, <1>3, <1>5, <2>1
<1>8. req' = IF strcmp(strip(lower(h.name)), "connection")
             THEN [req EXCEPT !.keep_alive = strcmp(strip(lower(h.value)), "keep-alive")]
             ELSE req
  BY DEF HeaderLine, split_first
<1> HIDE DEF n, h
<1>9. IsWord(h.name) /\ IsWord(h.value)
  BY <1>1, <1>5, <1>6, RequestAssumption
<1>10. CASE h.name.word = "connection"
  <2> DEFINE v == strcmp(strip(lower(h.value)), "keep-alive")
  <2>1. req' = [req EXCEPT !.keep_alive = v]
    BY <1>8, <1>9, <1>10, HeaderWords
  <2>2. v = (h.value.word = "keep-alive")
    BY <1>9, HeaderWords
  <2> HIDE DEF v
  <2>3. /\ IsReq(req') /\ req'.keep_alive = v /\ req'.post_data = <<>>
        /\ req'.error_code = req.error_code
    BY <1>1, <1>2, <2>1 DEF IsReq
  <2>4. IsLast(n + 1, ConnectionsBy(text, n + 1))
    BY <1>5, <1>6, <1>10 DEF IsLast, ConnectionsBy
  <2>5. KeptAlive(text, n + 1, v)
    BY <1>6, <2>2, <2>4 DEF KeptAlive
  <2>6. InHeaders'
    BY <1>1, <1>5, <1>7, <2>3, <2>5 DEF InHeaders
  <2>. QED BY <1>1, <2>3, <2>6, SameError DEF RequestInv
<1>11. CASE h.name.word # "connection"
  <2>1. req' = req
    BY <1>8, <1>9, <1>11, HeaderWords
  <2>2. ConnectionsBy(text, n + 1) = ConnectionsBy(text, n)
    BY <1>5, <1>6, <1>11 DEF ConnectionsBy
  <2>3. KeptAlive(text, n + 1, req.keep_alive)
    BY <1>2, <2>2 DEF KeptAlive
  <2>4. InHeaders'
    BY <1>1, <1>2, <1>5, <1>7, <2>1, <2>3 DEF InHeaders
  <2>. QED BY <1>1, <2>1, <2>4, SameError DEF RequestInv
<1>. QED BY <1>10, <1>11

LEMMA HeadersEndStep ==
  ASSUME RequestInv, HeadersEnd
  PROVE  RequestInv'
<1>1. /\ stage = "headers" /\ left = <<>> /\ text \in Texts /\ InHeaders /\ IsReq(req)
      /\ ~ (text.line.words < 3) /\ req.error_code = Error(text)
      /\ UNCHANGED <<config, conf, text, req>>
  BY DEF RequestInv, HeadersEnd
<1>2. Len(text.headers) \in Nat /\ IsSequence(text.data)
  BY <1>1, RequestAssumption DEF IsSequence
<1>3. KeptAlive(text, Len(text.headers), req.keep_alive) /\ req.post_data = <<>>
  <2>1. HeadersRead = Len(text.headers)
    BY <1>1, <1>2 DEF HeadersRead
  <2>. QED BY <1>1, <2>1 DEF InHeaders
<1>4. CASE text.blank
  <2>1. stage' = "data" /\ left' = split(text.data)
    BY <1>4 DEF HeadersEnd
  <2>2. CutsText(text.data, Len(text.data), split(text.data))
    BY <1>2, SplitCuts
  <2>3. Begins(<<>>, text.data) /\ Len(<<>>) = 0
    BY <1>2 DEF Begins, IsSequence
  <2>4. InData'
    <3>1. left' \in Seq(Seq(ToSet(text.data))) /\ Len(left') >= 1
      BY <2>1, <2>2 DEF CutsText
    <3>2. left' # <<>>
      BY <3>1
    <3>3. \E b : Cuts(text.data, 0, Len(text.data), left', b)
      BY <2>1, <2>2 DEF CutsText
    <3>. QED BY <1>1, <1>3, <1>4, <2>3, <3>1, <3>2, <3>3 DEF InData
  <2>. QED BY <1>1, <1>3, <2>1, <2>4, SameError DEF RequestInv
<1>5. CASE ~ text.blank
  <2>1. stage' = "parsed"
    BY <1>5 DEF HeadersEnd
  <2>. QED BY <1>1, <1>3, <1>5, <2>1, SameError DEF RequestInv
<1>. QED BY <1>4, <1>5

LEMMA OneLeft ==
  ASSUME NEW S, NEW ls \in Seq(S), ls # <<>>, Tail(ls) = <<>>
  PROVE  Len(ls) = 1
<1> DEFINE r == Tail(ls)
<1>1. Len(r) = Len(ls) - 1 /\ Len(ls) \in Nat /\ Len(ls) >= 1
  OBVIOUS
<1>2. r = <<>>
  OBVIOUS
<1> HIDE DEF r
<1>3. Len(r) = 0
  BY <1>2
<1>. QED BY <1>1, <1>3

LEMMA OneMore ==
  ASSUME NEW W, NEW s \in Seq(W), NEW w \in W
  PROVE  /\ s \o <<w>> \in Seq(W) /\ Len(s \o <<w>>) = Len(s) + 1
         /\ \A x \in 1 .. Len(s) : (s \o <<w>>)[x] = s[x]
         /\ (s \o <<w>>)[Len(s) + 1] = w
OBVIOUS

\* One line put back, with the "\n" that follows it unless it is the last.
LEMMA LinePutBack ==
  ASSUME NEW t, IsSequence(t), NEW d, Begins(d, t),
         NEW ls \in Seq(Seq(ToSet(t))), ls # <<>>,
         NEW b, Cuts(t, Len(d), Len(t), ls, b)
  PROVE  LET new == d \o Head(ls) \o Endl(Tail(ls))
         IN  /\ Tail(ls) = <<>> => new = t
             /\ Tail(ls) # <<>> => /\ Begins(new, t)
                                   /\ \E a : Cuts(t, Len(new), Len(t), Tail(ls), a)
<1> DEFINE W    == ToSet(t)
           line == ls[1]
           p    == Len(d)
           m    == Len(ls)
           both == d \o line
<1>1. /\ m \in Nat /\ m >= 1 /\ Len(t) \in Nat /\ t \in Seq(W)
      /\ d \in Seq(W) /\ p \in Nat /\ p <= Len(t) /\ \A x \in 1 .. p : d[x] = t[x]
      /\ Head(ls) = line /\ line \in Seq(W)
  BY DEF Begins, IsSequence
<1>2. b \in [1 .. m + 1 -> Nat] /\ b[1] = p + 1 /\ b[m + 1] = Len(t) + 2
  BY DEF Cuts
<1>3. \A i \in 1 .. m : /\ Len(ls[i]) = b[i + 1] - b[i] - 1
                        /\ \A x \in 1 .. Len(ls[i]) : ls[i][x] = t[b[i] + x - 1]
  BY DEF Cuts
<1>4. \A i \in 2 .. m : b[i] <= Len(t) + 1 /\ t[b[i] - 1] = "\n"
  BY DEF Cuts
<1>5. 1 \in 1 .. m /\ 2 \in 1 .. m + 1
  BY <1>1
<1>6. /\ b[2] \in Nat /\ Len(line) = b[2] - (p + 1) - 1 /\ Len(line) \in Nat
      /\ \A x \in 1 .. Len(line) : line[x] = t[(p + 1) + x - 1]
  <2>1. b[2] \in Nat
    BY <1>2, <1>5
  <2>2. Len(line) = b[1 + 1] - b[1] - 1 /\ \A x \in 1 .. Len(line) : line[x] = t[b[1] + x - 1]
    BY <1>3, <1>5
  <2>3. Len(line) \in Nat
    BY <1>1
  <2>. QED BY <1>2, <2>1, <2>2, <2>3
<1> HIDE DEF W, line, p, m
<1>7. both \in Seq(W) /\ Len(both) = p + Len(line)
  BY <1>1 DEF p
<1>8. ASSUME NEW x \in 1 .. Len(both) PROVE both[x] = t[x]
  <2>1. x \in Nat /\ Len(both) \in Nat
    BY <1>7
  <2>2. CASE x <= p
    <3>1. both[x] = d[x] /\ x \in 1 .. p
      BY <1>1, <2>1, <2>2 DEF p
    <3>. QED BY <1>1, <3>1
  <2>3. CASE x > p
    <3>1. x - p \in 1 .. Len(line) /\ (p + 1) + (x - p) - 1 = x
      BY <1>1, <1>6, <1>7, <2>1, <2>3
    <3>2. both[x] = line[x - p]
      BY <1>1, <1>7, <2>3 DEF p
    <3>. QED BY <1>6, <3>1, <3>2
  <2>. QED BY <1>1, <2>1, <2>2, <2>3
<1>9. Len(both) = b[2] - 2
  <2> DEFINE B == b[2]
             L == Len(line)
             K == Len(both)
  <2>1. K = p + L /\ L = B - (p + 1) - 1 /\ B \in Nat /\ L \in Nat /\ p \in Nat
    BY <1>1, <1>6, <1>7
  <2> HIDE DEF B, L, K
  <2>2. K = B - 2
    BY <2>1
  <2>. QED BY <2>2 DEF B, K
<1> HIDE DEF both
<1>10. CASE Tail(ls) = <<>>
  <2>1. m = 1
    BY <1>10, OneLeft DEF m
  <2>2. Len(both) = Len(t)
    BY <1>1, <1>2, <1>9, <2>1
  <2>3. both = t
    BY <1>1, <1>7, <1>8, <2>2
  <2>4. Endl(Tail(ls)) = <<>> /\ both \o <<>> = both
    BY <1>7, <1>10 DEF Endl
  <2>. QED BY <1>1, <1>10, <2>3, <2>4 DEF both
<1>11. CASE Tail(ls) # <<>>
  <2> DEFINE new == both \o <<"\n">>
             rest == Tail(ls)
             a    == [i \in 1 .. m |-> b[i + 1]]
  <2>1. d \o Head(ls) \o Endl(Tail(ls)) = new
    BY <1>1, <1>11 DEF Endl, both
  <2>2. /\ m >= 2 /\ Len(rest) = m - 1 /\ rest \in Seq(Seq(W))
        /\ \A i \in 1 .. m - 1 : rest[i] = ls[i + 1]
    BY <1>1, <1>11 DEF m, W
  <2>3. t[b[2] - 1] = "\n" /\ b[2] - 1 \in 1 .. Len(t)
    <3>1. t[b[2] - 1] = "\n" /\ b[2] <= Len(t) + 1
      BY <1>1, <1>4, <2>2
    <3> DEFINE B == b[2]
               L == Len(line)
               T == Len(t)
    <3>2. /\ B \in Nat /\ L \in Nat /\ T \in Nat /\ p \in Nat
          /\ L = B - (p + 1) - 1 /\ B <= T + 1
      BY <1>1, <1>6, <3>1
    <3> HIDE DEF B, L, T
    <3>3. B - 1 \in 1 .. T
      BY <3>2
    <3>. QED BY <3>1, <3>3 DEF B, T
  <2>4. new \in Seq(W) /\ Len(new) = b[2] - 1
    <3>1. "\n" \in W
      BY <2>3 DEF W, ToSet
    <3>2. new \in Seq(W) /\ Len(new) = Len(both) + 1
      BY <1>7, <3>1, OneMore
    <3>. QED BY <1>6, <1>9, <3>2
  <2>5. ASSUME NEW x \in 1 .. Len(new) PROVE new[x] = t[x]
    <3>1. CASE x \in 1 .. Len(both)
      <4>1. both \in Seq(W) /\ Len(both) \in Nat /\ <<"\n">> \in Seq(W)
        <5>1. "\n" \in W
          BY <2>3 DEF W, ToSet
        <5>. QED BY <1>7, <5>1
      <4>2. new[x] = both[x]
        BY <3>1, <4>1
      <4>. QED BY <1>8, <3>1, <4>2
    <3>2. CASE x = Len(both) + 1
      <4>1. new[x] = "\n"
        BY <1>7, <3>2
      <4>2. x = b[2] - 1
        BY <1>6, <1>9, <3>2
      <4>. QED BY <2>3, <4>1, <4>2
    <3>3. x \in 1 .. Len(both) \/ x = Len(both) + 1
      BY <1>6, <1>9, <2>4
    <3>. QED BY <3>1, <3>2, <3>3
  <2> HIDE DEF new, rest
  <2>6. Begins(new, t)
    <3>1. Len(new) <= Len(t)
      BY <1>1, <1>6, <2>3, <2>4
    <3>. QED BY <2>4, <2>5, <3>1 DEF Begins, W
  <2>7. /\ a \in [1 .. m -> Nat] /\ \A i \in 1 .. m : a[i] = b[i + 1]
    <3>1. ASSUME NEW i \in 1 .. m PROVE b[i + 1] \in Nat
      <4>1. b \in [1 .. m + 1 -> Nat]
        BY <1>2
      <4>2. i + 1 \in 1 .. m + 1
        BY <1>1
      <4>. QED BY <4>1, <4>2
    <3>. QED BY <3>1
  <2> HIDE DEF a
  <2>8. a[1] = Len(new) + 1 /\ a[m] = Len(t) + 2
    <3>1. a[1] = b[1 + 1] /\ a[m] = b[m + 1]
      BY <1>1, <2>7
    <3>. QED BY <1>2, <1>6, <2>4, <3>1
  <2>9. ASSUME NEW i \in 1 .. m - 1
        PROVE  /\ Len(rest[i]) = a[i + 1] - a[i] - 1
               /\ \A x \in 1 .. Len(rest[i]) : rest[i][x] = t[a[i] + x - 1]
    <3>1. i \in 1 .. m /\ i + 1 \in 1 .. m
      BY <1>1
    <3>2. rest[i] = ls[i + 1] /\ a[i] = b[i + 1] /\ a[i + 1] = b[i + 1 + 1]
      BY <2>2, <2>7, <3>1
    <3>3. /\ Len(ls[i + 1]) = b[i + 1 + 1] - b[i + 1] - 1
          /\ \A x \in 1 .. Len(ls[i + 1]) : ls[i + 1][x] = t[b[i + 1] + x - 1]
      BY <1>3, <3>1
    <3>. QED BY <3>2, <3>3
  <2>10. ASSUME NEW i \in 2 .. m - 1 PROVE a[i] <= Len(t) + 1 /\ t[a[i] - 1] = "\n"
    <3>1. i \in 1 .. m /\ i + 1 \in 2 .. m
      BY <1>1
    <3>. QED BY <1>4, <2>7, <3>1
  <2>11. Cuts(t, Len(new), Len(t), rest, a)
    <3>1. Len(rest) = m - 1 /\ m - 1 + 1 = m
      BY <1>1, <2>2
    <3>. QED BY <2>7, <2>8, <2>9, <2>10, <3>1 DEF Cuts
  <2>. QED BY <1>11, <2>1, <2>6, <2>11 DEF new, rest
<1>. QED BY <1>10, <1>11

LEMMA DataLineStep ==
  ASSUME RequestInv, DataLine
  PROVE  RequestInv'
<1> DEFINE new == req.post_data \o Head(left) \o Endl(Tail(left))
<1>1. /\ stage = "data" /\ text \in Texts /\ InData /\ IsReq(req)
      /\ ~ (text.line.words < 3) /\ req.error_code = Error(text)
      /\ KeptAlive(text, Len(text.headers), req.keep_alive)
      /\ req' = [req EXCEPT !.post_data = new]
      /\ left' = Tail(left)
      /\ stage' = IF Tail(left) = <<>> THEN "parsed" ELSE "data"
      /\ UNCHANGED <<config, conf, text>>
  BY DEF RequestInv, DataLine, IsReq
<1>2. /\ Tail(left) = <<>> => new = text.data
      /\ Tail(left) # <<>> => /\ Begins(new, text.data)
                              /\ \E a : Cuts(text.data, Len(new), Len(text.data), Tail(left), a)
  <2>1. IsSequence(text.data)
    BY <1>1, RequestAssumption
  <2>2. PICK b : Cuts(text.data, Len(req.post_data), Len(text.data), left, b)
    BY <1>1 DEF InData
  <2>3. /\ Begins(req.post_data, text.data) /\ left \in Seq(Seq(ToSet(text.data)))
        /\ left # <<>>
    BY <1>1 DEF InData
  <2>. QED BY <2>1, <2>2, <2>3, LinePutBack
<1> HIDE DEF new
<1>3. /\ IsReq(req') /\ req'.post_data = new /\ req'.keep_alive = req.keep_alive
      /\ req'.error_code = req.error_code
  BY <1>1 DEF IsReq
<1>4. text.blank /\ left \in Seq(Seq(ToSet(text.data))) /\ left # <<>>
  BY <1>1 DEF InData
<1>5. CASE Tail(left) = <<>>
  BY <1>1, <1>2, <1>3, <1>4, <1>5, SameError DEF RequestInv
<1>6. CASE Tail(left) # <<>>
  <2>1. Tail(left) \in Seq(Seq(ToSet(text.data)))
    BY <1>4
  <2>2. InData'
    BY <1>1, <1>2, <1>3, <1>4, <1>6, <2>1 DEF InData
  <2>. QED BY <1>1, <1>3, <1>6, <2>2, SameError DEF RequestInv
<1>. QED BY <1>5, <1>6

LEMMA RespondStep ==
  ASSUME RequestInv, Respond
  PROVE  RequestInv'
<1>1. /\ stage = "parsed" /\ text \in Texts /\ IsReq(req) /\ req.error_code = Error(text)
      /\ stage' = "answered" /\ UNCHANGED <<config, conf, text>>
  BY DEF RequestInv, Respond
<1>2. PICK found \in BOOLEAN :
         LET e == IF req.error_code = 0 /\ ~ found THEN ERR_NOT_FOUND ELSE req.error_code
         IN  /\ req' = [req EXCEPT !.error_code = e]
             /\ resp' = [version |-> req.version, keep_alive |-> req.keep_alive,
                         status_code |-> err_status_code[e],
                         content_type |-> IF e = 0 THEN req.content_type ELSE "text/html"]
  BY DEF Respond
<1> DEFINE e == IF req.error_code = 0 /\ ~ found THEN ERR_NOT_FOUND ELSE req.error_code
<1>3. req' = [req EXCEPT !.error_code = e] /\ resp'.status_code = err_status_code[e]
  BY <1>2
<1>4. IsReq(req')
  BY <1>1, <1>3 DEF IsReq
<1>5. err_status_code[0] = 200 /\ err_status_code[ERR_NOT_FOUND] = 404
  BY DEF err_status_code, ERR_NOT_FOUND
<1>6. \/ Error(text) = 0 /\ resp'.status_code \in {200, 404}
      \/ Error(text) # 0 /\ resp'.status_code = err_status_code[Error(text)]
  BY <1>1, <1>3, <1>5
<1>. QED BY <1>1, <1>4, <1>6, SameError DEF RequestInv

LEMMA RequestStep ==
  ASSUME RequestInv, [ParserNext]_parserVars
  PROVE  RequestInv'
<1>1. CASE UNCHANGED parserVars
  BY <1>1 DEF parserVars, RequestInv, InHeaders, InData, HeadersRead, Error, Target
<1>. QED BY <1>1, NoRequestStep, RequestLineStep, HeaderLineStep, HeadersEndStep, DataLineStep,
            RespondStep DEF ParserNext

\* The inductive invariant: for every configuration file and every request, conf is
\* what the lines read so far say, and the request at hand what its lines so far
\* say, the data being put together again line by line (init_config and
\* parse_http_req of http_server).
THEOREM ParserInvariant == ParserSpec => [](ConfigInv /\ RequestInv)
<1>1. ParserInit => ConfigInv /\ RequestInv
  BY ConfigInit, RequestInit
<1>2. ConfigInv /\ RequestInv /\ [ParserNext]_parserVars => (ConfigInv /\ RequestInv)'
  BY ConfigStep, RequestStep
<1>. QED BY <1>1, <1>2, PTL DEF ParserSpec

\* However many lines and headers a request has, the data that was taken apart and
\* put together again is that of the client, and the last Connection header decides
\* (split and parse_http_req of http_server/http.c).
THEOREM RequestAlwaysUnderstood == ParserSpec => []RequestUnderstood
<1>1. RequestInv => RequestUnderstood
  <2> SUFFICES ASSUME RequestInv, stage = "parsed", text.line.words >= 3
               PROVE  /\ req.post_data = IF text.blank THEN text.data ELSE <<>>
                      /\ req.keep_alive =
                             (/\ Connections(text) # {}
                              /\ text.headers[Max(Connections(text))].value.word = "keep-alive")
    BY DEF RequestUnderstood
  <2>1. text \in Texts /\ Len(text.headers) \in Nat /\ text.line.words \in Nat
    BY RequestAssumption DEF RequestInv, IsSequence
  <2>2. ~ (text.line.words < 3)
    BY <2>1
  <2>3. KeptAlive(text, Len(text.headers), req.keep_alive)
    BY <2>2 DEF RequestInv
  <2>4. ConnectionsBy(text, Len(text.headers)) = Connections(text)
    BY DEF ConnectionsBy, Connections
  <2>5. Connections(text) \in SUBSET (1 .. Len(text.headers))
    BY DEF Connections
  <2>6. req.keep_alive =
            (/\ Connections(text) # {}
             /\ text.headers[Max(Connections(text))].value.word = "keep-alive")
    <3>1. CASE Connections(text) = {} /\ req.keep_alive = FALSE
      BY <3>1
    <3>2. ASSUME NEW m, IsLast(m, Connections(text)),
                 req.keep_alive = (text.headers[m].value.word = "keep-alive")
          PROVE  req.keep_alive =
                    (/\ Connections(text) # {}
                     /\ text.headers[Max(Connections(text))].value.word = "keep-alive")
      <4>1. Max(Connections(text)) = m /\ Connections(text) # {}
        BY <2>1, <2>5, <3>2, LastIsMax
      <4>. QED BY <3>2, <4>1
    <3>. QED BY <2>3, <2>4, <3>1, <3>2 DEF KeptAlive
  <2>. QED BY <2>2, <2>6 DEF RequestInv
<1>. QED BY <1>1, ParserInvariant, PTL

\* A request has a supported type exactly when a complete ContentType line has its
\* extension.
LEMMA ServedHasType ==
  ASSUME ConfigInv, stage \notin {"config", "exit"}, NEW uri
  PROVE  get_content_type(conf, uri) # NoWord <=> Served(uri)
<1> DEFINE named == {m \in Typed : config[m].args[1] = uri.ext}
<1>1. Served(uri) <=> named # {}
  BY DEF Served, Extension
<1>2. CASE uri.ext = NoWord
  <2>1. named = {}
    BY <1>2, WholeFile
  <2>2. get_content_type(conf, uri) = NoWord
    BY <1>2 DEF get_content_type
  <2>. QED BY <1>1, <2>1, <2>2
<1>3. CASE uri.ext # NoWord
  <2>1. /\ named = {} => get_content_type(conf, uri) = NoWord
        /\ named # {} => /\ Min(named) \in named
                         /\ get_content_type(conf, uri) = config[Min(named)].args[2]
    <3>1. /\ Len(config) \in Nat /\ Typed = TypedBy(config, Len(config))
          /\ TypesRead(config, Len(config), conf.count_content_types,
                       conf.file_extensions, conf.content_types)
      BY WholeFile
    <3> DEFINE n == Len(config)
    <3> HIDE DEF n
    <3>2. \/ /\ {m \in TypedBy(config, n) : config[m].args[1] = uri.ext} = {}
             /\ get_content_type(conf, uri) = NoWord
          \/ LET by == {m \in TypedBy(config, n) : config[m].args[1] = uri.ext}
             IN  /\ Min(by) \in by
                 /\ get_content_type(conf, uri) = config[Min(by)].args[2]
      BY <1>3, <3>1, TypeFound DEF n
    <3>. QED BY <3>1, <3>2 DEF n
  <2>2. named # {} => get_content_type(conf, uri) # NoWord
    BY <2>1, WholeFile
  <2>. QED BY <1>1, <2>1, <2>2
<1>. QED BY <1>2, <1>3

\* A request without defect is served or its file is missing, one with a wrong format
\* is answered 400, and one whose method or file type is not supported 501, for
\* every configuration file (parse_http_req of http_server/http.c, the answers of
\* README.txt:46-49).
THEOREM DefectsAlwaysRefused == ParserSpec => []DefectsRefused
<1>1. ConfigInv /\ RequestInv => DefectsRefused
  <2> SUFFICES ASSUME ConfigInv, RequestInv, stage = "answered"
               PROVE  /\ (resp.status_code \in {200, 404}) = (Defects(text) = {})
                      /\ Defects(text) = {"format"} => resp.status_code = 400
                      /\ Defects(text) # {} /\ Defects(text) \subseteq {"method", "type"} =>
                             resp.status_code = 501
    BY DEF DefectsRefused
  <2> DEFINE l    == text.line
             type == get_content_type(conf, Target(l.uri))
             D    == Defects(text)
             E    == Error(text)
  <2>1. \/ E = 0 /\ resp.status_code \in {200, 404}
        \/ E # 0 /\ resp.status_code = err_status_code[E]
    BY DEF RequestInv
  <2>2. type # NoWord <=> Served(Target(l.uri))
    BY ServedHasType
  <2>3. /\ Method(l.method) = 0 <=> l.method \notin {"GET", "POST"}
        /\ Version(l.version) = 0 <=> l.version \notin {"HTTP/1.0", "HTTP/1.1"}
    BY DEF Method, Version, GET, POST
  <2>4. CASE l.words < 3
    <3>1. D = {"format"} /\ E = 1
      BY <2>4 DEF Defects, Error, ERR_BAD_REQUEST
    <3>2. resp.status_code = 400
      BY <2>1, <3>1 DEF err_status_code
    <3> HIDE DEF D
    <3>. QED BY <3>1, <3>2 DEF D
  <2>5. CASE ~ (l.words < 3)
    <3> DEFINE M == Method(l.method) = 0
               T == type = NoWord
               V == Version(l.version) = 0
    <3>1. D = (IF M THEN {"method"} ELSE {}) \cup (IF T THEN {"type"} ELSE {})
              \cup (IF V THEN {"version"} ELSE {})
      BY <2>2, <2>3, <2>5 DEF Defects
    <3>2. E = IF V THEN 1 ELSE IF M \/ T THEN 4 ELSE 0
      BY <2>5 DEF Error, ErrorCode, ERR_BAD_REQUEST, ERR_NOT_IMPLEMENTED
    <3>3. err_status_code[1] = 400 /\ err_status_code[4] = 501
      BY DEF err_status_code
    <3> HIDE DEF M, T, V, D, E
    <3>4. CASE V
      BY <2>1, <3>1, <3>2, <3>3, <3>4 DEF D
    <3>5. CASE ~ V /\ (M \/ T)
      BY <2>1, <3>1, <3>2, <3>3, <3>5 DEF D
    <3>6. CASE ~ V /\ ~ M /\ ~ T
      BY <2>1, <3>1, <3>2, <3>6 DEF D
    <3>. QED BY <3>4, <3>5, <3>6
  <2>. QED BY <2>4, <2>5
<1>. QED BY <1>1, ParserInvariant, PTL
-----------------------------------------------------------------------------
(* Proxy.                                                                  *)

LEMMA NoRequestIsNone == NoRequest \notin Requests
  BY ProxyAssumption DEF NoRequest, Requests

\* What a send to client c does: nothing to the others, and it never opens.
LEMMA SendEffect ==
  ASSUME TypeOK, NEW c \in Conn, send(c)
  PROVE  /\ client' \in [Conn -> {"none", "open", "fin", "reset", "dead"}]
         /\ alive' \in BOOLEAN
         /\ \A d \in Conn \ {c} : client'[d] = client[d]
         /\ (client'[c] = "open") = (client[c] = "open")
         /\ (client'[c] = "none") = (client[c] = "none")
<1> USE DEF TypeOK
<1>1. CASE client[c] = "open" BY <1>1 DEF send
<1>2. CASE client[c] = "fin" BY <1>2 DEF send
<1>3. CASE client[c] = "reset" BY <1>3 DEF send
<1>4. CASE client[c] = "dead" BY <1>4 DEF send
<1>5. CASE client[c] = "none" BY <1>5 DEF send
<1>. QED BY <1>1, <1>2, <1>3, <1>4, <1>5

\* What parsing request r does: the thread gives up or goes on to look up
\* the host.
LEMMA ParseEffect ==
  ASSUME ProxyInv, NEW t \in Conn, connfd[t] = t, NEW r \in Requests, Parse(t, r)
  PROVE  /\ client' \in [Conn -> {"none", "open", "fin", "reset", "dead"}]
         /\ alive' \in BOOLEAN
         /\ \A d \in Conn \ {t} : client'[d] = client[d]
         /\ (client'[t] = "open") = (client[t] = "open")
         /\ (client'[t] = "none") = (client[t] = "none")
         /\ \E s \in {"lost", "looking up"} : pc' = [pc EXCEPT ![t] = s]
         /\ address' \in [Conn -> Destination]
         /\ refused' \subseteq Conn
<1>1. TypeOK BY DEF ProxyInv
<1>2. CASE ~ r.get
  BY <1>1, <1>2 DEF Parse, GiveUp, TypeOK
<1>3. CASE r.get /\ ~ r.uri.http
  <2>1. send(t) /\ GiveUp(t) /\ refused' = refused \cup {t}
    BY <1>3 DEF Parse
  <2>. QED BY <1>1, <2>1, SendEffect DEF GiveUp, TypeOK
<1>4. CASE r.get /\ r.uri.http
  <2>1. r.uri \in Uri BY ProxyAssumption DEF Requests
  <2>2. parse_address(r.uri) \in Destination
    BY <2>1 DEF parse_address, Destination, Uri, DEFAULT_PORT
  <2>3. /\ address' = [address EXCEPT ![t] = parse_address(r.uri)]
        /\ pc' = [pc EXCEPT ![t] = "looking up"]
        /\ UNCHANGED <<client, refused, alive>>
    BY <1>4 DEF Parse
  <2>4. address' \in [Conn -> Destination]
    BY <1>1, <2>2, <2>3 DEF TypeOK
  <2>. QED BY <1>1, <2>3, <2>4 DEF TypeOK
<1>. QED BY <1>2, <1>3, <1>4 DEF Requests

-----------------------------------------------------------------------------
(* A step is about one connection: at the others nothing changes, and what *)
(* the invariant says of them still holds.                                 *)

Same(c) ==
    /\ client'[c] = client[c] /\ heap'[c] = heap[c] /\ pc'[c] = pc[c]
    /\ connfd'[c] = connfd[c] /\ served'[c] = served[c] /\ sent'[c] = sent[c]
    /\ total_size'[c] = total_size[c] /\ got'[c] = got[c]
    /\ \A e \in {"client", "server"} : <<e, c>> \in open' <=> <<e, c>> \in open

LEMMA OneConnection ==
  ASSUME ProxyInv, TypeOK', NEW t \in Conn,
         \A c \in Conn \ {t} : Same(c),
         OwnConn(t)', Counted(t)', Descriptors(t)', Relayed(t)'
  PROVE  ProxyInv'
<1>. SUFFICES ASSUME NEW c \in Conn \ {t}
              PROVE  OwnConn(c)' /\ Counted(c)' /\ Descriptors(c)' /\ Relayed(c)'
  BY DEF ProxyInv, RelayFaithful
<1>1. OwnConn(c) /\ Counted(c) /\ Descriptors(c) /\ Relayed(c) /\ Same(c)
  BY DEF ProxyInv, RelayFaithful
<1>2. OwnConn(c)' BY <1>1 DEF OwnConn, Begun, Same
<1>3. Counted(c)' BY <1>1 DEF Counted, Same
<1>4. Descriptors(c)' BY <1>1 DEF Descriptors, Same
<1>5. Relayed(c)' BY <1>1 DEF Relayed, Same
<1>. QED BY <1>2, <1>3, <1>4, <1>5

LEMMA InvAt ==
  ASSUME ProxyInv, NEW t \in Conn
  PROVE  TypeOK /\ OwnConn(t) /\ Counted(t) /\ Descriptors(t) /\ Relayed(t)
  BY DEF ProxyInv, RelayFaithful
-----------------------------------------------------------------------------
(* One lemma per action: the action keeps ProxyInv.                        *)

LEMMA InitInv == Init => ProxyInv
<1>. SUFFICES ASSUME Init PROVE ProxyInv OBVIOUS
<1>1. TypeOK
  BY ProxyAssumption DEF Init, TypeOK, Destination, Nowhere, States
<1>2. ASSUME NEW c \in Conn
      PROVE  OwnConn(c) /\ Counted(c) /\ Descriptors(c) /\ Relayed(c)
  <2>1. got[c] = <<>> /\ total_size[c] = 0 /\ sent[c] = 0 /\ pc[c] = "none"
        /\ served[c] = "idle" /\ client[c] = "none" /\ open = {}
    BY DEF Init
  <2>2. OwnConn(c) BY <2>1 DEF OwnConn, Begun
  <2>3. Counted(c) BY <2>1 DEF Counted
  <2>4. Descriptors(c) BY <2>1 DEF Descriptors
  <2>5. Relayed(c) BY <2>1 DEF Relayed
  <2>. QED BY <2>2, <2>3, <2>4, <2>5
<1>. QED BY <1>1, <1>2 DEF ProxyInv, RelayFaithful

LEMMA ConnectKeeps ==
  ASSUME ProxyInv, NEW c \in Conn, Connect(c) PROVE ProxyInv'
<1>1. TypeOK /\ OwnConn(c) /\ Counted(c) /\ Descriptors(c) /\ Relayed(c)
  BY InvAt
<1>2. TypeOK' BY <1>1, ProxyAssumption DEF Connect, TypeOK
<1>3. ASSUME NEW d \in Conn \ {c} PROVE Same(d)
  BY <1>1, <1>3 DEF Connect, Same, TypeOK
<1>4. OwnConn(c)' BY <1>1 DEF Connect, OwnConn, Begun, TypeOK
<1>5. Counted(c)' BY <1>1 DEF Connect, Counted, OwnConn, TypeOK
<1>6. Descriptors(c)' BY <1>1 DEF Connect, Descriptors, OwnConn, Begun, TypeOK
<1>7. Relayed(c)' BY <1>1 DEF Connect, Relayed, Counted, OwnConn, TypeOK
<1>. QED BY <1>2, <1>3, <1>4, <1>5, <1>6, <1>7, OneConnection

LEMMA AskKeeps ==
  ASSUME ProxyInv, NEW c \in Conn, Ask(c) PROVE ProxyInv'
<1>1. TypeOK /\ OwnConn(c) /\ Counted(c) /\ Descriptors(c) /\ Relayed(c)
  BY InvAt
<1>2. TypeOK'
  <2>1. PICK r \in Requests : request' = [request EXCEPT ![c] = r]
    BY DEF Ask
  <2>2. request' \in [Conn -> Requests \cup {NoRequest}]
    BY <1>1, <2>1 DEF TypeOK
  <2>. QED BY <1>1, <2>2 DEF Ask, TypeOK
<1>3. ASSUME NEW d \in Conn \ {c} PROVE Same(d)
  BY <1>1, <1>3 DEF Ask, Same, TypeOK
<1>4. OwnConn(c)' BY <1>1 DEF Ask, OwnConn, Begun, TypeOK
<1>5. Counted(c)' BY <1>1 DEF Ask, Counted, OwnConn, TypeOK
<1>6. Descriptors(c)' BY <1>1 DEF Ask, Descriptors, OwnConn, Begun, TypeOK
<1>7. Relayed(c)' BY <1>1 DEF Ask, Relayed, Counted, OwnConn, TypeOK
<1>. QED BY <1>2, <1>3, <1>4, <1>5, <1>6, <1>7, OneConnection

LEMMA LeaveKeeps ==
  ASSUME ProxyInv, NEW c \in Conn, Leave(c) PROVE ProxyInv'
<1>1. TypeOK /\ OwnConn(c) /\ Counted(c) /\ Descriptors(c) /\ Relayed(c)
  BY InvAt
<1>2. TypeOK' BY <1>1, ProxyAssumption DEF Leave, TypeOK
<1>3. ASSUME NEW d \in Conn \ {c} PROVE Same(d)
  BY <1>1, <1>3 DEF Leave, Same, TypeOK
<1>4. OwnConn(c)' BY <1>1 DEF Leave, OwnConn, Begun, TypeOK
<1>5. Counted(c)' BY <1>1 DEF Leave, Counted, OwnConn, TypeOK
<1>6. Descriptors(c)' BY <1>1 DEF Leave, Descriptors, OwnConn, Begun, TypeOK
<1>7. Relayed(c)' BY <1>1 DEF Leave, Relayed, Counted, OwnConn, TypeOK
<1>. QED BY <1>2, <1>3, <1>4, <1>5, <1>6, <1>7, OneConnection

LEMMA AnswerKeeps ==
  ASSUME ProxyInv, NEW t \in Conn, Answer(t) PROVE ProxyInv'
<1>1. TypeOK /\ OwnConn(t) /\ Counted(t) /\ Descriptors(t) /\ Relayed(t)
  BY InvAt
<1>2. TypeOK'
  <2>1. sent[t] + 1 \in 0 .. MaxChunks
    BY <1>1, ProxyAssumption DEF Answer, TypeOK
  <2>2. sent' \in [Conn -> 0 .. MaxChunks] BY <1>1, <2>1 DEF Answer, TypeOK
  <2>. QED BY <1>1, <2>2 DEF Answer, TypeOK
<1>3. ASSUME NEW d \in Conn \ {t} PROVE Same(d)
  BY <1>1, <1>3 DEF Answer, Same, TypeOK
<1>4. OwnConn(t)' BY <1>1 DEF Answer, OwnConn, Begun, TypeOK
<1>5. Counted(t)' BY <1>1 DEF Answer, Counted, OwnConn, TypeOK
<1>6. Descriptors(t)' BY <1>1 DEF Answer, Descriptors, OwnConn, Begun, TypeOK
<1>7. Relayed(t)' BY <1>1 DEF Answer, Relayed, Counted, OwnConn, TypeOK
<1>. QED BY <1>2, <1>3, <1>4, <1>5, <1>6, <1>7, OneConnection

LEMMA CloseUpstreamKeeps ==
  ASSUME ProxyInv, NEW t \in Conn, CloseUpstream(t) PROVE ProxyInv'
<1>1. TypeOK /\ OwnConn(t) /\ Counted(t) /\ Descriptors(t) /\ Relayed(t)
  BY InvAt
<1>2. TypeOK' BY <1>1, ProxyAssumption DEF CloseUpstream, TypeOK
<1>3. ASSUME NEW d \in Conn \ {t} PROVE Same(d)
  BY <1>1, <1>3 DEF CloseUpstream, Same, TypeOK
<1>4. OwnConn(t)' BY <1>1 DEF CloseUpstream, OwnConn, Begun, TypeOK
<1>5. Counted(t)' BY <1>1 DEF CloseUpstream, Counted, OwnConn, TypeOK
<1>6. Descriptors(t)' BY <1>1 DEF CloseUpstream, Descriptors, OwnConn, Begun, TypeOK
<1>7. Relayed(t)' BY <1>1 DEF CloseUpstream, Relayed, Counted, OwnConn, TypeOK
<1>. QED BY <1>2, <1>3, <1>4, <1>5, <1>6, <1>7, OneConnection

LEMMA AcceptKeeps ==
  ASSUME ProxyInv, NEW c \in Conn, accept(c) PROVE ProxyInv'
<1>1. TypeOK /\ OwnConn(c) /\ Counted(c) /\ Descriptors(c) /\ Relayed(c)
  BY InvAt
<1>2. TypeOK'
  <2>1. heap' \in [Conn -> Conn \cup {NoConn}] /\ pc' \in [Conn -> States]
    BY <1>1 DEF accept, Cell, TypeOK, States
  <2>2. open' \subseteq {"client", "server"} \X Conn
    BY <1>1 DEF accept, TypeOK
  <2>. QED BY <1>1, <2>1, <2>2 DEF accept, TypeOK
<1>3. ASSUME NEW d \in Conn \ {c} PROVE Same(d)
  BY <1>1, <1>3 DEF accept, Cell, Same, TypeOK
<1>4. OwnConn(c)' BY <1>1 DEF accept, Cell, OwnConn, Begun, TypeOK
<1>5. Counted(c)' BY <1>1 DEF accept, Cell, Counted, OwnConn, TypeOK
<1>6. Descriptors(c)'
  <2>1. pc[c] = "none" /\ pc'[c] = "started" /\ served'[c] = served[c]
        /\ open' = open \cup {<<"client", c>>}
    BY <1>1 DEF accept, TypeOK
  <2>. QED BY <1>1, <2>1 DEF Descriptors
<1>7. Relayed(c)' BY <1>1 DEF accept, Cell, Relayed, Counted, OwnConn, TypeOK
<1>. QED BY <1>2, <1>3, <1>4, <1>5, <1>6, <1>7, OneConnection

LEMMA HandlerKeeps ==
  ASSUME ProxyInv, NEW t \in Conn, connection_handler(t) PROVE ProxyInv'
<1>1. TypeOK /\ OwnConn(t) /\ Counted(t) /\ Descriptors(t) /\ Relayed(t)
  BY InvAt
<1>2. TypeOK' BY <1>1, ProxyAssumption DEF connection_handler, Cell, States, TypeOK
<1>3. ASSUME NEW d \in Conn \ {t} PROVE Same(d)
  BY <1>1, <1>3 DEF connection_handler, Cell, Same, TypeOK
<1>4. OwnConn(t)' BY <1>1 DEF connection_handler, Cell, OwnConn, Begun, TypeOK
<1>5. Counted(t)' BY <1>1 DEF connection_handler, Cell, Counted, OwnConn, TypeOK
<1>6. Descriptors(t)' BY <1>1 DEF connection_handler, Cell, Descriptors, OwnConn, Begun, TypeOK
<1>7. Relayed(t)' BY <1>1 DEF connection_handler, Cell, Relayed, Counted, OwnConn, TypeOK
<1>. QED BY <1>2, <1>3, <1>4, <1>5, <1>6, <1>7, OneConnection

LEMMA LookupKeeps ==
  ASSUME ProxyInv, NEW t \in Conn, gethostbyname(t) PROVE ProxyInv'
<1>1. TypeOK /\ OwnConn(t) /\ Counted(t) /\ Descriptors(t) /\ Relayed(t)
  BY InvAt
<1>2. TypeOK'
  <2>1. /\ pc' \in [Conn -> States] /\ hostent' \in Host \cup {NoHost}
        /\ UNCHANGED <<proxyfd, served>>
    BY <1>1 DEF gethostbyname, Failed, TypeOK, States
  <2>2. open' \subseteq {"client", "server"} \X Conn
    <3>1. open' = open \cup {<<"server", t>>} BY DEF gethostbyname
    <3>. QED BY <1>1, <3>1 DEF TypeOK
  <2>. QED BY <1>1, <2>1, <2>2 DEF gethostbyname, TypeOK
<1>3. ASSUME NEW d \in Conn \ {t} PROVE Same(d)
  <2>1. open' = open \cup {<<"server", t>>} BY DEF gethostbyname
  <2>2. /\ UNCHANGED <<client, heap, connfd, sent, total_size, got, served>>
        /\ pc'[d] = pc[d]
    BY <1>1, <1>3 DEF gethostbyname, Failed, TypeOK
  <2>. QED BY <1>3, <2>1, <2>2 DEF Same
<1>4. OwnConn(t)' BY <1>1 DEF gethostbyname, Failed, OwnConn, Begun, TypeOK
<1>5. Counted(t)' BY <1>1 DEF gethostbyname, Failed, Counted, OwnConn, TypeOK
<1>6. Descriptors(t)' BY <1>1 DEF gethostbyname, Failed, Descriptors, OwnConn, Begun, TypeOK
<1>7. Relayed(t)' BY <1>1 DEF gethostbyname, Failed, Relayed, Counted, OwnConn, TypeOK
<1>. QED BY <1>2, <1>3, <1>4, <1>5, <1>6, <1>7, OneConnection

LEMMA ConnectServerKeeps ==
  ASSUME ProxyInv, NEW t \in Conn, connect(t) PROVE ProxyInv'
<1>1. TypeOK /\ OwnConn(t) /\ Counted(t) /\ Descriptors(t) /\ Relayed(t)
  BY InvAt
<1>2. TypeOK'
  <2>1. address[t].port % 2^16 \in Nat
    BY <1>1 DEF TypeOK, Destination
  <2>2. [host |-> hostent, port |-> address[t].port % 2^16] \in Destination
    BY <1>1, <2>1 DEF TypeOK, Destination
  <2>3. proxyfd' \in [Conn -> Destination]
    <3>1. \/ UNCHANGED proxyfd
          \/ proxyfd' = [proxyfd EXCEPT ![t] =
                           [host |-> hostent, port |-> address[t].port % 2^16]]
      BY DEF connect, Failed
    <3>2. proxyfd \in [Conn -> Destination] BY <1>1 DEF TypeOK
    <3>. QED BY <2>2, <3>1, <3>2
  <2>4. /\ pc' \in [Conn -> States]
        /\ served' \in [Conn -> {"idle", "asked", "closed"}]
    BY <1>1 DEF connect, Failed, TypeOK, States
  <2>. QED BY <1>1, <2>3, <2>4 DEF connect, TypeOK
<1>3. ASSUME NEW d \in Conn \ {t} PROVE Same(d)
  BY <1>1, <1>3 DEF connect, Failed, Same, TypeOK
<1>4. OwnConn(t)' BY <1>1 DEF connect, Failed, OwnConn, Begun, TypeOK
<1>5. Counted(t)' BY <1>1 DEF connect, Failed, Counted, OwnConn, TypeOK
<1>6. Descriptors(t)' BY <1>1 DEF connect, Failed, Descriptors, OwnConn, Begun, TypeOK
<1>7. Relayed(t)' BY <1>1 DEF connect, Failed, Relayed, Counted, OwnConn, TypeOK
<1>. QED BY <1>2, <1>3, <1>4, <1>5, <1>6, <1>7, OneConnection

LEMMA FinishKeeps ==
  ASSUME ProxyInv, NEW t \in Conn, Finish(t) PROVE ProxyInv'
<1>1. TypeOK /\ OwnConn(t) /\ Counted(t) /\ Descriptors(t) /\ Relayed(t)
  BY InvAt
<1>2. TypeOK' BY <1>1, ProxyAssumption DEF Finish, Unclosed, States, TypeOK
<1>3. ASSUME NEW d \in Conn \ {t} PROVE Same(d)
  <2>1. connfd[t] = t BY <1>1 DEF Finish, OwnConn, Begun
  <2>2. open' = open \ ({<<"client", t>>, <<"server", t>>} \ Unclosed(t))
    BY <2>1 DEF Finish
  <2>3. /\ UNCHANGED <<client, heap, connfd, sent, total_size, got, served>>
        /\ pc'[d] = pc[d]
    BY <1>1, <1>3 DEF Finish, TypeOK
  <2>. QED BY <1>3, <2>2, <2>3 DEF Same
<1>4. OwnConn(t)' BY <1>1 DEF Finish, Ends, Unclosed, OwnConn, Begun, TypeOK
<1>5. Counted(t)' BY <1>1 DEF Finish, Ends, Unclosed, Counted, OwnConn, TypeOK
<1>6. Descriptors(t)'
  <2>1. connfd[t] = t BY <1>1 DEF Finish, OwnConn, Begun
  <2>2. open' = open \ ({<<"client", t>>, <<"server", t>>} \ Unclosed(t))
    BY <2>1 DEF Finish
  <2>3. pc[t] = "relaying" /\ pc'[t] = "done" /\ UNCHANGED served
    BY <1>1 DEF Finish, TypeOK
  <2>4. <<"client", t>> \notin open'
    BY <2>2 DEF Unclosed
  <2>5. <<"server", t>> \in open' <=> served[t] = "idle"
    BY <1>1, <2>2, <2>3 DEF Unclosed, Descriptors
  <2>. QED BY <2>3, <2>4, <2>5 DEF Descriptors
<1>7. Relayed(t)' BY <1>1 DEF Finish, Ends, Unclosed, Relayed, Counted, OwnConn, TypeOK
<1>. QED BY <1>2, <1>3, <1>4, <1>5, <1>6, <1>7, OneConnection

LEMMA ReadKeeps ==
  ASSUME ProxyInv, NEW t \in Conn, read_request(t) PROVE ProxyInv'
<1>1. TypeOK /\ OwnConn(t) /\ Counted(t) /\ Descriptors(t) /\ Relayed(t)
  BY InvAt
<1>2. pc[t] = "reading" /\ connfd[t] = t
  BY <1>1 DEF read_request, OwnConn, Begun
<1>3. UNCHANGED <<request, heap, connfd, hostent, proxyfd, served, sent,
                  total_size, got, open>>
  BY DEF read_request
<1>4. /\ client' \in [Conn -> {"none", "open", "fin", "reset", "dead"}]
      /\ alive' \in BOOLEAN
      /\ \A d \in Conn \ {t} : client'[d] = client[d]
      /\ (client'[t] = "open") = (client[t] = "open")
      /\ (client'[t] = "none") = (client[t] = "none")
      /\ \E s \in {"reading", "lost", "looking up"} : pc' = [pc EXCEPT ![t] = s]
      /\ address' \in [Conn -> Destination]
      /\ refused' \subseteq Conn
  <2>1. CASE \E r \in Requests : Parse(t, r)
    BY <1>2, <2>1, ParseEffect
  <2>2. CASE GiveUp(t) /\ UNCHANGED <<client, refused, alive>>
    BY <1>1, <2>2 DEF GiveUp, TypeOK
  <2>3. CASE /\ client[t] = "reset" /\ client' = [client EXCEPT ![t] = "dead"]
             /\ UNCHANGED <<pc, address, refused, alive>>
    <3>1. pc' = [pc EXCEPT ![t] = "reading"] BY <1>1, <1>2, <2>3 DEF TypeOK
    <3>. QED BY <1>1, <2>3, <3>1 DEF TypeOK
  <2>4. request[t] # NoRequest => request[t] \in Requests
    BY <1>1 DEF TypeOK
  <2>. QED BY <1>2, <2>1, <2>2, <2>3, <2>4 DEF read_request
<1>5. PICK s \in {"reading", "lost", "looking up"} : pc' = [pc EXCEPT ![t] = s]
  BY <1>4
<1>6. TypeOK' BY <1>1, <1>3, <1>4, <1>5 DEF TypeOK, States
<1>7. ASSUME NEW d \in Conn \ {t} PROVE Same(d)
  BY <1>1, <1>3, <1>4, <1>5, <1>7 DEF Same, TypeOK
<1>8. OwnConn(t)' BY <1>1, <1>2, <1>3, <1>4, <1>5 DEF OwnConn, Begun, TypeOK
<1>9. Counted(t)' BY <1>1, <1>2, <1>3, <1>5 DEF Counted, TypeOK
<1>10. Descriptors(t)' BY <1>1, <1>2, <1>3, <1>5 DEF Descriptors, TypeOK
<1>11. Relayed(t)' BY <1>1, <1>3, <1>4, <1>5 DEF Relayed, TypeOK
<1>. QED BY <1>6, <1>7, <1>8, <1>9, <1>10, <1>11, OneConnection

LEMMA RelayKeeps ==
  ASSUME ProxyInv, NEW t \in Conn, Relay(t) PROVE ProxyInv'
<1>1. TypeOK /\ OwnConn(t) /\ Counted(t) /\ Descriptors(t) /\ Relayed(t)
  BY InvAt
<1>2. pc[t] = "relaying" /\ connfd[t] = t /\ total_size[t] < sent[t]
  BY <1>1 DEF Relay, OwnConn, Begun
<1>3. UNCHANGED <<request, heap, pc, connfd, address, hostent, proxyfd, served,
                  sent, refused, open>>
  BY DEF Relay
<1>4. send(t) BY <1>2 DEF Relay
<1>5. /\ client' \in [Conn -> {"none", "open", "fin", "reset", "dead"}]
      /\ alive' \in BOOLEAN
      /\ \A d \in Conn \ {t} : client'[d] = client[d]
      /\ (client'[t] = "open") = (client[t] = "open")
      /\ (client'[t] = "none") = (client[t] = "none")
  BY <1>1, <1>4, SendEffect
<1>6. /\ total_size' = [total_size EXCEPT ![t] = @ + 1]
      /\ total_size[t] \in Nat /\ total_size[t] + 1 \in 0 .. MaxChunks
      /\ sent[t] \in Nat
  BY <1>1, <1>2, ProxyAssumption DEF Relay, TypeOK
<1>7. total_size'[t] = total_size[t] + 1
      /\ total_size' \in [Conn -> 0 .. MaxChunks]
  BY <1>1, <1>6 DEF TypeOK
<1>8. got[t] \in Seq([server : Conn, number : Nat]) /\ Len(got[t]) \in Nat
  <2>1. got[t] \in Seq([server : Conn, number : Nat]) BY <1>1 DEF TypeOK
  <2>. QED BY <2>1
<1>9. got' = IF client[t] # "open" THEN got
             ELSE [got EXCEPT ![t] = Append(@, Chunk(t, total_size[t] + 1))]
  BY <1>2 DEF Relay
<1>10. Chunk(t, total_size[t] + 1) \in [server : Conn, number : Nat]
  BY <1>6 DEF Chunk
<1>11. got' \in [Conn -> Seq([server : Conn, number : Nat])]
  <2>1. Append(got[t], Chunk(t, total_size[t] + 1))
            \in Seq([server : Conn, number : Nat])
    BY <1>8, <1>10
  <2>. QED BY <1>1, <1>9, <2>1 DEF TypeOK
<1>12. TypeOK' BY <1>1, <1>3, <1>5, <1>7, <1>11 DEF TypeOK
<1>13. ASSUME NEW d \in Conn \ {t} PROVE Same(d)
  <2>1. total_size'[d] = total_size[d] BY <1>1, <1>6, <1>13 DEF TypeOK
  <2>2. got'[d] = got[d] BY <1>1, <1>9, <1>13 DEF TypeOK
  <2>. QED BY <1>3, <1>5, <2>1, <2>2 DEF Same
<1>14. OwnConn(t)' BY <1>1, <1>3, <1>5 DEF OwnConn, Begun
\* An open client is sent the chunk, and it is the next one it needs.
<1>15. CASE client[t] = "open"
  <2>1. /\ got'[t] = Append(got[t], Chunk(t, total_size[t] + 1))
        /\ Len(got[t]) = total_size[t]
    BY <1>1, <1>9, <1>15 DEF TypeOK, Relayed
  <2>2. Len(got'[t]) = total_size[t] + 1 BY <1>8, <1>10, <2>1
  <2>3. \A n \in 1 .. Len(got'[t]) : got'[t][n] = Chunk(t, n)
    <3>. SUFFICES ASSUME NEW n \in 1 .. Len(got'[t]) PROVE got'[t][n] = Chunk(t, n)
      OBVIOUS
    <3>1. CASE n \in 1 .. Len(got[t])
      <4>1. got'[t][n] = got[t][n] BY <1>8, <2>1, <3>1
      <4>. QED BY <1>1, <3>1, <4>1 DEF Relayed
    <3>2. CASE n = Len(got[t]) + 1
      BY <1>8, <2>1, <3>2
    <3>. QED BY <1>8, <2>1, <2>2, <3>1, <3>2
  <2>4. Counted(t)' BY <1>1, <1>2, <1>3, <1>6, <1>7, <2>2 DEF Counted
  <2>5. Relayed(t)'
    BY <1>2, <1>3, <1>7, <2>2, <2>3 DEF Relayed, Chunk
  <2>. QED
    BY <1>1, <1>3, <1>12, <1>13, <1>14, <2>4, <2>5, OneConnection
       DEF Descriptors
<1>16. CASE client[t] # "open"
  <2>1. got'[t] = got[t] BY <1>9, <1>16
  <2>2. Counted(t)'
    BY <1>1, <1>2, <1>3, <1>6, <1>7, <1>8, <2>1 DEF Counted
  <2>3. Relayed(t)' BY <1>1, <1>5, <1>16, <2>1 DEF Relayed, Chunk
  <2>. QED
    BY <1>1, <1>3, <1>12, <1>13, <1>14, <2>2, <2>3, OneConnection
       DEF Descriptors
<1>. QED BY <1>15, <1>16
-----------------------------------------------------------------------------
(* ProxyInv is inductive.                                                  *)

LEMMA StepKeeps == ProxyInv /\ [Next]_vars => ProxyInv'
<1>. SUFFICES ASSUME ProxyInv, [Next]_vars PROVE ProxyInv' OBVIOUS
<1>1. ASSUME NEW c \in Conn, accept(c) PROVE ProxyInv'
  BY <1>1, AcceptKeeps
<1>2. ASSUME NEW c \in Conn, Thread(c) PROVE ProxyInv'
  BY <1>2, HandlerKeeps, ReadKeeps, LookupKeeps, ConnectServerKeeps,
     RelayKeeps, FinishKeeps DEF Thread
<1>3. ASSUME NEW c \in Conn, Others(c) PROVE ProxyInv'
  BY <1>3, ConnectKeeps, AskKeeps, LeaveKeeps, AnswerKeeps DEF Others
<1>4. ASSUME NEW c \in Conn, CloseUpstream(c) PROVE ProxyInv'
  BY <1>4, CloseUpstreamKeeps
<1>5. CASE UNCHANGED vars
  <2>1. TypeOK' BY <1>5 DEF vars, ProxyInv, TypeOK
  <2>2. \A t \in Conn : OwnConn(t)' /\ Counted(t)' /\ Descriptors(t)'
    BY <1>5 DEF vars, ProxyInv, OwnConn, Begun, Counted, Descriptors
  <2>3. RelayFaithful'
    BY <1>5 DEF vars, ProxyInv, RelayFaithful, Relayed
  <2>. QED BY <2>1, <2>2, <2>3 DEF ProxyInv
<1>. QED BY <1>1, <1>2, <1>3, <1>4, <1>5 DEF Next

\* Every reachable state of the proxy satisfies the invariant, for any number
\* of connections, whatever clients ask for and whenever anybody leaves.
THEOREM ProxyInvariant == Spec => []ProxyInv
<1>1. Init => ProxyInv BY InitInv
<1>2. ProxyInv /\ [Next]_vars => ProxyInv' BY StepKeeps
<1>. QED BY <1>1, <1>2, PTL DEF Spec

\* The variables of the proxy keep the types they are declared with.
THEOREM ProxyTypeOK == Spec => []TypeOK
<1>1. ProxyInv => TypeOK BY DEF ProxyInv
<1>. QED BY <1>1, ProxyInvariant, PTL

\* What a client gets from the proxy is what one server sent to the thread
\* started for it, in order and without gaps, for any number of threads.
THEOREM RelaysFaithfully == Spec => []RelayFaithful
<1>1. ProxyInv => RelayFaithful BY DEF ProxyInv
<1>. QED BY <1>1, ProxyInvariant, PTL

\* A thread that has ended leaves open the connection of a request it gave up,
\* or the socket of a server it could not reach, and nothing else.
THEOREM NothingElseLeaks == Spec => []OnlyFailuresLeak
<1>1. ProxyInv => OnlyFailuresLeak
  <2>. SUFFICES ASSUME ProxyInv, NEW t \in Conn, pc[t] \in {"done", "lost"}
                PROVE  {d \in open : d[2] = t} = LeftOpen(t)
    BY DEF OnlyFailuresLeak
  <2>1. TypeOK /\ OwnConn(t) /\ Counted(t) /\ Descriptors(t)
    BY InvAt
  <2>2. \A d \in open : d[2] = t => d \in {<<"client", t>>, <<"server", t>>}
    <3>. SUFFICES ASSUME NEW d \in open, d[2] = t
                  PROVE  d \in {<<"client", t>>, <<"server", t>>}
      OBVIOUS
    <3>1. d \in {"client", "server"} \X Conn BY <2>1 DEF TypeOK
    <3>. QED BY <3>1
  <2>3. {d \in open : d[2] = t} = {d \in {<<"client", t>>, <<"server", t>>} : d \in open}
    BY <2>2
  <2>4. CASE pc[t] = "lost"
    BY <2>1, <2>3, <2>4 DEF Descriptors, LeftOpen
  <2>5. CASE pc[t] = "done" /\ served[t] = "idle"
    BY <2>1, <2>3, <2>5 DEF Descriptors, LeftOpen
  <2>6. CASE pc[t] = "done" /\ served[t] # "idle"
    BY <2>1, <2>3, <2>6 DEF Descriptors, LeftOpen
  <2>. QED BY <2>4, <2>5, <2>6
<1>. QED BY <1>1, ProxyInvariant, PTL
=============================================================================
