------------------------------- MODULE CliProofs -------------------------------
(***************************************************************************)
(* Theorems about core/cli.c, for every length of line, number of          *)
(* arguments and table of commands.                                        *)
(***************************************************************************)
EXTENDS Cli, Induction, FiniteSetTheorems, TLAPS

Chars  == Printable \union {NUL}
Places == 0 .. CLI_MAX_LINE_LEN - 1
Buffers == [Places -> Chars]

LEMMA Limits ==
  /\ CLI_MAX_LINE_LEN \in Nat \ {0} /\ CLI_MAX_ARGS \in Nat \ {0} /\ CLI_MAX_CMDS \in Nat \ {0}
  /\ help_cmd \in Commands /\ Numbers \subseteq Int
  /\ NUL \notin Printable /\ SP \in Printable /\ SP # NUL
BY LimitsAssumption, CharactersAssumption DEF Printable

-----------------------------------------------------------------------------
(* C strings                                                               *)

LEMMA EndIs ==
  ASSUME NEW buf \in Buffers, NEW i \in Places, NEW n \in Places, n >= i, buf[n] = NUL,
         \A k \in i .. n - 1 : buf[k] # NUL
  PROVE  EndOf(buf, i) = n
<1> DEFINE Ends(j) == j \in DOMAIN buf /\ j >= i /\ buf[j] = NUL /\ \A k \in i .. j - 1 : buf[k] # NUL
<1>1. Ends(n) BY DEF Buffers
<1>2. ASSUME NEW j, Ends(j) PROVE j = n
  <2>1. j \in Int /\ i \in Int /\ n \in Int BY <1>2, Limits DEF Buffers, Places
  <2>2. j < n => j \in i .. n - 1 BY <1>2, <2>1
  <2>3. n < j => n \in i .. j - 1 BY <2>1
  <2> QED BY <1>2, <2>1, <2>2, <2>3
<1> QED BY <1>1, <1>2 DEF EndOf

-----------------------------------------------------------------------------
(* What the terminal shows                                                 *)

\* The line of a buffer up to n, as a sequence.
LineOf(buf, n) == [k \in 1 .. n |-> buf[k - 1]]

LEMMA LineIs ==
  ASSUME NEW buf \in Buffers, NEW n \in Places, \A k \in 0 .. n - 1 : buf[k] \in Printable
  PROVE  /\ LineOf(buf, n) \in Seq(Printable) /\ Len(LineOf(buf, n)) = n
         /\ \A k \in 1 .. n : LineOf(buf, n)[k] = buf[k - 1]
<1>1. n \in Nat BY Limits DEF Places
<1>2. \A k \in 1 .. n : k - 1 \in 0 .. n - 1 BY <1>1
<1>3. LineOf(buf, n) \in [1 .. n -> Printable] BY <1>2 DEF LineOf
<1> QED BY <1>1, <1>3 DEF LineOf

LEMMA SameLine ==
  ASSUME NEW p \in Seq(Printable), NEW q \in Seq(Printable), Len(p) = Len(q),
         \A k \in 1 .. Len(p) : p[k] = q[k]
  PROVE  p = q
OBVIOUS

\* A character typed, and one erased.
LEMMA LineGrows ==
  ASSUME NEW buf \in Buffers, NEW n \in Places, n + 1 \in Places, NEW c \in Printable,
         \A k \in 0 .. n - 1 : buf[k] \in Printable
  PROVE  /\ [buf EXCEPT ![n] = c] \in Buffers
         /\ \A k \in 0 .. n : [buf EXCEPT ![n] = c][k] \in Printable
         /\ LineOf([buf EXCEPT ![n] = c], n + 1) = Append(LineOf(buf, n), c)
<1> DEFINE b == [buf EXCEPT ![n] = c]
<1>1. n \in Nat BY Limits DEF Places
<1>2. b \in Buffers /\ b[n] = c /\ \A k \in 0 .. n - 1 : b[k] = buf[k]
  <2>1. DOMAIN buf = Places /\ \A k \in 0 .. n - 1 : k \in Places /\ k # n
    BY <1>1, Limits DEF Buffers, Places
  <2>2. b \in Buffers BY DEF Buffers, Chars
  <2> QED BY <2>1, <2>2 DEF Buffers
<1> HIDE DEF b
<1>3. \A k \in 0 .. n : k = n \/ k \in 0 .. n - 1 BY <1>1
<1>4. \A k \in 0 .. n : b[k] \in Printable BY <1>2, <1>3
<1>5. n + 1 - 1 = n BY <1>1
<1> DEFINE l == LineOf(buf, n)  m == LineOf(b, n + 1)
<1>6. l \in Seq(Printable) /\ Len(l) = n /\ \A k \in 1 .. n : l[k] = buf[k - 1] BY LineIs
<1>7. m \in Seq(Printable) /\ Len(m) = n + 1 /\ \A k \in 1 .. n + 1 : m[k] = b[k - 1]
  BY <1>2, <1>4, <1>5, LineIs
<1> HIDE DEF l, m
<1>8. /\ Append(l, c) \in Seq(Printable) /\ Len(Append(l, c)) = n + 1
      /\ Append(l, c)[n + 1] = c /\ \A k \in 1 .. n : Append(l, c)[k] = l[k]
  BY <1>6
<1>9. ASSUME NEW k \in 1 .. n + 1 PROVE m[k] = Append(l, c)[k]
  <2>1. CASE k = n + 1
    <3>1. m[k] = b[k - 1] /\ k - 1 = n BY <1>1, <1>7, <2>1
    <3> QED BY <1>2, <1>8, <2>1, <3>1
  <2>2. CASE k # n + 1
    <3>1. k \in 1 .. n /\ k - 1 \in 0 .. n - 1 BY <1>1, <2>2
    <3> QED BY <1>2, <1>6, <1>7, <1>8, <3>1
  <2> QED BY <2>1, <2>2
<1>10. m = Append(l, c) BY <1>7, <1>8, <1>9, SameLine
<1> QED BY <1>2, <1>4, <1>10 DEF b, l, m

LEMMA LineShrinks ==
  ASSUME NEW buf \in Buffers, NEW n \in Places, n > 0, \A k \in 0 .. n - 1 : buf[k] \in Printable
  PROVE  LineOf(buf, n - 1) = Front(LineOf(buf, n))
<1> DEFINE l == LineOf(buf, n)  m == LineOf(buf, n - 1)
<1>1. n \in Nat /\ n - 1 \in Places /\ \A k \in 0 .. (n - 1) - 1 : k \in 0 .. n - 1
  BY Limits DEF Places
<1>2. l \in Seq(Printable) /\ Len(l) = n /\ \A k \in 1 .. n : l[k] = buf[k - 1] BY LineIs
<1>3. m \in Seq(Printable) /\ Len(m) = n - 1 /\ \A k \in 1 .. n - 1 : m[k] = buf[k - 1]
  BY <1>1, LineIs
<1> HIDE DEF l, m
<1>4. /\ Front(l) \in Seq(Printable) /\ Len(Front(l)) = n - 1
      /\ \A k \in 1 .. n - 1 : Front(l)[k] = l[k]
  BY <1>1, <1>2 DEF Front
<1>5. \A k \in 1 .. n - 1 : m[k] = Front(l)[k]
  <2>1. \A k \in 1 .. n - 1 : k \in 1 .. n BY <1>1
  <2> QED BY <1>2, <1>3, <1>4, <2>1
<1>6. m = Front(l) BY <1>3, <1>4, <1>5, SameLine
<1> QED BY <1>6 DEF l, m

-----------------------------------------------------------------------------
(* Removing a command                                                      *)

PlacesOf(table, cmd) == {i \in 1 .. Len(table) : table[i] = cmd}

LEMMA CountIs ==
  ASSUME NEW table \in Seq(Commands), NEW cmd
  PROVE  /\ Count(table, cmd) = Cardinality(PlacesOf(table, cmd))
         /\ IsFiniteSet(PlacesOf(table, cmd)) /\ Count(table, cmd) \in Nat
<1>1. Len(table) \in Nat /\ DOMAIN table = 1 .. Len(table) OBVIOUS
<1>2. IsFiniteSet(1 .. Len(table)) BY <1>1, FS_Interval
<1>3. PlacesOf(table, cmd) \subseteq 1 .. Len(table) BY DEF PlacesOf
<1>4. IsFiniteSet(PlacesOf(table, cmd)) BY <1>2, <1>3, FS_Subset
<1>5. Cardinality(PlacesOf(table, cmd)) \in Nat BY <1>4, FS_CardinalityType
<1> QED BY <1>1, <1>4, <1>5 DEF Count, PlacesOf

LEMMA RemovedIs ==
  ASSUME NEW table \in Seq(Commands), NEW i \in 1 .. Len(table)
  PROVE  /\ Removed(table, i) \in Seq(Commands) /\ Len(Removed(table, i)) = Len(table) - 1
         /\ \A j \in 1 .. Len(table) - 1 :
              Removed(table, i)[j] = IF j = i THEN table[Len(table)] ELSE table[j]
<1> DEFINE t == [table EXCEPT ![i] = table[Len(table)]]
<1>1. Len(table) \in Nat /\ Len(table) \in 1 .. Len(table) OBVIOUS
<1>2. /\ t \in Seq(Commands) /\ Len(t) = Len(table)
      /\ \A j \in 1 .. Len(table) : t[j] = IF j = i THEN table[Len(table)] ELSE table[j]
  BY <1>1
<1>3. Removed(table, i) = SubSeq(t, 1, Len(t) - 1) BY DEF Removed, Front, Last
<1> HIDE DEF t
<1>4. /\ SubSeq(t, 1, Len(t) - 1) \in Seq(Commands)
      /\ Len(SubSeq(t, 1, Len(t) - 1)) = Len(t) - 1
      /\ \A j \in 1 .. Len(t) - 1 : SubSeq(t, 1, Len(t) - 1)[j] = t[j]
  BY <1>1, <1>2
<1>5. \A j \in 1 .. Len(table) - 1 : j \in 1 .. Len(table) BY <1>1
<1> QED BY <1>2, <1>3, <1>4, <1>5

\* The entry removed is missed, and no other: the last one has taken its place.
LEMMA OneLess ==
  ASSUME NEW table \in Seq(Commands), NEW i \in 1 .. Len(table), NEW cmd
  PROVE  Count(table, cmd) = Count(Removed(table, i), cmd) + IF cmd = table[i] THEN 1 ELSE 0
<1> DEFINE n == Len(table)  t == Removed(table, i)
           P == PlacesOf(table, cmd)  Q == PlacesOf(t, cmd)
<1>1. n \in Nat /\ n \in 1 .. n /\ \A j \in 1 .. n : j = n \/ j \in 1 .. n - 1 OBVIOUS
<1>2. /\ t \in Seq(Commands) /\ Len(t) = n - 1
      /\ \A j \in 1 .. n - 1 : t[j] = IF j = i THEN table[n] ELSE table[j]
  BY RemovedIs
<1> HIDE DEF t
<1>3. Q = {j \in 1 .. n - 1 : (IF j = i THEN table[n] ELSE table[j]) = cmd} BY <1>2 DEF PlacesOf
<1>4. P = {j \in 1 .. n : table[j] = cmd} BY DEF PlacesOf
<1>5. /\ IsFiniteSet(P) /\ Count(table, cmd) = Cardinality(P)
      /\ IsFiniteSet(Q) /\ Count(t, cmd) = Cardinality(Q)
      /\ Cardinality(P) \in Nat /\ Cardinality(Q) \in Nat
  BY <1>2, CountIs
<1> HIDE DEF n, P, Q
<1>6. n \notin 1 .. n - 1 /\ i \in 1 .. n BY <1>1 DEF n
<1>7. CASE cmd = table[i]
  <2>1. i \in P BY <1>4, <1>6, <1>7
  <2>2. CASE table[n] = cmd
    <3>1. n \in P /\ Q = P \ {n} BY <1>1, <1>3, <1>4, <1>6, <1>7, <2>2
    <3>2. Cardinality(P \ {n}) = Cardinality(P) - 1 BY <1>5, <3>1, FS_RemoveElement
    <3> QED BY <1>5, <1>7, <3>1, <3>2 DEF t
  <2>3. CASE table[n] # cmd
    <3>1. Q = P \ {i} BY <1>1, <1>3, <1>4, <1>6, <1>7, <2>3
    <3>2. Cardinality(P \ {i}) = Cardinality(P) - 1 BY <1>5, <2>1, FS_RemoveElement
    <3> QED BY <1>5, <1>7, <3>1, <3>2 DEF t
  <2> QED BY <2>2, <2>3
<1>8. CASE cmd # table[i]
  <2>1. CASE table[n] = cmd
    <3>1. i # n /\ n \in P /\ i \notin P BY <1>1, <1>4, <1>8, <2>1
    <3>2. i \in 1 .. n - 1 BY <1>1, <1>6, <3>1
    <3>3. Q = (P \ {n}) \union {i}
      BY <1>1, <1>3, <1>4, <1>6, <1>8, <2>1, <3>2
    <3>4. IsFiniteSet(P \ {n}) /\ Cardinality(P \ {n}) = Cardinality(P) - 1
      BY <1>5, <3>1, FS_RemoveElement
    <3>5. i \notin P \ {n} BY <3>1
    <3>6. Cardinality(Q) = Cardinality(P \ {n}) + 1 BY <3>3, <3>4, <3>5, FS_AddElement
    <3> QED BY <1>5, <1>8, <3>4, <3>6 DEF t
  <2>2. CASE table[n] # cmd
    <3>1. Q = P BY <1>1, <1>3, <1>4, <1>6, <1>8, <2>2
    <3> QED BY <1>5, <1>8, <3>1 DEF t
  <2> QED BY <2>1, <2>2
<1> QED BY <1>7, <1>8

\* The entry that a name finds.
LEMMA FirstIs ==
  ASSUME commands \in Seq(Commands), NEW name, Matches(name) # {}
  PROVE  /\ First(name) \in 1 .. Len(commands) /\ commands[First(name)].name = name
         /\ commands[First(name)] \in Commands
<1>1. Matches(name) \subseteq Nat BY DEF Matches
<1>2. \E i \in Matches(name) : \A j \in Matches(name) : i <= j BY <1>1, Least
<1>3. First(name) \in Matches(name) BY <1>2 DEF First
<1> QED BY <1>3 DEF Matches

-----------------------------------------------------------------------------
(* The words of a line                                                     *)

\* How many words start up to i.
Rank(line, i) == Cardinality({j \in WordStarts(line) : j <= i})

LEMMA RankFacts ==
  ASSUME NEW line \in Seq(Printable)
  PROVE  /\ \A i \in Nat : Rank(line, i) \in Nat /\ IsFiniteSet({j \in WordStarts(line) : j <= i})
         /\ Rank(line, 0) = 0
         /\ Rank(line, Len(line)) = Cardinality(WordStarts(line))
         /\ \A i \in 1 .. Len(line) :
              Rank(line, i) = Rank(line, i - 1) + IF i \in WordStarts(line) THEN 1 ELSE 0
<1> DEFINE W == WordStarts(line)  S(i) == {j \in W : j <= i}
<1>0. Len(line) \in Nat /\ DOMAIN line = 1 .. Len(line) OBVIOUS
<1>1. W \subseteq 1 .. Len(line) BY <1>0 DEF WordStarts
<1>2. IsFiniteSet(W)
  <2>1. IsFiniteSet(1 .. Len(line)) BY <1>0, FS_Interval
  <2> QED BY <1>1, <2>1, FS_Subset
<1> HIDE DEF W
<1>3. \A i \in Nat : S(i) \subseteq W OBVIOUS
<1>4. \A i \in Nat : IsFiniteSet(S(i)) /\ Cardinality(S(i)) \in Nat
  BY <1>2, <1>3, FS_Subset, FS_CardinalityType
<1>5. S(0) = {} /\ S(Len(line)) = W
  <2>1. \A j \in W : j \in Int /\ 1 <= j /\ j <= Len(line) BY <1>0, <1>1
  <2>2. S(0) = {} BY <2>1
  <2>3. S(Len(line)) = W BY <2>1
  <2> QED BY <2>2, <2>3
<1>6. Cardinality(S(0)) = 0 BY <1>5, FS_EmptySet
<1>7. ASSUME NEW i \in 1 .. Len(line)
      PROVE  Cardinality(S(i)) = Cardinality(S(i - 1)) + IF i \in W THEN 1 ELSE 0
  <2>0. \A j \in W : j \in Int /\ (j <= i <=> j <= i - 1 \/ j = i) BY <1>0, <1>1
  <2>1. i - 1 \in Nat /\ i \notin S(i - 1) BY <1>0
  <2>2. CASE i \in W
    <3>1. S(i) = S(i - 1) \union {i} BY <2>0, <2>2
    <3> HIDE DEF S
    <3>2. Cardinality(S(i - 1) \union {i}) = Cardinality(S(i - 1)) + 1
      BY <1>4, <2>1, FS_AddElement
    <3> QED BY <2>2, <3>1, <3>2
  <2>3. CASE i \notin W
    <3>1. S(i) = S(i - 1) BY <2>0, <2>3
    <3>2. Cardinality(S(i - 1)) \in Nat BY <1>4, <2>1
    <3> HIDE DEF S
    <3> QED BY <2>3, <3>1, <3>2
  <2> QED BY <2>2, <2>3
<1>8. \A i \in Nat : Rank(line, i) = Cardinality(S(i)) BY DEF Rank, W
<1>9. \A i \in 1 .. Len(line) : i \in Nat /\ i - 1 \in Nat OBVIOUS
<1> HIDE DEF S
<1>10. Rank(line, 0) = 0 /\ Rank(line, Len(line)) = Cardinality(W) BY <1>0, <1>5, <1>6, <1>8
<1>11. \A i \in 1 .. Len(line) : Rank(line, i) = Rank(line, i - 1) + IF i \in W THEN 1 ELSE 0
  BY <1>7, <1>8, <1>9
<1> QED BY <1>4, <1>8, <1>10, <1>11 DEF W, S

\* Words are told apart by their rank.
LEMMA RankGrows ==
  ASSUME NEW line \in Seq(Printable), NEW i \in Nat, NEW j \in WordStarts(line), i < j
  PROVE  Rank(line, i) < Rank(line, j)
<1> DEFINE A == {k \in WordStarts(line) : k <= i}  B == {k \in WordStarts(line) : k <= j}
<1>1. j \in Nat /\ WordStarts(line) \subseteq Nat BY DEF WordStarts
<1>2. IsFiniteSet(A) /\ IsFiniteSet(B) /\ Rank(line, i) \in Nat /\ Rank(line, j) \in Nat
  BY <1>1, RankFacts
<1>3. A \subseteq B /\ j \in B /\ j \notin A BY <1>1
<1>4. Rank(line, i) = Cardinality(A) /\ Rank(line, j) = Cardinality(B) BY DEF Rank
<1> HIDE DEF A, B
<1>5. Cardinality(A) <= Cardinality(B) /\ (Cardinality(A) = Cardinality(B) => A = B)
  BY <1>2, <1>3, FS_Subset
<1> QED BY <1>2, <1>3, <1>4, <1>5

LEMMA NthIs ==
  ASSUME NEW line \in Seq(Printable), NEW i \in WordStarts(line)
  PROVE  NthStart(line, Rank(line, i)) = i
<1>1. WordStarts(line) \subseteq Nat BY DEF WordStarts
<1>2. ASSUME NEW j \in WordStarts(line), Rank(line, j) = Rank(line, i) PROVE j = i
  <2>1. i \in Nat /\ j \in Nat BY <1>1
  <2>2. Rank(line, i) \in Nat BY <2>1, RankFacts
  <2>3. i < j => Rank(line, i) < Rank(line, j) BY <2>1, RankGrows
  <2>4. j < i => Rank(line, j) < Rank(line, i) BY <2>1, RankGrows
  <2> QED BY <1>2, <2>1, <2>2, <2>3, <2>4
<1>3. NthStart(line, Rank(line, i)) = CHOOSE j \in WordStarts(line) : Rank(line, j) = Rank(line, i)
  BY DEF NthStart, Rank
<1> QED BY <1>2, <1>3

-----------------------------------------------------------------------------
(* The tokenizer                                                           *)

NoTokens(buf) == [line |-> buf, starts |-> <<>>, is_token |-> FALSE]

\* The loop, turn by turn.
LEMMA Scan ==
  ASSUME NEW buf, NEW n \in Nat, EndOf(buf, 0) = n
  PROVE  \E f : /\ f[0] = NoTokens(buf)
                /\ \A k \in 1 .. n : f[k] = TokenStep(buf, f[k - 1], k - 1)
                /\ Tokenize(buf) = f[n]
<1> DEFINE Body(k, g) == [j \in 0 .. k |-> IF j = 0 THEN NoTokens(buf) ELSE TokenStep(buf, g[j - 1], j - 1)]
           T == {k \in 0 .. n : \E g : g = Body(k, g)}
           G == CHOOSE g : g = Body(n, g)
<1>1. 0 \in T
  <2> DEFINE f == [j \in 0 .. 0 |-> NoTokens(buf)]
  <2>1. f = Body(0, f) /\ 0 \in 0 .. n OBVIOUS
  <2> HIDE DEF f, Body
  <2> QED BY <2>1
<1>2. ASSUME NEW k \in 1 .. n, k - 1 \in T PROVE k \in T
  <2>1. PICK f : f = Body(k - 1, f) BY <1>2
  <2> DEFINE g == [j \in 0 .. k |-> IF j = k THEN TokenStep(buf, f[k - 1], k - 1) ELSE f[j]]
  <2>2. g = Body(k, g)
    <3>0. k - 1 \in 0 .. k - 1 /\ k \in Nat OBVIOUS
    <3>1. ASSUME NEW j \in 0 .. k PROVE g[j] = Body(k, g)[j]
      <4>1. CASE j = 0 BY <2>1, <3>0, <4>1
      <4>2. CASE j # 0
        <5>1. j - 1 \in 0 .. k /\ j - 1 # k /\ g[j - 1] = f[j - 1] BY <4>2
        <5>2. Body(k, g)[j] = TokenStep(buf, f[j - 1], j - 1) BY <4>2, <5>1
        <5>3. CASE j = k BY <5>2, <5>3
        <5>4. CASE j # k
          <6>1. j \in 0 .. k - 1 BY <5>4
          <6>2. f[j] = Body(k - 1, f)[j] BY <2>1
          <6> QED BY <4>2, <5>2, <5>4, <6>1, <6>2
        <5> QED BY <5>3, <5>4
      <4> QED BY <4>1, <4>2
    <3> QED BY <3>1
  <2>3. k \in 0 .. n OBVIOUS
  <2> HIDE DEF g, Body
  <2> QED BY <2>2, <2>3
<1>3. n \in T
  <2>1. 0 .. n \subseteq T
    <3> HIDE DEF T
    <3> QED BY <1>1, <1>2, Inductive
  <2> HIDE DEF T
  <2> QED BY <2>1
<1>4. G = Body(n, G)
  <2> HIDE DEF Body
  <2> QED BY <1>3
<1>5. Tokenize(buf) = G[n] BY DEF Tokenize, NoTokens
<1>6. G[0] = NoTokens(buf) /\ \A k \in 1 .. n : G[k] = TokenStep(buf, G[k - 1], k - 1)
  <2> HIDE DEF G
  <2> QED BY <1>4
<1> QED BY <1>5, <1>6

Tokens == [line : Buffers, starts : Seq(Places), is_token : BOOLEAN]

\* After the first i characters of a line of n: the words that start among them,
\* CLI_MAX_ARGS at most, and the spaces replaced up to the last of these.
Scanned(buf, n, i, acc) ==
  LET line == LineOf(buf, n)  starts == acc.starts IN
  /\ acc \in Tokens
  /\ Len(starts) <= CLI_MAX_ARGS /\ Len(starts) <= Rank(line, i)
  /\ Len(starts) < CLI_MAX_ARGS =>
       /\ Len(starts) = Rank(line, i)
       /\ acc.is_token <=> i > 0 /\ line[i] # SP
  /\ \A k \in 1 .. Len(starts) :
       /\ starts[k] < i /\ starts[k] + 1 \in WordStarts(line)
       /\ Rank(line, starts[k] + 1) = k
  /\ \A j \in Places :
       acc.line[j] = IF /\ j < i /\ buf[j] = SP
                        /\ Len(starts) < CLI_MAX_ARGS \/ j < starts[CLI_MAX_ARGS]
                     THEN NUL ELSE buf[j]

LEMMA ScanStarts ==
  ASSUME NEW buf \in Buffers, NEW n \in Places, \A k \in 0 .. n - 1 : buf[k] \in Printable
  PROVE  Scanned(buf, n, 0, NoTokens(buf))
<1> DEFINE acc == NoTokens(buf)
<1>1. /\ acc.line = buf /\ acc.starts = <<>> /\ acc.is_token = FALSE /\ acc \in Tokens
  BY DEF NoTokens, Tokens
<1>2. Len(acc.starts) = 0 /\ CLI_MAX_ARGS \in Nat \ {0} BY <1>1, Limits
<1>3. Rank(LineOf(buf, n), 0) = 0 BY LineIs, RankFacts
<1>4. \A j \in Places : ~(j < 0) BY Limits DEF Places
<1>5. \A k \in 1 .. Len(acc.starts) : FALSE BY <1>2
<1> HIDE DEF acc
<1> QED BY <1>1, <1>2, <1>3, <1>4, <1>5 DEF Scanned, acc

\* One character more.
LEMMA ScanStep ==
  ASSUME NEW buf \in Buffers, NEW n \in Places, \A k \in 0 .. n - 1 : buf[k] \in Printable,
         NEW i \in 1 .. n, NEW acc, Scanned(buf, n, i - 1, acc)
  PROVE  Scanned(buf, n, i, TokenStep(buf, acc, i - 1))
<1> DEFINE line == LineOf(buf, n)  new == TokenStep(buf, acc, i - 1)
<1>0. /\ CLI_MAX_ARGS \in Nat \ {0} /\ n \in Nat /\ i - 1 \in Places /\ i - 1 \in Nat
      /\ \A j \in Places : j \in Int /\ (j < i <=> j < i - 1 \/ j = i - 1)
  BY Limits DEF Places
<1>1. line \in Seq(Printable) /\ Len(line) = n /\ line[i] = buf[i - 1]
      /\ \A k \in 1 .. n : line[k] = buf[k - 1]
  BY LineIs
<1> HIDE DEF line
<1>2. /\ Rank(line, i - 1) \in Nat
      /\ Rank(line, i) = Rank(line, i - 1) + IF i \in WordStarts(line) THEN 1 ELSE 0
  BY <1>0, <1>1, RankFacts
<1>3. /\ acc \in Tokens /\ Len(acc.starts) <= CLI_MAX_ARGS
      /\ Len(acc.starts) <= Rank(line, i - 1)
      /\ Len(acc.starts) < CLI_MAX_ARGS =>
           /\ Len(acc.starts) = Rank(line, i - 1)
           /\ acc.is_token <=> i - 1 > 0 /\ line[i - 1] # SP
      /\ \A k \in 1 .. Len(acc.starts) :
           /\ acc.starts[k] < i - 1 /\ acc.starts[k] + 1 \in WordStarts(line)
           /\ Rank(line, acc.starts[k] + 1) = k
      /\ \A j \in Places :
           acc.line[j] = IF /\ j < i - 1 /\ buf[j] = SP
                            /\ Len(acc.starts) < CLI_MAX_ARGS \/ j < acc.starts[CLI_MAX_ARGS]
                         THEN NUL ELSE buf[j]
  BY DEF Scanned, line
<1>4. /\ acc.line \in Buffers /\ acc.starts \in Seq(Places) /\ acc.is_token \in BOOLEAN
      /\ Len(acc.starts) \in Nat /\ \A k \in 1 .. Len(acc.starts) : acc.starts[k] \in Places
  BY <1>3 DEF Tokens
<1>5. i \in WordStarts(line) <=> line[i] # SP /\ (i = 1 \/ line[i - 1] = SP)
  BY <1>1 DEF WordStarts
<1>6. \A k \in 1 .. Len(acc.starts) : acc.starts[k] < i
  BY <1>0, <1>3, <1>4
<1> SUFFICES
      /\ new \in Tokens
      /\ Len(new.starts) <= CLI_MAX_ARGS /\ Len(new.starts) <= Rank(line, i)
      /\ Len(new.starts) < CLI_MAX_ARGS =>
           /\ Len(new.starts) = Rank(line, i)
           /\ new.is_token <=> i > 0 /\ line[i] # SP
      /\ \A k \in 1 .. Len(new.starts) :
           /\ new.starts[k] < i /\ new.starts[k] + 1 \in WordStarts(line)
           /\ Rank(line, new.starts[k] + 1) = k
      /\ \A j \in Places :
           new.line[j] = IF /\ j < i /\ buf[j] = SP
                            /\ Len(new.starts) < CLI_MAX_ARGS \/ j < new.starts[CLI_MAX_ARGS]
                         THEN NUL ELSE buf[j]
  BY DEF Scanned, line
<1>7. CASE Len(acc.starts) = CLI_MAX_ARGS
  <2>1. new = acc BY <1>7 DEF TokenStep
  <2>2. CLI_MAX_ARGS \in 1 .. Len(acc.starts) BY <1>0, <1>7
  <2>3. ~(i - 1 < acc.starts[CLI_MAX_ARGS])
    <3>1. acc.starts[CLI_MAX_ARGS] < i - 1 BY <1>3, <2>2
    <3>2. acc.starts[CLI_MAX_ARGS] \in Int BY <1>0, <1>4, <2>2
    <3> QED BY <1>0, <3>1, <3>2
  <2> HIDE DEF new
  <2>4. Len(acc.starts) <= Rank(line, i) BY <1>2, <1>3, <1>4
  <2> QED BY <1>0, <1>3, <1>6, <1>7, <2>1, <2>3, <2>4
<1>8. CASE Len(acc.starts) < CLI_MAX_ARGS /\ buf[i - 1] = SP
  <2>1. new = [acc EXCEPT !.line[i - 1] = NUL, !.is_token = FALSE] BY <1>4, <1>8 DEF TokenStep
  <2>2. /\ new.line = [acc.line EXCEPT ![i - 1] = NUL] /\ new.starts = acc.starts
        /\ new.is_token = FALSE /\ new \in Tokens
    <3>1. [acc.line EXCEPT ![i - 1] = NUL] \in Buffers BY <1>0, <1>4 DEF Buffers, Chars
    <3> QED BY <1>3, <1>4, <2>1, <3>1 DEF Tokens
  <2> HIDE DEF new
  <2>3. i \notin WordStarts(line) BY <1>1, <1>5, <1>8
  <2>4. Rank(line, i) = Rank(line, i - 1) BY <1>2, <2>3
  <2>5. \A j \in Places : new.line[j] = IF j = i - 1 THEN NUL ELSE acc.line[j]
    BY <1>0, <1>4, <2>2 DEF Buffers
  <2>6. \A j \in Places : new.line[j] = IF j < i /\ buf[j] = SP THEN NUL ELSE buf[j]
    BY <1>0, <1>3, <1>8, <2>5
  <2> QED BY <1>1, <1>3, <1>6, <1>8, <2>2, <2>4, <2>6
<1>9. CASE Len(acc.starts) < CLI_MAX_ARGS /\ buf[i - 1] # SP /\ acc.is_token
  <2>1. new = [acc EXCEPT !.starts = acc.starts, !.is_token = TRUE] BY <1>4, <1>9 DEF TokenStep
  <2>2. /\ new.line = acc.line /\ new.starts = acc.starts /\ new.is_token = TRUE /\ new \in Tokens
    BY <1>3, <1>4, <2>1 DEF Tokens
  <2> HIDE DEF new
  <2>3. i \notin WordStarts(line) BY <1>0, <1>3, <1>5, <1>9
  <2>4. Rank(line, i) = Rank(line, i - 1) BY <1>2, <2>3
  <2>5. i > 0 /\ line[i] # SP BY <1>1, <1>9
  <2>6. \A j \in Places : new.line[j] = IF j < i /\ buf[j] = SP THEN NUL ELSE buf[j]
    BY <1>0, <1>3, <1>9, <2>2
  <2> QED BY <1>3, <1>6, <1>9, <2>2, <2>4, <2>5, <2>6
<1>10. CASE Len(acc.starts) < CLI_MAX_ARGS /\ buf[i - 1] # SP /\ ~acc.is_token
  <2> DEFINE s == Append(acc.starts, i - 1)
  <2>1. new = [acc EXCEPT !.starts = s, !.is_token = TRUE] BY <1>4, <1>10 DEF TokenStep
  <2>2. /\ s \in Seq(Places) /\ Len(s) = Len(acc.starts) + 1 /\ s[Len(acc.starts) + 1] = i - 1
        /\ \A k \in 1 .. Len(acc.starts) : s[k] = acc.starts[k]
    BY <1>0, <1>4
  <2>3. /\ new.line = acc.line /\ new.starts = s /\ new.is_token = TRUE /\ new \in Tokens
    BY <1>3, <1>4, <2>1, <2>2 DEF Tokens
  <2> HIDE DEF new, s
  <2>4. i > 0 /\ line[i] # SP BY <1>1, <1>10
  <2>5. i \in WordStarts(line) BY <1>0, <1>3, <1>5, <1>10, <2>4
  <2>6. Rank(line, i) = Len(s) /\ Len(s) <= CLI_MAX_ARGS
    BY <1>0, <1>2, <1>3, <1>4, <1>10, <2>2, <2>5
  <2>7. i - 1 + 1 = i /\ i - 1 < i BY <1>0
  <2>8. \A k \in 1 .. Len(s) : k \in 1 .. Len(acc.starts) \/ k = Len(acc.starts) + 1
    BY <1>4, <2>2
  <2>9. \A k \in 1 .. Len(s) :
          s[k] < i /\ s[k] + 1 \in WordStarts(line) /\ Rank(line, s[k] + 1) = k
    <3> SUFFICES ASSUME NEW k \in 1 .. Len(s)
                 PROVE  s[k] < i /\ s[k] + 1 \in WordStarts(line) /\ Rank(line, s[k] + 1) = k
      OBVIOUS
    <3>1. CASE k \in 1 .. Len(acc.starts) BY <1>3, <1>6, <2>2, <3>1
    <3>2. CASE k = Len(acc.starts) + 1 BY <2>2, <2>5, <2>6, <2>7, <3>2
    <3> QED BY <2>8, <3>1, <3>2
  <2>10. Len(s) = CLI_MAX_ARGS => s[CLI_MAX_ARGS] = i - 1 BY <2>2
  <2>11. \A j \in Places : new.line[j] = IF j < i - 1 /\ buf[j] = SP THEN NUL ELSE buf[j]
    BY <1>3, <1>10, <2>3
  <2>12. \A j \in Places :
           new.line[j] = IF /\ j < i /\ buf[j] = SP
                            /\ Len(s) < CLI_MAX_ARGS \/ j < s[CLI_MAX_ARGS]
                         THEN NUL ELSE buf[j]
    <3>1. \A j \in Places : j < i /\ buf[j] = SP => j < i - 1 BY <1>0, <1>10
    <3>2. Len(s) < CLI_MAX_ARGS \/ s[CLI_MAX_ARGS] = i - 1 BY <1>0, <1>4, <2>2, <2>6, <2>10
    <3> QED BY <1>0, <2>11, <3>1, <3>2
  <2> QED BY <2>3, <2>4, <2>6, <2>9, <2>12
<1> QED BY <1>0, <1>3, <1>4, <1>7, <1>8, <1>9, <1>10

\* The whole line scanned.
LEMMA Tokenized ==
  ASSUME NEW buf \in Buffers, NEW n \in Places, buf[n] = NUL,
         \A k \in 0 .. n - 1 : buf[k] \in Printable
  PROVE  Scanned(buf, n, n, Tokenize(buf))
<1>0. n \in Nat /\ 0 \in Places /\ n >= 0 BY Limits DEF Places
<1>1. EndOf(buf, 0) = n
  <2>1. \A k \in 0 .. n - 1 : buf[k] # NUL BY Limits
  <2> QED BY <1>0, <2>1, EndIs
<1>2. PICK f : /\ f[0] = NoTokens(buf)
               /\ \A k \in 1 .. n : f[k] = TokenStep(buf, f[k - 1], k - 1)
               /\ Tokenize(buf) = f[n]
  BY <1>0, <1>1, Scan
<1> DEFINE T == {k \in 0 .. n : Scanned(buf, n, k, f[k])}
<1>3. 0 \in T
  <2>1. Scanned(buf, n, 0, f[0]) BY <1>2, ScanStarts
  <2> QED BY <1>0, <2>1
<1>4. ASSUME NEW k \in 1 .. n, k - 1 \in T PROVE k \in T
  <2>1. Scanned(buf, n, k - 1, f[k - 1]) BY <1>4
  <2>2. Scanned(buf, n, k, TokenStep(buf, f[k - 1], k - 1)) BY <2>1, ScanStep
  <2>3. f[k] = TokenStep(buf, f[k - 1], k - 1) BY <1>2
  <2>4. k \in 0 .. n BY <1>0
  <2> QED BY <2>2, <2>3, <2>4
<1>5. 0 .. n \subseteq T
  <2> HIDE DEF T
  <2> QED BY <1>0, <1>3, <1>4, Inductive
<1>6. n \in 0 .. n BY <1>0
<1> QED BY <1>2, <1>5, <1>6

\* A C string is the piece of the line up to its terminator.
LEMMA CStringIs ==
  ASSUME NEW b \in Buffers, NEW s \in Places, NEW e \in Places, s <= e, b[e] = NUL,
         NEW line \in Seq(Printable), e <= Len(line), \A j \in s .. e - 1 : b[j] = line[j + 1]
  PROVE  /\ CString(b, s) = SubSeq(line, s + 1, e) /\ CString(b, s) \in Seq(Printable)
<1>0. s \in Nat /\ e \in Nat /\ Len(line) \in Nat BY Limits DEF Places
<1>1. \A j \in s .. e - 1 : j + 1 \in 1 .. Len(line) BY <1>0
<1>2. \A j \in s .. e - 1 : line[j + 1] \in Printable BY <1>1
<1>3. EndOf(b, s) = e
  <2>1. \A j \in s .. e - 1 : b[j] # NUL BY <1>2, Limits
  <2> QED BY <2>1, EndIs
<1> DEFINE c == [k \in 1 .. e - s |-> b[s + k - 1]]  d == SubSeq(line, s + 1, e)
<1>4. CString(b, s) = c BY <1>3 DEF CString
<1>5. \A k \in 1 .. e - s : s + k - 1 \in s .. e - 1 /\ s + k - 1 + 1 = s + k BY <1>0
<1>6. c \in Seq(Printable) /\ Len(c) = e - s /\ \A k \in 1 .. e - s : c[k] = line[s + k]
  <2>1. \A k \in 1 .. e - s : b[s + k - 1] = line[s + k] /\ b[s + k - 1] \in Printable
    BY <1>2, <1>5
  <2>2. c \in [1 .. e - s -> Printable] BY <2>1
  <2>3. e - s \in Nat BY <1>0
  <2> QED BY <2>1, <2>2, <2>3
<1>7. d \in Seq(Printable) /\ Len(d) = e - s /\ \A k \in 1 .. e - s : d[k] = line[s + k]
  <2>1. s + 1 \in Nat /\ s + 1 >= 1 /\ e <= Len(line) /\ e - (s + 1) + 1 = e - s BY <1>0
  <2>2. \A k \in 1 .. e - s : s + 1 + k - 1 = s + k BY <1>0
  <2>3. Len(d) = e - s /\ \A k \in 1 .. e - s : d[k] = line[s + k] BY <1>0, <2>1, <2>2
  <2>4. d \in Seq(Printable)
    <3>1. \A j \in s + 1 .. e : line[j] \in Printable BY <1>0
    <3> QED BY <1>0, <3>1
  <2> QED BY <2>3, <2>4
<1> HIDE DEF c, d
<1>8. c = d BY <1>6, <1>7, SameLine
<1> QED BY <1>4, <1>6, <1>8 DEF c, d

\* The token of a word is the word.
LEMMA TokenIsWord ==
  ASSUME NEW buf \in Buffers, NEW n \in Places, buf[n] = NUL,
         \A k \in 0 .. n - 1 : buf[k] \in Printable,
         NEW acc, Scanned(buf, n, n, acc), NEW k \in 1 .. Len(acc.starts)
  PROVE  /\ CString(acc.line, acc.starts[k]) \in Seq(Printable)
         /\ NthStart(LineOf(buf, n), k) = acc.starts[k] + 1
         /\ CString(acc.line, acc.starts[k]) =
              IF k = CLI_MAX_ARGS THEN SubSeq(LineOf(buf, n), acc.starts[k] + 1, n)
              ELSE WordAt(LineOf(buf, n), acc.starts[k] + 1)
<1> DEFINE line == LineOf(buf, n)  s == acc.starts[k]
<1>0. /\ CLI_MAX_ARGS \in Nat \ {0} /\ n \in Nat
      /\ \A j \in Places : j \in Nat
      /\ \A j \in 0 .. n : j \in Places
  BY Limits DEF Places
<1>1. line \in Seq(Printable) /\ Len(line) = n /\ \A j \in 1 .. n : line[j] = buf[j - 1]
  BY LineIs
<1>2. /\ acc.line \in Buffers /\ acc.starts \in Seq(Places) /\ Len(acc.starts) <= CLI_MAX_ARGS
      /\ \A j \in 1 .. Len(acc.starts) :
           /\ acc.starts[j] < n /\ acc.starts[j] + 1 \in WordStarts(line)
           /\ Rank(line, acc.starts[j] + 1) = j
      /\ \A j \in Places :
           acc.line[j] = IF /\ j < n /\ buf[j] = SP
                            /\ Len(acc.starts) < CLI_MAX_ARGS \/ j < acc.starts[CLI_MAX_ARGS]
                         THEN NUL ELSE buf[j]
  BY DEF Scanned, Tokens
<1> HIDE DEF line
<1>3. /\ s \in Places /\ s \in Nat /\ s < n /\ s + 1 \in WordStarts(line)
      /\ Rank(line, s + 1) = k /\ line[s + 1] # SP
  <2>1. s < n /\ s + 1 \in WordStarts(line) /\ Rank(line, s + 1) = k BY <1>2
  <2>2. s \in Places BY <1>2
  <2> HIDE DEF s
  <2>3. line[s + 1] # SP BY <2>1 DEF WordStarts
  <2> QED BY <1>0, <2>1, <2>2, <2>3
<1>4. NthStart(line, k) = s + 1 BY <1>1, <1>3, NthIs
<1>5. acc.line[n] = NUL BY <1>0, <1>2
<1>6. ASSUME NEW e \in Places, s <= e, e <= n, acc.line[e] = NUL,
             \A j \in s .. e - 1 : acc.line[j] = buf[j]
      PROVE  CString(acc.line, s) = SubSeq(line, s + 1, e) /\ CString(acc.line, s) \in Seq(Printable)
  <2>1. ASSUME NEW j \in s .. e - 1 PROVE acc.line[j] = line[j + 1]
    <3>1. j + 1 \in 1 .. n /\ j + 1 - 1 = j
      <4>1. j \in Int /\ s <= j /\ j <= e - 1 /\ e \in Int BY <1>0, <1>3, <1>6
      <4> QED BY <1>0, <1>3, <1>6, <4>1
    <3> QED BY <1>1, <1>6, <3>1
  <2> HIDE DEF s
  <2> QED BY <1>1, <1>2, <1>3, <1>6, <2>1, CStringIs
<1>s. s = acc.starts[k] OBVIOUS
<1> HIDE DEF s
<1>7. ASSUME k = CLI_MAX_ARGS
      PROVE  /\ CString(acc.line, s) = SubSeq(line, s + 1, n)
             /\ CString(acc.line, s) \in Seq(Printable)
  <2>1. Len(acc.starts) = CLI_MAX_ARGS /\ s = acc.starts[CLI_MAX_ARGS] BY <1>0, <1>2, <1>7, <1>s
  <2>2. \A j \in s .. n - 1 : acc.line[j] = buf[j]
    <3>1. \A j \in s .. n - 1 : j \in Places /\ ~(j < s) BY <1>0, <1>3
    <3> QED BY <1>0, <1>2, <2>1, <3>1
  <2>3. n \in Places /\ s <= n /\ n <= n BY <1>0, <1>3
  <2> QED BY <1>5, <1>6, <1>7, <2>2, <2>3
<1>8. ASSUME k # CLI_MAX_ARGS
      PROVE  /\ CString(acc.line, s) = WordAt(line, s + 1)
             /\ CString(acc.line, s) \in Seq(Printable)
  <2> DEFINE spaces == {j \in DOMAIN line : j > s + 1 /\ line[j] = SP}
  <2>1. spaces = {j \in 1 .. n : j > s + 1 /\ line[j] = SP} BY <1>1
  <2>2. ASSUME NEW e \in s .. n, \A j \in s + 2 .. e : line[j] # SP, acc.line[e] = NUL
        PROVE  CString(acc.line, s) = SubSeq(line, s + 1, e) /\ CString(acc.line, s) \in Seq(Printable)
    <3>1. e \in Places /\ s <= e /\ e <= n /\ e \in Int BY <1>0, <1>3
    <3>2. ASSUME NEW j \in s .. e - 1 PROVE acc.line[j] = buf[j]
      <4>1. j \in Places /\ j + 1 \in 1 .. n /\ j + 1 - 1 = j BY <1>0, <1>3, <3>1
      <4>2. j + 1 = s + 1 \/ j + 1 \in s + 2 .. e BY <1>3, <3>1
      <4>3. line[j + 1] # SP BY <1>3, <2>2, <4>2
      <4>4. line[j + 1] = buf[j] BY <1>1, <4>1
      <4> QED BY <1>2, <4>1, <4>3, <4>4
    <3> QED BY <1>6, <2>2, <3>1, <3>2
  <2>3. CASE spaces = {}
    <3>1. \A j \in s + 2 .. n : j \in 1 .. n /\ j > s + 1 BY <1>0, <1>3
    <3>2. \A j \in s + 2 .. n : line[j] # SP BY <2>1, <2>3, <3>1
    <3>3. n \in s .. n BY <1>0, <1>3
    <3>4. WordAt(line, s + 1) = SubSeq(line, s + 1, n) BY <1>1, <2>3 DEF WordAt
    <3> QED BY <1>5, <1>8, <2>2, <3>2, <3>3, <3>4
  <2>4. CASE spaces # {}
    <3> DEFINE q == CHOOSE j \in spaces : \A m \in spaces : j <= m
    <3>1. spaces \subseteq Nat BY <2>1
    <3>2. q \in spaces /\ \A m \in spaces : q <= m
      <4>1. \E j \in spaces : \A m \in spaces : j <= m BY <2>4, <3>1, Least
      <4> QED BY <4>1
    <3>3. WordAt(line, s + 1) = SubSeq(line, s + 1, q - 1) BY <2>4 DEF WordAt
    <3> HIDE DEF q
    <3>4. q \in 1 .. n /\ q > s + 1 /\ line[q] = SP BY <2>1, <3>2
    <3>5. q - 1 \in s .. n /\ q - 1 \in Places /\ q - 1 < n /\ buf[q - 1] = SP
      BY <1>0, <1>1, <1>3, <3>4
    <3>6. \A j \in s + 2 .. q - 1 : line[j] # SP
      <4>1. \A j \in s + 2 .. q - 1 : j \in 1 .. n /\ j > s + 1 /\ ~(q <= j) BY <1>0, <1>3, <3>4
      <4> QED BY <2>1, <3>2, <4>1
    <3>7. Len(acc.starts) < CLI_MAX_ARGS \/ q - 1 < acc.starts[CLI_MAX_ARGS]
      <4>1. SUFFICES ASSUME Len(acc.starts) = CLI_MAX_ARGS
                     PROVE  q - 1 < acc.starts[CLI_MAX_ARGS]
        BY <1>0, <1>2
      <4>2. PICK p : p = acc.starts[CLI_MAX_ARGS] OBVIOUS
      <4>3. CLI_MAX_ARGS \in 1 .. Len(acc.starts) BY <1>0, <4>1
      <4>4. /\ p \in Nat /\ p < n /\ p + 1 \in WordStarts(line)
            /\ Rank(line, p + 1) = CLI_MAX_ARGS
        <5>1. p < n /\ p + 1 \in WordStarts(line) /\ Rank(line, p + 1) = CLI_MAX_ARGS
          BY <1>2, <4>2, <4>3
        <5>2. p \in Places BY <1>2, <4>2, <4>3
        <5> QED BY <1>0, <5>1, <5>2
      <4>5. k < CLI_MAX_ARGS BY <1>0, <1>8, <4>1
      <4>6. s < p
        <5>1. s # p BY <1>0, <1>3, <4>4, <4>5
        <5>2. ~(p < s)
          <6>1. p < s => p + 1 \in Nat /\ p + 1 < s + 1 BY <1>3, <4>4
          <6>2. p < s => CLI_MAX_ARGS < k
            <7> QED BY <1>1, <1>3, <4>4, <6>1, RankGrows
          <6> QED BY <1>0, <4>5, <6>2
        <5> QED BY <1>3, <4>4, <5>1, <5>2
      <4>7. line[p] = SP
        <5>1. p + 1 # 1 /\ p + 1 - 1 = p BY <1>3, <4>4, <4>6
        <5> QED BY <4>4, <5>1 DEF WordStarts
      <4>8. p # s + 1 BY <1>3, <4>7
      <4>9. p \in 1 .. n /\ p > s + 1 BY <1>0, <1>3, <4>4, <4>6, <4>8
      <4>10. p \in spaces BY <2>1, <4>7, <4>9
      <4>11. q <= p BY <3>2, <4>10
      <4> QED BY <3>4, <4>2, <4>4, <4>11
    <3>8. acc.line[q - 1] = NUL BY <1>2, <3>5, <3>7
    <3> QED BY <1>8, <2>2, <3>3, <3>5, <3>6, <3>8
  <2> QED BY <2>3, <2>4
<1>9. /\ CString(acc.line, s) \in Seq(Printable)
      /\ CString(acc.line, s) = IF k = CLI_MAX_ARGS THEN SubSeq(line, s + 1, n)
                               ELSE WordAt(line, s + 1)
  BY <1>7, <1>8
<1> QED BY <1>4, <1>9 DEF s, line

\* A command's arguments are the words of the line.
LEMMA ArgumentsAreWords ==
  ASSUME NEW buf \in Buffers, NEW n \in Places, buf[n] = NUL,
         \A k \in 0 .. n - 1 : buf[k] \in Printable,
         NEW acc, acc = Tokenize(buf),
         NEW args, args = [k \in DOMAIN acc.starts |-> CString(acc.line, acc.starts[k])]
  PROVE  /\ acc.line \in Buffers
         /\ \A k \in DOMAIN args : args[k] \in Seq(Printable)
         /\ args = Args(LineOf(buf, n))
<1> DEFINE line == LineOf(buf, n)  words == Cardinality(WordStarts(line))
<1>1. Scanned(buf, n, n, acc) BY Tokenized
<1>2. line \in Seq(Printable) /\ Len(line) = n BY LineIs
<1>3. CLI_MAX_ARGS \in Nat \ {0} /\ n \in Nat BY Limits DEF Places
<1>4. Rank(line, n) = words /\ words \in Nat
  <2> HIDE DEF line
  <2> QED BY <1>2, <1>3, RankFacts DEF words
<1>5. /\ acc.line \in Buffers /\ acc.starts \in Seq(Places) /\ Len(acc.starts) \in Nat
      /\ DOMAIN acc.starts = 1 .. Len(acc.starts)
  BY <1>1 DEF Scanned, Tokens
<1>6. /\ Len(acc.starts) <= CLI_MAX_ARGS /\ Len(acc.starts) <= words
      /\ Len(acc.starts) < CLI_MAX_ARGS => Len(acc.starts) = words
  BY <1>1, <1>4 DEF Scanned
<1> HIDE DEF words, line
<1>7. Len(acc.starts) = IF words < CLI_MAX_ARGS THEN words ELSE CLI_MAX_ARGS
  BY <1>3, <1>4, <1>5, <1>6
<1>8. ASSUME NEW k \in 1 .. Len(acc.starts)
      PROVE  /\ args[k] \in Seq(Printable)
             /\ args[k] = IF k = CLI_MAX_ARGS THEN SubSeq(line, NthStart(line, k), Len(line))
                          ELSE WordAt(line, NthStart(line, k))
  <2>1. /\ CString(acc.line, acc.starts[k]) \in Seq(Printable)
        /\ NthStart(line, k) = acc.starts[k] + 1
        /\ CString(acc.line, acc.starts[k]) =
             IF k = CLI_MAX_ARGS THEN SubSeq(line, acc.starts[k] + 1, n)
             ELSE WordAt(line, acc.starts[k] + 1)
    BY <1>1, TokenIsWord DEF line
  <2>2. args[k] = CString(acc.line, acc.starts[k]) BY <1>5
  <2> QED BY <1>2, <2>1, <2>2
<1> DEFINE Arg(k) == IF k = CLI_MAX_ARGS THEN SubSeq(line, NthStart(line, k), Len(line))
                     ELSE WordAt(line, NthStart(line, k))
<1>9. Args(line) = [k \in 1 .. Len(acc.starts) |-> Arg(k)] BY <1>7 DEF Args, words
<1>10. args = [k \in 1 .. Len(acc.starts) |-> args[k]] /\ DOMAIN args = 1 .. Len(acc.starts)
  BY <1>5
<1>11. \A k \in 1 .. Len(acc.starts) : args[k] = Arg(k) BY <1>8
<1>12. args = Args(line)
  <2> HIDE DEF Arg
  <2> QED BY <1>9, <1>10, <1>11
<1> QED BY <1>5, <1>8, <1>10, <1>12 DEF line

-----------------------------------------------------------------------------
(* Numbers in decimal                                                      *)

Decimals == Seq(48 .. 57)

\* What an int and an unsigned hold.
INT_MIN  == -2147483648
UINT_MAX == 4294967295

LEMMA Widths ==
  INT_MIN \in Int /\ UINT_MAX \in Int /\ UINT_MAX < 10000000000 /\ -UINT_MAX < INT_MIN
BY SMT DEF INT_MIN, UINT_MAX

\* From h on, the digits of text read as m.
Reads(h, text, m) ==
  \E f \in [0 .. Len(text) -> Int] :
    /\ f[0] = h /\ \A k \in 1 .. Len(text) : f[k] = 10 * f[k - 1] + (text[k] - 48)
    /\ f[Len(text)] = m

LEMMA SameText ==
  ASSUME NEW p \in Seq(Int), NEW q \in Seq(Int), Len(p) = Len(q),
         \A k \in 1 .. Len(p) : p[k] = q[k]
  PROVE  p = q
OBVIOUS

LEMMA ReadsNone ==
  ASSUME NEW n \in Int
  PROVE  Reads(n, <<>>, n)
<1> DEFINE f == [k \in 0 .. 0 |-> n]
<1>1. f \in [0 .. 0 -> Int] /\ f[0] = n OBVIOUS
<1>2. Len(<<>>) = 0 /\ \A k \in 1 .. 0 : FALSE OBVIOUS
<1> HIDE DEF f
<1> QED BY <1>1, <1>2 DEF Reads

\* A digit put in front.
LEMMA ReadsMore ==
  ASSUME NEW h \in Int, NEW d \in 48 .. 57, NEW text \in Decimals, NEW m \in Int,
         NEW x, x = 10 * h + (d - 48), Reads(x, text, m)
  PROVE  /\ <<d>> \o text \in Decimals /\ Len(<<d>> \o text) = Len(text) + 1
         /\ (<<d>> \o text)[1] = d /\ Reads(h, <<d>> \o text, m)
<1> DEFINE t == <<d>> \o text  n == Len(text)
<1>1. /\ n \in Nat /\ t \in Decimals /\ Len(t) = n + 1 /\ t[1] = d
      /\ \A k \in 1 .. n : t[k + 1] = text[k]
  <2>1. text \in Seq(48 .. 57) BY DEF Decimals
  <2>2. t \in Seq(48 .. 57) /\ Len(t) = n + 1 /\ t[1] = d /\ \A k \in 1 .. n : t[k + 1] = text[k]
    BY <2>1
  <2> QED BY <2>1, <2>2 DEF Decimals
<1>2. PICK f \in [0 .. n -> Int] :
        /\ f[0] = x /\ \A k \in 1 .. n : f[k] = 10 * f[k - 1] + (text[k] - 48)
        /\ f[n] = m
  BY DEF Reads
<1> HIDE DEF t, n
<1> DEFINE g == [k \in 0 .. n + 1 |-> IF k = 0 THEN h ELSE f[k - 1]]
<1>3. /\ g \in [0 .. n + 1 -> Int] /\ g[0] = h /\ \A k \in 1 .. n + 1 : g[k] = f[k - 1]
  <2>1. \A k \in 0 .. n + 1 : k = 0 \/ (k - 1 \in 0 .. n /\ k # 0) BY <1>1
  <2>2. \A k \in 1 .. n + 1 : k \in 0 .. n + 1 /\ k # 0 BY <1>1
  <2>3. g \in [0 .. n + 1 -> Int] BY <1>2, <2>1
  <2>4. 0 \in 0 .. n + 1 BY <1>1
  <2> QED BY <2>2, <2>3, <2>4
<1> HIDE DEF g
<1>4. g[n + 1] = m BY <1>1, <1>2, <1>3
<1>5. ASSUME NEW k \in 1 .. n + 1 PROVE g[k] = 10 * g[k - 1] + (t[k] - 48)
  <2>1. CASE k = 1
    <3>1. k - 1 = 0 /\ g[k] = f[0] BY <1>3, <2>1
    <3> QED BY <1>1, <1>2, <1>3, <2>1, <3>1
  <2>2. CASE k # 1
    <3>1. k - 1 \in 1 .. n /\ k - 1 \in 1 .. n + 1 /\ k - 1 + 1 = k BY <1>1, <2>2
    <3>2. g[k] = f[k - 1] /\ g[k - 1] = f[k - 1 - 1] /\ t[k] = text[k - 1] BY <1>1, <1>3, <3>1
    <3>3. f[k - 1] = 10 * f[k - 1 - 1] + (text[k - 1] - 48) BY <1>2, <3>1
    <3> QED BY <3>2, <3>3
  <2> QED BY <2>1, <2>2
<1>6. Reads(h, t, m) BY <1>1, <1>3, <1>4, <1>5 DEF Reads
<1> QED BY <1>1, <1>6 DEF t, n

LEMMA ReadsValue ==
  ASSUME NEW text \in Decimals, NEW m \in Int, Reads(0, text, m)
  PROVE  Value(text) = m
<1> DEFINE n == Len(text)
           Body(v) == [k \in 0 .. n |-> IF k = 0 THEN 0 ELSE 10 * v[k - 1] + (text[k] - 48)]
           V == CHOOSE v : v = Body(v)
<1>1. n \in Nat BY DEF Decimals
<1>2. PICK f \in [0 .. n -> Int] :
        /\ f[0] = 0 /\ \A k \in 1 .. n : f[k] = 10 * f[k - 1] + (text[k] - 48)
        /\ f[n] = m
  BY DEF Reads
<1>3. Value(text) = V[n] BY DEF Value
<1> HIDE DEF n
<1>4. f = Body(f)
  <2>1. ASSUME NEW k \in 0 .. n PROVE f[k] = Body(f)[k]
    <3>1. CASE k = 0 BY <1>2, <3>1
    <3>2. CASE k # 0
      <4>1. k \in 1 .. n BY <1>1, <3>2
      <4> QED BY <1>2, <3>2, <4>1
    <3> QED BY <3>1, <3>2
  <2> QED BY <2>1
<1>5. V = Body(V)
  <2> HIDE DEF Body
  <2> QED BY <1>4
<1> HIDE DEF V
<1>6. /\ V[0] = 0 /\ \A k \in 1 .. n : V[k] = 10 * V[k - 1] + (text[k] - 48)
  <2>1. 0 \in 0 .. n /\ \A k \in 1 .. n : k \in 0 .. n /\ k # 0 BY <1>1
  <2>2. \A k \in 0 .. n : V[k] = IF k = 0 THEN 0 ELSE 10 * V[k - 1] + (text[k] - 48) BY <1>5
  <2> QED BY <2>1, <2>2
<1> DEFINE T == {k \in 0 .. n : V[k] = f[k]}
<1>7. 0 \in T BY <1>1, <1>2, <1>6
<1>8. ASSUME NEW k \in 1 .. n, k - 1 \in T PROVE k \in T
  <2>1. V[k] = 10 * V[k - 1] + (text[k] - 48) BY <1>6
  <2>2. f[k] = 10 * f[k - 1] + (text[k] - 48) BY <1>2
  <2>3. V[k - 1] = f[k - 1] BY <1>8
  <2>4. k \in 0 .. n BY <1>1
  <2> QED BY <2>1, <2>2, <2>3, <2>4
<1>9. 0 .. n \subseteq T
  <2> HIDE DEF T
  <2> QED BY <1>1, <1>7, <1>8, Inductive
<1>10. n \in T BY <1>1, <1>9
<1> QED BY <1>2, <1>3, <1>10

\* What is left of n and the digits taken off it.
Split(acc, n) ==
  /\ acc.n \in Nat /\ acc.text \in Decimals /\ Reads(acc.n, acc.text, n)
  /\ acc.n = 0 /\ acc.text # <<>> => acc.text[1] # 48 \/ Len(acc.text) = 1

\* One turn takes the last digit off, and never stops before the first.
LEMMA DigitTurn ==
  ASSUME NEW n \in Nat, NEW acc, Split(acc, n), NEW new, new = DigitStep(acc, 10)
  PROVE  /\ Split(new, n) /\ new.text # <<>>
         /\ new.n \in Nat /\ 10 * new.n <= acc.n
<1>1. /\ acc.n \in Nat /\ acc.text \in Decimals /\ Reads(acc.n, acc.text, n)
      /\ acc.n = 0 /\ acc.text # <<>> => acc.text[1] # 48 \/ Len(acc.text) = 1
  BY DEF Split
<1>2. CASE acc.n = 0 /\ acc.text # <<>>
  <2>1. new = acc BY <1>2 DEF DigitStep
  <2> QED BY <1>2, <2>1
<1>3. CASE ~(acc.n = 0 /\ acc.text # <<>>)
  <2> DEFINE q == acc.n \div 10  r == acc.n % 10  d == Digit(r)
  <2>1. new = [n |-> q, text |-> <<d>> \o acc.text]
    <3>1. new = IF acc.n = 0 /\ acc.text # <<>> THEN acc
                ELSE [n |-> q, text |-> <<d>> \o acc.text]
      BY DEF DigitStep
    <3> HIDE DEF q, d
    <3> QED BY <1>3, <3>1
  <2>2. q \in Nat /\ r \in 0 .. 9 /\ acc.n = 10 * q + r BY <1>1
  <2>3. d = 48 + r
    <3> HIDE DEF r
    <3> QED BY <2>2 DEF Digit
  <2>4. new.n = q /\ new.text = <<d>> \o acc.text BY <2>1
  <2> HIDE DEF q, r, d
  <2>5. d \in 48 .. 57 /\ 10 * q + (d - 48) = acc.n BY <2>2, <2>3
  <2>6. /\ new.text \in Decimals /\ Len(new.text) = Len(acc.text) + 1 /\ new.text[1] = d
        /\ Reads(q, new.text, n)
    <3>1. PICK x : x = acc.n OBVIOUS
    <3>2. q \in Int /\ n \in Int BY <2>2
    <3>3. PICK text \in Decimals : text = acc.text BY <1>1
    <3>4. /\ <<d>> \o text \in Decimals /\ Len(<<d>> \o text) = Len(text) + 1
          /\ (<<d>> \o text)[1] = d /\ Reads(q, <<d>> \o text, n)
      <4>1. x = 10 * q + (d - 48) /\ Reads(x, text, n) BY <1>1, <2>5, <3>1, <3>3
      <4> QED BY <2>5, <3>2, <4>1, ReadsMore
    <3> QED BY <2>4, <3>3, <3>4, Zenon
  <2>7. Len(acc.text) \in Nat BY <1>1 DEF Decimals
  <2>8. new.text # <<>>
    <3>1. Len(new.text) # 0 BY <2>6, <2>7
    <3>2. Len(<<>>) = 0 OBVIOUS
    <3> QED BY <3>1, <3>2
  <2>9. new.n = 0 => new.text[1] # 48 \/ Len(new.text) = 1
    <3>1. CASE acc.n = 0
      <4>1. acc.text = <<>> /\ Len(<<>>) = 0 BY <1>3, <3>1
      <4> QED BY <2>6, <4>1
    <3>2. CASE acc.n # 0
      <4>1. q = 0 => d # 48 BY <1>1, <2>2, <2>3, <3>2
      <4> QED BY <2>4, <2>6, <4>1
    <3> QED BY <3>1, <3>2
  <2>10. Split(new, n) BY <2>2, <2>4, <2>6, <2>9 DEF Split
  <2>11. 10 * q <= acc.n BY <1>1, <2>2
  <2> QED BY <2>2, <2>4, <2>8, <2>10, <2>11
<1> QED BY <1>2, <1>3

\* The loop, turn by turn.
LEMMA Turns ==
  ASSUME NEW n \in Nat
  PROVE  \E f : /\ f[0] = [n |-> n, text |-> <<>>]
                /\ \A k \in 1 .. DIGIT_BUFF : f[k] = DigitStep(f[k - 1], 10)
                /\ Digits(n, 10) = f[DIGIT_BUFF].text
<1> DEFINE Start == [n |-> n, text |-> <<>>]
           Body(k, g) == [j \in 0 .. k |-> IF j = 0 THEN Start ELSE DigitStep(g[j - 1], 10)]
           T == {k \in 0 .. DIGIT_BUFF : \E g : g = Body(k, g)}
           G == CHOOSE g : g = Body(DIGIT_BUFF, g)
<1>0. DIGIT_BUFF \in Nat BY DEF DIGIT_BUFF
<1> HIDE DEF Start
<1>1. 0 \in T
  <2> DEFINE f == [j \in 0 .. 0 |-> Start]
  <2>1. f = Body(0, f) /\ 0 \in 0 .. DIGIT_BUFF BY <1>0
  <2> HIDE DEF f, Body
  <2> QED BY <2>1
<1>2. ASSUME NEW k \in 1 .. DIGIT_BUFF, k - 1 \in T PROVE k \in T
  <2>1. PICK f : f = Body(k - 1, f) BY <1>2
  <2> DEFINE g == [j \in 0 .. k |-> IF j = k THEN DigitStep(f[k - 1], 10) ELSE f[j]]
  <2>2. g = Body(k, g)
    <3>0. k - 1 \in 0 .. k - 1 /\ k \in Nat BY <1>0
    <3>1. ASSUME NEW j \in 0 .. k PROVE g[j] = Body(k, g)[j]
      <4>1. CASE j = 0 BY <2>1, <3>0, <4>1
      <4>2. CASE j # 0
        <5>1. j - 1 \in 0 .. k /\ j - 1 # k /\ g[j - 1] = f[j - 1] BY <3>0, <4>2
        <5>2. Body(k, g)[j] = DigitStep(f[j - 1], 10) BY <4>2, <5>1
        <5>3. CASE j = k BY <5>2, <5>3
        <5>4. CASE j # k
          <6>1. j \in 0 .. k - 1 BY <3>0, <5>4
          <6>2. f[j] = Body(k - 1, f)[j] BY <2>1
          <6> QED BY <4>2, <5>2, <5>4, <6>1, <6>2
        <5> QED BY <5>3, <5>4
      <4> QED BY <4>1, <4>2
    <3> QED BY <3>1
  <2>3. k \in 0 .. DIGIT_BUFF BY <1>0
  <2> HIDE DEF g, Body
  <2> QED BY <2>2, <2>3
<1>3. DIGIT_BUFF \in T
  <2>1. 0 .. DIGIT_BUFF \subseteq T
    <3> HIDE DEF T
    <3> QED BY <1>0, <1>1, <1>2, Inductive
  <2> HIDE DEF T
  <2> QED BY <1>0, <2>1
<1>4. G = Body(DIGIT_BUFF, G)
  <2> HIDE DEF Body
  <2> QED BY <1>3
<1>5. Digits(n, 10) = G[DIGIT_BUFF].text BY DEF Digits, Start
<1>6. G[0] = Start /\ \A k \in 1 .. DIGIT_BUFF : G[k] = DigitStep(G[k - 1], 10)
  <2> HIDE DEF G
  <2> QED BY <1>0, <1>4
<1> QED BY <1>5, <1>6 DEF Start

\* Twelve places are enough for a word of 32 bits.
LEMMA DigitsRead ==
  ASSUME NEW n \in Nat, n <= UINT_MAX, NEW text, text = Digits(n, 10)
  PROVE  /\ text \in Decimals /\ text # <<>> /\ Value(text) = n
         /\ text[1] # 48 \/ Len(text) = 1
<1>1. PICK f : /\ f[0] = [n |-> n, text |-> <<>>]
               /\ \A k \in 1 .. DIGIT_BUFF : f[k] = DigitStep(f[k - 1], 10)
               /\ Digits(n, 10) = f[DIGIT_BUFF].text
  BY Turns
<1>2. /\ f[1] = DigitStep(f[0], 10) /\ f[2] = DigitStep(f[1], 10) /\ f[3] = DigitStep(f[2], 10)
      /\ f[4] = DigitStep(f[3], 10) /\ f[5] = DigitStep(f[4], 10) /\ f[6] = DigitStep(f[5], 10)
      /\ f[7] = DigitStep(f[6], 10) /\ f[8] = DigitStep(f[7], 10) /\ f[9] = DigitStep(f[8], 10)
      /\ f[10] = DigitStep(f[9], 10) /\ f[11] = DigitStep(f[10], 10) /\ f[12] = DigitStep(f[11], 10)
  BY <1>1 DEF DIGIT_BUFF
<1>3. Split(f[0], n) /\ f[0].n = n
  <2>1. Reads(n, <<>>, n) BY ReadsNone
  <2>2. <<>> \in Decimals BY DEF Decimals
  <2> QED BY <1>1, <2>1, <2>2 DEF Split
<1>4. Split(f[1], n) /\ f[1].n \in Nat /\ 10 * f[1].n <= f[0].n BY <1>2, <1>3, DigitTurn
<1>5. Split(f[2], n) /\ f[2].n \in Nat /\ 10 * f[2].n <= f[1].n BY <1>2, <1>4, DigitTurn
<1>6. Split(f[3], n) /\ f[3].n \in Nat /\ 10 * f[3].n <= f[2].n BY <1>2, <1>5, DigitTurn
<1>7. Split(f[4], n) /\ f[4].n \in Nat /\ 10 * f[4].n <= f[3].n BY <1>2, <1>6, DigitTurn
<1>8. Split(f[5], n) /\ f[5].n \in Nat /\ 10 * f[5].n <= f[4].n BY <1>2, <1>7, DigitTurn
<1>9. Split(f[6], n) /\ f[6].n \in Nat /\ 10 * f[6].n <= f[5].n BY <1>2, <1>8, DigitTurn
<1>10. Split(f[7], n) /\ f[7].n \in Nat /\ 10 * f[7].n <= f[6].n BY <1>2, <1>9, DigitTurn
<1>11. Split(f[8], n) /\ f[8].n \in Nat /\ 10 * f[8].n <= f[7].n BY <1>2, <1>10, DigitTurn
<1>12. Split(f[9], n) /\ f[9].n \in Nat /\ 10 * f[9].n <= f[8].n BY <1>2, <1>11, DigitTurn
<1>13. Split(f[10], n) /\ f[10].n \in Nat /\ 10 * f[10].n <= f[9].n BY <1>2, <1>12, DigitTurn
<1>14. Split(f[11], n) /\ f[11].n \in Nat /\ 10 * f[11].n <= f[10].n BY <1>2, <1>13, DigitTurn
<1>15. Split(f[12], n) /\ f[12].n \in Nat /\ 10 * f[12].n <= f[11].n BY <1>2, <1>14, DigitTurn
<1>16. f[12].n = 0
  <2>1. n < 10000000000 BY Widths, SMT
  <2> QED BY <1>3, <1>4, <1>5, <1>6, <1>7, <1>8, <1>9, <1>10, <1>11, <1>12, <1>13, <1>14,
             <1>15, <2>1, SMT
<1>17. text = f[12].text BY <1>1 DEF DIGIT_BUFF
<1>18. text # <<>> BY <1>2, <1>14, <1>17, DigitTurn
<1>19. text \in Decimals /\ Reads(0, text, n) /\ (text[1] # 48 \/ Len(text) = 1)
  BY <1>15, <1>16, <1>17, <1>18 DEF Split
<1>20. Value(text) = n BY <1>19, ReadsValue
<1> QED BY <1>18, <1>19, <1>20

\* A sign is no digit, so it is told from what follows it.
LEMMA DecimalReads ==
  ASSUME NEW n \in Int, INT_MIN <= n, n <= UINT_MAX, NEW text, text = Decimal(n),
         NEW digits, digits = Magnitude(text)
  PROVE  /\ digits # <<>> /\ \A i \in DOMAIN digits : digits[i] \in 48 .. 57
         /\ digits[1] # 48 \/ Len(digits) = 1
         /\ n = IF digits = text THEN Value(digits) ELSE -Value(digits)
<1>1. CASE n < 0
  <2>1. PICK d : d = Digits(-n, 10) OBVIOUS
  <2>2. /\ d \in Decimals /\ d # <<>> /\ Value(d) = -n /\ (d[1] # 48 \/ Len(d) = 1)
    <3>1. -n \in Nat /\ -n <= UINT_MAX BY <1>1, Widths, SMT
    <3> QED BY <2>1, <3>1, DigitsRead
  <2>3. text = <<45>> \o d BY <1>1, <2>1 DEF Decimal
  <2>4. d \in Seq(48 .. 57) BY <2>2 DEF Decimals
  <2>5. /\ text \in Seq(Int) /\ Len(text) = Len(d) + 1 /\ text[1] = 45 /\ Len(d) \in Nat
        /\ \A k \in 1 .. Len(d) : text[k + 1] = d[k]
    <3>1. d \in Seq(Int) BY <2>4
    <3> QED BY <2>3, <3>1
  <2>6. text # <<>> /\ Head(text) = 45
    <3>1. Len(text) # 0 BY <2>5
    <3>2. Len(<<>>) = 0 OBVIOUS
    <3>3. text # <<>> BY <3>1, <3>2
    <3> QED BY <2>5, <3>3
  <2>7. Tail(text) = d
    <3>1. /\ Tail(text) \in Seq(Int) /\ Len(Tail(text)) = Len(d)
          /\ \A k \in 1 .. Len(d) : Tail(text)[k] = text[k + 1]
      BY <2>5, <2>6
    <3>2. \A k \in 1 .. Len(d) : Tail(text)[k] = d[k] BY <2>5, <3>1
    <3>3. d \in Seq(Int) BY <2>4
    <3> QED BY <3>1, <3>2, <3>3, SameText
  <2>8. digits = d BY <2>6, <2>7 DEF Magnitude
  <2>9. digits # text BY <2>5, <2>8
  <2>10. \A i \in DOMAIN d : d[i] \in 48 .. 57 BY <2>4
  <2>11. n = -Value(digits) BY <2>2, <2>8
  <2> QED BY <2>2, <2>8, <2>9, <2>10, <2>11
<1>2. CASE n >= 0
  <2>1. text = Digits(n, 10) BY <1>2 DEF Decimal
  <2>2. /\ text \in Decimals /\ text # <<>> /\ Value(text) = n /\ (text[1] # 48 \/ Len(text) = 1)
    <3>1. n \in Nat BY <1>2
    <3> QED BY <2>1, <3>1, DigitsRead
  <2>3. text \in Seq(48 .. 57) BY <2>2 DEF Decimals
  <2>4. Head(text) \in 48 .. 57 BY <2>2, <2>3
  <2>5. digits = text BY <2>4 DEF Magnitude
  <2>6. \A i \in DOMAIN text : text[i] \in 48 .. 57 BY <2>3
  <2> QED BY <2>2, <2>5, <2>6
<1> QED BY <1>1, <1>2

-----------------------------------------------------------------------------
(* The invariant                                                           *)

\* What is before the cursor has been typed.
Typed == \A k \in 0 .. line_pos - 1 : line_buffer[k] \in Printable

CliInv == CliTypeOK /\ EchoAgrees /\ Typed

LEMMA InvFacts ==
  ASSUME CliInv
  PROVE  /\ line_buffer \in Buffers /\ line_pos \in Places /\ line_pos \in Nat
         /\ Typed /\ Line = LineOf(line_buffer, line_pos)
         /\ Line \in Seq(Printable) /\ Len(Line) = line_pos
<1>1. line_buffer \in Buffers /\ line_pos \in Places /\ Typed
  BY DEF CliInv, CliTypeOK, Buffers, Places, Chars
<1>2. Line = LineOf(line_buffer, line_pos) BY DEF Line, LineOf
<1>3. line_pos \in Nat BY <1>1, Limits DEF Places
<1> QED BY <1>1, <1>2, <1>3, LineIs DEF Typed

LEMMA CliInit == Init => CliInv
<1> SUFFICES ASSUME Init PROVE CliInv
  OBVIOUS
<1>1. line_pos = 0 /\ 0 \in 0 .. CLI_MAX_LINE_LEN - 1 BY Limits DEF Init
<1>2. line_buffer \in [0 .. CLI_MAX_LINE_LEN - 1 -> Printable \union {NUL}] BY DEF Init
<1>3. commands \in Seq(Commands) /\ Len(commands) = 1 /\ 1 <= CLI_MAX_CMDS BY Limits DEF Init
<1>4. screen = <<>> /\ argv = <<>> /\ ran = NONE BY DEF Init
<1>5. \A k \in 0 .. line_pos - 1 : FALSE BY <1>1
<1>6. Line = <<>>
  <2>1. 1 .. line_pos = {} BY <1>1
  <2> QED BY <2>1 DEF Line
<1>7. CliTypeOK BY <1>1, <1>2, <1>3, <1>4 DEF CliTypeOK
<1> QED BY <1>4, <1>5, <1>6, <1>7 DEF CliInv, EchoAgrees, Typed

LEMMA TypeStep ==
  ASSUME CliInv, NEW c \in Printable, Type(c)
  PROVE  CliInv'
<1>1. /\ line_buffer \in Buffers /\ line_pos \in Places /\ line_pos \in Nat
      /\ Typed /\ Line = LineOf(line_buffer, line_pos)
      /\ Line \in Seq(Printable)
  BY InvFacts
<1>2. /\ line_buffer' = [line_buffer EXCEPT ![line_pos] = c] /\ line_pos' = line_pos + 1
      /\ screen' \in {IF screen = GARBLED THEN GARBLED ELSE Append(screen, c), GARBLED}
      /\ argv' = <<>> /\ ran' = NONE /\ commands' = commands
      /\ line_pos < CLI_MAX_LINE_LEN - 1
  BY DEF Type, HasRoom, Puts
<1>3. line_pos + 1 \in Places BY <1>1, <1>2, Limits DEF Places
<1>4. /\ line_buffer' \in Buffers /\ \A k \in 0 .. line_pos : line_buffer'[k] \in Printable
      /\ LineOf(line_buffer', line_pos + 1) = Append(Line, c)
  BY <1>1, <1>2, <1>3, LineGrows DEF Typed
<1>5. Line' = Append(Line, c) BY <1>2, <1>4 DEF Line, LineOf
<1>6. screen # GARBLED => screen = Line BY DEF CliInv, EchoAgrees
<1>7. screen' = GARBLED \/ screen' = Append(Line, c) BY <1>2, <1>6
<1>8. Append(Line, c) \in Seq(Printable) BY <1>1
<1>9. line_buffer' \in [0 .. CLI_MAX_LINE_LEN - 1 -> Printable \union {NUL}]
  BY <1>4 DEF Buffers, Places, Chars
<1>10. line_pos' \in 0 .. CLI_MAX_LINE_LEN - 1 BY <1>2, <1>3 DEF Places
<1>11. commands \in Seq(Commands) /\ Len(commands) <= CLI_MAX_CMDS BY DEF CliInv, CliTypeOK
<1>12. \A k \in DOMAIN argv' : argv'[k] \in Seq(Printable) BY <1>2
<1>13. CliTypeOK' BY <1>2, <1>7, <1>8, <1>9, <1>10, <1>11, <1>12 DEF CliTypeOK
<1>14. EchoAgrees' BY <1>5, <1>7 DEF EchoAgrees
<1>15. Typed'
  <2>1. line_pos' - 1 = line_pos BY <1>1, <1>2
  <2>2. \A k \in 0 .. line_pos' - 1 : line_buffer'[k] \in Printable BY <1>4, <2>1
  <2> QED BY <2>2 DEF Typed
<1> QED BY <1>13, <1>14, <1>15 DEF CliInv

LEMMA EraseStep ==
  ASSUME CliInv, Erase
  PROVE  CliInv'
<1>1. /\ line_buffer \in Buffers /\ line_pos \in Places /\ line_pos \in Nat
      /\ Typed /\ Line = LineOf(line_buffer, line_pos)
      /\ Line \in Seq(Printable) /\ Len(Line) = line_pos
  BY InvFacts
<1>2. /\ line_buffer' = line_buffer /\ line_pos' = line_pos - 1 /\ line_pos > 0
      /\ screen' \in {IF screen = GARBLED THEN GARBLED ELSE Front(screen), GARBLED}
      /\ argv' = <<>> /\ ran' = NONE /\ commands' = commands
  BY DEF Erase, Puts
<1>3. line_pos - 1 \in Places /\ \A k \in 0 .. (line_pos - 1) - 1 : k \in 0 .. line_pos - 1
  BY <1>1, <1>2, Limits DEF Places
<1>4. LineOf(line_buffer, line_pos - 1) = Front(Line) BY <1>1, <1>2, LineShrinks DEF Typed
<1>5. Line' = Front(Line) BY <1>2, <1>4 DEF Line, LineOf
<1>6. screen # GARBLED => screen = Line BY DEF CliInv, EchoAgrees
<1>7. screen' = GARBLED \/ screen' = Front(Line) BY <1>2, <1>6
<1>8. Front(Line) \in Seq(Printable) BY <1>1, <1>3, <1>4, LineIs DEF Typed
<1>9. line_buffer' \in [0 .. CLI_MAX_LINE_LEN - 1 -> Printable \union {NUL}]
  BY <1>1, <1>2 DEF Buffers, Places, Chars
<1>10. line_pos' \in 0 .. CLI_MAX_LINE_LEN - 1 BY <1>2, <1>3 DEF Places
<1>11. commands \in Seq(Commands) /\ Len(commands) <= CLI_MAX_CMDS BY DEF CliInv, CliTypeOK
<1>12. \A k \in DOMAIN argv' : argv'[k] \in Seq(Printable) BY <1>2
<1>13. CliTypeOK' BY <1>2, <1>7, <1>8, <1>9, <1>10, <1>11, <1>12 DEF CliTypeOK
<1>14. EchoAgrees' BY <1>5, <1>7 DEF EchoAgrees
<1>15. Typed' BY <1>1, <1>2, <1>3 DEF Typed
<1> QED BY <1>13, <1>14, <1>15 DEF CliInv

\* Enter: what it hands to the command.
LEMMA EnterFacts ==
  ASSUME CliInv, cli_process_cmd
  PROVE  /\ line_buffer' \in Buffers /\ line_pos' = 0
         /\ argv' = Args(Line) /\ \A k \in DOMAIN argv' : argv'[k] \in Seq(Printable)
<1>1. /\ line_buffer \in Buffers /\ line_pos \in Places /\ line_pos \in Nat
      /\ Typed /\ Line = LineOf(line_buffer, line_pos)
  BY InvFacts
<1> DEFINE buf == Terminated  acc == Tokenize(buf)
           args == [k \in DOMAIN acc.starts |-> CString(acc.line, acc.starts[k])]
<1>2. buf \in Buffers /\ buf[line_pos] = NUL /\ \A k \in 0 .. line_pos - 1 : buf[k] = line_buffer[k]
  <2>1. DOMAIN line_buffer = Places /\ \A k \in 0 .. line_pos - 1 : k \in Places /\ k # line_pos
    BY <1>1, Limits DEF Buffers, Places
  <2>2. buf \in Buffers BY <1>1 DEF Buffers, Chars, Terminated
  <2> QED BY <1>1, <2>1, <2>2 DEF Buffers, Terminated
<1>3. line_buffer' = acc.line /\ line_pos' = 0 /\ argv' = args
  BY DEF cli_process_cmd, NextPos
<1> HIDE DEF buf, args, acc
<1>4. \A k \in 0 .. line_pos - 1 : buf[k] \in Printable BY <1>1, <1>2 DEF Typed
<1>5. LineOf(buf, line_pos) = Line
  <2>1. \A k \in 1 .. line_pos : k - 1 \in 0 .. line_pos - 1 BY <1>1
  <2>2. \A k \in 1 .. line_pos : buf[k - 1] = line_buffer[k - 1] BY <1>2, <2>1
  <2> QED BY <1>1, <2>2 DEF LineOf
<1>6. /\ acc.line \in Buffers /\ \A k \in DOMAIN args : args[k] \in Seq(Printable)
      /\ args = Args(LineOf(buf, line_pos))
  <2>1. acc = Tokenize(buf) BY DEF acc
  <2>2. args = [k \in DOMAIN acc.starts |-> CString(acc.line, acc.starts[k])] BY DEF args
  <2> QED BY <1>1, <1>2, <1>4, <2>1, <2>2, ArgumentsAreWords
<1> QED BY <1>3, <1>5, <1>6

LEMMA EnterStep ==
  ASSUME CliInv, cli_process_cmd
  PROVE  CliInv'
<1>1. /\ line_buffer' \in Buffers /\ line_pos' = 0
      /\ \A k \in DOMAIN argv' : argv'[k] \in Seq(Printable)
  BY EnterFacts
<1>2. commands \in Seq(Commands) /\ Len(commands) <= CLI_MAX_CMDS BY DEF CliInv, CliTypeOK
<1>3. commands' = commands /\ screen' \in {<<>>, GARBLED} BY DEF cli_process_cmd
<1>4. ran' \in Commands \union {NONE}
  <2> DEFINE acc == Tokenize(Terminated)
             args == [k \in DOMAIN acc.starts |-> CString(acc.line, acc.starts[k])]
  <2>1. ran' = IF args = <<>> \/ Matches(args[1]) = {} THEN NONE ELSE commands[First(args[1])]
    BY DEF cli_process_cmd
  <2> HIDE DEF args
  <2>2. Matches(args[1]) # {} => commands[First(args[1])] \in Commands BY <1>2, FirstIs
  <2> QED BY <2>1, <2>2
<1>5. line_buffer' \in [0 .. CLI_MAX_LINE_LEN - 1 -> Printable \union {NUL}]
  BY <1>1 DEF Buffers, Places, Chars
<1>6. line_pos' \in 0 .. CLI_MAX_LINE_LEN - 1 BY <1>1, Limits
<1>7. CliTypeOK'
  <2>0. <<>> \in Seq(Printable) OBVIOUS
  <2>1. screen' = GARBLED \/ screen' \in Seq(Printable) BY <1>3, <2>0, Zenon
  <2> QED BY <1>1, <1>2, <1>3, <1>4, <1>5, <1>6, <2>1 DEF CliTypeOK
<1>8. Line' = <<>>
  <2>1. Line' = [k \in 1 .. line_pos' |-> line_buffer'[k - 1]] BY DEF Line
  <2>2. 1 .. line_pos' = {} BY <1>1
  <2> QED BY <2>1, <2>2
<1>9. EchoAgrees' BY <1>3, <1>8 DEF EchoAgrees
<1>10. Typed'
  <2>1. \A k \in 0 .. line_pos' - 1 : FALSE BY <1>1
  <2> QED BY <2>1 DEF Typed
<1> QED BY <1>7, <1>9, <1>10 DEF CliInv

LEMMA TableStep ==
  ASSUME CliInv, commands' \in Seq(Commands), Len(commands') <= CLI_MAX_CMDS,
         UNCHANGED <<line_buffer, line_pos, screen, argv, ran>>
  PROVE  CliInv'
<1>1. CliTypeOK' BY DEF CliInv, CliTypeOK
<1>2. EchoAgrees' BY DEF CliInv, EchoAgrees, Line
<1>3. Typed' BY DEF CliInv, Typed
<1> QED BY <1>1, <1>2, <1>3 DEF CliInv

\* The entry that is removed, and the table that is left.
LEMMA Unregistered ==
  ASSUME commands \in Seq(Commands), NEW name, cli_unregister_command(name)
  PROVE  /\ commands' \in Seq(Commands) /\ Len(commands') < Len(commands)
         /\ \E gone \in Commands :
              /\ gone.name = name
              /\ \A cmd \in Commands :
                   Count(commands, cmd) = Count(commands', cmd) + IF cmd = gone THEN 1 ELSE 0
<1> DEFINE i == First(name)  gone == commands[i]
<1>1. Matches(name) # {} /\ commands' = Removed(commands, i) BY DEF cli_unregister_command
<1>2. i \in 1 .. Len(commands) /\ gone.name = name /\ gone \in Commands BY <1>1, FirstIs
<1> HIDE DEF i
<1>3. commands' \in Seq(Commands) /\ Len(commands') = Len(commands) - 1
  BY <1>1, <1>2, RemovedIs
<1>4. Len(commands) \in Nat OBVIOUS
<1>5. \A cmd \in Commands :
        Count(commands, cmd) = Count(commands', cmd) + IF cmd = gone THEN 1 ELSE 0
  BY <1>1, <1>2, OneLess
<1>6. Len(commands') < Len(commands) BY <1>3, <1>4
<1> QED BY <1>2, <1>3, <1>5, <1>6

LEMMA CliStepKeeps ==
  CliInv /\ [Next]_vars => CliInv'
<1> SUFFICES ASSUME CliInv, [Next]_vars PROVE CliInv'
  OBVIOUS
<1>0. commands \in Seq(Commands) /\ Len(commands) <= CLI_MAX_CMDS /\ Len(commands) \in Nat
  BY DEF CliInv, CliTypeOK
<1>1. CASE \E c \in Printable : Type(c) BY <1>1, TypeStep
<1>2. CASE Erase BY <1>2, EraseStep
<1>3. CASE cli_process_cmd BY <1>3, EnterStep
<1>4. ASSUME NEW cmd \in Commands, cli_register_command(cmd) PROVE CliInv'
  <2>1. commands' = Append(commands, cmd) /\ Len(commands) < CLI_MAX_CMDS
    BY <1>4 DEF cli_register_command
  <2>2. commands' \in Seq(Commands) /\ Len(commands') = Len(commands) + 1 BY <1>0, <2>1
  <2>3. Len(commands') <= CLI_MAX_CMDS BY <1>0, <2>1, <2>2, Limits
  <2> QED BY <1>4, <2>2, <2>3, TableStep DEF cli_register_command
<1>5. ASSUME NEW name, cli_unregister_command(name) PROVE CliInv'
  <2>1. commands' \in Seq(Commands) /\ Len(commands') < Len(commands)
    BY <1>0, <1>5, Unregistered
  <2>2. Len(commands') <= CLI_MAX_CMDS BY <1>0, <2>1, Limits
  <2> QED BY <1>5, <2>1, <2>2, TableStep DEF cli_unregister_command
<1>6. ASSUME NEW n, OtherPrints(n) PROVE CliInv'
  <2>1. screen' = GARBLED /\ UNCHANGED <<line_buffer, line_pos, commands, argv, ran>>
    BY <1>6 DEF OtherPrints
  <2>2. CliTypeOK' BY <2>1 DEF CliInv, CliTypeOK
  <2>3. EchoAgrees' BY <2>1 DEF EchoAgrees
  <2>4. Typed' BY <2>1 DEF CliInv, Typed
  <2> QED BY <2>2, <2>3, <2>4 DEF CliInv
<1>7. CASE UNCHANGED vars
  <2>1. commands' = commands /\ UNCHANGED <<line_buffer, line_pos, screen, argv, ran>>
    BY <1>7 DEF vars
  <2> QED BY <1>0, <2>1, TableStep
<1> QED BY <1>1, <1>2, <1>3, <1>4, <1>5, <1>6, <1>7 DEF Next, CliStep

LEMMA CliInvariance == Spec => []CliInv
BY CliInit, CliStepKeeps, PTL DEF Spec

-----------------------------------------------------------------------------
(* Theorems                                                                *)

\* cli_task_entry never writes outside line_buffer and keeps a place for the
\* terminator; the table of commands never outgrows cli_commands.
THEOREM CliTypeCorrect == Spec => []CliTypeOK
<1>1. CliInv => CliTypeOK BY DEF CliInv
<1> QED BY <1>1, CliInvariance, PTL

\* After any sequence of keys, what the terminal shows is what Enter hands to
\* cli_process_cmd, unless output was cut or came between.
THEOREM EchoCorrect == Spec => []EchoAgrees
<1>1. CliInv => EchoAgrees BY DEF CliInv
<1> QED BY <1>1, CliInvariance, PTL

\* cli_tokenize, in place and whatever an earlier line has left in the buffer,
\* hands a command the words of the line just typed.
THEOREM ArgumentsCorrect == Spec => ArgsAreTyped
<1>1. CliInv => (cli_process_cmd => argv' = Args(Line)) BY EnterFacts
<1>2. CliInv => [cli_process_cmd => argv' = Args(Line)]_vars BY <1>1
<1> QED BY <1>2, CliInvariance, PTL DEF ArgsAreTyped

\* cli_unregister_command takes away one command of that name and keeps every
\* other one, whatever place in the table it had.
THEOREM UnregisterCorrect == Spec => OthersStay
<1> DEFINE Kept == \A name \in {cmd.name : cmd \in Commands} : cli_unregister_command(name) =>
             \E gone \in Commands :
               /\ gone.name = name
               /\ \A cmd \in Commands :
                    Count(commands, cmd) = Count(commands', cmd) + IF cmd = gone THEN 1 ELSE 0
<1>1. CliInv => Kept
  <2>1. CliInv => commands \in Seq(Commands) BY DEF CliInv, CliTypeOK
  <2> QED BY <2>1, Unregistered
<1>2. CliInv => [Kept]_vars
  <2> HIDE DEF Kept
  <2> QED BY <1>1
<1> QED BY <1>2, CliInvariance, PTL DEF OthersStay

\* cli_printf prints every number that an int or an unsigned holds as decimal
\* digits without a leading zero, and they read back as that number.
THEOREM NumbersCorrect ==
  ASSUME Numbers \subseteq INT_MIN .. UINT_MAX
  PROVE  Spec => []NumbersRead
<1> DEFINE Inv == printed = NONE \/ \E n \in Numbers : printed = [number |-> n, text |-> Decimal(n)]
<1>1. Init => Inv BY DEF Init
<1>2. Inv /\ [Next]_vars => Inv'
  <2> SUFFICES ASSUME Inv, [Next]_vars PROVE Inv'
    OBVIOUS
  <2>1. CASE printed' = NONE BY <2>1
  <2>2. ASSUME NEW n \in Numbers, OtherPrints(n) PROVE Inv' BY <2>2 DEF OtherPrints
  <2>3. CASE UNCHANGED vars BY <2>3 DEF vars
  <2> QED BY <2>1, <2>2, <2>3 DEF Next
<1>3. Inv => NumbersRead
  <2> SUFFICES ASSUME NEW n \in Numbers, printed = [number |-> n, text |-> Decimal(n)]
               PROVE  NumbersRead
    BY DEF NumbersRead
  <2> DEFINE text == Decimal(n)  digits == Magnitude(text)
  <2>1. printed.number = n /\ printed.text = text OBVIOUS
  <2>2. n \in Int /\ INT_MIN <= n /\ n <= UINT_MAX
    <3>1. INT_MIN \in Int /\ UINT_MAX \in Int /\ n \in INT_MIN .. UINT_MAX BY Widths, SMT
    <3> QED BY <3>1
  <2>3. /\ digits # <<>> /\ \A i \in DOMAIN digits : digits[i] \in 48 .. 57
        /\ digits[1] # 48 \/ Len(digits) = 1
        /\ n = IF digits = text THEN Value(digits) ELSE -Value(digits)
    <3> HIDE DEF text, digits
    <3> QED BY <2>2, DecimalReads DEF text, digits
  <2> QED BY <2>1, <2>3 DEF NumbersRead
<1> QED BY <1>1, <1>2, <1>3, PTL DEF Spec

=============================================================================
